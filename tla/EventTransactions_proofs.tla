---------------------- MODULE EventTransactions_proofs ----------------------
(***************************************************************************)
(* Proofs about EventTransactions for any number of clients, transactions  *)
(* and events, and a store that may fail at any publication.               *)
(***************************************************************************)
EXTENDS EventTransactions, FiniteSetTheorems, SequenceTheorems, TLAPS

-----------------------------------------------------------------------------
(***************************************************************************)
(* The bus: what it stores, and what it delivers                           *)
(***************************************************************************)
\* An event on its way to the channel is in the store already.
PublishingIsStored ==
    Persistent => \A p \in Publishers :
                      publishing[p] # NoEvent => In(publishing[p], stored)

StoreInv == BusTypeOK /\ PublishingIsStored /\ SentIsStored

\* A receiver without a subscription has read and received nothing.
NotSubscribed ==
    \A s \in Subscribers : ~Subscribed(s) => next[s] = 0 /\ received[s] = <<>>

DeliveryInv == BusTypeOK /\ NotSubscribed /\ OrderedDelivery /\ NoSilentLoss

-----------------------------------------------------------------------------
\* Appending to a sequence keeps what is in it and adds the new element.
LEMMA InAppend ==
    ASSUME NEW S, NEW seq \in Seq(S), NEW e \in S
    PROVE  /\ Append(seq, e) \in Seq(S)
           /\ Len(Append(seq, e)) = Len(seq) + 1
           /\ DOMAIN Append(seq, e) = 1..Len(seq) + 1
           /\ \A i \in 1..Len(seq) : Append(seq, e)[i] = seq[i]
           /\ Append(seq, e)[Len(seq) + 1] = e
           /\ \A x : In(x, Append(seq, e)) <=> (In(x, seq) \/ x = e)
<1>1. /\ Append(seq, e) \in Seq(S)
      /\ Len(Append(seq, e)) = Len(seq) + 1
      /\ DOMAIN Append(seq, e) = 1..Len(seq) + 1
      /\ DOMAIN seq = 1..Len(seq)
      /\ Len(seq) \in Nat
      /\ \A i \in 1..Len(seq) : Append(seq, e)[i] = seq[i]
      /\ Append(seq, e)[Len(seq) + 1] = e
  OBVIOUS
<1>2. \A x : In(x, Append(seq, e)) <=> (In(x, seq) \/ x = e)
  BY <1>1 DEF In
<1>3. QED
  BY <1>1, <1>2

\* The oldest broadcast kept is one that was made, or the first to come.
LEMMA OldestRange ==
    ASSUME BusTypeOK
    PROVE  /\ Len(sent) \in Nat
           /\ Oldest \in Nat
           /\ 1 <= Oldest
           /\ Oldest <= Len(sent) + 1
BY BusAssumption DEF BusTypeOK, Oldest

\* Every operation of the bus keeps the types.
LEMMA BusTypeInduction == BusTypeOK /\ [BusNext]_busVars => BusTypeOK'
<1> SUFFICES ASSUME BusTypeOK, [BusNext]_busVars PROVE BusTypeOK'
  OBVIOUS
<1> USE DEF BusTypeOK
<1>0. /\ Len(sent) \in Nat
      /\ \A s \in Subscribers : next[s] \in Nat /\ start[s] \in Nat
                                /\ received[s] \in Seq(Nat) /\ skipped[s] \in Nat
                                /\ start[s] <= next[s] /\ next[s] <= Len(sent) + 1
  OBVIOUS
<1>1. ASSUME NEW p \in Publishers, NEW e \in Events, store_event(p, e) PROVE BusTypeOK'
  <2>1. stored' \in Seq(Events)
    BY <1>1, InAppend DEF store_event
  <2>2. QED
    BY <1>1, <2>1 DEF store_event, subVars
<1>2. ASSUME NEW p \in Publishers, NEW e \in Events, store_fails(p, e) PROVE BusTypeOK'
  <2>1. stored' \in Seq(Events)
    <3>1. Append(stored, e) \in Seq(Events)
      BY InAppend
    <3>2. stored' = stored \/ stored' = Append(stored, e)
      BY <1>2 DEF store_fails
    <3>3. QED
      BY <3>1, <3>2
  <2>2. faults' \in 0..MaxFaults
    BY <1>2, BusAssumption DEF store_fails
  <2>3. QED
    BY <1>2, <2>1, <2>2 DEF store_fails, subVars
<1>3. ASSUME NEW p \in Publishers, send(p) PROVE BusTypeOK'
  <2>1. publishing[p] \in Events
    BY <1>3 DEF send
  <2>2. sent' \in Seq(Events) /\ Len(sent') = Len(sent) + 1
    BY <1>3, <2>1, InAppend DEF send
  <2>3. \A s \in Subscribers : next'[s] \in start'[s]..Len(sent') + 1
    BY <1>0, <1>3, <2>2 DEF send, subVars
  <2>4. QED
    BY <1>3, <2>2, <2>3 DEF send, subVars
<1>4. ASSUME NEW s \in Subscribers, NEW f \in Filters, subscribe(s, f) PROVE BusTypeOK'
  <2>1. f \in SUBSET Events
    BY BusAssumption
  <2>2. \A r \in Subscribers : next'[r] \in start'[r]..Len(sent') + 1
    BY <1>0, <1>4 DEF subscribe, pubVars
  <2>3. start' \in [Subscribers -> Nat] /\ next' \in [Subscribers -> Nat]
    BY <1>0, <1>4 DEF subscribe
  <2>4. QED
    BY <1>4, <2>1, <2>2, <2>3 DEF subscribe, pubVars
<1>5. ASSUME NEW s \in Subscribers, recv(s) PROVE BusTypeOK'
  <2>1. received' \in [Subscribers -> Seq(Nat)]
    BY <1>0, <1>5, InAppend DEF recv
  <2>2. next' \in [Subscribers -> Nat]
    BY <1>0, <1>5 DEF recv
  <2>3. next[s] <= Len(sent)
    BY <1>0, <1>5, OldestRange DEF recv
  <2>4. \A r \in Subscribers : next'[r] \in start'[r]..Len(sent') + 1
    BY <1>0, <1>5, <2>3, SMTT(30) DEF recv, pubVars
  <2>5. QED
    BY <1>5, <2>1, <2>2, <2>4 DEF recv, pubVars
<1>6. ASSUME NEW s \in Subscribers, recv_lagged(s) PROVE BusTypeOK'
  <2>1. /\ Oldest \in Nat /\ next[s] < Oldest /\ Oldest <= Len(sent) + 1
        /\ Oldest - next[s] \in Nat
    BY <1>0, <1>6, OldestRange, SMTT(30) DEF recv_lagged
  <2>2. skipped' \in [Subscribers -> Nat] /\ next' \in [Subscribers -> Nat]
    BY <1>0, <1>6, <2>1 DEF recv_lagged
  <2>3. \A r \in Subscribers : next'[r] \in start'[r]..Len(sent') + 1
    BY <1>0, <1>6, <2>1, SMTT(30) DEF recv_lagged, pubVars
  <2>4. QED
    BY <1>6, <2>2, <2>3 DEF recv_lagged, pubVars
<1>7. CASE UNCHANGED busVars
  BY <1>7 DEF busVars, pubVars, subVars
<1>8. QED
  BY <1>1, <1>2, <1>3, <1>4, <1>5, <1>6, <1>7 DEF BusNext, PublishStep, SubscriberStep

\* What is broadcast was stored before: the store only grows, and send broadcasts
\* what its publisher stored.
LEMMA StoreInduction == StoreInv /\ [BusNext]_busVars => StoreInv'
<1> SUFFICES ASSUME StoreInv, [BusNext]_busVars PROVE StoreInv'
  OBVIOUS
<1>0. BusTypeOK /\ BusTypeOK'
  BY BusTypeInduction DEF StoreInv
<1> SUFFICES ASSUME Persistent
             PROVE  /\ \A p \in Publishers :
                           publishing'[p] # NoEvent => In(publishing'[p], stored')
                    /\ \A i \in DOMAIN sent' : In(sent'[i], stored')
  BY <1>0 DEF StoreInv, PublishingIsStored, SentIsStored
<1>1. \A p \in Publishers : publishing[p] # NoEvent => In(publishing[p], stored)
  BY DEF StoreInv, PublishingIsStored
<1>2. \A i \in DOMAIN sent : In(sent[i], stored)
  BY DEF StoreInv, SentIsStored
<1>3. stored \in Seq(Events) /\ sent \in Seq(Events)
  BY <1>0 DEF BusTypeOK
<1>4. ASSUME NEW p \in Publishers, NEW e \in Events, store_event(p, e)
      PROVE  /\ \A q \in Publishers :
                    publishing'[q] # NoEvent => In(publishing'[q], stored')
             /\ \A i \in DOMAIN sent' : In(sent'[i], stored')
  <2>1. \A x : In(x, stored') <=> (In(x, stored) \/ x = e)
    BY <1>3, <1>4, InAppend DEF store_event
  <2>2. \A q \in Publishers : publishing'[q] = IF q = p THEN e ELSE publishing[q]
    BY <1>0, <1>4 DEF store_event, BusTypeOK
  <2>3. sent' = sent
    BY <1>4 DEF store_event
  <2>4. QED
    BY <1>1, <1>2, <2>1, <2>2, <2>3
<1>5. ASSUME NEW p \in Publishers, NEW e \in Events, store_fails(p, e)
      PROVE  /\ \A q \in Publishers :
                    publishing'[q] # NoEvent => In(publishing'[q], stored')
             /\ \A i \in DOMAIN sent' : In(sent'[i], stored')
  <2>1. stored' = stored \/ stored' = Append(stored, e)
    BY <1>5 DEF store_fails
  <2>2. \A x : In(x, stored) => In(x, stored')
    <3>1. CASE stored' = stored
      BY <3>1
    <3>2. CASE stored' = Append(stored, e)
      <4>1. \A x : In(x, Append(stored, e)) <=> (In(x, stored) \/ x = e)
        BY <1>3, InAppend
      <4>2. QED
        BY <3>2, <4>1
    <3>3. QED
      BY <2>1, <3>1, <3>2
  <2>3. publishing' = publishing /\ sent' = sent
    BY <1>5 DEF store_fails
  <2>4. QED
    BY <1>1, <1>2, <2>2, <2>3
<1>6. ASSUME NEW p \in Publishers, send(p)
      PROVE  /\ \A q \in Publishers :
                    publishing'[q] # NoEvent => In(publishing'[q], stored')
             /\ \A i \in DOMAIN sent' : In(sent'[i], stored')
  <2>1. publishing[p] \in Events /\ In(publishing[p], stored)
    BY <1>0, <1>1, <1>6 DEF send, BusTypeOK
  <2>2. /\ DOMAIN sent' = 1..Len(sent) + 1 /\ DOMAIN sent = 1..Len(sent)
        /\ \A i \in 1..Len(sent) : sent'[i] = sent[i]
        /\ sent'[Len(sent) + 1] = publishing[p]
        /\ Len(sent) \in Nat
    BY <1>3, <1>6, <2>1, InAppend DEF send
  <2>3. \A i \in DOMAIN sent' : In(sent'[i], stored)
    BY <1>2, <2>1, <2>2
  <2>4. /\ stored' = stored
        /\ \A q \in Publishers : publishing'[q] = IF q = p THEN NoEvent ELSE publishing[q]
    BY <1>0, <1>6 DEF send, BusTypeOK
  <2>5. QED
    BY <1>1, <2>3, <2>4
<1>7. CASE UNCHANGED pubVars
  BY <1>1, <1>2, <1>7 DEF pubVars
<1>8. QED
  BY <1>4, <1>5, <1>6, <1>7
  DEF BusNext, PublishStep, SubscriberStep, subscribe, recv, recv_lagged, busVars

\* What a receiver missed is finite.
LEMMA MissedIsFinite ==
    ASSUME BusTypeOK, NEW s \in Subscribers
    PROVE  IsFiniteSet(Missed(s))
<1>1. Missed(s) \subseteq 1..Len(sent) /\ Len(sent) \in Nat
  BY DEF Missed, BusTypeOK
<1>2. IsFiniteSet(1..Len(sent))
  BY <1>1, FS_Interval
<1>3. QED
  BY <1>1, <1>2, FS_Subset

\* What is bounded stays so when it shrinks.
LEMMA FewerMissed ==
    ASSUME NEW S, IsFiniteSet(S), NEW T, T \subseteq S, NEW n \in Nat, Cardinality(S) <= n
    PROVE  Cardinality(T) <= n
<1>1. /\ Cardinality(T) <= Cardinality(S) /\ Cardinality(S) \in Nat
      /\ IsFiniteSet(T) /\ Cardinality(T) \in Nat
  BY FS_Subset, FS_CardinalityType
<1>2. QED
  BY <1>1

\* Passing over the broadcasts from a to b - 1 adds at most b - a to what is missed.
LEMMA MoreMissed ==
    ASSUME NEW S, IsFiniteSet(S), NEW n \in Nat, Cardinality(S) <= n,
           NEW a \in Nat, NEW b \in Nat, a < b,
           NEW T, T \subseteq S \cup a..b - 1
    PROVE  Cardinality(T) <= n + (b - a)
<1> DEFINE I == a..b - 1
<1>1. IsFiniteSet(I) /\ Cardinality(I) = b - a
  BY FS_Interval
<1>2. /\ IsFiniteSet(S \cup I)
      /\ Cardinality(S \cup I) = Cardinality(S) + Cardinality(I) - Cardinality(S \cap I)
  BY <1>1, FS_Union
<1>3. Cardinality(S) \in Nat /\ Cardinality(S \cap I) \in Nat
  BY <1>1, FS_Intersection, FS_CardinalityType
<1>4. Cardinality(S \cup I) \in Nat /\ Cardinality(S \cup I) <= n + (b - a)
  BY <1>1, <1>2, <1>3, FS_CardinalityType
<1>5. n + (b - a) \in Nat /\ T \subseteq S \cup I
  OBVIOUS
<1> HIDE DEF I
<1>6. QED
  BY <1>2, <1>4, <1>5, FewerMissed

\* What a subscription received is what it should have received so far.
LEMMA DeliveryInduction == DeliveryInv /\ [BusNext]_busVars => DeliveryInv'
<1> SUFFICES ASSUME DeliveryInv, [BusNext]_busVars PROVE DeliveryInv'
  OBVIOUS
<1>0. BusTypeOK /\ BusTypeOK'
  BY BusTypeInduction DEF DeliveryInv
<1> DEFINE Delivered(s) ==
             /\ ~Subscribed(s) => next[s] = 0 /\ received[s] = <<>>
             /\ \A i \in DOMAIN received[s] :
                   /\ received[s][i] \in start[s]..next[s] - 1
                   /\ received[s][i] \in DOMAIN sent
                   /\ sent[received[s][i]] \in filter[s]
             /\ \A i, j \in DOMAIN received[s] : i < j => received[s][i] < received[s][j]
             /\ Cardinality(Missed(s)) <= skipped[s]
<1>1. DeliveryInv <=> BusTypeOK /\ \A s \in Subscribers : Delivered(s)
  BY DEF DeliveryInv, NotSubscribed, OrderedDelivery, NoSilentLoss
<1>2. DeliveryInv' <=> BusTypeOK' /\ \A s \in Subscribers : Delivered(s)'
  BY DEF DeliveryInv, NotSubscribed, OrderedDelivery, NoSilentLoss
<1>3. /\ sent \in Seq(Events) /\ DOMAIN sent = 1..Len(sent) /\ Len(sent) \in Nat
      /\ \A s \in Subscribers :
            /\ next[s] \in Nat /\ start[s] \in Nat /\ skipped[s] \in Nat
            /\ received[s] \in Seq(Nat) /\ DOMAIN received[s] = 1..Len(received[s])
            /\ Len(received[s]) \in Nat
            /\ start[s] <= next[s] /\ next[s] <= Len(sent) + 1
  BY <1>0 DEF BusTypeOK
<1> SUFFICES ASSUME NEW s \in Subscribers PROVE Delivered(s)'
  BY <1>0, <1>2
<1>4. Delivered(s)
  BY <1>1
<1>m. Missed(s)' \subseteq Missed(s) => Cardinality(Missed(s)') <= skipped[s]
  BY <1>0, <1>3, <1>4, MissedIsFinite, FewerMissed
<1>5. ASSUME UNCHANGED <<filter[s], start[s], next[s], received[s], skipped[s]>>,
             UNCHANGED sent
      PROVE  Delivered(s)'
  <2>1. Missed(s)' = Missed(s)
    BY <1>5 DEF Missed, In
  <2>2. QED
    BY <1>4, <1>5, <2>1 DEF Subscribed, In
<1>6. ASSUME NEW p \in Publishers, send(p) PROVE Delivered(s)'
  <2>1. publishing[p] \in Events
    BY <1>0, <1>6 DEF send, BusTypeOK
  <2>2. /\ DOMAIN sent' = 1..Len(sent) + 1
        /\ \A i \in 1..Len(sent) : sent'[i] = sent[i]
    BY <1>3, <1>6, <2>1, InAppend DEF send
  <2>3. UNCHANGED subVars
    BY <1>6 DEF send
  <2>4. /\ UNCHANGED <<filter, start, next, received, skipped>>
        /\ \A k \in DOMAIN sent' : k \in start[s]..next[s] - 1 => k \in 1..Len(sent)
    BY <1>3, <2>2, <2>3 DEF subVars
  <2>5. Cardinality(Missed(s)') <= skipped'[s]
    <3>1. Missed(s)' \subseteq Missed(s)
      BY <1>3, <2>2, <2>4 DEF Missed, In
    <3>2. QED
      BY <1>m, <2>4, <3>1
  <2>6. \A i \in DOMAIN received'[s] :
           /\ received'[s][i] \in start'[s]..next'[s] - 1
           /\ received'[s][i] \in DOMAIN sent'
           /\ sent'[received'[s][i]] \in filter'[s]
    BY <1>3, <1>4, <2>2, <2>4
  <2>7. QED
    BY <1>4, <2>4, <2>5, <2>6 DEF Subscribed
<1>7. ASSUME NEW f \in Filters, subscribe(s, f) PROVE Delivered(s)'
  <2>0. received[s] = <<>>
    BY <1>4, <1>7 DEF subscribe
  <2>1. /\ start'[s] = Len(sent) + 1 /\ next'[s] = Len(sent) + 1
        /\ received'[s] = <<>> /\ UNCHANGED sent
    BY <1>0, <1>7, <2>0 DEF subscribe, BusTypeOK, pubVars
  <2>2. DOMAIN received'[s] = {}
    BY <2>1
  <2>3. Missed(s)' = {}
    BY <1>3, <2>1 DEF Missed
  <2>4. skipped'[s] = skipped[s]
    BY <1>7 DEF subscribe
  <2>5. QED
    BY <1>3, <2>1, <2>2, <2>3, <2>4, FS_EmptySet DEF Subscribed
<1>8. CASE recv(s)
  <2>1. /\ next'[s] = next[s] + 1 /\ start[s] > 0
        /\ UNCHANGED <<sent, filter, start, skipped>>
        /\ next[s] \in 1..Len(sent)
    BY <1>0, <1>3, <1>8, OldestRange DEF recv, BusTypeOK, pubVars, Subscribed
  <2>2. CASE sent[next[s]] \in filter[s]
    <3>1. received'[s] = Append(received[s], next[s])
      BY <1>0, <1>8, <2>2 DEF recv, BusTypeOK
    <3>2. /\ DOMAIN received'[s] = 1..Len(received[s]) + 1
          /\ \A i \in 1..Len(received[s]) : received'[s][i] = received[s][i]
          /\ received'[s][Len(received[s]) + 1] = next[s]
          /\ \A x : In(x, received'[s]) <=> (In(x, received[s]) \/ x = next[s])
      BY <1>3, <3>1, InAppend, SMTT(30)
    <3>3. \A i \in 1..Len(received[s]) : /\ received[s][i] \in start[s]..next[s] - 1
                                         /\ received[s][i] \in DOMAIN sent
                                         /\ sent[received[s][i]] \in filter[s]
      BY <1>3, <1>4
    <3>4. \A i \in DOMAIN received'[s] :
             /\ received'[s][i] \in start[s]..next[s]
             /\ received'[s][i] \in DOMAIN sent
             /\ sent[received'[s][i]] \in filter[s]
      <4> SUFFICES ASSUME NEW i \in DOMAIN received'[s]
                   PROVE  /\ received'[s][i] \in start[s]..next[s]
                          /\ received'[s][i] \in DOMAIN sent
                          /\ sent[received'[s][i]] \in filter[s]
        OBVIOUS
      <4>1. CASE i \in 1..Len(received[s])
        <5>1. received'[s][i] = received[s][i]
          BY <3>2, <4>1
        <5>2. received[s][i] \in start[s]..next[s]
          BY <1>3, <3>3, <4>1
        <5>3. QED
          BY <3>3, <4>1, <5>1, <5>2
      <4>2. CASE i = Len(received[s]) + 1
        <5>1. received'[s][i] = next[s]
          BY <3>2, <4>2
        <5>2. next[s] \in start[s]..next[s] /\ next[s] \in DOMAIN sent
          BY <1>3, <2>1
        <5>3. QED
          BY <2>2, <5>1, <5>2
      <4>3. QED
        BY <1>3, <3>2, <4>1, <4>2
    <3>5. \A i, j \in DOMAIN received'[s] : i < j => received'[s][i] < received'[s][j]
      <4> SUFFICES ASSUME NEW i \in DOMAIN received'[s], NEW j \in DOMAIN received'[s],
                          i < j
                   PROVE  received'[s][i] < received'[s][j]
        OBVIOUS
      <4>1. i \in 1..Len(received[s]) /\ received'[s][i] = received[s][i]
        BY <1>3, <3>2, SMTT(30)
      <4>2. CASE j \in 1..Len(received[s])
        <5>1. received[s][i] < received[s][j]
          BY <1>3, <1>4, <4>1, <4>2
        <5>2. QED
          BY <3>2, <4>1, <4>2, <5>1
      <4>3. CASE j = Len(received[s]) + 1
        <5>1. received'[s][j] = next[s]
          BY <3>2, <4>3
        <5>2. received[s][i] \in start[s]..next[s] - 1
          BY <3>3, <4>1
        <5>3. QED
          BY <1>3, <4>1, <5>1, <5>2
      <4>4. QED
        BY <1>3, <3>2, <4>2, <4>3
    <3>6. Missed(s)' \subseteq Missed(s)
      BY <1>3, <2>1, <3>2 DEF Missed
    <3>7. QED
      BY <1>m, <1>3, <2>1, <3>4, <3>5, <3>6 DEF Subscribed
  <2>3. CASE sent[next[s]] \notin filter[s]
    <3>1. received'[s] = received[s]
      BY <1>8, <2>3 DEF recv
    <3>2. Missed(s)' \subseteq Missed(s)
      BY <1>3, <2>1, <2>3, <3>1 DEF Missed
    <3>3. \A i \in DOMAIN received[s] :
             /\ received[s][i] \in start[s]..next[s]
             /\ received[s][i] \in DOMAIN sent
             /\ sent[received[s][i]] \in filter[s]
      BY <1>3, <1>4
    <3>4. QED
      BY <1>m, <1>3, <1>4, <2>1, <3>1, <3>2, <3>3 DEF Subscribed
  <2>4. QED
    BY <2>2, <2>3
<1>9. CASE recv_lagged(s)
  <2>1. /\ next'[s] = Oldest /\ Oldest \in Nat /\ next[s] < Oldest
        /\ skipped'[s] = skipped[s] + (Oldest - next[s])
        /\ start[s] > 0
        /\ UNCHANGED <<sent, filter, start, received>>
    BY <1>0, <1>9, OldestRange DEF recv_lagged, BusTypeOK, pubVars, Subscribed
  <2>2. Missed(s)' \subseteq Missed(s) \cup next[s]..Oldest - 1
    BY <1>3, <2>1 DEF Missed
  <2>3. Cardinality(Missed(s)') <= skipped'[s]
    <3>1. IsFiniteSet(Missed(s)) /\ Cardinality(Missed(s)) <= skipped[s]
      BY <1>0, <1>4, MissedIsFinite
    <3>2. Cardinality(Missed(s)') <= skipped[s] + (Oldest - next[s])
      BY <1>3, <2>1, <2>2, <3>1, MoreMissed
    <3>3. QED
      BY <2>1, <3>2
  <2>4. QED
    BY <1>3, <1>4, <2>1, <2>3 DEF Subscribed
<1>10. ASSUME NEW r \in Subscribers, r # s,
              (\E f \in Filters : subscribe(r, f)) \/ recv(r) \/ recv_lagged(r)
       PROVE  Delivered(s)'
  <2>1. /\ UNCHANGED sent
        /\ UNCHANGED <<filter[s], start[s], next[s], received[s], skipped[s]>>
    BY <1>0, <1>10 DEF subscribe, recv, recv_lagged, BusTypeOK, pubVars
  <2>2. QED
    BY <1>5, <2>1
<1>11. ASSUME NEW p \in Publishers, NEW e \in Events,
              store_event(p, e) \/ store_fails(p, e)
       PROVE  Delivered(s)'
  BY <1>5, <1>11 DEF store_event, store_fails, subVars
<1>12. CASE UNCHANGED busVars
  BY <1>5, <1>12 DEF busVars, pubVars, subVars
<1>13. QED
  BY <1>6, <1>7, <1>8, <1>9, <1>10, <1>11, <1>12 DEF BusNext, PublishStep, SubscriberStep

\* The invariants hold of a bus nobody has used yet.
LEMMA BusInitInv == BusInit => StoreInv /\ DeliveryInv
<1> SUFFICES ASSUME BusInit PROVE StoreInv /\ DeliveryInv
  OBVIOUS
<1>1. BusTypeOK
  BY BusAssumption DEF BusInit, BusTypeOK
<1>2. PublishingIsStored /\ SentIsStored
  BY DEF BusInit, PublishingIsStored, SentIsStored
<1>3. NotSubscribed /\ OrderedDelivery
  BY DEF BusInit, NotSubscribed, OrderedDelivery
<1>4. NoSilentLoss
  <2>1. \A s \in Subscribers : Missed(s) = {} /\ skipped[s] = 0
    BY DEF BusInit, Missed
  <2>2. QED
    BY <2>1, FS_EmptySet DEF NoSilentLoss
<1>5. QED
  BY <1>1, <1>2, <1>3, <1>4 DEF StoreInv, DeliveryInv

-----------------------------------------------------------------------------
\* The state of the bus keeps its types, and no receiver passes the newest event.
THEOREM BusTypeCorrect == BusSpec => []BusTypeOK
<1>1. StoreInv => BusTypeOK
  BY DEF StoreInv
<1>2. QED
  BY BusInitInv, StoreInduction, <1>1, PTL DEF BusSpec

\* With persistence, every event a subscriber can receive can also be replayed.
THEOREM BroadcastsAreStored == BusSpec => []SentIsStored
<1>1. StoreInv => SentIsStored
  BY DEF StoreInv
<1>2. QED
  BY BusInitInv, StoreInduction, <1>1, PTL DEF BusSpec

\* Subscribers receive matching broadcasts in order, once each, after subscribing.
THEOREM DeliveryIsOrdered == BusSpec => []OrderedDelivery
<1>1. DeliveryInv => OrderedDelivery
  BY DEF DeliveryInv
<1>2. QED
  BY BusInitInv, DeliveryInduction, <1>1, PTL DEF BusSpec

\* A subscriber has missed no more matching broadcasts than it was told were lost.
THEOREM LossIsReported == BusSpec => []NoSilentLoss
<1>1. DeliveryInv => NoSilentLoss
  BY DEF DeliveryInv
<1>2. QED
  BY BusInitInv, DeliveryInduction, <1>1, PTL DEF BusSpec

-----------------------------------------------------------------------------
(***************************************************************************)
(* Transactions                                                            *)
(***************************************************************************)
\* The part of the bus a transaction manager touches.
ChannelOK ==
    /\ sent \in Seq(Events)
    /\ publishing \in [Publishers -> Events \cup {NoEvent}]

\* The lock is held by the client inside a commit or a rollback, that client's
\* transaction is in the state the operation found it in, and what it is publishing
\* is the event its loop has reached.  A rejected event leaves its transaction
\* failed until somebody has rolled it back.
Locking ==
    \A c \in Publishers :
        /\ (Committing(c) \/ RollingBack(c)) <=> holder = c
        /\ Committing(c) => state[client[c].tx] = "active"
        /\ RollingBack(c) => state[client[c].tx] \in {"active", "failed"}
        /\ client[c].op = "rejected" => state[client[c].tx] \in {"failed", "rolled_back"}
        /\ publishing[c] # NoEvent =>
              \/ /\ Committing(c)
                 /\ client[c].at <= events[client[c].tx]
                 /\ publishing[c] = Event(client[c].tx, client[c].at)
              \/ /\ RollingBack(c)
                 /\ client[c].at <= rollbacks[client[c].tx]
                 /\ publishing[c] = RollbackEvent(client[c].tx, client[c].at)

LockInv == TxTypeOK /\ ChannelOK /\ Locking

-----------------------------------------------------------------------------
\* A client inside an operation is at a transaction and at a position of it.
LEMMA CallParts ==
    ASSUME TxTypeOK, NEW c \in Publishers
    PROVE  /\ Committing(c) \/ RollingBack(c) =>
                /\ client[c] = [op |-> client[c].op, tx |-> client[c].tx, at |-> client[c].at]
                /\ client[c].tx \in Transactions
                /\ client[c].at \in 1..MaxEvents + 1
           /\ client[c].op = "rejected" => client[c].tx \in Transactions
           /\ ~(Committing(c) /\ RollingBack(c))
           /\ client[c].op = "rejected" => ~Committing(c) /\ ~RollingBack(c)
<1>1. client[c] \in Calls
  BY DEF TxTypeOK
<1>2. QED
  BY <1>1 DEF Calls, Committing, RollingBack

\* Moving on to the next position of the loop changes nothing else of the call.
LEMMA MoveOn ==
    ASSUME TxTypeOK, NEW c \in Publishers, Committing(c) \/ RollingBack(c),
           client[c].at <= MaxEvents,
           client' = [client EXCEPT ![c].at = @ + 1]
    PROVE  /\ client' \in [Publishers -> Calls]
           /\ \A d \in Publishers : d # c => client'[d] = client[d]
           /\ client'[c].op = client[c].op /\ client'[c].tx = client[c].tx
           /\ client'[c].at = client[c].at + 1
<1>1. /\ client[c] = [op |-> client[c].op, tx |-> client[c].tx, at |-> client[c].at]
      /\ client[c].tx \in Transactions
      /\ client[c].at \in 1..MaxEvents + 1
      /\ client[c].op \in {"commit", "rollback"}
  BY CallParts DEF Committing, RollingBack
<1>2. /\ \A d \in Publishers : d # c => client'[d] = client[d]
      /\ client'[c] = [client[c] EXCEPT !.at = @ + 1]
      /\ client' = [d \in Publishers |-> client'[d]]
  BY DEF TxTypeOK
<1>3. client'[c] = [op |-> client[c].op, tx |-> client[c].tx, at |-> client[c].at + 1]
  BY <1>1, <1>2
<1>4. client[c].at + 1 \in 1..MaxEvents + 1
  BY <1>1, TransactionAssumption
<1>5. client'[c] \in Calls
  BY <1>1, <1>3, <1>4 DEF Calls
<1>6. \A d \in Publishers : client'[d] \in Calls
  BY <1>2, <1>5 DEF TxTypeOK
<1>7. QED
  BY <1>2, <1>3, <1>6

\* The events and rollback events of a transaction are events of the bus, and no
\* event is a rollback event.
LEMMA EventParts ==
    ASSUME NEW t \in Transactions, NEW i \in 1..MaxEvents
    PROVE  /\ Event(t, i) \in Events /\ RollbackEvent(t, i) \in Events
           /\ \A u, j : /\ Event(t, i) # RollbackEvent(u, j)
                        /\ Event(t, i) = Event(u, j) => u = t /\ j = i
                        /\ RollbackEvent(t, i) = RollbackEvent(u, j) => u = t /\ j = i
BY TransactionAssumption DEF Event, RollbackEvent

\* Before the first transaction nobody holds the lock and nothing is under way.
LEMMA LockInit == TxInit => LockInv
<1> SUFFICES ASSUME TxInit PROVE LockInv
  OBVIOUS
<1>1. TxTypeOK
  BY TransactionAssumption DEF TxInit, TxTypeOK, States, Calls, Idle
<1>2. ChannelOK
  BY DEF TxInit, BusInit, ChannelOK
<1>3. Locking
  BY TransactionAssumption DEF TxInit, BusInit, Locking, Committing, RollingBack, Idle
<1>4. QED
  BY <1>1, <1>2, <1>3 DEF LockInv

\* begin_transaction makes an unused transaction active.
LEMMA LockBegin ==
    ASSUME LockInv, NEW c \in Publishers, NEW t \in Transactions, begin_transaction(c, t)
    PROVE  LockInv'
<1> USE DEF begin_transaction
<1>1. TxTypeOK'
  BY DEF LockInv, TxTypeOK, States
<1>2. ChannelOK'
  BY DEF LockInv, ChannelOK, busVars, pubVars
<1>3. Locking'
  BY CallParts DEF LockInv, Locking, TxTypeOK, busVars, pubVars, Committing, RollingBack
<1>4. QED
  BY <1>1, <1>2, <1>3 DEF LockInv

\* Processing an event, accepted or rejected, needs the lock and releases it.
LEMMA LockProcess ==
    ASSUME LockInv, NEW c \in Publishers, NEW t \in Transactions, NEW kind \in Kinds,
           process_event_transactionally(c, t, kind)
    PROVE  LockInv'
<1> USE DEF process_event_transactionally
<1>0. /\ events[t] \in 0..MaxEvents /\ rollbacks[t] \in 0..MaxEvents
      /\ rollbacks[t] <= events[t] /\ events[t] < MaxEvents
      /\ state[t] = "active" /\ holder = NoClient /\ client[c] = Idle
      /\ UNCHANGED <<sent, publishing, holder, undone, errors>>
      /\ events' = [events EXCEPT ![t] = @ + 1]
  BY DEF LockInv, TxTypeOK, Free, busVars, pubVars
<1>1. PICK n \in {0, 1} : rollbacks' = [rollbacks EXCEPT ![t] = @ + n]
  OBVIOUS
<1>2. /\ events' \in [Transactions -> 0..MaxEvents]
      /\ rollbacks' \in [Transactions -> 0..MaxEvents]
      /\ \A u \in Transactions : rollbacks'[u] <= events'[u]
  BY <1>0, <1>1, TransactionAssumption DEF LockInv, TxTypeOK
<1>3. \/ UNCHANGED <<state, client>>
      \/ /\ state' = [state EXCEPT ![t] = "failed"]
         /\ client' = [client EXCEPT ![c] = [op |-> "rejected", tx |-> t]]
  OBVIOUS
<1>4. TxTypeOK'
  <2>1. [op |-> "rejected", tx |-> t] \in Calls
    BY DEF Calls
  <2>2. QED
    BY <1>0, <1>2, <1>3, <2>1 DEF LockInv, TxTypeOK, States
<1>5. ChannelOK'
  BY <1>0 DEF LockInv, ChannelOK
<1>6. \A d \in Publishers : publishing[d] = NoEvent /\ ~Committing(d) /\ ~RollingBack(d)
  BY <1>0, TransactionAssumption DEF LockInv, Locking
<1>7. Locking'
  BY <1>0, <1>3, <1>6, CallParts, TransactionAssumption
  DEF LockInv, Locking, TxTypeOK, Committing, RollingBack
<1>8. QED
  BY <1>4, <1>5, <1>7 DEF LockInv

\* commit_transaction takes the lock of an active transaction.
LEMMA LockCommit ==
    ASSUME LockInv, NEW c \in Publishers, NEW t \in Transactions, commit_transaction(c, t)
    PROVE  LockInv'
<1> USE DEF commit_transaction
<1>1. [op |-> "commit", tx |-> t, at |-> 1] \in Calls
  BY TransactionAssumption DEF Calls
<1>2. TxTypeOK'
  BY <1>1 DEF LockInv, TxTypeOK
<1>3. ChannelOK'
  BY DEF LockInv, ChannelOK, busVars, pubVars
<1>4. \A d \in Publishers : publishing[d] = NoEvent /\ ~Committing(d) /\ ~RollingBack(d)
  BY TransactionAssumption DEF LockInv, Locking, Free
<1>5. Locking'
  BY <1>4, TransactionAssumption
  DEF LockInv, Locking, TxTypeOK, busVars, pubVars, Committing, RollingBack
<1>6. QED
  BY <1>2, <1>3, <1>5 DEF LockInv

\* A client that publishes an event of its transaction keeps the lock.
LEMMA LockStore ==
    ASSUME LockInv, NEW c \in Publishers, commit_store(c) \/ rollback_store(c)
    PROVE  LockInv'
<1>0. /\ client[c].tx \in Transactions /\ client[c].at \in 1..MaxEvents + 1
      /\ events[client[c].tx] \in 0..MaxEvents /\ rollbacks[client[c].tx] \in 0..MaxEvents
  BY CallParts DEF LockInv, TxTypeOK, commit_store, rollback_store
<1>1. PICK e \in Events :
         /\ publishing' = [publishing EXCEPT ![c] = e]
         /\ \/ /\ Committing(c) /\ client[c].at <= events[client[c].tx]
               /\ e = Event(client[c].tx, client[c].at)
            \/ /\ RollingBack(c) /\ client[c].at <= rollbacks[client[c].tx]
               /\ e = RollbackEvent(client[c].tx, client[c].at)
  <2>1. CASE commit_store(c)
    <3>1. client[c].at \in 1..MaxEvents
      BY <1>0, <2>1, TransactionAssumption DEF commit_store
    <3>2. QED
      BY <1>0, <2>1, <3>1, EventParts DEF commit_store, store_event
  <2>2. CASE rollback_store(c)
    <3>1. client[c].at \in 1..MaxEvents
      BY <1>0, <2>2, TransactionAssumption DEF rollback_store
    <3>2. QED
      BY <1>0, <2>2, <3>1, EventParts DEF rollback_store, store_event
  <2>3. QED
    BY <2>1, <2>2
<1>2. UNCHANGED txVars /\ UNCHANGED sent
  BY DEF commit_store, rollback_store, store_event
<1>3. TxTypeOK'
  BY <1>2 DEF LockInv, TxTypeOK, txVars
<1>4. ChannelOK'
  BY <1>1, <1>2 DEF LockInv, ChannelOK
<1>5. Locking'
  BY <1>1, <1>2 DEF LockInv, Locking, ChannelOK, txVars, Committing, RollingBack
<1>6. QED
  BY <1>3, <1>4, <1>5 DEF LockInv

\* A publication that reached the channel moves the loop to the next event.
LEMMA LockSend ==
    ASSUME LockInv, NEW c \in Publishers, commit_send(c) \/ rollback_send(c)
    PROVE  /\ LockInv'
           /\ sent' = Append(sent, publishing[c]) /\ publishing[c] \in Events
<1>0. /\ Committing(c) \/ RollingBack(c)
      /\ client' = [client EXCEPT ![c].at = @ + 1]
      /\ UNCHANGED <<state, events, rollbacks, holder, undone, errors>>
      /\ publishing[c] # NoEvent /\ publishing' = [publishing EXCEPT ![c] = NoEvent]
      /\ sent' = Append(sent, publishing[c])
  BY DEF commit_send, rollback_send, send
<1>1. /\ client[c].tx \in Transactions /\ client[c].at \in 1..MaxEvents + 1
      /\ events[client[c].tx] \in 0..MaxEvents /\ rollbacks[client[c].tx] \in 0..MaxEvents
  BY <1>0, CallParts DEF LockInv, TxTypeOK
<1>2. client[c].at <= MaxEvents
  BY <1>0, <1>1, TransactionAssumption DEF LockInv, Locking
<1>3. /\ client' \in [Publishers -> Calls]
      /\ \A d \in Publishers : d # c => client'[d] = client[d]
      /\ client'[c].op = client[c].op /\ client'[c].tx = client[c].tx
  BY <1>0, <1>2, MoveOn DEF LockInv
<1>4. publishing[c] \in Events
  BY <1>0 DEF LockInv, ChannelOK
<1>5. TxTypeOK'
  BY <1>0, <1>3 DEF LockInv, TxTypeOK
<1>6. ChannelOK'
  <2>1. Append(sent, publishing[c]) \in Seq(Events)
    BY <1>4 DEF LockInv, ChannelOK
  <2>2. QED
    BY <1>0, <2>1 DEF LockInv, ChannelOK
<1>7. Locking'
  <2> SUFFICES ASSUME NEW d \in Publishers
               PROVE  /\ (Committing(d)' \/ RollingBack(d)') <=> holder' = d
                      /\ Committing(d)' => state'[client'[d].tx] = "active"
                      /\ RollingBack(d)' => state'[client'[d].tx] \in {"active", "failed"}
                      /\ client'[d].op = "rejected" =>
                            state'[client'[d].tx] \in {"failed", "rolled_back"}
                      /\ publishing'[d] # NoEvent =>
                           \/ /\ Committing(d)'
                              /\ client'[d].at <= events'[client'[d].tx]
                              /\ publishing'[d] = Event(client'[d].tx, client'[d].at)
                           \/ /\ RollingBack(d)'
                              /\ client'[d].at <= rollbacks'[client'[d].tx]
                              /\ publishing'[d] = RollbackEvent(client'[d].tx, client'[d].at)
    BY DEF Locking
  <2>1. CASE d = c
    BY <1>0, <1>3, <2>1 DEF LockInv, Locking, ChannelOK, Committing, RollingBack
  <2>2. CASE d # c
    BY <1>0, <1>3, <2>2 DEF LockInv, Locking, ChannelOK, Committing, RollingBack
  <2>3. QED
    BY <2>1, <2>2
<1>8. QED
  BY <1>0, <1>4, <1>5, <1>6, <1>7 DEF LockInv

\* An error of the store ends a commit, and moves a rollback on.
LEMMA LockFaults ==
    ASSUME LockInv, NEW c \in Publishers, commit_aborts(c) \/ rollback_store_fails(c)
    PROVE  LockInv' /\ UNCHANGED <<sent, publishing>>
<1>0. UNCHANGED <<sent, publishing>> /\ publishing[c] = NoEvent
  BY DEF commit_aborts, rollback_store_fails, store_fails
<1>1. ChannelOK'
  BY <1>0 DEF LockInv, ChannelOK
<1>2. CASE commit_aborts(c)
  <2>1. TxTypeOK'
    BY <1>2 DEF commit_aborts, LockInv, TxTypeOK, Calls, Idle
  <2>2. Locking'
    BY <1>0, <1>2, TransactionAssumption
    DEF commit_aborts, LockInv, TxTypeOK, Locking, Committing, RollingBack, Idle
  <2>3. QED
    BY <1>0, <1>1, <2>1, <2>2 DEF LockInv
<1>3. CASE rollback_store_fails(c)
  <2>1. /\ RollingBack(c)
        /\ client' = [client EXCEPT ![c].at = @ + 1]
        /\ UNCHANGED <<state, events, rollbacks, holder, undone>>
        /\ errors' = errors \cup {client[c].tx}
        /\ client[c].at <= rollbacks[client[c].tx]
    BY <1>3 DEF rollback_store_fails
  <2>2. /\ client[c].tx \in Transactions /\ client[c].at \in 1..MaxEvents + 1
        /\ rollbacks[client[c].tx] \in 0..MaxEvents
    BY <2>1, CallParts DEF LockInv, TxTypeOK
  <2>3. client[c].at <= MaxEvents
    BY <2>1, <2>2, TransactionAssumption
  <2>4. /\ client' \in [Publishers -> Calls]
        /\ \A d \in Publishers : d # c => client'[d] = client[d]
        /\ client'[c].op = client[c].op /\ client'[c].tx = client[c].tx
    BY <2>1, <2>3, MoveOn DEF LockInv
  <2>5. TxTypeOK'
    BY <2>1, <2>2, <2>4 DEF LockInv, TxTypeOK
  <2>6. Locking'
    BY <1>0, <2>1, <2>4 DEF LockInv, Locking, Committing, RollingBack
  <2>7. QED
    BY <1>0, <1>1, <2>5, <2>6 DEF LockInv
<1>4. QED
  BY <1>2, <1>3

\* A commit or a rollback that went through ends the transaction and frees the lock.
LEMMA LockDone ==
    ASSUME LockInv, NEW c \in Publishers, commit_done(c) \/ rollback_done(c)
    PROVE  LockInv'
<1>0. /\ UNCHANGED <<sent, publishing, events, rollbacks, undone, errors>>
      /\ publishing[c] = NoEvent
      /\ holder' = NoClient /\ client' = [client EXCEPT ![c] = Idle]
      /\ holder = c
      /\ client[c].tx \in Transactions
      /\ \/ state' = [state EXCEPT ![client[c].tx] = "committed"] /\ Committing(c)
         \/ state' = [state EXCEPT ![client[c].tx] = "rolled_back"] /\ RollingBack(c)
  BY CallParts DEF commit_done, rollback_done, busVars, pubVars, LockInv, Locking
<1>1. TxTypeOK'
  BY <1>0 DEF LockInv, TxTypeOK, Calls, Idle, States
<1>2. ChannelOK'
  BY <1>0 DEF LockInv, ChannelOK
<1>3. Locking'
  <2>1. \A d \in Publishers \ {c} : /\ ~Committing(d) /\ ~RollingBack(d)
                                   /\ publishing[d] = NoEvent
                                   /\ client'[d] = client[d]
    BY <1>0 DEF LockInv, Locking, TxTypeOK
  <2>2. client'[c] = Idle
    BY <1>0 DEF LockInv, TxTypeOK
  <2>3. \A d \in Publishers \ {c} : client[d].op = "rejected" =>
             state'[client[d].tx] \in {"failed", "rolled_back"}
    <3> SUFFICES ASSUME NEW d \in Publishers \ {c}, client[d].op = "rejected"
                 PROVE  state'[client[d].tx] \in {"failed", "rolled_back"}
      OBVIOUS
    <3>1. /\ client[d].tx \in Transactions
          /\ state[client[d].tx] \in {"failed", "rolled_back"}
      BY CallParts DEF LockInv, Locking
    <3>2. Committing(c) => state[client[c].tx] = "active"
      BY DEF LockInv, Locking
    <3>3. QED
      BY <1>0, <3>1, <3>2 DEF LockInv, TxTypeOK
  <2>4. QED
    BY <1>0, <2>1, <2>2, <2>3, TransactionAssumption
    DEF Locking, Committing, RollingBack, Idle
<1>4. QED
  BY <1>1, <1>2, <1>3 DEF LockInv

\* rollback_transaction takes the lock; it also does so for a failed transaction.
LEMMA LockRollback ==
    ASSUME LockInv, NEW c \in Publishers, NEW t \in Transactions, rollback_transaction(c, t)
    PROVE  LockInv'
<1> USE DEF rollback_transaction
<1>1. [op |-> "rollback", tx |-> t, at |-> 1] \in Calls
  BY TransactionAssumption DEF Calls
<1>2. TxTypeOK'
  BY <1>1 DEF LockInv, TxTypeOK
<1>3. ChannelOK'
  BY DEF LockInv, ChannelOK, busVars, pubVars
<1>4. \A d \in Publishers : publishing[d] = NoEvent /\ ~Committing(d) /\ ~RollingBack(d)
  BY TransactionAssumption DEF LockInv, Locking, Free
<1>5. Locking'
  BY <1>4, TransactionAssumption
  DEF LockInv, Locking, TxTypeOK, busVars, pubVars, Committing, RollingBack
<1>6. QED
  BY <1>2, <1>3, <1>5 DEF LockInv

\* A client that comes too late to roll back just returns.
LEMMA LockNotFound ==
    ASSUME LockInv, NEW c \in Publishers, rollback_not_found(c)
    PROVE  LockInv'
<1> USE DEF rollback_not_found
<1>1. TxTypeOK'
  BY DEF LockInv, TxTypeOK, Calls, Idle
<1>2. ChannelOK'
  BY DEF LockInv, ChannelOK, busVars, pubVars
<1>3. Locking'
  BY CallParts
  DEF LockInv, Locking, TxTypeOK, busVars, pubVars, Committing, RollingBack, Idle
<1>4. QED
  BY <1>1, <1>2, <1>3 DEF LockInv

\* The cleanup finds the lock free and takes only active transactions.
LEMMA LockCleanup ==
    ASSUME LockInv, NEW c \in Publishers, NEW S \in SUBSET Transactions,
           cleanup_stale_transactions(c, S)
    PROVE  LockInv'
<1> USE DEF cleanup_stale_transactions
<1>1. TxTypeOK'
  BY DEF LockInv, TxTypeOK, States
<1>2. ChannelOK'
  BY DEF LockInv, ChannelOK, busVars, pubVars
<1>3. \A d \in Publishers : publishing[d] = NoEvent /\ ~Committing(d) /\ ~RollingBack(d)
  BY TransactionAssumption DEF LockInv, Locking, Free
<1>4. \A d \in Publishers : client[d].op = "rejected" =>
           state'[client[d].tx] \in {"failed", "rolled_back"}
  BY CallParts DEF LockInv, Locking
<1>5. Locking'
  BY <1>3, <1>4, TransactionAssumption
  DEF LockInv, Locking, busVars, pubVars, Committing, RollingBack
<1>6. QED
  BY <1>1, <1>2, <1>5 DEF LockInv

\* The lock discipline is inductive.
LEMMA LockInduction == LockInv /\ [TxNext]_allVars => LockInv'
<1> SUFFICES ASSUME LockInv, [TxNext]_allVars PROVE LockInv'
  OBVIOUS
<1>1. ASSUME NEW c \in Publishers, Continue(c) PROVE LockInv'
  BY <1>1, LockStore, LockSend, LockFaults, LockDone DEF Continue
<1>2. CASE UNCHANGED allVars
  BY <1>2 DEF allVars, txVars, busVars, pubVars, LockInv, TxTypeOK, ChannelOK, Locking,
              Committing, RollingBack
<1>3. QED
  BY <1>1, <1>2, LockBegin, LockProcess, LockCommit, LockRollback, LockNotFound,
     LockCleanup DEF TxNext

\* A step broadcasts nothing, or the event its client was publishing.
LEMMA WhatIsSent ==
    ASSUME LockInv, [TxNext]_allVars
    PROVE  \/ UNCHANGED sent
           \/ \E c \in Publishers : /\ commit_send(c) \/ rollback_send(c)
                                   /\ publishing[c] \in Events
                                   /\ sent' = Append(sent, publishing[c])
<1>1. CASE UNCHANGED allVars
  BY <1>1 DEF allVars, busVars, pubVars
<1>2. ASSUME NEW c \in Publishers, Continue(c)
      PROVE  \/ UNCHANGED sent
             \/ /\ commit_send(c) \/ rollback_send(c)
                /\ publishing[c] \in Events /\ sent' = Append(sent, publishing[c])
  BY <1>2, LockSend, LockFaults
  DEF Continue, commit_store, rollback_store, store_event, commit_done, rollback_done,
      busVars, pubVars
<1>3. QED
  BY <1>1, <1>2, ZenonT(30)
  DEF TxNext, begin_transaction, process_event_transactionally, commit_transaction,
      rollback_transaction, rollback_not_found, cleanup_stale_transactions, busVars, pubVars

\* A broadcast adds its event at the end of the history, and nothing else.
LEMMA SentAppend ==
    ASSUME ChannelOK, NEW e \in Events, sent' = Append(sent, e)
    PROVE  /\ DOMAIN sent' = 1..Len(sent) + 1 /\ DOMAIN sent = 1..Len(sent)
           /\ Len(sent) \in Nat
           /\ \A k \in 1..Len(sent) : sent'[k] = sent[k]
           /\ sent'[Len(sent) + 1] = e
           /\ \A x : In(x, sent)' <=> (In(x, sent) \/ x = e)
<1>1. /\ DOMAIN sent' = 1..Len(sent) + 1 /\ DOMAIN sent = 1..Len(sent)
      /\ Len(sent) \in Nat
      /\ \A k \in 1..Len(sent) : sent'[k] = sent[k]
      /\ sent'[Len(sent) + 1] = e
  BY DEF ChannelOK
<1>2. \A x : In(x, sent)' <=> (In(x, sent) \/ x = e)
  BY <1>1 DEF In
<1>3. QED
  BY <1>1, <1>2

\* What has been broadcast stays broadcast.
LEMMA SentGrows ==
    ASSUME LockInv, [TxNext]_allVars
    PROVE  \A x : In(x, sent) => In(x, sent)'
<1>1. CASE UNCHANGED sent
  BY <1>1 DEF In
<1>2. ASSUME NEW c \in Publishers, publishing[c] \in Events,
             sent' = Append(sent, publishing[c])
      PROVE  \A x : In(x, sent) => In(x, sent)'
  BY <1>2, SentAppend DEF LockInv
<1>3. QED
  BY <1>1, <1>2, WhatIsSent

-----------------------------------------------------------------------------
\* Some client is rolling the transaction back.
Rolling(t) == \E c \in Publishers : RollingBack(c) /\ client[c].tx = t

\* Only the holder of the lock is inside a commit or a rollback.
LEMMA OneHolder ==
    ASSUME LockInv
    PROVE  /\ Free => \A d \in Publishers : ~Committing(d) /\ ~RollingBack(d)
           /\ \A c, d \in Publishers :
                 c # d /\ (Committing(c) \/ RollingBack(c)) => ~Committing(d) /\ ~RollingBack(d)
BY TransactionAssumption DEF LockInv, Locking, Free

\* The handlers are rolled back when the lock is taken for it, or by the cleanup, and
\* neither can happen twice to a transaction.
LEMMA UndoneInduction == LockInv /\ UndoneOnce /\ [TxNext]_allVars => UndoneOnce'
<1> SUFFICES ASSUME LockInv, UndoneOnce, [TxNext]_allVars PROVE UndoneOnce'
  OBVIOUS
<1>0. \A t \in Transactions :
         undone[t] = IF state[t] \in {"rolled_back", "cleaned"} \/ Rolling(t) THEN 1 ELSE 0
  BY DEF UndoneOnce, Rolling
<1> SUFFICES \A t \in Transactions :
         undone'[t] = IF state'[t] \in {"rolled_back", "cleaned"} \/ Rolling(t)' THEN 1 ELSE 0
  BY DEF UndoneOnce, Rolling
<1>1. ASSUME UNCHANGED <<state, undone, client>>
      PROVE  \A t \in Transactions :
         undone'[t] = IF state'[t] \in {"rolled_back", "cleaned"} \/ Rolling(t)' THEN 1 ELSE 0
  BY <1>0, <1>1 DEF Rolling, RollingBack
<1>2. ASSUME NEW c \in Publishers, NEW t \in Transactions, begin_transaction(c, t)
      PROVE  \A u \in Transactions :
         undone'[u] = IF state'[u] \in {"rolled_back", "cleaned"} \/ Rolling(u)' THEN 1 ELSE 0
  BY <1>0, <1>2 DEF begin_transaction, LockInv, TxTypeOK, Rolling, RollingBack
<1>3. ASSUME NEW c \in Publishers, NEW t \in Transactions, NEW kind \in Kinds,
             process_event_transactionally(c, t, kind)
      PROVE  \A u \in Transactions :
         undone'[u] = IF state'[u] \in {"rolled_back", "cleaned"} \/ Rolling(u)' THEN 1 ELSE 0
  <2>1. \A u \in Transactions : ~Rolling(u) /\ ~Rolling(u)'
    BY <1>3, OneHolder
    DEF process_event_transactionally, Rolling, RollingBack, LockInv, TxTypeOK
  <2>2. QED
    BY <1>0, <1>3, <2>1 DEF process_event_transactionally, LockInv, TxTypeOK
<1>4. ASSUME NEW c \in Publishers, NEW t \in Transactions, commit_transaction(c, t)
      PROVE  \A u \in Transactions :
         undone'[u] = IF state'[u] \in {"rolled_back", "cleaned"} \/ Rolling(u)' THEN 1 ELSE 0
  <2>1. \A u \in Transactions : ~Rolling(u) /\ ~Rolling(u)'
    BY <1>4, OneHolder DEF commit_transaction, Rolling, RollingBack, LockInv, TxTypeOK
  <2>2. QED
    BY <1>0, <1>4, <2>1 DEF commit_transaction
<1>5. ASSUME NEW c \in Publishers, NEW t \in Transactions, rollback_transaction(c, t)
      PROVE  \A u \in Transactions :
         undone'[u] = IF state'[u] \in {"rolled_back", "cleaned"} \/ Rolling(u)' THEN 1 ELSE 0
  <2>1. \A u \in Transactions : ~Rolling(u) /\ (Rolling(u)' <=> u = t)
    BY <1>5, OneHolder DEF rollback_transaction, Rolling, RollingBack, LockInv, TxTypeOK
  <2>2. QED
    BY <1>0, <1>5, <2>1 DEF rollback_transaction, LockInv, TxTypeOK
<1>6. ASSUME NEW c \in Publishers, rollback_not_found(c)
      PROVE  \A u \in Transactions :
         undone'[u] = IF state'[u] \in {"rolled_back", "cleaned"} \/ Rolling(u)' THEN 1 ELSE 0
  <2>1. \A u \in Transactions : ~Rolling(u) /\ ~Rolling(u)'
    BY <1>6, OneHolder DEF rollback_not_found, Rolling, RollingBack, LockInv, TxTypeOK, Idle
  <2>2. QED
    BY <1>0, <1>6, <2>1 DEF rollback_not_found
<1>7. ASSUME NEW c \in Publishers, NEW S \in SUBSET Transactions,
             cleanup_stale_transactions(c, S)
      PROVE  \A u \in Transactions :
         undone'[u] = IF state'[u] \in {"rolled_back", "cleaned"} \/ Rolling(u)' THEN 1 ELSE 0
  <2>1. \A u \in Transactions : ~Rolling(u) /\ ~Rolling(u)'
    BY <1>7, OneHolder DEF cleanup_stale_transactions, Rolling, RollingBack
  <2>2. QED
    BY <1>0, <1>7, <2>1 DEF cleanup_stale_transactions
<1>8. ASSUME NEW c \in Publishers, Continue(c)
      PROVE  \A u \in Transactions :
         undone'[u] = IF state'[u] \in {"rolled_back", "cleaned"} \/ Rolling(u)' THEN 1 ELSE 0
  <2>1. CASE commit_store(c) \/ rollback_store(c)
    BY <1>1, <2>1 DEF commit_store, rollback_store, txVars
  <2>2. CASE commit_send(c) \/ rollback_send(c) \/ rollback_store_fails(c)
    <3>1. /\ UNCHANGED <<state, undone>>
          /\ client' = [client EXCEPT ![c].at = @ + 1]
      BY <2>2 DEF commit_send, rollback_send, rollback_store_fails
    <3>2. \A d \in Publishers : client'[d].op = client[d].op /\ client'[d].tx = client[d].tx
      <4>1. Committing(c) \/ RollingBack(c)
        BY <2>2 DEF commit_send, rollback_send, rollback_store_fails
      <4>2. client[c] = [op |-> client[c].op, tx |-> client[c].tx, at |-> client[c].at]
        BY <4>1, CallParts DEF LockInv
      <4>3. QED
        BY <3>1, <4>2 DEF LockInv, TxTypeOK
    <3>3. \A u \in Transactions : Rolling(u)' <=> Rolling(u)
      BY <3>2 DEF Rolling, RollingBack
    <3>4. QED
      BY <1>0, <3>1, <3>3
  <2>3. CASE commit_aborts(c)
    <3>1. \A u \in Transactions : ~Rolling(u) /\ ~Rolling(u)'
      BY <2>3, OneHolder, CallParts
      DEF commit_aborts, Rolling, RollingBack, Committing, LockInv, TxTypeOK, Idle
    <3>2. QED
      BY <1>0, <2>3, <3>1 DEF commit_aborts
  <2>4. CASE commit_done(c)
    <3>1. \A u \in Transactions : ~Rolling(u) /\ ~Rolling(u)'
      BY <2>4, OneHolder, CallParts
      DEF commit_done, Rolling, RollingBack, Committing, LockInv, TxTypeOK, Idle
    <3>2. state[client[c].tx] = "active" /\ client[c].tx \in Transactions
      BY <2>4, CallParts DEF commit_done, LockInv, Locking
    <3>3. QED
      BY <1>0, <2>4, <3>1, <3>2 DEF commit_done, LockInv, TxTypeOK
  <2>5. CASE rollback_done(c)
    <3>1. \A u \in Transactions : (Rolling(u) <=> u = client[c].tx) /\ ~Rolling(u)'
      BY <2>5, OneHolder
      DEF rollback_done, Rolling, RollingBack, LockInv, TxTypeOK, Idle
    <3>2. client[c].tx \in Transactions
      BY <2>5, CallParts DEF rollback_done, LockInv
    <3>3. QED
      BY <1>0, <2>5, <3>1, <3>2 DEF rollback_done, LockInv, TxTypeOK
  <2>6. QED
    BY <1>8, <2>1, <2>2, <2>3, <2>4, <2>5 DEF Continue
<1>9. CASE UNCHANGED allVars
  BY <1>1, <1>9 DEF allVars, txVars
<1>10. QED
  BY <1>2, <1>3, <1>4, <1>5, <1>6, <1>7, <1>8, <1>9 DEF TxNext

-----------------------------------------------------------------------------
\* A commit has broadcast the events before the one it has reached.
CommitProgress ==
    \A c \in Publishers : Committing(c) =>
        \A i \in 1..MaxEvents : i < client[c].at => In(Event(client[c].tx, i), sent)

\* The events of a committed transaction have all been broadcast.
CommitComplete ==
    \A t \in Transactions : state[t] = "committed" =>
        \A i \in 1..events[t] : In(Event(t, i), sent)

CommitInv == CommitProgress /\ CommitComplete /\ PublishedInOrder

\* A step leaves a call of commit where it is, moves it past an event that is now
\* broadcast, or starts one at the first event.
LEMMA CommitProgressInduction ==
    LockInv /\ CommitProgress /\ [TxNext]_allVars => CommitProgress'
<1> SUFFICES ASSUME LockInv, CommitProgress, [TxNext]_allVars,
                    NEW d \in Publishers, Committing(d)',
                    NEW i \in 1..MaxEvents, i < client'[d].at,
                    NEW u, client'[d].tx = u
             PROVE  In(Event(u, i), sent)'
  BY DEF CommitProgress, Event, In
<1>0. \A x : In(x, sent) => In(x, sent)'
  BY SentGrows
<1>1. ASSUME client'[d] = client[d] PROVE In(Event(u, i), sent)'
  BY <1>0, <1>1 DEF Committing, CommitProgress
<1>2. ASSUME NEW c \in Publishers, Continue(c)
      PROVE  In(Event(u, i), sent)'
  <2>1. CASE commit_send(c) /\ c = d
    <3>1. /\ Committing(d)
          /\ client[d].tx \in Transactions /\ client[d].at \in 1..MaxEvents + 1
          /\ events[client[d].tx] \in 0..MaxEvents
          /\ client' = [client EXCEPT ![d].at = @ + 1]
          /\ publishing[d] # NoEvent
      BY <2>1, CallParts DEF commit_send, send, LockInv, TxTypeOK
    <3>2. /\ publishing[d] = Event(client[d].tx, client[d].at)
          /\ client[d].at <= events[client[d].tx]
      BY <3>1, CallParts DEF LockInv, Locking
    <3>3. client[d].tx = u /\ client'[d].at = client[d].at + 1
      <4>1. client[d].at <= MaxEvents
        BY <3>1, <3>2, TransactionAssumption
      <4>2. client'[d].tx = client[d].tx /\ client'[d].at = client[d].at + 1
        BY <3>1, <4>1, MoveOn DEF LockInv
      <4>3. QED
        BY <4>2
    <3>4. In(publishing[d], sent')
      BY <2>1, LockSend, SentAppend DEF LockInv
    <3>5. CASE i < client[d].at
      BY <1>0, <3>1, <3>3, <3>5 DEF CommitProgress
    <3>6. CASE i = client[d].at
      BY <3>2, <3>3, <3>4, <3>6 DEF In
    <3>7. QED
      BY <3>1, <3>3, <3>5, <3>6
  <2>2. CASE commit_store(c) \/ rollback_store(c)
    BY <1>1, <2>2 DEF commit_store, rollback_store, txVars
  <2>3. CASE commit_aborts(c) \/ commit_done(c) \/ rollback_done(c)
    <3>1. client' = [client EXCEPT ![c] = Idle]
      BY <2>3 DEF commit_aborts, commit_done, rollback_done
    <3>2. c # d
      BY <3>1 DEF LockInv, TxTypeOK, Committing, Idle
    <3>3. QED
      BY <1>1, <3>1, <3>2 DEF LockInv, TxTypeOK
  <2>4. CASE \/ (commit_send(c) /\ c # d) \/ rollback_send(c)
             \/ rollback_store_fails(c)
    <3>1. client' = [client EXCEPT ![c].at = @ + 1]
      BY <2>4 DEF commit_send, rollback_send, rollback_store_fails
    <3>2. c = d => RollingBack(c)
      BY <2>4 DEF rollback_send, rollback_store_fails
    <3>3. client[c] = [op |-> client[c].op, tx |-> client[c].tx, at |-> client[c].at]
      BY <2>4, CallParts
      DEF commit_send, rollback_send, rollback_store_fails, LockInv
    <3>4. c # d
      BY <3>1, <3>2, <3>3 DEF LockInv, TxTypeOK, Committing, RollingBack
    <3>5. QED
      BY <1>1, <3>1, <3>4 DEF LockInv, TxTypeOK
  <2>5. QED
    BY <1>2, <2>1, <2>2, <2>3, <2>4 DEF Continue
<1>3. ASSUME NEW c \in Publishers, NEW t \in Transactions, commit_transaction(c, t)
      PROVE  In(Event(u, i), sent)'
  <2>1. c = d => client'[d].at = 1
    BY <1>3 DEF commit_transaction, LockInv, TxTypeOK
  <2>2. c # d => client'[d] = client[d]
    BY <1>3 DEF commit_transaction, LockInv, TxTypeOK
  <2>3. QED
    BY <1>1, <2>1, <2>2, TransactionAssumption
<1>4. CASE UNCHANGED allVars
  BY <1>1, <1>4 DEF allVars, txVars
<1>5. ASSUME NEW c \in Publishers, NEW t \in Transactions,
             \/ begin_transaction(c, t)
             \/ \E kind \in Kinds : process_event_transactionally(c, t, kind)
             \/ rollback_transaction(c, t)
      PROVE  In(Event(u, i), sent)'
  <2>1. client'[d] = client[d]
    BY <1>5
    DEF begin_transaction, rollback_transaction, process_event_transactionally,
        LockInv, TxTypeOK, Committing
  <2>2. QED
    BY <1>1, <2>1
<1>6. ASSUME NEW c \in Publishers,
             \/ rollback_not_found(c)
             \/ \E S \in SUBSET Transactions : cleanup_stale_transactions(c, S)
      PROVE  In(Event(u, i), sent)'
  <2>1. client'[d] = client[d]
    BY <1>6
    DEF rollback_not_found, cleanup_stale_transactions, LockInv, TxTypeOK, Committing, Idle
  <2>2. QED
    BY <1>1, <2>1
<1>7. QED
  BY <1>2, <1>3, <1>4, <1>5, <1>6 DEF TxNext

\* A transaction becomes committed only when its loop is past its last event, and
\* gets no event afterwards.
LEMMA CommitCompleteInduction ==
    LockInv /\ CommitProgress /\ CommitComplete /\ [TxNext]_allVars => CommitComplete'
<1> SUFFICES ASSUME LockInv, CommitProgress, CommitComplete, [TxNext]_allVars,
                    NEW t \in Transactions, state'[t] = "committed",
                    NEW i \in 1..events'[t]
             PROVE  In(Event(t, i), sent)'
  BY DEF CommitComplete
<1>0. \A x : In(x, sent) => In(x, sent)'
  BY SentGrows
<1>1. ASSUME state[t] = "committed", events'[t] = events[t]
      PROVE  In(Event(t, i), sent)'
  BY <1>0, <1>1 DEF CommitComplete
<1>2. ASSUME NEW c \in Publishers, commit_done(c), client[c].tx = t
      PROVE  In(Event(t, i), sent)'
  <2>1. /\ Committing(c) /\ client[c].at > events[t] /\ events'[t] = events[t]
        /\ events[t] \in 0..MaxEvents /\ client[c].at \in 1..MaxEvents + 1
    BY <1>2, CallParts DEF commit_done, LockInv, TxTypeOK
  <2>2. i \in 1..MaxEvents /\ i < client[c].at
    BY <2>1, TransactionAssumption
  <2>3. QED
    BY <1>0, <1>2, <2>1, <2>2 DEF CommitProgress
<1>3. ASSUME NEW c \in Publishers, Continue(c), ~(commit_done(c) /\ client[c].tx = t)
      PROVE  state[t] = "committed" /\ events'[t] = events[t]
  <2>1. client[c].tx \in Transactions
    BY <1>3, CallParts
    DEF Continue, commit_store, commit_aborts, commit_send, commit_done, rollback_store,
        rollback_store_fails, rollback_send, rollback_done, LockInv
  <2>2. QED
    BY <1>3, <2>1
    DEF Continue, commit_store, commit_aborts, commit_send, commit_done, rollback_store,
        rollback_store_fails, rollback_send, rollback_done, txVars, LockInv, TxTypeOK
<1>4. ASSUME NEW c \in Publishers, NEW u \in Transactions,
             \/ begin_transaction(c, u) \/ rollback_transaction(c, u)
             \/ commit_transaction(c, u)
             \/ \E kind \in Kinds : process_event_transactionally(c, u, kind)
      PROVE  state[t] = "committed" /\ events'[t] = events[t]
  BY <1>4
  DEF begin_transaction, rollback_transaction, process_event_transactionally,
      commit_transaction, LockInv, TxTypeOK
<1>5. ASSUME NEW c \in Publishers,
             \/ rollback_not_found(c)
             \/ \E S \in SUBSET Transactions : cleanup_stale_transactions(c, S)
      PROVE  state[t] = "committed" /\ events'[t] = events[t]
  BY <1>5 DEF rollback_not_found, cleanup_stale_transactions
<1>6. CASE UNCHANGED allVars
  BY <1>1, <1>6 DEF allVars, txVars
<1>7. QED
  BY <1>1, <1>2, <1>3, <1>4, <1>5, <1>6 DEF TxNext

\* A commit broadcasts the event its loop has reached, and those before it are out.
LEMMA OrderInduction ==
    LockInv /\ CommitProgress /\ PublishedInOrder /\ [TxNext]_allVars => PublishedInOrder'
<1> SUFFICES ASSUME LockInv, CommitProgress, PublishedInOrder, [TxNext]_allVars
             PROVE  PublishedInOrder'
  OBVIOUS
<1>1. CASE UNCHANGED sent
  BY <1>1 DEF PublishedInOrder
<1>2. ASSUME NEW c \in Publishers, commit_send(c) \/ rollback_send(c),
             publishing[c] \in Events, sent' = Append(sent, publishing[c])
      PROVE  PublishedInOrder'
  <2>1. /\ DOMAIN sent' = 1..Len(sent) + 1 /\ DOMAIN sent = 1..Len(sent)
        /\ Len(sent) \in Nat
        /\ \A k \in 1..Len(sent) : sent'[k] = sent[k]
        /\ sent'[Len(sent) + 1] = publishing[c]
    BY <1>2, SentAppend DEF LockInv
  <2>2. SUFFICES ASSUME NEW k \in DOMAIN sent', NEW t \in Transactions,
                        NEW i \in 1..MaxEvents, sent'[k] = Event(t, i + 1)
                 PROVE  \E l \in 1..k - 1 : sent'[l] = Event(t, i)
    BY DEF PublishedInOrder
  <2>3. CASE k \in 1..Len(sent)
    <3>1. PICK l \in 1..k - 1 : sent[l] = Event(t, i)
      BY <2>1, <2>2, <2>3 DEF PublishedInOrder
    <3>2. l \in 1..Len(sent)
      BY <2>1, <2>3, <3>1
    <3>3. QED
      BY <2>1, <3>1, <3>2
  <2>4. CASE k = Len(sent) + 1
    <3>1. publishing[c] = Event(t, i + 1)
      BY <2>1, <2>2, <2>4
    <3>2. publishing[c] # NoEvent
      BY <1>2 DEF commit_send, rollback_send, send
    <3>3. /\ Committing(c) \/ RollingBack(c)
          /\ client[c].tx \in Transactions /\ client[c].at \in 1..MaxEvents + 1
          /\ events[client[c].tx] \in 0..MaxEvents
      BY <1>2, CallParts DEF commit_send, rollback_send, LockInv, TxTypeOK
    <3>0. /\ publishing[c] # RollbackEvent(client[c].tx, client[c].at)
          /\ publishing[c] = Event(client[c].tx, client[c].at) =>
                t = client[c].tx /\ i + 1 = client[c].at
      BY <3>1 DEF Event, RollbackEvent
    <3>4. Committing(c) /\ t = client[c].tx /\ i + 1 = client[c].at
      BY <3>0, <3>2 DEF LockInv, Locking
    <3>5. In(Event(t, i), sent)
      BY <3>3, <3>4 DEF CommitProgress
    <3>6. PICK l \in DOMAIN sent : sent[l] = Event(t, i)
      BY <3>5 DEF In
    <3>7. QED
      BY <2>1, <2>4, <3>6
  <2>5. QED
    BY <2>1, <2>3, <2>4
<1>3. QED
  BY <1>1, <1>2, WhatIsSent

-----------------------------------------------------------------------------
\* A rollback event is out only once the rollback of its transaction has passed it.
RollbackOut ==
    \A t \in Transactions, i \in 1..MaxEvents : In(RollbackEvent(t, i), sent) =>
        \/ state[t] = "rolled_back"
        \/ \E c \in Publishers : RollingBack(c) /\ client[c].tx = t /\ i < client[c].at

\* A rollback without errors has broadcast the rollback events it has passed.
RollbackProgress ==
    \A c \in Publishers : RollingBack(c) /\ client[c].tx \notin errors =>
        \A i \in 1..MaxEvents : i < client[c].at => In(RollbackEvent(client[c].tx, i), sent)

RollbackInv == RollbackOut /\ RollbackProgress /\ Compensated

\* What a client has stored and not yet sent tells what its call is and where.
LEMMA PublishedBy ==
    ASSUME LockInv, NEW c \in Publishers, publishing[c] # NoEvent, NEW t, NEW i
    PROVE  /\ publishing[c] = Event(t, i) => Committing(c) /\ client[c].tx = t
           /\ publishing[c] = RollbackEvent(t, i) =>
                 RollingBack(c) /\ client[c].tx = t /\ client[c].at = i
<1>1. \/ Committing(c) /\ publishing[c] = Event(client[c].tx, client[c].at)
      \/ RollingBack(c) /\ publishing[c] = RollbackEvent(client[c].tx, client[c].at)
  BY DEF LockInv, Locking
<1>2. /\ \A u, j : Event(t, i) # RollbackEvent(u, j)
      /\ \A u, j : RollbackEvent(t, i) # Event(u, j)
      /\ \A u, j : Event(t, i) = Event(u, j) => u = t
      /\ \A u, j : RollbackEvent(t, i) = RollbackEvent(u, j) => u = t /\ j = i
  BY DEF Event, RollbackEvent
<1>3. QED
  BY <1>1, <1>2

\* While a client rolls back, it holds the lock and nobody else does anything.
LEMMA RollingStep ==
    ASSUME LockInv, [TxNext]_allVars, NEW c \in Publishers, RollingBack(c)
    PROVE  \/ UNCHANGED allVars
           \/ rollback_store(c) \/ rollback_store_fails(c) \/ rollback_send(c)
           \/ rollback_done(c)
<1>1. ~Free
  BY OneHolder
<1>2. ASSUME NEW d \in Publishers, Continue(d)
      PROVE  \/ rollback_store(c) \/ rollback_store_fails(c) \/ rollback_send(c)
             \/ rollback_done(c)
  <2>1. Committing(d) \/ RollingBack(d)
    BY <1>2 DEF Continue, commit_store, commit_aborts, commit_send, commit_done,
                rollback_store, rollback_store_fails, rollback_send, rollback_done
  <2>2. d = c /\ ~Committing(c)
    BY <2>1, OneHolder, CallParts DEF LockInv
  <2>3. QED
    BY <1>2, <2>2 DEF Continue, commit_store, commit_aborts, commit_send, commit_done
<1>3. QED
  BY <1>1, <1>2, ZenonT(30)
  DEF TxNext, begin_transaction, process_event_transactionally, commit_transaction,
      rollback_transaction, rollback_not_found, cleanup_stale_transactions

\* A rollback starts at the first rollback event.
LEMMA RollingStarts ==
    ASSUME LockInv, [TxNext]_allVars, NEW c \in Publishers, ~RollingBack(c), RollingBack(c)'
    PROVE  client'[c].at = 1
<1>1. client'[c] # client[c]
  BY DEF RollingBack
<1>2. ASSUME NEW d \in Publishers, NEW t \in Transactions, rollback_transaction(d, t)
      PROVE  client'[c].at = 1
  BY <1>1, <1>2 DEF rollback_transaction, LockInv, TxTypeOK
<1>3. ASSUME NEW d \in Publishers, NEW t \in Transactions,
             \/ begin_transaction(d, t) \/ commit_transaction(d, t)
             \/ \E kind \in Kinds : process_event_transactionally(d, t, kind)
      PROVE  FALSE
  BY <1>1, <1>3
  DEF begin_transaction, commit_transaction, process_event_transactionally,
      LockInv, TxTypeOK, RollingBack
<1>4. ASSUME NEW d \in Publishers,
             \/ rollback_not_found(d)
             \/ \E S \in SUBSET Transactions : cleanup_stale_transactions(d, S)
      PROVE  FALSE
  BY <1>1, <1>4
  DEF rollback_not_found, cleanup_stale_transactions, LockInv, TxTypeOK, RollingBack, Idle
<1>5. ASSUME NEW d \in Publishers, Continue(d) PROVE FALSE
  <2>1. CASE commit_store(d) \/ rollback_store(d)
    BY <1>1, <2>1 DEF commit_store, rollback_store, txVars
  <2>2. CASE commit_aborts(d) \/ commit_done(d) \/ rollback_done(d)
    BY <1>1, <2>2
    DEF commit_aborts, commit_done, rollback_done, LockInv, TxTypeOK, RollingBack, Idle
  <2>3. CASE commit_send(d) \/ rollback_send(d) \/ rollback_store_fails(d)
    <3>1. /\ Committing(d) \/ RollingBack(d)
          /\ client' = [client EXCEPT ![d].at = @ + 1]
      BY <2>3 DEF commit_send, rollback_send, rollback_store_fails
    <3>2. client[d] = [op |-> client[d].op, tx |-> client[d].tx, at |-> client[d].at]
      BY <3>1, CallParts DEF LockInv
    <3>3. client'[d].op = client[d].op /\ \A e \in Publishers : e # d => client'[e] = client[e]
      BY <3>1, <3>2 DEF LockInv, TxTypeOK
    <3>4. QED
      BY <1>1, <3>3 DEF RollingBack
  <2>4. QED
    BY <1>5, <2>1, <2>2, <2>3 DEF Continue
<1>6. CASE UNCHANGED allVars
  BY <1>1, <1>6 DEF allVars, txVars
<1>7. QED
  BY <1>2, <1>3, <1>4, <1>5, <1>6 DEF TxNext

\* A transaction is rolled back only by the end of its rollback; it then stays so.
LEMMA RolledBackStep ==
    ASSUME LockInv, [TxNext]_allVars, NEW t \in Transactions
    PROVE  /\ state[t] = "rolled_back" =>
                 state'[t] = "rolled_back" /\ rollbacks'[t] = rollbacks[t]
           /\ state'[t] = "rolled_back" /\ state[t] # "rolled_back" =>
                 \E c \in Publishers : rollback_done(c) /\ client[c].tx = t
           /\ errors \subseteq errors'
<1> DEFINE P == /\ state[t] = "rolled_back" =>
                      state'[t] = "rolled_back" /\ rollbacks'[t] = rollbacks[t]
                /\ state'[t] = "rolled_back" /\ state[t] # "rolled_back" =>
                      \E c \in Publishers : rollback_done(c) /\ client[c].tx = t
                /\ errors \subseteq errors'
<1>1. ASSUME UNCHANGED <<state, rollbacks, errors>> PROVE P
  BY <1>1
<1>2. ASSUME NEW c \in Publishers, NEW u \in Transactions,
             \/ begin_transaction(c, u) \/ commit_transaction(c, u)
             \/ rollback_transaction(c, u)
             \/ \E kind \in Kinds : process_event_transactionally(c, u, kind)
      PROVE  P
  BY <1>2
  DEF begin_transaction, commit_transaction, rollback_transaction,
      process_event_transactionally, LockInv, TxTypeOK
<1>3. ASSUME NEW c \in Publishers,
             \/ rollback_not_found(c)
             \/ \E S \in SUBSET Transactions : cleanup_stale_transactions(c, S)
      PROVE  P
  BY <1>3 DEF rollback_not_found, cleanup_stale_transactions
<1>4. ASSUME NEW c \in Publishers, Continue(c) PROVE P
  <2>1. CASE rollback_done(c) \/ commit_done(c)
    <3>1. /\ client[c].tx \in Transactions
          /\ state[client[c].tx] \in {"active", "failed"}
      BY <2>1, CallParts DEF rollback_done, commit_done, LockInv, Locking
    <3>2. QED
      BY <2>1, <3>1 DEF rollback_done, commit_done, LockInv, TxTypeOK
  <2>2. CASE ~(rollback_done(c) \/ commit_done(c))
    BY <1>4, <2>2
    DEF Continue, commit_store, commit_aborts, commit_send, rollback_store,
        rollback_store_fails, rollback_send, txVars
  <2>3. QED
    BY <2>1, <2>2
<1>5. CASE UNCHANGED allVars
  BY <1>1, <1>5 DEF allVars, txVars
<1>6. QED
  BY <1>2, <1>3, <1>4, <1>5 DEF TxNext

\* The loop of a rollback that goes on is where it was, or one event further.
LEMMA RollingMoves ==
    ASSUME LockInv, NEW c \in Publishers, rollback_store_fails(c) \/ rollback_send(c)
    PROVE  /\ RollingBack(c)' /\ client'[c].tx = client[c].tx
           /\ client'[c].at = client[c].at + 1
           /\ client[c].tx \in Transactions /\ client[c].at \in 1..MaxEvents
<1>1. /\ RollingBack(c) /\ client' = [client EXCEPT ![c].at = @ + 1]
      /\ client[c].tx \in Transactions /\ client[c].at \in 1..MaxEvents + 1
      /\ rollbacks[client[c].tx] \in 0..MaxEvents
  BY CallParts DEF rollback_store_fails, rollback_send, LockInv, TxTypeOK
<1>2. client[c].at <= rollbacks[client[c].tx]
  BY <1>1, CallParts DEF rollback_store_fails, rollback_send, send, LockInv, Locking
<1>3. client[c].at <= MaxEvents
  BY <1>1, <1>2, TransactionAssumption
<1>4. /\ client'[c].op = client[c].op /\ client'[c].tx = client[c].tx
      /\ client'[c].at = client[c].at + 1
  BY <1>1, <1>3, MoveOn DEF LockInv
<1>5. QED
  BY <1>1, <1>3, <1>4, TransactionAssumption DEF RollingBack

\* A rollback event goes out when its loop reaches it, and the loop then moves past it.
LEMMA RollbackOutInduction ==
    LockInv /\ RollbackOut /\ [TxNext]_allVars => RollbackOut'
<1> SUFFICES ASSUME LockInv, RollbackOut, [TxNext]_allVars,
                    NEW t \in Transactions, NEW i \in 1..MaxEvents,
                    In(RollbackEvent(t, i), sent)'
             PROVE  \/ state'[t] = "rolled_back"
                    \/ \E c \in Publishers :
                          RollingBack(c)' /\ client'[c].tx = t /\ i < client'[c].at
  BY DEF RollbackOut
<1>1. CASE In(RollbackEvent(t, i), sent) /\ state[t] = "rolled_back"
  BY <1>1, RolledBackStep
<1>2. ASSUME NEW c \in Publishers, RollingBack(c), client[c].tx = t, i < client[c].at
      PROVE  \/ state'[t] = "rolled_back"
             \/ RollingBack(c)' /\ client'[c].tx = t /\ i < client'[c].at
  <2>1. CASE UNCHANGED allVars \/ rollback_store(c)
    BY <1>2, <2>1 DEF allVars, rollback_store, txVars, RollingBack
  <2>2. CASE rollback_store_fails(c) \/ rollback_send(c)
    BY <1>2, <2>2, RollingMoves
  <2>3. CASE rollback_done(c)
    BY <1>2, <2>3 DEF rollback_done, LockInv, TxTypeOK
  <2>4. QED
    BY <1>2, <2>1, <2>2, <2>3, RollingStep
<1>3. CASE ~In(RollbackEvent(t, i), sent)
  <2>1. PICK c \in Publishers : /\ commit_send(c) \/ rollback_send(c)
                               /\ publishing[c] \in Events
                               /\ sent' = Append(sent, publishing[c])
    BY <1>3, WhatIsSent DEF In
  <2>2. publishing[c] = RollbackEvent(t, i)
    BY <1>3, <2>1, SentAppend DEF LockInv
  <2>3. RollingBack(c) /\ client[c].tx = t /\ client[c].at = i
    BY <2>1, <2>2, PublishedBy, BusAssumption
  <2>4. rollback_send(c)
    BY <2>1, <2>3, CallParts DEF commit_send, LockInv
  <2>5. QED
    BY <2>3, <2>4, RollingMoves
<1>4. QED
  BY <1>1, <1>2, <1>3 DEF RollbackOut

\* An error is noted, or the event the loop has reached is broadcast.
LEMMA RollbackProgressInduction ==
    LockInv /\ RollbackProgress /\ [TxNext]_allVars => RollbackProgress'
<1> SUFFICES ASSUME LockInv, RollbackProgress, [TxNext]_allVars,
                    NEW c \in Publishers, RollingBack(c)', client'[c].tx \notin errors',
                    NEW i \in 1..MaxEvents, i < client'[c].at,
                    NEW u, client'[c].tx = u
             PROVE  In(RollbackEvent(u, i), sent)'
  BY DEF RollbackProgress, RollbackEvent, In
<1>0. \A x : In(x, sent) => In(x, sent)'
  BY SentGrows
<1>1. CASE ~RollingBack(c)
  BY <1>1, RollingStarts, TransactionAssumption
<1>2. ASSUME RollingBack(c), UNCHANGED <<client, errors>> PROVE In(RollbackEvent(u, i), sent)'
  BY <1>0, <1>2 DEF RollbackProgress
<1>3. CASE rollback_store_fails(c)
  BY <1>3, RollingMoves DEF rollback_store_fails
<1>4. CASE rollback_send(c)
  <2>1. /\ RollingBack(c) /\ client[c].tx = u /\ client'[c].at = client[c].at + 1
        /\ client[c].at \in 1..MaxEvents
        /\ errors' = errors /\ publishing[c] # NoEvent
    BY <1>4, RollingMoves DEF rollback_send, send
  <2>2. publishing[c] = RollbackEvent(u, client[c].at)
    BY <2>1, CallParts DEF LockInv, Locking
  <2>3. In(publishing[c], sent')
    BY <1>4, LockSend, SentAppend DEF LockInv
  <2>4. CASE i < client[c].at
    BY <1>0, <2>1, <2>4 DEF RollbackProgress
  <2>5. CASE i = client[c].at
    BY <2>2, <2>3, <2>5 DEF In
  <2>6. QED
    BY <2>1, <2>4, <2>5, TransactionAssumption
<1>5. CASE rollback_done(c)
  BY <1>5 DEF rollback_done, LockInv, TxTypeOK, RollingBack, Idle
<1>6. CASE RollingBack(c)
  <2>1. CASE UNCHANGED allVars \/ rollback_store(c)
    BY <1>2, <1>6, <2>1 DEF allVars, rollback_store, txVars
  <2>2. QED
    BY <1>3, <1>4, <1>5, <1>6, <2>1, RollingStep
<1>7. QED
  BY <1>1, <1>6

\* A rollback ends only past its last event, and no rollback event is out before its
\* turn, so it cannot go out again.
LEMMA CompensatedInduction ==
    LockInv /\ RollbackInv /\ [TxNext]_allVars => Compensated'
<1> SUFFICES ASSUME LockInv, RollbackInv, [TxNext]_allVars PROVE Compensated'
  OBVIOUS
<1>0. \A x : In(x, sent) => In(x, sent)'
  BY SentGrows
<1>1. ASSUME NEW t \in Transactions, state'[t] = "rolled_back", t \notin errors',
             NEW i \in 1..rollbacks'[t]
      PROVE  In(RollbackEvent(t, i), sent)'
  <2>1. CASE state[t] = "rolled_back"
    BY <1>0, <1>1, <2>1, RolledBackStep DEF RollbackInv, Compensated
  <2>2. CASE state[t] # "rolled_back"
    <3>1. PICK c \in Publishers : rollback_done(c) /\ client[c].tx = t
      BY <1>1, <2>2, RolledBackStep
    <3>2. /\ RollingBack(c) /\ errors' = errors /\ rollbacks' = rollbacks
          /\ rollbacks[t] \in 0..MaxEvents /\ client[c].at > rollbacks[t]
          /\ client[c].at \in 1..MaxEvents + 1
      BY <3>1, CallParts DEF rollback_done, LockInv, TxTypeOK
    <3>3. i \in 1..MaxEvents /\ i < client[c].at
      BY <3>2, TransactionAssumption
    <3>4. QED
      BY <1>0, <1>1, <3>1, <3>2, <3>3 DEF RollbackInv, RollbackProgress
  <2>3. QED
    BY <2>1, <2>2
<1>2. ASSUME NEW t \in Transactions, NEW i \in 1..MaxEvents,
             NEW k \in DOMAIN sent', NEW l \in DOMAIN sent',
             sent'[k] = RollbackEvent(t, i), sent'[l] = RollbackEvent(t, i)
      PROVE  k = l
  <2>1. CASE UNCHANGED sent
    BY <1>2, <2>1 DEF RollbackInv, Compensated
  <2>2. ASSUME NEW c \in Publishers, publishing[c] \in Events,
               sent' = Append(sent, publishing[c])
        PROVE  k = l
    <3>1. /\ DOMAIN sent' = 1..Len(sent) + 1 /\ DOMAIN sent = 1..Len(sent)
          /\ Len(sent) \in Nat
          /\ \A j \in 1..Len(sent) : sent'[j] = sent[j]
          /\ sent'[Len(sent) + 1] = publishing[c]
      BY <2>2, SentAppend DEF LockInv
    <3>2. ASSUME publishing[c] = RollbackEvent(t, i), In(RollbackEvent(t, i), sent)
          PROVE  FALSE
      <4>1. RollingBack(c) /\ client[c].tx = t /\ client[c].at = i
        BY <2>2, <3>2, PublishedBy, BusAssumption
      <4>2. state[t] # "rolled_back"
        BY <4>1 DEF LockInv, Locking
      <4>3. PICK d \in Publishers : RollingBack(d) /\ client[d].tx = t /\ i < client[d].at
        BY <3>2, <4>2 DEF RollbackInv, RollbackOut
      <4>4. d = c
        BY <4>1, <4>3, OneHolder
      <4>5. QED
        BY <4>1, <4>3, <4>4, TransactionAssumption
    <3>3. CASE k \in 1..Len(sent) /\ l \in 1..Len(sent)
      BY <1>2, <3>1, <3>3 DEF RollbackInv, Compensated
    <3>4. CASE k = Len(sent) + 1 /\ l \in 1..Len(sent)
      BY <1>2, <3>1, <3>2, <3>4 DEF In
    <3>5. CASE l = Len(sent) + 1 /\ k \in 1..Len(sent)
      BY <1>2, <3>1, <3>2, <3>5 DEF In
    <3>6. QED
      BY <3>1, <3>3, <3>4, <3>5
  <2>3. QED
    BY <2>1, <2>2, WhatIsSent
<1>3. QED
  BY <1>1, <1>2 DEF Compensated

-----------------------------------------------------------------------------
\* A failed transaction is not committed, not cleaned up and not published.
LEMMA FailedStep ==
    ASSUME LockInv, [TxNext]_allVars, NEW t \in Transactions, state[t] = "failed"
    PROVE  /\ state'[t] \in {"failed", "rolled_back"}
           /\ \A i \in 1..MaxEvents : In(Event(t, i), sent') => In(Event(t, i), sent)
<1>1. state'[t] \in {"failed", "rolled_back"}
  <2>1. ASSUME NEW c \in Publishers, NEW u \in Transactions,
               \/ begin_transaction(c, u) \/ commit_transaction(c, u)
               \/ rollback_transaction(c, u)
               \/ \E kind \in Kinds : process_event_transactionally(c, u, kind)
        PROVE  state'[t] = "failed"
    BY <2>1
    DEF begin_transaction, commit_transaction, rollback_transaction,
        process_event_transactionally, LockInv, TxTypeOK
  <2>2. ASSUME NEW c \in Publishers,
               \/ rollback_not_found(c)
               \/ \E S \in SUBSET Transactions : cleanup_stale_transactions(c, S)
        PROVE  state'[t] = "failed"
    BY <2>2 DEF rollback_not_found, cleanup_stale_transactions
  <2>3. ASSUME NEW c \in Publishers, Continue(c)
        PROVE  state'[t] \in {"failed", "rolled_back"}
    <3>1. CASE rollback_done(c)
      BY <3>1, CallParts DEF rollback_done, LockInv, TxTypeOK
    <3>2. CASE commit_done(c)
      <4>1. state[client[c].tx] = "active" /\ client[c].tx \in Transactions
        BY <3>2, CallParts DEF commit_done, LockInv, Locking
      <4>2. QED
        BY <3>2, <4>1 DEF commit_done, LockInv, TxTypeOK
    <3>3. CASE ~(rollback_done(c) \/ commit_done(c))
      BY <2>3, <3>3
      DEF Continue, commit_store, commit_aborts, commit_send, rollback_store,
          rollback_store_fails, rollback_send, txVars
    <3>4. QED
      BY <3>1, <3>2, <3>3
  <2>4. CASE UNCHANGED allVars
    BY <2>4 DEF allVars, txVars
  <2>5. QED
    BY <2>1, <2>2, <2>3, <2>4 DEF TxNext
<1>2. ASSUME NEW i \in 1..MaxEvents, In(Event(t, i), sent'), ~In(Event(t, i), sent)
      PROVE  FALSE
  <2>1. PICK c \in Publishers : publishing[c] \in Events /\ sent' = Append(sent, publishing[c])
    BY <1>2, WhatIsSent
  <2>2. publishing[c] = Event(t, i)
    BY <1>2, <2>1, SentAppend DEF LockInv
  <2>3. Committing(c) /\ client[c].tx = t
    BY <2>1, <2>2, PublishedBy, BusAssumption
  <2>4. QED
    BY <2>3 DEF LockInv, Locking
<1>3. QED
  BY <1>1, <1>2

\* The inductive invariant of the transaction manager.
TxInv == LockInv /\ UndoneOnce /\ CommitInv /\ RollbackInv

\* It holds before the first transaction.
LEMMA TxInvInit == TxInit => TxInv
<1> SUFFICES ASSUME TxInit PROVE TxInv
  OBVIOUS
<1>1. LockInv
  BY LockInit
<1>2. /\ \A c \in Publishers : ~Committing(c) /\ ~RollingBack(c)
      /\ sent = <<>>
      /\ \A t \in Transactions : state[t] = "none" /\ undone[t] = 0
  BY DEF TxInit, BusInit, Committing, RollingBack, Idle
<1>3. DOMAIN sent = {} /\ \A x : ~In(x, sent)
  BY <1>2 DEF In
<1>4. UndoneOnce /\ CommitInv /\ RollbackInv
  BY <1>2, <1>3
  DEF UndoneOnce, CommitInv, CommitProgress, CommitComplete, PublishedInOrder,
      RollbackInv, RollbackOut, RollbackProgress, Compensated
<1>5. QED
  BY <1>1, <1>4 DEF TxInv

\* Every step keeps it.
LEMMA TxInvInduction == TxInv /\ [TxNext]_allVars => TxInv'
BY LockInduction, UndoneInduction, CommitProgressInduction, CommitCompleteInduction,
   OrderInduction, RollbackOutInduction, RollbackProgressInduction, CompensatedInduction
DEF TxInv, CommitInv, RollbackInv

\* A transaction that is being rolled back is not committed, so a committed one was
\* never undone and has no rollback event out.
LEMMA CommittedFromInv == TxInv => CommittedIsComplete
<1> SUFFICES ASSUME TxInv, NEW t \in Transactions, state[t] = "committed"
             PROVE  /\ \A i \in 1..events[t] : In(Event(t, i), sent)
                    /\ undone[t] = 0
                    /\ \A i \in 1..MaxEvents : ~In(RollbackEvent(t, i), sent)
  BY DEF CommittedIsComplete
<1>1. \A c \in Publishers : ~(RollingBack(c) /\ client[c].tx = t)
  BY DEF TxInv, LockInv, Locking
<1>2. undone[t] = 0
  BY <1>1 DEF TxInv, UndoneOnce
<1>3. \A i \in 1..MaxEvents : ~In(RollbackEvent(t, i), sent)
  BY <1>1 DEF TxInv, RollbackInv, RollbackOut
<1>4. QED
  BY <1>2, <1>3 DEF TxInv, CommitInv, CommitComplete

-----------------------------------------------------------------------------
\* The state of the transaction manager keeps its types, and the loops of commit and
\* rollback stay within the events of their transaction.
THEOREM TxTypeCorrect == TxSpec => []TxTypeOK
<1>1. TxInv => TxTypeOK
  BY DEF TxInv, LockInv
<1>2. QED
  BY TxInvInit, TxInvInduction, <1>1, PTL DEF TxSpec

\* A committed transaction was broadcast completely and nothing of it was undone.
THEOREM CommitIsComplete == TxSpec => []CommittedIsComplete
BY TxInvInit, TxInvInduction, CommittedFromInv, PTL DEF TxSpec

\* Failed and retried commits never broadcast an event before the one it follows.
THEOREM CommitKeepsOrder == TxSpec => []PublishedInOrder
<1>1. TxInv => PublishedInOrder
  BY DEF TxInv, CommitInv
<1>2. QED
  BY TxInvInit, TxInvInduction, <1>1, PTL DEF TxSpec

\* The handlers undo a transaction at most once, whoever tries.
THEOREM HandlersUndoOnce == TxSpec => []UndoneOnce
<1>1. TxInv => UndoneOnce
  BY DEF TxInv
<1>2. QED
  BY TxInvInit, TxInvInduction, <1>1, PTL DEF TxSpec

\* A rollback without errors broadcasts every rollback event, each of them once.
THEOREM RollbackCompensates == TxSpec => []Compensated
<1>1. TxInv => Compensated
  BY DEF TxInv, RollbackInv
<1>2. QED
  BY TxInvInit, TxInvInduction, <1>1, PTL DEF TxSpec

\* Nothing of a transaction is published after one of its events was rejected.
THEOREM FailedIsNotPublished == TxSpec => FailedStaysUnpublished
<1>1. TxInv /\ [TxNext]_allVars =>
        [\A t \in Transactions : state[t] = "failed" =>
             /\ state'[t] \in {"failed", "rolled_back"}
             /\ \A i \in 1..MaxEvents :
                    In(Event(t, i), sent') => In(Event(t, i), sent)]_allVars
  BY FailedStep DEF TxInv
<1>2. QED
  BY TxInvInit, TxInvInduction, <1>1, PTL DEF TxSpec, FailedStaysUnpublished
=============================================================================
