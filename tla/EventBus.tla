------------------------------ MODULE EventBus ------------------------------
(***************************************************************************)
(* EventBus and EventSubscription of src/event.rs, over an event store of  *)
(* src/event_persistence.rs and tokio's broadcast channel.                 *)
(*                                                                         *)
(* publish is two steps: it awaits the store, then sends on the channel.   *)
(* Nothing keeps two publishers from doing so in opposite orders.  The     *)
(* channel keeps the last Capacity events; a receiver that fell behind is  *)
(* told how many it lost and goes on with the oldest event kept.           *)
(*                                                                         *)
(* A filter is the set of the events that EventFilter::matches accepts.    *)
(* sent is the history of the channel, so a position in it identifies one  *)
(* broadcast.  The store is one that lists events in the order they were   *)
(* stored (InMemoryEventPersistence); like SledEventPersistence, it may    *)
(* report an error before or after the event was written.                  *)
(***************************************************************************)
EXTENDS Naturals, Sequences, FiniteSets

CONSTANTS Events,        \* the events that can be published
          Publishers,    \* tasks that call publish
          Subscribers,   \* subscriptions
          Filters,       \* sets of events a filter may accept
          Persistent,    \* whether with_persistence was used
          Capacity,      \* events the broadcast channel keeps
          MaxPublished,  \* bound on broadcasts, where the bus runs alone
          MaxFaults,     \* bound on the errors of the store
          NoEvent        \* no publication under way

ASSUME BusAssumption ==
    /\ Filters \subseteq SUBSET Events
    /\ Persistent \in BOOLEAN
    /\ Capacity \in Nat \ {0}
    /\ MaxPublished \in Nat /\ MaxFaults \in Nat
    /\ NoEvent \notin Events

VARIABLES stored,      \* the events of the store, oldest first
          sent,        \* the events broadcast so far
          publishing,  \* the event each publisher has stored but not yet sent
          faults,      \* errors the store has reported
          filter,      \* the filter of each subscription
          start,       \* position of the first broadcast it may receive, 0 if none
          next,        \* position its receiver reads next
          received,    \* positions it has received
          skipped      \* broadcasts the channel told it were lost

pubVars == <<stored, sent, publishing, faults>>
subVars == <<filter, start, next, received, skipped>>
busVars == <<pubVars, subVars>>

Subscribed(s) == start[s] > 0
In(x, seq) == \E i \in DOMAIN seq : seq[i] = x

-----------------------------------------------------------------------------
(***************************************************************************)
(* publish                                                                 *)
(***************************************************************************)
store_event(p, e) ==
    /\ publishing[p] = NoEvent
    /\ stored' = IF Persistent THEN Append(stored, e) ELSE stored
    /\ publishing' = [publishing EXCEPT ![p] = e]
    /\ UNCHANGED <<sent, faults, subVars>>

\* Broken variant: the error of the store is ignored.
store_fails_ignored(p, e) ==
    /\ publishing[p] = NoEvent
    /\ Persistent
    /\ faults < MaxFaults
    /\ faults' = faults + 1
    /\ publishing' = [publishing EXCEPT ![p] = e]
    /\ UNCHANGED <<stored, sent, subVars>>

\* The store reports an error, and publish returns it: nothing is broadcast.
\* Sled may have written the event before its index or the flush fails.
store_fails(p, e) ==
    /\ publishing[p] = NoEvent
    /\ Persistent
    /\ faults < MaxFaults
    /\ faults' = faults + 1
    /\ stored' \in {stored, Append(stored, e)}
    /\ UNCHANGED <<sent, publishing, subVars>>

send(p) ==
    /\ publishing[p] # NoEvent
    /\ sent' = Append(sent, publishing[p])
    /\ publishing' = [publishing EXCEPT ![p] = NoEvent]
    /\ UNCHANGED <<stored, faults, subVars>>

(***************************************************************************)
(* subscribe and EventSubscription::recv.  unsubscribe removes the entry   *)
(* of the subscription map, which nothing reads: the receiver stays.       *)
(***************************************************************************)
subscribe(s, f) ==
    /\ ~Subscribed(s)
    /\ filter' = [filter EXCEPT ![s] = f]
    /\ start' = [start EXCEPT ![s] = Len(sent) + 1]
    /\ next' = [next EXCEPT ![s] = Len(sent) + 1]
    /\ UNCHANGED <<pubVars, received, skipped>>

\* Position of the oldest broadcast the channel still keeps.
Oldest == IF Len(sent) > Capacity THEN Len(sent) - Capacity + 1 ELSE 1

\* Broken variant: a broadcast that matches is returned but not consumed.
recv_peeks(s) ==
    /\ Subscribed(s)
    /\ next[s] \in Oldest..Len(sent)
    /\ Len(received[s]) < Len(sent)
    /\ IF sent[next[s]] \in filter[s]
       THEN received' = [received EXCEPT ![s] = Append(@, next[s])] /\ UNCHANGED next
       ELSE next' = [next EXCEPT ![s] = @ + 1] /\ UNCHANGED received
    /\ UNCHANGED <<pubVars, filter, start, skipped>>

\* Broken variant: the lag is not checked, and the loop goes on with the newest.
recv_newest(s) ==
    /\ Subscribed(s)
    /\ next[s] <= Len(sent)
    /\ received' = IF sent[Len(sent)] \in filter[s]
                   THEN [received EXCEPT ![s] = Append(@, Len(sent))]
                   ELSE received
    /\ next' = [next EXCEPT ![s] = Len(sent) + 1]
    /\ UNCHANGED <<pubVars, filter, start, skipped>>

\* One turn of recv's loop: a broadcast that does not match is passed over.
recv(s) ==
    /\ Subscribed(s)
    /\ next[s] \in Oldest..Len(sent)
    /\ received' = IF sent[next[s]] \in filter[s]
                   THEN [received EXCEPT ![s] = Append(@, next[s])]
                   ELSE received
    /\ next' = [next EXCEPT ![s] = @ + 1]
    /\ UNCHANGED <<pubVars, filter, start, skipped>>

\* Broken variants of the next action: the receiver jumps past the newest broadcast;
\* it stays where it is.
recv_lagged_past(s) ==
    /\ Subscribed(s)
    /\ next[s] < Oldest
    /\ skipped' = [skipped EXCEPT ![s] = @ + 1]
    /\ next' = [next EXCEPT ![s] = Oldest + Capacity + 1]
    /\ UNCHANGED <<pubVars, filter, start, received>>

\* RecvError::Lagged: the loop warns and continues.
recv_lagged(s) ==
    /\ Subscribed(s)
    /\ next[s] < Oldest
    /\ skipped' = [skipped EXCEPT ![s] = @ + (Oldest - next[s])]
    /\ next' = [next EXCEPT ![s] = Oldest]
    /\ UNCHANGED <<pubVars, filter, start, received>>

-----------------------------------------------------------------------------
BusInit ==
    /\ stored = <<>>
    /\ sent = <<>>
    /\ publishing = [p \in Publishers |-> NoEvent]
    /\ faults = 0
    /\ filter = [s \in Subscribers |-> {}]
    /\ start = [s \in Subscribers |-> 0]
    /\ next = [s \in Subscribers |-> 0]
    /\ received = [s \in Subscribers |-> <<>>]
    /\ skipped = [s \in Subscribers |-> 0]

UnderWay == {p \in Publishers : publishing[p] # NoEvent}

PublishStep ==
    \E p \in Publishers :
        \/ \E e \in Events : \/ /\ Len(sent) + Cardinality(UnderWay) < MaxPublished
                              /\ store_event(p, e)
                           \/ store_fails(p, e)
        \/ send(p)

SubscriberStep ==
    \E s \in Subscribers : \/ \E f \in Filters : subscribe(s, f)
                           \/ recv(s)
                           \/ recv_lagged(s)

BusNext == PublishStep \/ SubscriberStep

BusSpec == BusInit /\ [][BusNext]_busVars

\* Every subscriber keeps calling recv, and a publish that was started goes on.
BusFairness ==
    /\ \A s \in Subscribers : WF_busVars(recv(s) \/ recv_lagged(s))
    /\ \A p \in Publishers : WF_busVars(send(p))

BusFairSpec == BusSpec /\ BusFairness

-----------------------------------------------------------------------------
(***************************************************************************)
(* Properties                                                              *)
(***************************************************************************)
\* Type invariant of the bus; a receiver never points past the next broadcast.
BusTypeOK ==
    /\ stored \in Seq(Events)
    /\ sent \in Seq(Events)
    /\ publishing \in [Publishers -> Events \cup {NoEvent}]
    /\ faults \in 0..MaxFaults
    /\ filter \in [Subscribers -> SUBSET Events]
    /\ start \in [Subscribers -> Nat]
    /\ next \in [Subscribers -> Nat]
    /\ received \in [Subscribers -> Seq(Nat)]
    /\ skipped \in [Subscribers -> Nat]
    /\ \A s \in Subscribers : next[s] \in start[s]..Len(sent) + 1

\* Whatever a subscriber can see can be replayed: with persistence, an event that
\* was broadcast is in the store, whatever errors the store reported.
SentIsStored ==
    Persistent => \A i \in DOMAIN sent : In(sent[i], stored)

\* A subscription receives only broadcasts that match its filter and were made
\* after it subscribed, in the order they were made and none twice, also when it
\* lags behind.
OrderedDelivery ==
    \A s \in Subscribers :
        /\ \A i \in DOMAIN received[s] :
              /\ received[s][i] \in start[s]..next[s] - 1
              /\ received[s][i] \in DOMAIN sent
              /\ sent[received[s][i]] \in filter[s]
        /\ \A i, j \in DOMAIN received[s] : i < j => received[s][i] < received[s][j]

\* The matching broadcasts made since it subscribed that a receiver has passed
\* without handing them out.
Missed(s) ==
    {k \in DOMAIN sent : /\ k \in start[s]..next[s] - 1
                         /\ sent[k] \in filter[s]
                         /\ ~In(k, received[s])}

\* No matching broadcast is missed without notice: a receiver has missed at most as
\* many as the losses recv wrote to stderr for it (a number that also counts
\* broadcasts its filter would have turned away).
NoSilentLoss ==
    \A s \in Subscribers : Cardinality(Missed(s)) <= skipped[s]

\* A subscriber that keeps calling recv gets past every broadcast: it receives it,
\* passes it over, or is told that it was lost.
EventuallyRead ==
    \A s \in Subscribers, k \in 1..MaxPublished :
        (Subscribed(s) /\ k <= Len(sent)) ~> next[s] > k
=============================================================================
