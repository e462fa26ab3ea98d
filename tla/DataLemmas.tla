----------------------------- MODULE DataLemmas -----------------------------
(***************************************************************************)
(* Lemmas about numbers, repeated steps and lists that the proofs about    *)
(* the components share.                                                   *)
(***************************************************************************)
EXTENDS Integers, SequencesExt, SequenceTheorems, FiniteSetTheorems, WellFoundedInduction, TLAPS

-----------------------------------------------------------------------------
(***************************************************************************)
(* Induction and iteration                                                 *)
(***************************************************************************)
\* Every set of natural numbers has a least member.
LEMMA LeastNatural ==
    ASSUME NEW T, T \subseteq Nat, T # {}
    PROVE  \E least \in T : \A n \in T : least <= n
<1>1. PICK least \in T : \A n \in T : <<n, least>> \notin OpToRel(<, Nat)
  BY NatLessThanWellFounded, WFMin
<1>2. \A n \in T : ~(n < least)
  BY <1>1 DEF OpToRel
<1>3. QED
  BY <1>2

\* The least of some numbers is one of them.
LEMMA MinIsOne ==
    ASSUME NEW T, T \subseteq Nat, T # {}
    PROVE  Min(T) \in T
BY LeastNatural DEF Min

\* Induction, for a set of numbers rather than a predicate.
LEMMA SetInduction ==
    ASSUME NEW N \in Nat, NEW P, 0 \in P, \A n \in 1..N : n - 1 \in P => n \in P
    PROVE  0..N \subseteq P
<1> DEFINE bad == {n \in 0..N : n \notin P}
<1> SUFFICES ASSUME bad # {} PROVE FALSE
  OBVIOUS
<1>0. bad \subseteq Nat
  OBVIOUS
<1>1. PICK m \in bad : \A n \in bad : m <= n
  <2> HIDE DEF bad
  <2> QED
    BY <1>0, LeastNatural
<1>2. m # 0 /\ m - 1 \in 0..N
  OBVIOUS
<1>3. m - 1 \in P
  BY <1>1, <1>2
<1>4. QED
  BY <1>2, <1>3

\* g yields the states of a step that is repeated N times from a start.
Iterates(g, A, start, N, step) ==
    /\ g \in [0..N -> A]
    /\ g[0] = start
    /\ \A n \in 1..N : g[n] = step[n][g[n - 1]]

\* Every step can be repeated.
LEMMA Iteration ==
    ASSUME NEW A, NEW start \in A, NEW N \in Nat, NEW step \in [1..N -> [A -> A]]
    PROVE  \E g : Iterates(g, A, start, N, step)
<1> DEFINE upto(m) == {g \in [0..m -> A] : /\ g[0] = start
                                          /\ \A n \in 1..m : g[n] = step[n][g[n - 1]]}
           P == {m \in 0..N : upto(m) # {}}
<1>1. 0 \in P
  <2>1. [n \in 0..0 |-> start] \in upto(0)
    OBVIOUS
  <2> QED
    BY <2>1
<1>2. ASSUME NEW m \in 1..N, m - 1 \in P
      PROVE  m \in P
  <2>1. PICK g : g \in upto(m - 1)
    BY <1>2
  <2>2. g[m - 1] \in A
    BY <2>1
  <2>3. step[m][g[m - 1]] \in A
    BY <2>2
  <2> DEFINE h == [n \in 0..m |-> IF n = m THEN step[m][g[m - 1]] ELSE g[n]]
  <2>4. h \in [0..m -> A]
    BY <2>1, <2>3
  <2>5. h[0] = start
    BY <2>1
  <2>6. ASSUME NEW n \in 1..m
        PROVE  h[n] = step[n][h[n - 1]]
    <3>1. h[n - 1] = g[n - 1]
      OBVIOUS
    <3>2. CASE n = m
      BY <3>1, <3>2
    <3>3. CASE n # m
      <4>1. n \in 1..(m - 1) /\ h[n] = g[n]
        BY <3>3
      <4>2. QED
        BY <2>1, <3>1, <4>1
    <3>4. QED
      BY <3>2, <3>3
  <2>7. h \in upto(m)
    BY <2>4, <2>5, <2>6
  <2>8. m \in 0..N /\ upto(m) # {}
    <3> HIDE DEF h, upto
    <3> QED
      BY <2>7
  <2> QED
    BY <2>8
<1>3. 0..N \subseteq P
  <2> HIDE DEF P
  <2> QED
    BY <1>1, <1>2, SetInduction
<1>4. N \in P
  BY <1>3
<1> QED
  BY <1>4 DEF Iterates

-----------------------------------------------------------------------------
(***************************************************************************)
(* Lists                                                                   *)
(***************************************************************************)
\* The elements of a list.
LEMMA RangeFacts ==
    ASSUME NEW S, NEW list \in Seq(S)
    PROVE  /\ Range(list) \subseteq S
           /\ \A i \in 1..Len(list) : list[i] \in Range(list)
           /\ \A e \in Range(list) : \E i \in 1..Len(list) : e = list[i]
           /\ Range(list) = {list[i] : i \in 1..Len(list)}
           /\ list = <<>> <=> Range(list) = {}
<1>1. DOMAIN list = 1..Len(list) /\ \A i \in 1..Len(list) : list[i] \in S
  OBVIOUS
<1>2. list = <<>> <=> 1..Len(list) = {}
  <2>1. list = <<>> <=> Len(list) = 0
    OBVIOUS
  <2>2. Len(list) \in Nat
    OBVIOUS
  <2>3. Len(list) = 0 <=> 1..Len(list) = {}
    <3>1. CASE Len(list) = 0
      BY <3>1
    <3>2. CASE Len(list) # 0
      <4>1. 1 \in 1..Len(list)
        BY <2>2, <3>2
      <4>2. QED
        BY <3>2, <4>1
    <3>3. QED
      BY <3>1, <3>2
  <2>4. QED
    BY <2>1, <2>3
<1>3. Range(list) = {list[i] : i \in 1..Len(list)}
  BY <1>1 DEF Range
<1>4. QED
  BY <1>1, <1>2, <1>3

\* A list that gets one more element at its end.
LEMMA RangeAppend ==
    ASSUME NEW S, NEW list \in Seq(S), NEW e \in S
    PROVE  /\ Append(list, e) \in Seq(S)
           /\ Len(Append(list, e)) = Len(list) + 1
           /\ Append(list, e)[Len(list) + 1] = e
           /\ \A i \in 1..Len(list) : Append(list, e)[i] = list[i]
           /\ Range(Append(list, e)) = Range(list) \cup {e}
<1> DEFINE new == Append(list, e)
<1>1. /\ new \in Seq(S) /\ Len(new) = Len(list) + 1
      /\ new[Len(list) + 1] = e /\ \A i \in 1..Len(list) : new[i] = list[i]
  OBVIOUS
<1> HIDE DEF new
<1>2. Range(new) = Range(list) \cup {e}
  <2>1. Range(new) = {new[i] : i \in 1..(Len(list) + 1)}
    BY <1>1, RangeFacts
  <2>2. Range(list) = {list[i] : i \in 1..Len(list)}
    BY RangeFacts
  <2>3. 1..(Len(list) + 1) = 1..Len(list) \cup {Len(list) + 1}
    OBVIOUS
  <2>4. QED
    BY <1>1, <2>1, <2>2, <2>3
<1>3. QED
  BY <1>1, <1>2 DEF new

\* A list that loses its first element.
LEMMA RangeTail ==
    ASSUME NEW S, NEW list \in Seq(S), list # <<>>
    PROVE  /\ Head(list) = list[1] /\ list[1] \in S
           /\ Tail(list) \in Seq(S)
           /\ Len(Tail(list)) = Len(list) - 1 /\ Len(list) >= 1
           /\ \A i \in 1..(Len(list) - 1) : Tail(list)[i] = list[i + 1]
           /\ Range(list) = {list[1]} \cup Range(Tail(list))
<1> DEFINE rest == Tail(list)
<1>1. /\ Head(list) = list[1] /\ list[1] \in S
      /\ rest \in Seq(S) /\ Len(rest) = Len(list) - 1 /\ Len(list) >= 1
      /\ \A i \in 1..(Len(list) - 1) : rest[i] = list[i + 1]
  OBVIOUS
<1> HIDE DEF rest
<1>2. Range(list) = {list[1]} \cup Range(rest)
  <2>1. Range(rest) = {rest[i] : i \in 1..(Len(list) - 1)}
    BY <1>1, RangeFacts
  <2>2. Range(list) = {list[i] : i \in 1..Len(list)}
    BY RangeFacts
  <2>3. \A i \in 1..Len(list) : i = 1 \/ (i - 1 \in 1..(Len(list) - 1) /\ list[i] = rest[i - 1])
    BY <1>1
  <2>4. QED
    BY <1>1, <2>1, <2>2, <2>3
<1>3. QED
  BY <1>1, <1>2 DEF rest

\* What an element of a list leaves behind when it is removed.
LEMMA RemoveOne ==
    ASSUME NEW S, NEW list \in Seq(S), NEW i \in DOMAIN list
    PROVE  /\ RemoveAt(list, i) \in Seq(S)
           /\ Len(RemoveAt(list, i)) = Len(list) - 1
           /\ Range(RemoveAt(list, i)) \cup {list[i]} = Range(list)
<1> DEFINE rest == RemoveAt(list, i)
<1>1. rest = SubSeq(list, 1, i - 1) \o SubSeq(list, i + 1, Len(list))
  BY DEF RemoveAt
<1>2. /\ rest \in Seq(S) /\ Len(rest) = Len(list) - 1
      /\ \A j \in 1..(Len(list) - 1) : rest[j] = IF j < i THEN list[j] ELSE list[j + 1]
  BY <1>1, SMTT(30)
<1>3. \A j \in DOMAIN list : j < i => list[j] = rest[j] /\ j \in DOMAIN rest
  BY <1>2
<1>4. \A j \in DOMAIN list : j > i => list[j] = rest[j - 1] /\ j - 1 \in DOMAIN rest
  BY <1>2
<1>5. \A j \in DOMAIN rest : rest[j] \in Range(list)
  BY <1>2, SMTT(30) DEF Range
<1>6. \A j \in DOMAIN list : list[j] \in Range(rest) \cup {list[i]}
  <2> TAKE j \in DOMAIN list
  <2>1. CASE j < i
    BY <1>3, <2>1 DEF Range
  <2>2. CASE j > i
    BY <1>4, <2>2 DEF Range
  <2>3. CASE j = i
    BY <2>3
  <2>4. QED
    BY <2>1, <2>2, <2>3
<1>7. Range(rest) \cup {list[i]} = Range(list)
  <2> HIDE DEF rest
  <2> QED
    BY <1>5, <1>6 DEF Range
<1>8. QED
  BY <1>2, <1>7

\* A sequence and its last element.
LEMMA LastOne ==
  ASSUME NEW S, NEW seq \in Seq(S), NEW e \in S
  PROVE  /\ Append(seq, e) \in Seq(S) /\ Len(Append(seq, e)) = Len(seq) + 1 /\ Len(seq) \in Nat
         /\ DOMAIN seq = 1..Len(seq) /\ DOMAIN Append(seq, e) = 1..Len(seq) + 1
         /\ \A i \in 1..Len(seq) : Append(seq, e)[i] = seq[i]
         /\ Append(seq, e)[Len(seq) + 1] = e
         /\ Front(Append(seq, e)) = seq /\ Last(Append(seq, e)) = e
<1>1. /\ Append(seq, e) \in Seq(S) /\ Len(Append(seq, e)) = Len(seq) + 1 /\ Len(seq) \in Nat
      /\ \A i \in 1..Len(seq) : Append(seq, e)[i] = seq[i]
      /\ Append(seq, e)[Len(seq) + 1] = e
  BY AppendProperties, LenProperties
<1>2. DOMAIN seq = 1..Len(seq) /\ DOMAIN Append(seq, e) = 1..Len(seq) + 1
  BY <1>1, LenProperties
<1>3. Front(Append(seq, e)) = seq
  <2>1. PICK all \in Seq(S) : all = Append(seq, e)
    BY <1>1
  <2>2. \A i \in 1..Len(seq) : all[i] \in S
    BY <1>1, <2>1, ElementOfSeq
  <2>3. /\ SubSeq(all, 1, Len(seq)) \in Seq(S)
        /\ Len(SubSeq(all, 1, Len(seq))) = IF 1 <= Len(seq) THEN Len(seq) - 1 + 1 ELSE 0
        /\ \A i \in 1..Len(seq) - 1 + 1 : SubSeq(all, 1, Len(seq))[i] = all[1 + i - 1]
    BY <1>1, <2>2, SubSeqProperties
  <2>4. PICK front \in Seq(S) : front = SubSeq(all, 1, Len(seq))
    BY <2>3
  <2>5. Len(front) = Len(seq) /\ \A i \in 1..Len(seq) : front[i] = seq[i]
    BY <1>1, <2>1, <2>3, <2>4
  <2>6. front = seq
    BY <2>5, SeqEqual
  <2>7. Front(all) = SubSeq(all, 1, Len(seq))
    BY <1>1, <2>1 DEF Front
  <2>8. QED
    BY <2>1, <2>4, <2>6, <2>7
<1>4. Last(Append(seq, e)) = e
  BY <1>1 DEF Last
<1>5. QED
  BY <1>1, <1>2, <1>3, <1>4

\* A list has at most as many elements as places, and as many if each is there once.
LEMMA RangeCounted ==
  ASSUME NEW S, NEW list \in Seq(S)
  PROVE  /\ IsFiniteSet(Range(list)) /\ Cardinality(Range(list)) \in Nat /\ Len(list) \in Nat
         /\ Cardinality(Range(list)) <= Len(list)
         /\ IsInjective(list) => Cardinality(Range(list)) = Len(list)
<1>1. DOMAIN list = 1..Len(list) /\ Len(list) \in Nat
  BY LenProperties
<1>2. IsFiniteSet(1..Len(list)) /\ Cardinality(1..Len(list)) = Len(list)
  BY <1>1, FS_Interval
<1>3. list \in [1..Len(list) -> Range(list)]
  BY <1>1 DEF Range
<1>4. list \in Surjection(1..Len(list), Range(list))
  BY <1>1, <1>3 DEF Surjection, Range
<1>5. /\ IsFiniteSet(Range(list)) /\ Cardinality(Range(list)) <= Cardinality(1..Len(list))
      /\ Cardinality(Range(list)) = Cardinality(1..Len(list))
             <=> list \in Injection(1..Len(list), Range(list))
  BY <1>2, <1>4, FS_Surjection
<1>6. IsInjective(list) => list \in Injection(1..Len(list), Range(list))
  BY <1>1, <1>3 DEF IsInjective, Injection
<1>7. QED
  BY <1>1, <1>2, <1>5, <1>6, FS_CardinalityType

\* Finitely many elements can be listed in some order, each once.
LEMMA Arranged ==
  ASSUME NEW S, IsFiniteSet(S)
  PROVE  /\ SetToSeqs(S) # {}
         /\ \A list \in SetToSeqs(S) : list \in Seq(S) /\ Range(list) = S /\ IsInjective(list)
<1>1. PICK n \in Nat : n = Cardinality(S)
  BY FS_CardinalityType
<1>2. SetToSeqs(S) = {f \in [1..n -> S] : \A i, j \in 1..n : i # j => f[i] # f[j]}
  BY <1>1 DEF SetToSeqs
<1>3. SetToSeqs(S) # {}
  <2>1. PICK f : f \in Bijection(1..n, S)
    BY <1>1, FS_CardinalityType DEF ExistsBijection
  <2>2. f \in [1..n -> S] /\ \A i, j \in 1..n : i # j => f[i] # f[j]
    BY <2>1 DEF Bijection, Injection, IsInjective
  <2>3. QED
    BY <1>2, <2>2
<1>4. ASSUME NEW list \in SetToSeqs(S)
      PROVE  list \in Seq(S) /\ Range(list) = S /\ IsInjective(list)
  <2>1. list \in [1..n -> S] /\ \A i, j \in 1..n : i # j => list[i] # list[j]
    BY <1>2, <1>4
  <2>2. list \in Seq(S) /\ Len(list) = n /\ DOMAIN list = 1..n
    BY <2>1
  <2>3. IsInjective(list)
    BY <2>1, <2>2 DEF IsInjective
  <2>4. Range(list) \in SUBSET S
    BY <2>2, RangeFacts
  <2>5. Cardinality(Range(list)) = n
    BY <2>2, <2>3, RangeCounted
  <2>6. Range(list) = S
    BY <1>1, <2>4, <2>5, FS_Subset
  <2>7. QED
    BY <2>2, <2>3, <2>6
<1>5. QED
  BY <1>3, <1>4

\* Two lists one after the other.
LEMMA RangeConcat ==
  ASSUME NEW S, NEW a \in Seq(S), NEW b \in Seq(S)
  PROVE  /\ a \o b \in Seq(S) /\ Range(a \o b) = Range(a) \cup Range(b)
         /\ IsInjective(a) /\ IsInjective(b) /\ Range(a) \cap Range(b) = {} => IsInjective(a \o b)
<1>1. PICK k \in Nat : k = Len(a) /\ DOMAIN a = 1..k
  BY LenProperties
<1>2. PICK m \in Nat : m = Len(b) /\ DOMAIN b = 1..m
  BY LenProperties
<1>3. PICK c \in Seq(S) : c = a \o b
  BY ConcatProperties
<1>4. /\ DOMAIN c = 1..k + m
      /\ \A i \in 1..k + m : c[i] = IF i <= k THEN a[i] ELSE b[i - k]
  BY <1>1, <1>2, <1>3, ConcatProperties, LenProperties
<1>5. \A i \in 1..k + m : \/ i \in 1..k /\ c[i] = a[i]
                          \/ i - k \in 1..m /\ i > k /\ c[i] = b[i - k]
  BY <1>1, <1>2, <1>4
<1>6. \A i \in 1..k : i \in 1..k + m /\ c[i] = a[i]
  BY <1>1, <1>2, <1>4
<1>7. \A i \in 1..m : k + i \in 1..k + m /\ c[k + i] = b[i]
  <2>1. \A i \in 1..m : k + i \in 1..k + m /\ ~(k + i <= k) /\ k + i - k = i
    OBVIOUS
  <2>2. QED
    BY <1>4, <2>1
<1>8. Range(c) = Range(a) \cup Range(b)
  <2>1. /\ Range(a) = {a[i] : i \in 1..k} /\ Range(b) = {b[i] : i \in 1..m}
        /\ Range(c) = {c[i] : i \in 1..k + m}
    BY <1>1, <1>2, <1>4 DEF Range
  <2>2. Range(c) \subseteq Range(a) \cup Range(b)
    BY <1>5, <2>1
  <2>3. Range(a) \subseteq Range(c) /\ Range(b) \subseteq Range(c)
    BY <1>6, <1>7, <2>1
  <2>4. QED
    BY <2>2, <2>3
<1>9. ASSUME IsInjective(a), IsInjective(b), Range(a) \cap Range(b) = {} PROVE IsInjective(c)
  <2>1. SUFFICES ASSUME NEW i \in 1..k + m, NEW j \in 1..k + m, c[i] = c[j]
                 PROVE  i = j
    BY <1>4 DEF IsInjective
  <2>2. \A p \in 1..k, q \in 1..m : a[p] # b[q]
    BY <1>1, <1>2, <1>9 DEF Range
  <2>3. CASE i \in 1..k /\ c[i] = a[i] /\ j \in 1..k /\ c[j] = a[j]
    BY <1>1, <1>9, <2>1, <2>3 DEF IsInjective
  <2>4. CASE i - k \in 1..m /\ i > k /\ c[i] = b[i - k] /\ j - k \in 1..m /\ c[j] = b[j - k]
    <3>1. i - k = j - k
      BY <1>2, <1>9, <2>1, <2>4 DEF IsInjective
    <3>2. QED
      BY <3>1
  <2>5. QED
    BY <1>5, <2>1, <2>2, <2>3, <2>4
<1>10. QED
  BY <1>3, <1>8, <1>9

\* A list without its first element.
LEMMA OnceTail ==
  ASSUME NEW S, NEW list \in Seq(S), list # <<>>, IsInjective(list)
  PROVE  /\ Head(list) \in S /\ Tail(list) \in Seq(S)
         /\ IsInjective(Tail(list)) /\ Head(list) \notin Range(Tail(list))
         /\ Range(list) = {Head(list)} \cup Range(Tail(list))
<1>1. PICK rest \in Seq(S) : rest = Tail(list)
  BY RangeTail
<1>2. PICK k \in Nat : k = Len(list) - 1 /\ Len(rest) = k
  BY <1>1, RangeTail, LenProperties
<1>3. DOMAIN rest = 1..k /\ DOMAIN list = 1..k + 1
  BY <1>2, LenProperties
<1>4. /\ Head(list) = list[1] /\ list[1] \in S
      /\ \A i \in 1..k : rest[i] = list[i + 1]
      /\ Range(list) = {list[1]} \cup Range(rest)
  BY <1>1, <1>2, RangeTail
<1>5. IsInjective(rest)
  <2>1. SUFFICES ASSUME NEW i \in 1..k, NEW j \in 1..k, rest[i] = rest[j]
                 PROVE  i = j
    BY <1>3 DEF IsInjective
  <2>2. i + 1 \in 1..k + 1 /\ j + 1 \in 1..k + 1 /\ list[i + 1] = list[j + 1]
    BY <1>4, <2>1
  <2>3. i + 1 = j + 1
    BY <1>3, <2>2 DEF IsInjective
  <2>4. QED
    BY <2>3
<1>6. list[1] \notin Range(rest)
  <2>1. SUFFICES ASSUME NEW i \in 1..k, rest[i] = list[1] PROVE FALSE
    BY <1>3 DEF Range
  <2>2. i + 1 \in 1..k + 1 /\ 1 \in 1..k + 1 /\ list[i + 1] = list[1]
    BY <1>4, <2>1
  <2>3. i + 1 = 1
    BY <1>3, <2>2 DEF IsInjective
  <2>4. QED
    BY <2>3
<1>7. QED
  BY <1>1, <1>4, <1>5, <1>6

\* A list with one more element at its end.
LEMMA OnceAppend ==
  ASSUME NEW S, NEW list \in Seq(S), NEW e \in S, IsInjective(list), e \notin Range(list)
  PROVE  IsInjective(Append(list, e))
<1>1. PICK k \in Nat : k = Len(list) /\ DOMAIN list = 1..k
  BY LenProperties
<1>2. PICK more \in Seq(S) : more = Append(list, e)
  BY RangeAppend
<1>3. /\ DOMAIN more = 1..k + 1 /\ \A i \in 1..k : more[i] = list[i]
      /\ more[k + 1] = e
  BY <1>1, <1>2, RangeAppend, LenProperties
<1>4. \A i \in 1..k : list[i] # e
  BY <1>1 DEF Range
<1>5. SUFFICES ASSUME NEW i \in 1..k + 1, NEW j \in 1..k + 1, more[i] = more[j]
               PROVE  i = j
  BY <1>2, <1>3 DEF IsInjective
<1>6. CASE i \in 1..k /\ j \in 1..k
  BY <1>1, <1>3, <1>5, <1>6 DEF IsInjective
<1>7. QED
  BY <1>3, <1>4, <1>5, <1>6

\* A list from its end.
LEMMA ReverseFacts ==
    ASSUME NEW S, NEW list \in Seq(S), NEW N \in Nat, N = Len(list)
    PROVE  /\ Reverse(list) \in Seq(S) /\ Len(Reverse(list)) = N
           /\ \A i \in 1..N : Reverse(list)[i] = list[N + 1 - i]
           /\ Range(Reverse(list)) = Range(list)
           /\ IsInjective(list) => IsInjective(Reverse(list))
<1>1. DOMAIN list = 1..N /\ \A i \in 1..N : list[i] \in S
  BY LenProperties
<1>2. PICK back : back = [i \in 1..N |-> list[(N - i) + 1]]
  OBVIOUS
<1>3. \A i \in 1..N : (N - i) + 1 \in 1..N /\ (N - i) + 1 = N + 1 - i
  OBVIOUS
<1>4. back \in [1..N -> S]
  BY <1>1, <1>2, <1>3
<1>5. back \in Seq(S) /\ Len(back) = N /\ DOMAIN back = 1..N
  BY <1>4
<1>6. \A i \in 1..N : back[i] = list[N + 1 - i]
  BY <1>2, <1>3
<1>7. Range(back) = Range(list)
  <2>1. ASSUME NEW e \in Range(back)
        PROVE  e \in Range(list)
    <3>1. PICK i \in 1..N : e = back[i]
      BY <1>5 DEF Range
    <3>2. N + 1 - i \in DOMAIN list
      BY <1>1
    <3>3. QED
      BY <1>6, <3>1, <3>2 DEF Range
  <2>2. ASSUME NEW e \in Range(list)
        PROVE  e \in Range(back)
    <3>1. PICK i \in 1..N : e = list[i]
      BY <1>1 DEF Range
    <3>2. N + 1 - i \in 1..N /\ N + 1 - (N + 1 - i) = i
      OBVIOUS
    <3>3. back[N + 1 - i] = e
      BY <1>6, <3>1, <3>2
    <3>4. QED
      BY <1>5, <3>2, <3>3 DEF Range
  <2>3. QED
    BY <2>1, <2>2
<1>8. ASSUME IsInjective(list)
      PROVE  IsInjective(back)
  <2>1. ASSUME NEW i \in 1..N, NEW j \in 1..N, back[i] = back[j]
        PROVE  i = j
    <3>1. N + 1 - i \in 1..N /\ N + 1 - j \in 1..N /\ list[N + 1 - i] = list[N + 1 - j]
      BY <1>6, <2>1
    <3>2. N + 1 - i = N + 1 - j
      BY <1>1, <1>8, <3>1 DEF IsInjective
    <3>3. QED
      BY <3>2
  <2>2. QED
    BY <1>5, <2>1 DEF IsInjective
<1>9. Reverse(list) = back
  BY <1>2 DEF Reverse
<1>10. QED
  BY <1>5, <1>6, <1>7, <1>8, <1>9

-----------------------------------------------------------------------------
(***************************************************************************)
(* Lists of lists                                                          *)
(***************************************************************************)
\* Induction over lists, for a set of lists rather than a predicate.
LEMMA ListInduction ==
    ASSUME NEW S, NEW P, <<>> \in P,
           \A list \in Seq(S), e \in S : list \in P => Append(list, e) \in P
    PROVE  Seq(S) \subseteq P
<1> SUFFICES ASSUME NEW list \in Seq(S) PROVE list \in P
  OBVIOUS
<1>1. PICK N \in Nat : N = Len(list)
  OBVIOUS
<1> DEFINE Q == {n \in 0..N : \A some \in Seq(S) : Len(some) = n => some \in P}
<1>2. 0 \in Q
  <2>1. \A some \in Seq(S) : Len(some) = 0 => some = <<>>
    BY EmptySeq
  <2>2. QED
    BY <1>1, <2>1
<1>3. ASSUME NEW n \in 1..N, n - 1 \in Q
      PROVE  n \in Q
  <2>1. ASSUME NEW some \in Seq(S), Len(some) = n
        PROVE  some \in P
    <3>1. some # <<>>
      BY <2>1
    <3>2. PICK rest \in Seq(S), e \in S : some = Append(rest, e)
      BY <3>1, SequenceEmptyOrAppend
    <3>3. Len(rest) = n - 1
      BY <2>1, <3>2
    <3>4. rest \in P
      BY <1>3, <3>3
    <3>5. QED
      BY <3>2, <3>4
  <2>2. QED
    BY <1>1, <2>1
<1>4. 0..N \subseteq Q
  <2> HIDE DEF Q
  <2> QED
    BY <1>2, <1>3, SetInduction
<1>5. N \in Q
  BY <1>1, <1>4
<1>6. QED
  BY <1>1, <1>5

\* g yields the lists that are joined when the first lists of a list are.
Joins(g, S, lists) ==
    /\ g \in [0..Len(lists) -> Seq(S)]
    /\ g[0] = <<>>
    /\ \A n \in 1..Len(lists) : g[n] = g[n - 1] \o lists[n]

\* The lists of a list can be joined one after the other.
LEMMA JoinsExist ==
    ASSUME NEW S, NEW lists \in Seq(Seq(S))
    PROVE  \E g : Joins(g, S, lists)
<1> DEFINE A == Seq(S)
           step == [n \in 1..Len(lists) |-> [a \in A |-> a \o lists[n]]]
<1>1. step \in [1..Len(lists) -> [A -> A]]
  OBVIOUS
<1>2. <<>> \in A /\ Len(lists) \in Nat
  OBVIOUS
<1>3. PICK g : Iterates(g, A, <<>>, Len(lists), step)
  <2> HIDE DEF A, step
  <2> QED
    BY <1>1, <1>2, Iteration
<1>4. ASSUME NEW n \in 1..Len(lists)
      PROVE  g[n] = g[n - 1] \o lists[n]
  <2>1. g[n - 1] \in A
    <3> HIDE DEF A, step
    <3>1. n - 1 \in 0..Len(lists)
      BY <1>2
    <3>2. QED
      BY <1>3, <3>1 DEF Iterates
  <2>2. step[n][g[n - 1]] = g[n - 1] \o lists[n]
    BY <2>1
  <2> HIDE DEF step
  <2>3. QED
    BY <1>3, <2>2 DEF Iterates
<1>5. QED
  BY <1>3, <1>4 DEF Iterates, Joins

\* What FlattenSeq returns is what they are joined to.
LEMMA FlattenJoins ==
    ASSUME NEW S, NEW lists \in Seq(Seq(S)), NEW g, Joins(g, S, lists)
    PROVE  FlattenSeq(lists) = g[Len(lists)]
<1> DEFINE N == Len(lists)
           Flat(f) == f = [i \in 1..N |-> IF i = 1 THEN lists[i] ELSE f[i - 1] \o lists[i]]
<1>1. N \in Nat
  OBVIOUS
<1>2. CASE N = 0
  <2>1. lists = <<>>
    BY <1>2
  <2>2. FlattenSeq(lists) = lists
    BY <1>2 DEF FlattenSeq
  <2>3. QED
    BY <1>2, <2>1, <2>2 DEF Joins
<1>3. CASE N # 0
  <2> DEFINE h == [i \in 1..N |-> g[i]]
  <2>1. \A i \in 1..N : g[i] = g[i - 1] \o lists[i]
    BY DEF Joins
  <2>2. g[1] = lists[1]
    <3>1. 1 \in 1..N
      BY <1>1, <1>3
    <3>2. g[1] = g[0] \o lists[1] /\ g[0] = <<>>
      <4>1. g[1] = g[1 - 1] \o lists[1]
        BY <2>1, <3>1
      <4>2. g[0] = <<>>
        BY DEF Joins
      <4>3. 1 - 1 = 0
        OBVIOUS
      <4>4. g[1] = g[0] \o lists[1]
        BY <4>1, <4>3, Zenon
      <4>5. QED
        BY <4>2, <4>4
    <3>3. lists[1] \in Seq(S)
      BY <3>1
    <3>4. QED
      BY <3>2, <3>3
  <2>3. Flat(h)
    <3>1. ASSUME NEW i \in 1..N
          PROVE  h[i] = IF i = 1 THEN lists[i] ELSE h[i - 1] \o lists[i]
      <4>1. CASE i = 1
        BY <2>2, <4>1
      <4>2. CASE i # 1
        <5>1. i - 1 \in 1..N
          BY <1>1, <4>2
        <5>2. QED
          BY <2>1, <4>2, <5>1
      <4>3. QED
        BY <4>1, <4>2
    <3>2. QED
      BY <3>1
  <2>4. FlattenSeq(lists) = (CHOOSE f : Flat(f))[N]
    BY <1>3 DEF FlattenSeq
  <2>5. PICK f : f = CHOOSE e : Flat(e)
    OBVIOUS
  <2>6. Flat(f)
    <3> HIDE DEF Flat, h
    <3> QED
      BY <2>3, <2>5
  <2>7. f = [i \in 1..N |-> IF i = 1 THEN lists[i] ELSE f[i - 1] \o lists[i]]
    BY <2>6
  <2> DEFINE P == {n \in 0..N : n = 0 \/ f[n] = g[n]}
  <2>8. 0 \in P
    BY <1>1
  <2>9. ASSUME NEW n \in 1..N, n - 1 \in P
        PROVE  n \in P
    <3>1. f[n] = IF n = 1 THEN lists[n] ELSE f[n - 1] \o lists[n]
      BY <2>7
    <3>2. CASE n = 1
      BY <2>2, <3>1, <3>2
    <3>3. CASE n # 1
      <4>1. f[n - 1] = g[n - 1]
        BY <2>9, <3>3
      <4>2. f[n] = g[n]
        BY <2>1, <3>1, <3>3, <4>1
      <4>3. QED
        BY <4>2
    <3>4. QED
      BY <3>2, <3>3
  <2>10. 0..N \subseteq P
    <3> HIDE DEF P, N
    <3> QED
      BY <1>1, <2>8, <2>9, SetInduction
  <2>11. N \in P
    BY <1>1, <2>10
  <2>12. QED
    BY <1>3, <2>4, <2>5, <2>11
<1>4. QED
  BY <1>2, <1>3

\* Joining one list more.
LEMMA FlattenAppend ==
    ASSUME NEW S, NEW lists \in Seq(Seq(S)), NEW list \in Seq(S)
    PROVE  /\ FlattenSeq(lists) \in Seq(S)
           /\ FlattenSeq(Append(lists, list)) = FlattenSeq(lists) \o list
           /\ FlattenSeq(<<>>) = <<>>
<1> DEFINE N == Len(lists)
           all == Append(lists, list)
<1>1. PICK g : Joins(g, S, lists)
  BY JoinsExist
<1>2. /\ all \in Seq(Seq(S)) /\ Len(all) = N + 1 /\ N \in Nat
      /\ all[N + 1] = list /\ \A i \in 1..N : all[i] = lists[i]
  OBVIOUS
<1> DEFINE h == [n \in 0..(N + 1) |-> IF n = N + 1 THEN g[N] \o list ELSE g[n]]
<1>3. FlattenSeq(lists) = g[N] /\ g[N] \in Seq(S)
  <2>1. g[N] \in Seq(S)
    BY <1>1, <1>2 DEF Joins
  <2>2. QED
    BY <1>1, <2>1, FlattenJoins
<1>4. Joins(h, S, all)
  <2> HIDE DEF all, N
  <2>1. \A n \in 0..N : g[n] \in Seq(S)
    BY <1>1 DEF Joins, N
  <2>2. h \in [0..(N + 1) -> Seq(S)]
    <3>1. g[N] \o list \in Seq(S)
      BY <1>3
    <3>2. ASSUME NEW n \in 0..(N + 1) PROVE h[n] \in Seq(S)
      <4>1. CASE n = N + 1
        BY <3>1, <4>1
      <4>2. CASE n # N + 1
        <5>1. n \in 0..N
          BY <1>2, <4>2
        <5>2. QED
          BY <2>1, <4>2, <5>1
      <4>3. QED
        BY <4>1, <4>2
    <3>3. QED
      BY <3>2
  <2>3. h[0] = <<>>
    BY <1>1, <1>2 DEF Joins
  <2>4. ASSUME NEW n \in 1..(N + 1) PROVE h[n] = h[n - 1] \o all[n]
    <3>1. n - 1 \in 0..N /\ h[n - 1] = g[n - 1]
      BY <1>2
    <3>2. CASE n = N + 1
      <4>1. h[n] = g[N] \o list /\ h[n - 1] = g[N] /\ all[n] = list
        BY <1>2, <3>1, <3>2 DEF all
      <4>2. QED
        BY <4>1
    <3>3. CASE n # N + 1
      <4>1. n \in 1..N /\ h[n] = g[n] /\ all[n] = lists[n]
        BY <1>2, <3>3
      <4>2. g[n] = g[n - 1] \o lists[n]
        BY <1>1, <4>1 DEF Joins, N
      <4>3. QED
        BY <3>1, <4>1, <4>2
    <3>4. QED
      BY <3>2, <3>3
  <2>5. QED
    <3> HIDE DEF h
    <3> QED
      BY <1>2, <2>2, <2>3, <2>4 DEF Joins
<1>5. FlattenSeq(all) = h[N + 1]
  <2> HIDE DEF all, h
  <2> QED
    BY <1>2, <1>4, FlattenJoins
<1>6. h[N + 1] = g[N] \o list
  BY <1>2
<1>7. FlattenSeq(<<>>) = <<>>
  BY DEF FlattenSeq
<1>8. QED
  <2> HIDE DEF h
  <2> QED
    BY <1>3, <1>5, <1>6, <1>7

\* Joining two lists of lists.
LEMMA FlattenConcat ==
    ASSUME NEW S, NEW lists \in Seq(Seq(S)), NEW more \in Seq(Seq(S))
    PROVE  FlattenSeq(lists \o more) = FlattenSeq(lists) \o FlattenSeq(more)
<1> DEFINE P == {some \in Seq(Seq(S)) :
                    FlattenSeq(lists \o some) = FlattenSeq(lists) \o FlattenSeq(some)}
<1>1. <<>> \in P
  <2>1. FlattenSeq(lists) \in Seq(S) /\ FlattenSeq(<<>>) = <<>>
    BY FlattenAppend, EmptySeq
  <2>2. lists \o <<>> = lists /\ FlattenSeq(lists) \o <<>> = FlattenSeq(lists)
    BY <2>1, ConcatEmptySeq
  <2>3. QED
    BY <2>1, <2>2
<1>2. ASSUME NEW some \in Seq(Seq(S)), NEW list \in Seq(S), some \in P
      PROVE  Append(some, list) \in P
  <2>1. Append(some, list) \in Seq(Seq(S)) /\ lists \o some \in Seq(Seq(S))
    OBVIOUS
  <2>2. lists \o Append(some, list) = Append(lists \o some, list)
    OBVIOUS
  <2>3. FlattenSeq(lists \o Append(some, list)) = FlattenSeq(lists \o some) \o list
    BY <2>1, <2>2, FlattenAppend
  <2>4. FlattenSeq(Append(some, list)) = FlattenSeq(some) \o list
    BY FlattenAppend
  <2>5. FlattenSeq(lists) \in Seq(S) /\ FlattenSeq(some) \in Seq(S)
    BY FlattenAppend
  <2>6. FlattenSeq(lists \o some) = FlattenSeq(lists) \o FlattenSeq(some)
    BY <1>2
  <2>7. (FlattenSeq(lists) \o FlattenSeq(some)) \o list
           = FlattenSeq(lists) \o (FlattenSeq(some) \o list)
    <3>1. \A a, b, c \in Seq(S) : (a \o b) \o c = a \o (b \o c)
      BY ConcatAssociative
    <3>2. QED
      BY <2>5, <3>1
  <2>8. QED
    BY <2>1, <2>3, <2>4, <2>6, <2>7
<1>3. Seq(Seq(S)) \subseteq P
  <2> HIDE DEF P
  <2> QED
    BY <1>1, <1>2, ListInduction
<1>4. QED
  BY <1>3

\* The elements of the joined lists.
LEMMA FlattenRange ==
    ASSUME NEW S, NEW lists \in Seq(Seq(S))
    PROVE  /\ FlattenSeq(lists) \in Seq(S)
           /\ \A e : e \in Range(FlattenSeq(lists)) <=> \E i \in DOMAIN lists : e \in Range(lists[i])
<1> DEFINE P == {some \in Seq(Seq(S)) :
                    \A e : e \in Range(FlattenSeq(some))
                              <=> \E i \in DOMAIN some : e \in Range(some[i])}
<1>1. <<>> \in P
  <2>1. FlattenSeq(<<>>) = <<>>
    BY FlattenAppend, EmptySeq
  <2>2. QED
    BY <2>1 DEF Range
<1>2. ASSUME NEW some \in Seq(Seq(S)), NEW list \in Seq(S), some \in P
      PROVE  Append(some, list) \in P
  <2> DEFINE all == Append(some, list)
  <2>1. /\ all \in Seq(Seq(S)) /\ DOMAIN all = DOMAIN some \cup {Len(some) + 1}
        /\ all[Len(some) + 1] = list /\ \A i \in DOMAIN some : all[i] = some[i]
    OBVIOUS
  <2>2. FlattenSeq(all) = FlattenSeq(some) \o list /\ FlattenSeq(some) \in Seq(S)
    BY FlattenAppend
  <2>3. Range(FlattenSeq(all)) = Range(FlattenSeq(some)) \cup Range(list)
    BY <2>2, RangeConcatenation
  <2> HIDE DEF all
  <2>4. QED
    BY <1>2, <2>1, <2>3 DEF all
<1>3. Seq(Seq(S)) \subseteq P
  <2> HIDE DEF P
  <2> QED
    BY <1>1, <1>2, ListInduction
<1>4. QED
  BY <1>3, FlattenAppend, EmptySeq

\* What is put for each piece of a text; the text in which every piece has become that.
Parts(text, put) == [i \in DOMAIN text |-> put[text[i]]]
PutInto(text, put) == FlattenSeq(Parts(text, put))

\* What is put for each piece of a text is a list of what is put.
LEMMA PutParts ==
    ASSUME NEW S, NEW T, NEW put \in [S -> T], NEW text \in Seq(S)
    PROVE  Parts(text, put) \in Seq(T)
<1>1. PICK n \in Nat : n = Len(text) /\ DOMAIN text = 1..n
  BY LenProperties
<1> DEFINE parts == [i \in 1..n |-> put[text[i]]]
<1>2. \A i \in 1..n : put[text[i]] \in T
  BY <1>1, ElementOfSeq
<1>3. parts \in Seq(T) /\ Len(parts) = n
  BY <1>2, IsASeq
<1>4. Parts(text, put) = parts
  BY <1>1 DEF Parts
<1>5. QED
  BY <1>3, <1>4

\* What is put for a text with one more piece.
LEMMA PartsAppend ==
    ASSUME NEW S, NEW T, NEW put \in [S -> T], NEW text \in Seq(S), NEW piece \in S
    PROVE  Parts(Append(text, piece), put) = Append(Parts(text, put), put[piece])
<1> DEFINE more == Append(text, piece)
           parts == Parts(text, put)
           all == Parts(more, put)
           ends == Append(parts, put[piece])
<1>1. PICK n \in Nat : n = Len(text) /\ DOMAIN text = 1..n
  BY LenProperties
<1>2. /\ more \in Seq(S) /\ Len(more) = n + 1 /\ more[n + 1] = piece
      /\ DOMAIN more = 1..(n + 1) /\ \A i \in 1..n : more[i] = text[i]
  BY <1>1, AppendProperties
<1>3. /\ parts \in Seq(T) /\ DOMAIN parts = 1..n /\ Len(parts) = n
      /\ \A i \in 1..n : parts[i] = put[text[i]]
  <2>1. parts \in Seq(T)
    BY PutParts
  <2>2. DOMAIN parts = 1..n /\ \A i \in 1..n : parts[i] = put[text[i]]
    BY <1>1 DEF Parts
  <2> HIDE DEF parts
  <2>3. Len(parts) = n
    BY <1>1, <2>1, <2>2, LenProperties
  <2>4. QED
    BY <2>1, <2>2, <2>3
<1>4. /\ all \in Seq(T) /\ Len(all) = n + 1
      /\ \A i \in 1..(n + 1) : all[i] = put[more[i]]
  <2>0. more \in Seq(S) /\ DOMAIN more = 1..(n + 1)
    BY <1>2
  <2> HIDE DEF more
  <2>1. all \in Seq(T)
    BY <2>0, PutParts
  <2>2. DOMAIN all = 1..(n + 1) /\ \A i \in 1..(n + 1) : all[i] = put[more[i]]
    BY <2>0 DEF Parts
  <2> HIDE DEF all
  <2>3. Len(all) = n + 1
    BY <1>1, <2>1, <2>2, LenProperties
  <2>4. QED
    BY <2>1, <2>2, <2>3
<1>5. /\ ends \in Seq(T) /\ Len(ends) = n + 1 /\ ends[n + 1] = put[piece]
      /\ \A i \in 1..n : ends[i] = parts[i]
  <2>1. put[piece] \in T
    OBVIOUS
  <2>2. Len(parts) = n
    BY <1>3
  <2> HIDE DEF parts
  <2>3. QED
    BY <1>3, <2>1, <2>2, AppendProperties
<1> HIDE DEF more, parts, all, ends
<1>6. \A i \in 1..(n + 1) : i \in 1..n \/ i = n + 1
  BY <1>1
<1>7. n + 1 \in 1..(n + 1) /\ \A i \in 1..n : i \in 1..(n + 1)
  BY <1>1
<1>8. \A i \in 1..n : all[i] = ends[i]
  BY <1>2, <1>3, <1>4, <1>5, <1>7
<1>9. all[n + 1] = ends[n + 1]
  BY <1>2, <1>4, <1>5, <1>7
<1>10. all = ends
  <2>1. Len(all) = n + 1 /\ Len(ends) = n + 1
    BY <1>2, <1>4, <1>5
  <2>2. \A i \in 1..(n + 1) : all[i] = ends[i]
    BY <1>6, <1>8, <1>9
  <2>3. QED
    BY <1>4, <1>5, <2>1, <2>2, SeqEqual
<1>11. QED
  BY <1>10 DEF all, ends, more, parts

\* What becomes of an empty text, and of a text by its last piece.
LEMMA PutAppend ==
    ASSUME NEW S, NEW put \in [S -> Seq(S)]
    PROVE  /\ PutInto(<<>>, put) = <<>>
           /\ \A text \in Seq(S) : PutInto(text, put) \in Seq(S)
           /\ \A text \in Seq(S), piece \in S :
                 PutInto(Append(text, piece), put) = PutInto(text, put) \o put[piece]
<1>1. PutInto(<<>>, put) = <<>>
  <2>1. Parts(<<>>, put) = <<>>
    BY DEF Parts
  <2>2. FlattenSeq(<<>>) = <<>>
    BY FlattenAppend, EmptySeq
  <2>3. QED
    BY <2>1, <2>2 DEF PutInto
<1>2. ASSUME NEW text \in Seq(S)
      PROVE  Parts(text, put) \in Seq(Seq(S)) /\ PutInto(text, put) \in Seq(S)
  <2>1. Parts(text, put) \in Seq(Seq(S))
    BY PutParts
  <2>2. FlattenSeq(Parts(text, put)) \in Seq(S)
    BY <2>1, FlattenRange
  <2>3. QED
    BY <2>1, <2>2 DEF PutInto
<1>3. ASSUME NEW text \in Seq(S), NEW piece \in S
      PROVE  PutInto(Append(text, piece), put) = PutInto(text, put) \o put[piece]
  <2> DEFINE parts == Parts(text, put)
             one == put[piece]
  <2>1. parts \in Seq(Seq(S)) /\ one \in Seq(S)
    BY <1>2
  <2>2. Parts(Append(text, piece), put) = Append(parts, one)
    <3> DEFINE L == Seq(S)
    <3>1. put \in [S -> L]
      OBVIOUS
    <3> HIDE DEF L
    <3>2. QED
      BY <3>1, PartsAppend
  <2>3. FlattenSeq(Append(parts, one)) = FlattenSeq(parts) \o one
    <3> HIDE DEF parts, one
    <3> QED
      BY <2>1, FlattenAppend
  <2>4. QED
    BY <2>2, <2>3 DEF PutInto
<1>4. QED
  BY <1>1, <1>2, <1>3

\* What becomes of one piece, and where the pieces that are in a text then come from.
LEMMA PutPieces ==
    ASSUME NEW S, NEW put \in [S -> Seq(S)]
    PROVE  /\ \A piece \in S : PutInto(<<piece>>, put) = put[piece]
           /\ \A text \in Seq(S) : \A e :
                 e \in Range(PutInto(text, put)) <=> \E p \in Range(text) : e \in Range(put[p])
<1>1. ASSUME NEW piece \in S
      PROVE  PutInto(<<piece>>, put) = put[piece]
  <2>1. <<>> \in Seq(S) /\ Append(<<>>, piece) = <<piece>>
    OBVIOUS
  <2>2. PutInto(Append(<<>>, piece), put) = <<>> \o put[piece]
    BY <2>1, PutAppend
  <2>3. <<>> \o put[piece] = put[piece]
    BY ConcatEmptySeq
  <2>4. QED
    BY <2>1, <2>2, <2>3
<1>2. ASSUME NEW text \in Seq(S), NEW e
      PROVE  e \in Range(PutInto(text, put)) <=> \E p \in Range(text) : e \in Range(put[p])
  <2> DEFINE parts == Parts(text, put)
  <2>1. /\ parts \in Seq(Seq(S)) /\ DOMAIN parts = DOMAIN text
        /\ \A i \in DOMAIN text : parts[i] = put[text[i]]
    <3> DEFINE L == Seq(S)
    <3>1. put \in [S -> L]
      OBVIOUS
    <3> HIDE DEF L
    <3>2. parts \in Seq(L)
      BY <3>1, PutParts
    <3>3. DOMAIN parts = DOMAIN text /\ \A i \in DOMAIN text : parts[i] = put[text[i]]
      BY DEF Parts
    <3>4. QED
      BY <3>2, <3>3 DEF L
  <2>2. PutInto(text, put) = FlattenSeq(parts)
    BY DEF PutInto
  <2> HIDE DEF parts
  <2>3. e \in Range(FlattenSeq(parts)) <=> \E i \in DOMAIN parts : e \in Range(parts[i])
    BY <2>1, FlattenRange
  <2>4. Range(text) = {text[i] : i \in DOMAIN text}
    BY DEF Range
  <2>5. QED
    BY <2>1, <2>2, <2>3, <2>4
<1>3. QED
  BY <1>1, <1>2

\* Putting into a text made of two.
LEMMA PutConcat ==
    ASSUME NEW S, NEW put \in [S -> Seq(S)], NEW text \in Seq(S), NEW more \in Seq(S)
    PROVE  PutInto(text \o more, put) = PutInto(text, put) \o PutInto(more, put)
<1> DEFINE P == {t \in Seq(S) : PutInto(text \o t, put) = PutInto(text, put) \o PutInto(t, put)}
<1>0. /\ \A t \in Seq(S) : PutInto(t, put) \in Seq(S)
      /\ \A t \in Seq(S), e \in S : PutInto(Append(t, e), put) = PutInto(t, put) \o put[e]
      /\ PutInto(<<>>, put) = <<>>
  BY PutAppend
<1>1. <<>> \in P
  <2>1. text \o <<>> = text /\ PutInto(text, put) \o <<>> = PutInto(text, put)
    BY <1>0, ConcatEmptySeq
  <2>2. QED
    BY <1>0, <2>1
<1>2. ASSUME NEW t \in Seq(S), NEW e \in S, t \in P
      PROVE  Append(t, e) \in P
  <2>1. Append(t, e) \in Seq(S) /\ text \o t \in Seq(S)
    OBVIOUS
  <2>2. text \o Append(t, e) = Append(text \o t, e)
    OBVIOUS
  <2>3. PutInto(Append(text \o t, e), put) = PutInto(text \o t, put) \o put[e]
    BY <1>0, <2>1
  <2>4. PutInto(text \o t, put) = PutInto(text, put) \o PutInto(t, put)
    BY <1>2
  <2>5. (PutInto(text, put) \o PutInto(t, put)) \o put[e]
          = PutInto(text, put) \o (PutInto(t, put) \o put[e])
    <3>1. /\ PutInto(text, put) \in Seq(S) /\ PutInto(t, put) \in Seq(S) /\ put[e] \in Seq(S)
      BY <1>0
    <3>2. PICK a \in Seq(S), b \in Seq(S), c \in Seq(S) :
                a = PutInto(text, put) /\ b = PutInto(t, put) /\ c = put[e]
      BY <3>1
    <3>3. (a \o b) \o c = a \o (b \o c)
      BY ConcatAssociative, SMTT(60)
    <3>4. QED
      BY <3>2, <3>3
  <2>6. PutInto(Append(t, e), put) = PutInto(t, put) \o put[e]
    BY <1>0
  <2>7. QED
    BY <2>1, <2>2, <2>3, <2>4, <2>5, <2>6
<1>3. Seq(S) \subseteq P
  <2> HIDE DEF P
  <2> QED
    BY <1>1, <1>2, ListInduction
<1>4. QED
  BY <1>3

\* Putting in twice is putting in once, what the second makes of the first.
LEMMA PutTwice ==
    ASSUME NEW S, NEW first \in [S -> Seq(S)], NEW second \in [S -> Seq(S)],
           NEW both \in [S -> Seq(S)], NEW text \in Seq(S),
           \A p \in Range(text) : PutInto(first[p], second) = both[p]
    PROVE  PutInto(PutInto(text, first), second) = PutInto(text, both)
<1> DEFINE Right(t) == \A p \in Range(t) : PutInto(first[p], second) = both[p]
           P == {t \in Seq(S) :
                    Right(t) => PutInto(PutInto(t, first), second) = PutInto(t, both)}
<1>0. \A put \in [S -> Seq(S)] :
        /\ \A t \in Seq(S) : PutInto(t, put) \in Seq(S)
        /\ \A t \in Seq(S), e \in S : PutInto(Append(t, e), put) = PutInto(t, put) \o put[e]
        /\ PutInto(<<>>, put) = <<>>
  BY PutAppend
<1>1. <<>> \in P
  <2>1. /\ <<>> \in Seq(S) /\ PutInto(<<>>, first) = <<>> /\ PutInto(<<>>, second) = <<>>
        /\ PutInto(<<>>, both) = <<>>
    BY <1>0, EmptySeq
  <2>2. QED
    BY <2>1
<1>2. ASSUME NEW t \in Seq(S), NEW e \in S, t \in P
      PROVE  Append(t, e) \in P
  <2>1. Append(t, e) \in Seq(S)
    OBVIOUS
  <2>2. SUFFICES ASSUME Right(Append(t, e))
                 PROVE  PutInto(PutInto(Append(t, e), first), second)
                           = PutInto(Append(t, e), both)
    BY <2>1
  <2>3. Range(Append(t, e)) = Range(t) \cup {e}
    BY RangeAppend
  <2>4. PutInto(PutInto(t, first), second) = PutInto(t, both)
    BY <1>2, <2>2, <2>3
  <2>5. PutInto(first[e], second) = both[e]
    BY <2>2, <2>3
  <2> HIDE DEF Right, P
  <2>6. PutInto(Append(t, e), first) = PutInto(t, first) \o first[e]
    BY <1>0
  <2>7. PutInto(PutInto(t, first) \o first[e], second)
          = PutInto(PutInto(t, first), second) \o PutInto(first[e], second)
    <3>1. PutInto(t, first) \in Seq(S) /\ first[e] \in Seq(S)
      BY <1>0
    <3>2. \A a, b \in Seq(S) : PutInto(a \o b, second) = PutInto(a, second) \o PutInto(b, second)
      BY PutConcat
    <3>3. QED
      BY <3>1, <3>2
  <2>8. PutInto(Append(t, e), both) = PutInto(t, both) \o both[e]
    BY <1>0
  <2>9. QED
    BY <2>4, <2>5, <2>6, <2>7, <2>8
<1>3. Seq(S) \subseteq P
  <2> HIDE DEF P
  <2> QED
    BY <1>1, <1>2, ListInduction
<1>4. QED
  BY <1>3

\* A text whose pieces stay what they are.
LEMMA PutNothing ==
    ASSUME NEW S, NEW put \in [S -> Seq(S)], NEW text \in Seq(S),
           \A p \in Range(text) : put[p] = <<p>>
    PROVE  PutInto(text, put) = text
<1> DEFINE P == {t \in Seq(S) : (\A p \in Range(t) : put[p] = <<p>>) => PutInto(t, put) = t}
<1>1. <<>> \in P
  BY PutAppend, EmptySeq
<1>2. ASSUME NEW t \in Seq(S), NEW e \in S, t \in P
      PROVE  Append(t, e) \in P
  <2>1. Append(t, e) \in Seq(S)
    OBVIOUS
  <2>2. Range(Append(t, e)) = Range(t) \cup {e}
    BY RangeAppend
  <2>3. PutInto(Append(t, e), put) = PutInto(t, put) \o put[e]
    <3> HIDE DEF P
    <3> QED
      BY PutAppend
  <2>4. Append(t, e) = t \o <<e>>
    BY AppendIsConcat
  <2>5. QED
    BY <1>2, <2>1, <2>2, <2>3, <2>4
<1>3. Seq(S) \subseteq P
  <2> HIDE DEF P
  <2> QED
    BY <1>1, <1>2, ListInduction
<1>4. QED
  BY <1>3
=============================================================================
