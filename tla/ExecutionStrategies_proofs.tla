-------------------- MODULE ExecutionStrategies_proofs --------------------
(***************************************************************************)
(* Proofs about ExecutionStrategies.                                       *)
(***************************************************************************)
EXTENDS ExecutionStrategies, DataLemmas, FiniteSetTheorems

-----------------------------------------------------------------------------
(***************************************************************************)
(* The inductive invariant                                                 *)
(***************************************************************************)
Started == {t \in Tests : stage[t] # "none"}
Through == {t \in Tests : stage[t] \in {"requesting", "done"}}

\* Before the call nothing has happened.
IdleInv ==
    /\ phase = "idle" <=> strategy = "none"
    /\ strategy = "none" =>
           /\ Started = {} /\ context = {}
           /\ sorted = <<>> /\ levels = <<>> /\ to_spawn = <<>>
    /\ strategy # "none" => suite \in Suites
    /\ phase = "error" => strategy = "serial"

\* The tests let through within the last a ticks, and those that sleep and will be let
\* through before the first of these is as old as the interval.
Recent(a) ==
    {t \in Through : age[t] <= a}
        \cup {t \in Tests : stage[t] = "sleeping" /\ sleep_left[t] + a < MinInterval}

\* No test was let through since last_request_time, and the recent ones all held a
\* permit together.
BurstInv ==
    /\ strategy = "parallel" => Cardinality(InFlight) <= Limit
    /\ strategy # "parallel" =>
           \A t \in Tests : stage[t] \notin {"waiting", "sleeping"} /\ age[t] = MinInterval
    /\ \A t \in Through : since <= age[t]
    /\ \A a \in 0..(MinInterval - 1) : Cardinality(Recent(a)) <= Limit

\* What the serial strategy has still to execute depends on what is in the context or
\* comes earlier in the list.
SerialInv ==
    strategy = "serial" =>
        /\ phase = "error" => Blocked(suite) # {} /\ sorted = <<>>
        /\ phase # "error" => /\ Blocked(suite) = {}
                              /\ context \cup Range(sorted) = Range(suite.order)
        /\ phase = "done" => sorted = <<>>
        /\ \A i \in DOMAIN sorted :
               suite.deps[sorted[i]] \subseteq context \cup {sorted[j] : j \in 1..(i - 1)}
        /\ \A t \in Tests :
               /\ stage[t] \in {"none", "requesting", "done"}
               /\ t \in context => stage[t] # "none"
               /\ stage[t] = "done" => t \in context
               /\ stage[t] = "requesting" => sorted # <<>> /\ t = sorted[1]
        /\ SerialSeesDependencies

\* The tests of a list follow one another as in the suite.
Ordered(s, list) ==
    \A i, j \in DOMAIN list : i < j => ListedBefore(s, list[i], list[j])

\* The tests of the first k levels of list.
Upto(list, k) == UNION {Range(list[m]) : m \in 1..k}

\* A level that can run once the tests of before have been executed.
LevelFollows(s, before, level) ==
    /\ Ordered(s, level)
    /\ \A i \in DOMAIN level :
           s.deps[level[i]] \subseteq before \cup {level[j] : j \in 1..(i - 1)}
    /\ Range(level) \cap before = {}

\* Levels that can run one after the other once the tests of before have been executed.
LevelsFollow(s, before, list) ==
    \A k \in DOMAIN list : LevelFollows(s, before \cup Upto(list, k - 1), list[k])

\* With the tests at these stages, what t depends on has ended, or is listed before t
\* and in the set.
Overlaps(s, at, t, set) ==
    \A d \in s.deps[t] : at[d] = "done" \/ (ListedBefore(s, d, t) /\ d \in set)

\* The tests of a list can be spawned one after the other.
SpawnsFollow(s, at, before, list) ==
    \A i \in DOMAIN list : Overlaps(s, at, list[i], before \cup {list[j] : j \in 1..(i - 1)})

ParallelInv ==
    strategy = "parallel" =>
        /\ Started \cup Range(to_spawn) \cup Upto(levels, Len(levels))
               = Range(suite.order) \ Blocked(suite)
        /\ phase = "done" => to_spawn = <<>> /\ levels = <<>> /\ InFlight = {}
        /\ LevelsFollow(suite, Started \cup Range(to_spawn), levels)
        /\ Ordered(suite, to_spawn)
        /\ Range(to_spawn) \cap Started = {}
        /\ SpawnsFollow(suite, stage, Started, to_spawn)
        /\ \A t \in Started : Overlaps(suite, stage, t, Started)

StrategyInv == StrategyTypeOK /\ IdleInv /\ BurstInv /\ SerialInv /\ ParallelInv

-----------------------------------------------------------------------------
(***************************************************************************)
(* Sorting                                                                 *)
(***************************************************************************)
\* The turns of the sort are the repeated step, in any set that the step does not leave.
LEMMA SortTurns ==
    ASSUME NEW s \in Suites, NEW A,
           [left |-> s.order, sorted |-> <<>>] \in A,
           \A acc \in A : sort_step(s, acc) \in A
    PROVE  /\ sort_turns(s) \in [0..Len(s.order) -> A]
           /\ sort_turns(s)[0] = [left |-> s.order, sorted |-> <<>>]
           /\ \A n \in 1..Len(s.order) :
                  sort_turns(s)[n] = sort_step(s, sort_turns(s)[n - 1])
<1> DEFINE N == Len(s.order)
           start == [left |-> s.order, sorted |-> <<>>]
           step == [n \in 1..N |-> [acc \in A |-> sort_step(s, acc)]]
           Turns(t) == t = [n \in 0..N |-> IF n = 0 THEN start ELSE sort_step(s, t[n - 1])]
<1>1. N \in Nat
  BY StrategyAssumption
<1>2. step \in [1..N -> [A -> A]] /\ start \in A
  OBVIOUS
<1>3. PICK g : Iterates(g, A, start, N, step)
  <2> HIDE DEF N, start, step
  <2>1. start \in A
    BY <1>2
  <2>2. step \in [1..N -> [A -> A]]
    BY <1>2
  <2>3. QED
    BY <1>1, <2>1, <2>2, Iteration
<1>4. ASSUME NEW n \in 1..N
      PROVE  g[n] = sort_step(s, g[n - 1])
  <2>1. n - 1 \in 0..N /\ g[n - 1] \in A
    BY <1>1, <1>3 DEF Iterates
  <2>2. step[n][g[n - 1]] = sort_step(s, g[n - 1])
    BY <2>1
  <2> HIDE DEF step
  <2>3. QED
    BY <1>3, <2>2 DEF Iterates
<1>5. Turns(g)
  <2> HIDE DEF start
  <2> QED
    BY <1>1, <1>3, <1>4 DEF Iterates
<1>6. sort_turns(s) = CHOOSE t : Turns(t)
  BY DEF sort_turns
<1>7. Turns(sort_turns(s))
  <2> HIDE DEF Turns
  <2> QED
    BY <1>5, <1>6
<1> HIDE DEF start
<1>8. DOMAIN sort_turns(s) = 0..N /\ sort_turns(s)[0] = start
  BY <1>1, <1>7
<1>9. ASSUME NEW n \in 1..N
      PROVE  sort_turns(s)[n] = sort_step(s, sort_turns(s)[n - 1])
  <2> DEFINE t == sort_turns(s)
  <2>1. n \in 0..N /\ n # 0
    BY <1>1
  <2>2. t = [k \in 0..N |-> IF k = 0 THEN start ELSE sort_step(s, t[k - 1])]
    BY <1>7
  <2> HIDE DEF t
  <2>3. t[n] = sort_step(s, t[n - 1])
    BY <2>1, <2>2
  <2>4. QED
    BY <2>3 DEF t
<1>10. 0..N \subseteq {n \in 0..N : sort_turns(s)[n] \in A}
  <2> DEFINE P == {n \in 0..N : sort_turns(s)[n] \in A}
  <2>1. 0 \in P
    BY <1>1, <1>8 DEF start
  <2>2. \A n \in 1..N : n - 1 \in P => n \in P
    BY <1>1, <1>9
  <2> HIDE DEF P
  <2>3. 0..N \subseteq P
    BY <1>1, <2>1, <2>2, SetInduction
  <2>4. QED
    BY <2>3 DEF P
<1>11. QED
  BY <1>7, <1>8, <1>9, <1>10 DEF start

\* States of the sort: the tests are kept, and what is sorted depends on what is sorted
\* before it.
Sorting(s) ==
    {acc \in [left : Seq(Tests), sorted : Seq(Tests)] :
        /\ Range(acc.left) \cup Range(acc.sorted) = Range(s.order)
        /\ \A i \in DOMAIN acc.sorted :
               s.deps[acc.sorted[i]] \subseteq {acc.sorted[j] : j \in 1..(i - 1)}}

Ready(s, acc) ==
    {i \in DOMAIN acc.left : check_dependencies(s, acc.left[i], Range(acc.sorted))}

\* A turn keeps the state sorted, and takes a test unless none is ready.
LEMMA SortStep ==
    ASSUME NEW s \in Suites, NEW acc \in Sorting(s)
    PROVE  /\ sort_step(s, acc) \in Sorting(s)
           /\ IF Ready(s, acc) = {} THEN sort_step(s, acc) = acc
              ELSE Len(sort_step(s, acc).left) = Len(acc.left) - 1
<1>1. CASE Ready(s, acc) = {}
  <2>1. sort_step(s, acc) = acc
    BY <1>1 DEF sort_step, Ready
  <2>2. QED
    BY <1>1, <2>1
<1>2. CASE Ready(s, acc) # {}
  <2> DEFINE i == CHOOSE i \in Ready(s, acc) : \A j \in Ready(s, acc) : i <= j
             new == sort_step(s, acc)
             t == acc.left[i]
  <2>1. acc.left \in Seq(Tests) /\ acc.sorted \in Seq(Tests)
    BY DEF Sorting
  <2>2. \E k \in Ready(s, acc) : \A j \in Ready(s, acc) : k <= j
    <3>1. Ready(s, acc) \subseteq Nat
      BY <2>1 DEF Ready
    <3>2. QED
      BY <3>1, <1>2, LeastNatural
  <2>3. i \in Ready(s, acc)
    <3> HIDE DEF new
    <3> QED
      BY <2>2
  <2>4. new = [left |-> RemoveAt(acc.left, i), sorted |-> Append(acc.sorted, t)]
    BY <1>2 DEF sort_step, Ready
  <2> HIDE DEF i, new
  <2>5. i \in DOMAIN acc.left /\ s.deps[t] \subseteq Range(acc.sorted) /\ t \in Tests
    BY <2>1, <2>3 DEF Ready, check_dependencies
  <2>6. /\ RemoveAt(acc.left, i) \in Seq(Tests)
        /\ Len(RemoveAt(acc.left, i)) = Len(acc.left) - 1
        /\ Range(RemoveAt(acc.left, i)) \cup {t} = Range(acc.left)
    BY <2>1, <2>5, RemoveOne
  <2> DEFINE sorting == Append(acc.sorted, t)
  <2> HIDE DEF t
  <2>7. /\ sorting \in Seq(Tests) /\ Len(sorting) = Len(acc.sorted) + 1
        /\ sorting[Len(acc.sorted) + 1] = t
        /\ \A k \in 1..Len(acc.sorted) : sorting[k] = acc.sorted[k]
    BY <2>1, <2>5, RangeAppend
  <2>8. Range(sorting) = Range(acc.sorted) \cup {t}
    BY <2>1, <2>5, RangeAppend
  <2>9. ASSUME NEW k \in DOMAIN sorting
        PROVE  s.deps[sorting[k]] \subseteq {sorting[j] : j \in 1..(k - 1)}
    <3>1. CASE k = Len(acc.sorted) + 1
      <4>1. Range(acc.sorted) \subseteq {sorting[j] : j \in 1..(k - 1)}
        BY <2>1, <2>7, <3>1 DEF Range
      <4>2. QED
        BY <2>5, <2>7, <3>1, <4>1
    <3>2. CASE k \in 1..Len(acc.sorted)
      <4>1. s.deps[acc.sorted[k]] \subseteq {acc.sorted[j] : j \in 1..(k - 1)}
        BY <2>1, <3>2 DEF Sorting
      <4>2. {acc.sorted[j] : j \in 1..(k - 1)} = {sorting[j] : j \in 1..(k - 1)}
        BY <2>1, <2>7, <3>2
      <4>3. QED
        BY <2>7, <3>2, <4>1, <4>2
    <3>3. k = Len(acc.sorted) + 1 \/ k \in 1..Len(acc.sorted)
      BY <2>1, <2>7
    <3>4. QED
      BY <3>1, <3>2, <3>3
  <2>10. Range(acc.left) \cup Range(acc.sorted) = Range(s.order)
    BY DEF Sorting
  <2>11. new.left = RemoveAt(acc.left, i) /\ new.sorted = sorting
    BY <2>4
  <2>12. new \in [left : Seq(Tests), sorted : Seq(Tests)]
    <3> HIDE DEF sorting
    <3> QED
      BY <2>4, <2>6, <2>7 DEF sorting
  <2>13. new \in Sorting(s)
    <3> HIDE DEF sorting
    <3>1. Range(new.left) \cup Range(new.sorted) = Range(s.order)
      BY <2>6, <2>8, <2>10, <2>11
    <3>2. QED
      BY <2>9, <2>11, <2>12, <3>1 DEF Sorting
  <2>14. QED
    BY <1>2, <2>6, <2>11, <2>13 DEF new
<1>3. QED
  BY <1>1, <1>2

\* The least place at which a list has an element with a property, given as a set.
LEMMA FirstPlace ==
    ASSUME NEW S, NEW list \in Seq(S), NEW T, Range(list) \cap T # {}
    PROVE  \E i \in DOMAIN list : list[i] \in T /\ \A j \in 1..(i - 1) : list[j] \notin T
<1> DEFINE places == {i \in DOMAIN list : list[i] \in T}
<1>1. places # {} /\ places \subseteq Nat
  BY DEF Range
<1>2. PICK i \in places : \A j \in places : i <= j
  <2> HIDE DEF places
  <2>1. QED
    BY <1>1, LeastNatural
<1>3. \A j \in 1..(i - 1) : j \in DOMAIN list /\ j \notin places
  BY <1>2
<1>4. QED
  BY <1>2, <1>3

\* The sort takes every test, and no test is blocked, or it leaves some, which are blocked.
LEMMA SortSound ==
    ASSUME NEW s \in Suites
    PROVE  LET acc == sort_by_dependencies(s)
           IN  /\ acc \in Sorting(s)
               /\ acc.left = <<>> <=> Blocked(s) = {}
<1> DEFINE N == Len(s.order)
           turn == sort_turns(s)
           acc == sort_by_dependencies(s)
<1>1. N \in Nat /\ s.order \in Seq(Tests) /\ s.deps \in [Tests -> SUBSET Tests]
  BY StrategyAssumption
<1>2. [left |-> s.order, sorted |-> <<>>] \in Sorting(s)
  BY <1>1 DEF Sorting, Range
<1>3. \A a \in Sorting(s) : sort_step(s, a) \in Sorting(s)
  BY SortStep
<1>4. /\ turn \in [0..N -> Sorting(s)]
      /\ turn[0] = [left |-> s.order, sorted |-> <<>>]
      /\ \A n \in 1..N : turn[n] = sort_step(s, turn[n - 1])
  BY <1>2, <1>3, SortTurns
<1>5. acc = turn[N] /\ acc \in Sorting(s)
  BY <1>1, <1>4 DEF sort_by_dependencies
<1> HIDE DEF turn, acc
<1>6. acc.left = <<>> \/ Ready(s, acc) = {}
  <2> DEFINE P == {n \in 0..N : Ready(s, turn[n]) = {} \/ Len(turn[n].left) = N - n}
  <2>1. 0 \in P
    BY <1>1, <1>4
  <2>2. ASSUME NEW n \in 1..N, n - 1 \in P
        PROVE  n \in P
    <3>0. n - 1 \in 0..N /\ n \in 0..N
      BY <1>1
    <3>1. n - 1 \in 0..N /\ n \in 0..N /\ turn[n - 1] \in Sorting(s)
      <4> HIDE DEF N
      <4>1. QED
        BY <1>4, <3>0
    <3>2. turn[n] = sort_step(s, turn[n - 1])
      BY <1>4
    <3>3. CASE Ready(s, turn[n - 1]) = {}
      BY <3>1, <3>2, <3>3, SortStep
    <3>4. CASE Ready(s, turn[n - 1]) # {}
      <4>1. Len(turn[n].left) = Len(turn[n - 1].left) - 1
        BY <3>1, <3>2, <3>4, SortStep
      <4>2. Len(turn[n - 1].left) = N - (n - 1)
        BY <2>2, <3>4
      <4>3. N - (n - 1) - 1 = N - n
        BY <1>1
      <4>4. Len(turn[n].left) = N - n
        BY <4>1, <4>2, <4>3
      <4>5. QED
        BY <3>1, <4>4
    <3>5. QED
      BY <3>3, <3>4
  <2>3. 0..N \subseteq P
    <3> HIDE DEF P, N
    <3>1. QED
      BY <1>1, <2>1, <2>2, SetInduction
  <2>4. Ready(s, acc) = {} \/ Len(acc.left) = 0
    <3>1. N \in 0..N /\ N - N = 0
      BY <1>1
    <3>2. N \in P
      <4> HIDE DEF P, N
      <4>1. QED
        BY <2>3, <3>1
    <3>3. Ready(s, turn[N]) = {} \/ Len(turn[N].left) = N - N
      <4> HIDE DEF N
      <4>1. QED
        BY <3>2
    <3>4. QED
      BY <1>5, <3>1, <3>3
  <2>5. acc.left \in Seq(Tests)
    BY <1>5 DEF Sorting
  <2>6. QED
    BY <2>4, <2>5
<1>7. ASSUME acc.left # <<>>
      PROVE  Blocked(s) # {}
  <2> DEFINE S == Range(acc.left)
  <2>1. acc.left \in Seq(Tests) /\ S \cup Range(acc.sorted) = Range(s.order)
    BY <1>5 DEF Sorting
  <2>2. S # {} /\ S \subseteq Tests
    BY <2>1, <1>7, RangeFacts
  <2>3. ASSUME NEW t \in S
        PROVE  \E d \in s.deps[t] : d \in S \/ d \notin Range(s.order)
    <3>1. PICK i \in DOMAIN acc.left : t = acc.left[i]
      BY DEF Range
    <3>2. ~(s.deps[t] \subseteq Range(acc.sorted))
      BY <1>6, <1>7, <3>1 DEF Ready, check_dependencies
    <3>3. QED
      BY <2>1, <3>2
  <2>4. S \in SUBSET Range(s.order)
    BY <2>1
  <2> HIDE DEF S
  <2>5. S \subseteq Blocked(s)
    BY <2>3, <2>4 DEF Blocked
  <2>6. QED
    BY <2>2, <2>5
<1>8. ASSUME acc.left = <<>>, Blocked(s) # {}
      PROVE  FALSE
  <2>1. PICK S \in SUBSET Range(s.order) :
               /\ S # {}
               /\ \A t \in S : \E d \in s.deps[t] : d \in S \/ d \notin Range(s.order)
    BY <1>8 DEF Blocked
  <2>2. acc.sorted \in Seq(Tests) /\ Range(acc.sorted) = Range(s.order)
    <3>1. /\ acc.left \in Seq(Tests) /\ acc.sorted \in Seq(Tests)
          /\ Range(acc.left) \cup Range(acc.sorted) = Range(s.order)
      BY <1>5 DEF Sorting
    <3>2. Range(acc.left) = {}
      BY <1>8, <3>1, RangeFacts
    <3>3. QED
      BY <3>1, <3>2
  <2>3. PICK i \in DOMAIN acc.sorted :
               acc.sorted[i] \in S /\ \A j \in 1..(i - 1) : acc.sorted[j] \notin S
    BY <2>1, <2>2, FirstPlace
  <2>4. s.deps[acc.sorted[i]] \subseteq {acc.sorted[j] : j \in 1..(i - 1)}
    BY <1>5 DEF Sorting
  <2>5. \A j \in 1..(i - 1) : acc.sorted[j] \in Range(s.order)
    BY <2>2, <2>3, RangeFacts
  <2>6. QED
    BY <2>1, <2>3, <2>4, <2>5
<1>9. QED
  BY <1>5, <1>7, <1>8 DEF acc

-----------------------------------------------------------------------------
(***************************************************************************)
(* Levels                                                                  *)
(***************************************************************************)
\* As a suite lists no test twice, no test is listed before itself.
LEMMA NotBeforeItself ==
    ASSUME NEW s \in Suites, NEW t
    PROVE  ~ListedBefore(s, t, t)
<1>1. s.order \in Seq(Tests) /\ IsInjective(s.order)
  BY StrategyAssumption
<1>2. QED
  BY <1>1 DEF ListedBefore, IsInjective

\* A list stays ordered when a test is added that comes after all of it.
LEMMA OrderedAppend ==
    ASSUME NEW s, NEW list \in Seq(Tests), NEW t \in Tests, Ordered(s, list),
           \A e \in Range(list) : ListedBefore(s, e, t)
    PROVE  Ordered(s, Append(list, t))
<1> DEFINE new == Append(list, t)
<1>1. /\ new \in Seq(Tests) /\ Len(new) = Len(list) + 1
      /\ new[Len(list) + 1] = t /\ \A i \in 1..Len(list) : new[i] = list[i]
  BY RangeAppend
<1> HIDE DEF new
<1>2. \A i \in 1..Len(list) : ListedBefore(s, list[i], t)
  BY RangeFacts
<1>3. ASSUME NEW i \in DOMAIN new, NEW j \in DOMAIN new, i < j
      PROVE  ListedBefore(s, new[i], new[j])
  <2>1. i \in 1..Len(list) /\ new[i] = list[i]
    BY <1>1, <1>3
  <2>2. CASE j = Len(list) + 1
    BY <1>1, <1>2, <2>1, <2>2
  <2>3. CASE j # Len(list) + 1
    <3>1. j \in 1..Len(list) /\ new[j] = list[j]
      BY <1>1, <2>3
    <3>2. QED
      BY <1>3, <2>1, <3>1 DEF Ordered
  <2>4. QED
    BY <2>2, <2>3
<1>4. QED
  BY <1>3 DEF Ordered, new

\* States of a pass.
Passing == [completed : SUBSET Tests, level : Seq(Tests), rest : Seq(Tests)]

\* The states of a pass are the repeated step.
LEMMA LevelPasses ==
    ASSUME NEW s \in Suites, NEW done \in SUBSET Tests, NEW list \in Seq(Tests)
    PROVE  /\ level_passes(s, done, list) \in [0..Len(list) -> Passing]
           /\ level_passes(s, done, list)[0]
                  = [completed |-> done, level |-> <<>>, rest |-> <<>>]
           /\ \A n \in 1..Len(list) :
                  level_passes(s, done, list)[n]
                      = level_step(s, level_passes(s, done, list)[n - 1], list[n])
<1> DEFINE N == Len(list)
           start == [completed |-> done, level |-> <<>>, rest |-> <<>>]
           step == [n \in 1..N |-> [a \in Passing |-> level_step(s, a, list[n])]]
           passes == level_passes(s, done, list)
           Turns(t) == t = [n \in 0..N |-> IF n = 0 THEN start
                                           ELSE level_step(s, t[n - 1], list[n])]
<1>1. N \in Nat
  OBVIOUS
<1>2. ASSUME NEW a \in Passing, NEW t \in Tests
      PROVE  level_step(s, a, t) \in Passing
  <2>1. a.level \in Seq(Tests) /\ a.rest \in Seq(Tests) /\ a.completed \in SUBSET Tests
    BY DEF Passing
  <2>2. Append(a.level, t) \in Seq(Tests) /\ Append(a.rest, t) \in Seq(Tests)
    BY <2>1
  <2>3. QED
    BY <2>1, <2>2 DEF Passing, level_step
<1>3. start \in Passing
  BY DEF Passing
<1>4. step \in [1..N -> [Passing -> Passing]]
  BY <1>2
<1>5. PICK g : Iterates(g, Passing, start, N, step)
  <2> HIDE DEF N, start, step
  <2>1. QED
    BY <1>1, <1>3, <1>4, Iteration
<1>6. ASSUME NEW n \in 1..N
      PROVE  g[n] = level_step(s, g[n - 1], list[n])
  <2>1. n - 1 \in 0..N /\ g[n - 1] \in Passing
    BY <1>1, <1>5 DEF Iterates
  <2>2. step[n][g[n - 1]] = level_step(s, g[n - 1], list[n])
    BY <2>1
  <2> HIDE DEF step
  <2>3. QED
    BY <1>5, <2>2 DEF Iterates
<1>7. Turns(g)
  <2> HIDE DEF start
  <2> QED
    BY <1>1, <1>5, <1>6 DEF Iterates
<1>8. passes = CHOOSE t : Turns(t)
  BY DEF level_passes
<1> HIDE DEF passes
<1>9. Turns(passes)
  <2> HIDE DEF Turns
  <2> QED
    BY <1>7, <1>8
<1> HIDE DEF start
<1>10. DOMAIN passes = 0..N /\ passes[0] = start
  BY <1>1, <1>9
<1>11. ASSUME NEW n \in 1..N
       PROVE  passes[n] = level_step(s, passes[n - 1], list[n])
  <2>1. n \in 0..N /\ n # 0
    BY <1>1
  <2>2. QED
    BY <1>9, <2>1
<1>12. 0..N \subseteq {n \in 0..N : passes[n] \in Passing}
  <2> DEFINE P == {n \in 0..N : passes[n] \in Passing}
  <2>1. 0 \in P
    BY <1>1, <1>3, <1>10
  <2>2. ASSUME NEW n \in 1..N, n - 1 \in P
        PROVE  n \in P
    BY <1>1, <1>2, <1>11, <2>2
  <2> HIDE DEF P
  <2>3. 0..N \subseteq P
    BY <1>1, <2>1, <2>2, SetInduction
  <2>4. QED
    BY <2>3 DEF P
<1>13. passes \in [0..N -> Passing]
  BY <1>9, <1>10, <1>12
<1>14. QED
  BY <1>10, <1>11, <1>13 DEF start, passes

\* What a pass has done with the first n tests of a list, done being what was completed
\* before.
PassSound(s, done, list, n, a) ==
    /\ a.completed = done \cup Range(a.level)
    /\ Range(a.level) \cup Range(a.rest) = {list[i] : i \in 1..n}
    /\ Range(a.level) \cap Range(a.rest) = {}
    /\ Len(a.level) + Len(a.rest) = n
    /\ Ordered(s, a.level) /\ Ordered(s, a.rest)
    /\ \A i \in DOMAIN a.level :
           s.deps[a.level[i]] \subseteq done \cup {a.level[j] : j \in 1..(i - 1)}
    /\ \A t \in Range(a.rest) : ~(s.deps[t] \subseteq done)

\* One test more is sorted into the level or into the rest.
LEMMA PassStep ==
    ASSUME NEW s \in Suites, NEW done \in SUBSET Tests, NEW list \in Seq(Tests),
           Ordered(s, list), NEW n \in 1..Len(list), NEW a \in Passing,
           PassSound(s, done, list, n - 1, a)
    PROVE  PassSound(s, done, list, n, level_step(s, a, list[n]))
<1> DEFINE t == list[n]
           b == level_step(s, a, t)
           first == {list[i] : i \in 1..(n - 1)}
<1>1. t \in Tests /\ a.level \in Seq(Tests) /\ a.rest \in Seq(Tests)
  BY DEF Passing
<1>2. \A e \in first : ListedBefore(s, e, t)
  BY DEF Ordered
<1>3. t \notin first
  BY <1>2, NotBeforeItself
<1>4. {list[i] : i \in 1..n} = first \cup {t}
  <2>1. 1..n = 1..(n - 1) \cup {n}
    OBVIOUS
  <2>2. QED
    BY <2>1
<1>5. Range(a.level) \cup Range(a.rest) = first
  BY DEF PassSound
<1> HIDE DEF t, first
<1>6. CASE check_dependencies(s, t, a.completed)
  <2>1. b.completed = a.completed \cup {t} /\ b.level = Append(a.level, t) /\ b.rest = a.rest
    BY <1>6 DEF level_step, Passing
  <2> HIDE DEF b
  <2>2. /\ b.level \in Seq(Tests) /\ Len(b.level) = Len(a.level) + 1
        /\ b.level[Len(a.level) + 1] = t
        /\ \A i \in 1..Len(a.level) : b.level[i] = a.level[i]
        /\ Range(b.level) = Range(a.level) \cup {t}
    BY <1>1, <2>1, RangeAppend
  <2>3. Ordered(s, b.level)
    <3>1. Ordered(s, a.level) /\ \A e \in Range(a.level) : ListedBefore(s, e, t)
      BY <1>2, <1>5 DEF PassSound
    <3>2. QED
      BY <1>1, <2>1, <3>1, OrderedAppend
  <2>4. ASSUME NEW i \in DOMAIN b.level
        PROVE  s.deps[b.level[i]] \subseteq done \cup {b.level[j] : j \in 1..(i - 1)}
    <3>1. i \in 1..(Len(a.level) + 1) /\ Len(a.level) \in Nat
      BY <1>1, <2>2
    <3>2. CASE i = Len(a.level) + 1
      <4>1. s.deps[t] \subseteq done \cup Range(a.level)
        BY <1>6 DEF check_dependencies, PassSound
      <4>2. Range(a.level) = {a.level[j] : j \in 1..Len(a.level)}
        BY <1>1, RangeFacts
      <4>3. Range(a.level) \subseteq {b.level[j] : j \in 1..(i - 1)}
        <5>1. i - 1 = Len(a.level)
          BY <3>1, <3>2
        <5>2. \A j \in 1..Len(a.level) : a.level[j] = b.level[j]
          BY <2>2
        <5>3. QED
          BY <4>2, <5>1, <5>2
      <4>4. QED
        BY <2>2, <3>2, <4>1, <4>3
    <3>3. CASE i \in 1..Len(a.level)
      <4>1. s.deps[a.level[i]] \subseteq done \cup {a.level[j] : j \in 1..(i - 1)}
        BY <1>1, <3>3 DEF PassSound
      <4>2. {a.level[j] : j \in 1..(i - 1)} = {b.level[j] : j \in 1..(i - 1)}
        <5>1. \A j \in 1..(i - 1) : b.level[j] = a.level[j]
          <6>1. \A j \in 1..(i - 1) : j \in 1..Len(a.level)
            BY <3>1, <3>3
          <6>2. QED
            BY <2>2, <6>1
        <5>2. QED
          BY <5>1
      <4>3. QED
        BY <2>2, <3>3, <4>1, <4>2
    <3>4. QED
      BY <3>1, <3>2, <3>3
  <2>5. Len(b.level) + Len(b.rest) = n
    <3>1. Len(a.level) + Len(a.rest) = n - 1
      BY DEF PassSound
    <3>2. Len(a.level) \in Nat /\ Len(a.rest) \in Nat /\ n \in Nat
      BY <1>1
    <3>3. Len(b.level) = Len(a.level) + 1 /\ Len(b.rest) = Len(a.rest)
      BY <2>1, <2>2
    <3> DEFINE l == Len(a.level)
               r == Len(a.rest)
    <3>4. l \in Nat /\ r \in Nat /\ n \in Nat /\ l + r = n - 1
      BY <3>1, <3>2
    <3> HIDE DEF l, r
    <3>5. (l + 1) + r = n /\ l + (r + 1) = n
      BY <3>4
    <3>6. QED
      BY <3>3, <3>5 DEF l, r
  <2>6. Range(b.level) \cap Range(b.rest) = {}
    BY <1>3, <1>5, <2>1, <2>2 DEF PassSound
  <2>7. Range(b.level) \cup Range(b.rest) = first \cup {t}
    BY <1>5, <2>1, <2>2
  <2>8. b.completed = done \cup Range(b.level)
    BY <2>1, <2>2 DEF PassSound
  <2>9. Ordered(s, b.rest) /\ \A e \in Range(b.rest) : ~(s.deps[e] \subseteq done)
    BY <2>1 DEF PassSound
  <2>10. PassSound(s, done, list, n, b)
    BY <1>4, <2>3, <2>4, <2>5, <2>6, <2>7, <2>8, <2>9 DEF PassSound
  <2>11. QED
    BY <2>10 DEF b, t
<1>7. CASE ~check_dependencies(s, t, a.completed)
  <2>1. b.completed = a.completed /\ b.level = a.level /\ b.rest = Append(a.rest, t)
    BY <1>7 DEF level_step, Passing
  <2> HIDE DEF b
  <2>2. /\ b.rest \in Seq(Tests) /\ Len(b.rest) = Len(a.rest) + 1
        /\ Range(b.rest) = Range(a.rest) \cup {t}
    BY <1>1, <2>1, RangeAppend
  <2>3. Ordered(s, b.rest)
    <3>1. Ordered(s, a.rest) /\ \A e \in Range(a.rest) : ListedBefore(s, e, t)
      BY <1>2, <1>5 DEF PassSound
    <3>2. QED
      BY <1>1, <2>1, <3>1, OrderedAppend
  <2>4. ~(s.deps[t] \subseteq done)
    BY <1>7 DEF check_dependencies, PassSound
  <2>5. Len(b.level) + Len(b.rest) = n
    <3>1. Len(a.level) + Len(a.rest) = n - 1
      BY DEF PassSound
    <3>2. Len(a.level) \in Nat /\ Len(a.rest) \in Nat /\ n \in Nat
      BY <1>1
    <3>3. Len(b.level) = Len(a.level) /\ Len(b.rest) = Len(a.rest) + 1
      BY <2>1, <2>2
    <3> DEFINE l == Len(a.level)
               r == Len(a.rest)
    <3>4. l \in Nat /\ r \in Nat /\ n \in Nat /\ l + r = n - 1
      BY <3>1, <3>2
    <3> HIDE DEF l, r
    <3>5. (l + 1) + r = n /\ l + (r + 1) = n
      BY <3>4
    <3>6. QED
      BY <3>3, <3>5 DEF l, r
  <2>6. Range(b.level) \cap Range(b.rest) = {}
    BY <1>3, <1>5, <2>1, <2>2 DEF PassSound
  <2>7. Range(b.level) \cup Range(b.rest) = first \cup {t}
    BY <1>5, <2>1, <2>2
  <2>8. b.completed = done \cup Range(b.level) /\ Ordered(s, b.level)
    BY <2>1 DEF PassSound
  <2>9. \A i \in DOMAIN b.level :
            s.deps[b.level[i]] \subseteq done \cup {b.level[j] : j \in 1..(i - 1)}
    BY <2>1 DEF PassSound
  <2>10. \A e \in Range(b.rest) : ~(s.deps[e] \subseteq done)
    BY <2>2, <2>4 DEF PassSound
  <2>11. PassSound(s, done, list, n, b)
    BY <1>4, <2>3, <2>5, <2>6, <2>7, <2>8, <2>9, <2>10 DEF PassSound
  <2>12. QED
    BY <2>11 DEF b, t
<1>8. QED
  BY <1>6, <1>7

\* A whole pass.
LEMMA PassResult ==
    ASSUME NEW s \in Suites, NEW done \in SUBSET Tests, NEW list \in Seq(Tests),
           Ordered(s, list)
    PROVE  /\ level_passes(s, done, list)[Len(list)] \in Passing
           /\ PassSound(s, done, list, Len(list), level_passes(s, done, list)[Len(list)])
<1> DEFINE N == Len(list)
           passes == level_passes(s, done, list)
           P == {n \in 0..N : PassSound(s, done, list, n, passes[n])}
<1>1. N \in Nat
  OBVIOUS
<1>2. /\ passes \in [0..N -> Passing]
      /\ passes[0] = [completed |-> done, level |-> <<>>, rest |-> <<>>]
      /\ \A n \in 1..N : passes[n] = level_step(s, passes[n - 1], list[n])
  BY LevelPasses
<1> HIDE DEF passes
<1>3. 0 \in P
  <2> DEFINE a == passes[0]
  <2>1. a.completed = done /\ a.level = <<>> /\ a.rest = <<>>
    BY <1>2
  <2> HIDE DEF a
  <2>2. Range(a.level) = {} /\ Range(a.rest) = {}
    BY <2>1 DEF Range
  <2>3. {list[i] : i \in 1..0} = {}
    OBVIOUS
  <2>4. Ordered(s, a.level) /\ Ordered(s, a.rest)
    BY <2>1 DEF Ordered
  <2>5. \A i \in DOMAIN a.level :
            s.deps[a.level[i]] \subseteq done \cup {a.level[j] : j \in 1..(i - 1)}
    BY <2>1
  <2>6. Len(a.level) + Len(a.rest) = 0
    BY <2>1
  <2>7. PassSound(s, done, list, 0, a)
    BY <2>1, <2>2, <2>3, <2>4, <2>5, <2>6 DEF PassSound
  <2>8. QED
    BY <1>1, <2>7 DEF a
<1>4. ASSUME NEW n \in 1..N, n - 1 \in P
      PROVE  n \in P
  <2>1. n - 1 \in 0..N /\ n \in 0..N
    BY <1>1
  <2>2. passes[n - 1] \in Passing
    BY <1>2, <2>1
  <2>3. PassSound(s, done, list, n, level_step(s, passes[n - 1], list[n]))
    BY <1>4, <2>2, PassStep
  <2>4. QED
    BY <1>2, <2>1, <2>3
<1>5. 0..N \subseteq P
  <2> HIDE DEF P, N
  <2>1. QED
    BY <1>1, <1>3, <1>4, SetInduction
<1>6. N \in 0..N
  BY <1>1
<1>7. QED
  BY <1>2, <1>5, <1>6 DEF passes

\* A list of levels that gets one more.
LEMMA UptoAppend ==
    ASSUME NEW list \in Seq(Seq(Tests)), NEW level \in Seq(Tests), NEW k \in 0..Len(list)
    PROVE  /\ Upto(Append(list, level), k) = Upto(list, k)
           /\ Upto(Append(list, level), Len(list) + 1)
                  = Upto(list, Len(list)) \cup Range(level)
<1> DEFINE new == Append(list, level)
<1>1. Len(list) \in Nat
  OBVIOUS
<1>2. new[Len(list) + 1] = level /\ \A m \in 1..Len(list) : new[m] = list[m]
  OBVIOUS
<1> HIDE DEF new
<1>3. \A j \in 0..Len(list) : Upto(new, j) = Upto(list, j)
  <2> TAKE j \in 0..Len(list)
  <2>1. \A m \in 1..j : new[m] = list[m]
    BY <1>1, <1>2
  <2>2. {Range(new[m]) : m \in 1..j} = {Range(list[m]) : m \in 1..j}
    BY <2>1
  <2>3. QED
    BY <2>2 DEF Upto
<1>4. Upto(new, Len(list) + 1) = Upto(new, Len(list)) \cup Range(level)
  <2>1. 1..(Len(list) + 1) = 1..Len(list) \cup {Len(list) + 1}
    BY <1>1
  <2>2. {Range(new[m]) : m \in 1..(Len(list) + 1)}
            = {Range(new[m]) : m \in 1..Len(list)} \cup {Range(level)}
    BY <1>2, <2>1
  <2>3. QED
    BY <2>2 DEF Upto
<1>5. QED
  BY <1>1, <1>3, <1>4 DEF new

\* States of the grouping: what is completed is in the levels, which follow one another,
\* and the rest is what else the suite has.
Grouping(s) ==
    {acc \in [completed : SUBSET Tests, rest : Seq(Tests), levels : Seq(Seq(Tests))] :
        /\ acc.completed = Upto(acc.levels, Len(acc.levels))
        /\ acc.completed \cup Range(acc.rest) = Range(s.order)
        /\ acc.completed \cap Range(acc.rest) = {}
        /\ Ordered(s, acc.rest)
        /\ LevelsFollow(s, {}, acc.levels)}

\* None of the tests that remain is ready.
StuckGroup(s, acc) == \A t \in Range(acc.rest) : ~(s.deps[t] \subseteq acc.completed)

\* A turn keeps the levels in order and shortens the rest, unless nothing of it is ready.
LEMMA GroupStep ==
    ASSUME NEW s \in Suites, NEW acc \in Grouping(s)
    PROVE  /\ group_step(s, acc) \in Grouping(s)
           /\ \/ group_step(s, acc) = acc /\ StuckGroup(s, acc)
              \/ Len(group_step(s, acc).rest) < Len(acc.rest) /\ ~StuckGroup(s, acc)
<1> DEFINE a == level_pass(s, acc)
           new == group_step(s, acc)
           levels1 == Append(acc.levels, a.level)
<1>1. /\ acc.completed \in SUBSET Tests /\ acc.rest \in Seq(Tests)
      /\ acc.levels \in Seq(Seq(Tests)) /\ Ordered(s, acc.rest)
      /\ acc.completed = Upto(acc.levels, Len(acc.levels))
      /\ acc.completed \cup Range(acc.rest) = Range(s.order)
      /\ acc.completed \cap Range(acc.rest) = {}
      /\ LevelsFollow(s, {}, acc.levels)
  BY DEF Grouping
<1>2. a \in Passing /\ PassSound(s, acc.completed, acc.rest, Len(acc.rest), a)
  BY <1>1, PassResult DEF level_pass
<1>3. /\ a.level \in Seq(Tests) /\ a.rest \in Seq(Tests) /\ a.completed \in SUBSET Tests
      /\ a.completed = acc.completed \cup Range(a.level)
      /\ Range(a.level) \cup Range(a.rest) = Range(acc.rest)
      /\ Range(a.level) \cap Range(a.rest) = {}
      /\ Len(a.level) + Len(a.rest) = Len(acc.rest)
      /\ Ordered(s, a.level) /\ Ordered(s, a.rest)
  BY <1>1, <1>2, RangeFacts DEF PassSound, Passing
<1>4. \A i \in DOMAIN a.level :
          s.deps[a.level[i]] \subseteq acc.completed \cup {a.level[j] : j \in 1..(i - 1)}
  BY <1>2 DEF PassSound
<1>5. \A t \in Range(a.rest) : ~(s.deps[t] \subseteq acc.completed)
  BY <1>2 DEF PassSound
<1>6. CASE a.level = <<>>
  <2>1. new = acc
    BY <1>6 DEF group_step
  <2> HIDE DEF new
  <2> HIDE DEF a
  <2>2. Range(a.level) = {}
    BY <1>6 DEF Range
  <2>3. StuckGroup(s, acc)
    BY <1>3, <1>5, <2>2 DEF StuckGroup
  <2>4. QED
    BY <2>1, <2>3 DEF new
<1>7. CASE a.level # <<>>
  <2>1. new = [completed |-> a.completed, rest |-> a.rest, levels |-> levels1]
    BY <1>7 DEF group_step
  <2> DEFINE K == Len(acc.levels)
  <2>2. /\ levels1 \in Seq(Seq(Tests)) /\ Len(levels1) = K + 1 /\ K \in Nat
        /\ levels1[K + 1] = a.level /\ \A m \in 1..K : levels1[m] = acc.levels[m]
    BY <1>1, <1>3
  <2> HIDE DEF a, new
  <2>3. /\ Upto(levels1, K + 1) = acc.completed \cup Range(a.level)
        /\ \A m \in 0..K : Upto(levels1, m) = Upto(acc.levels, m)
    <3>1. acc.levels \in Seq(Seq(Tests)) /\ a.level \in Seq(Tests) /\ K \in 0..K
      BY <1>1, <1>3, <2>2
    <3>2. \A m \in 0..K : Upto(levels1, m) = Upto(acc.levels, m)
      BY <3>1, UptoAppend
    <3>3. Upto(levels1, K + 1) = Upto(acc.levels, K) \cup Range(a.level)
      BY <3>1, UptoAppend
    <3>4. QED
      BY <1>1, <3>2, <3>3
  <2> HIDE DEF levels1
  <2>4. LevelsFollow(s, {}, levels1)
    <3>1. ASSUME NEW k \in DOMAIN levels1
          PROVE  /\ Ordered(s, levels1[k])
                 /\ \A i \in DOMAIN levels1[k] :
                        s.deps[levels1[k][i]] \subseteq {} \cup Upto(levels1, k - 1)
                                               \cup {levels1[k][j] : j \in 1..(i - 1)}
                 /\ Range(levels1[k]) \cap ({} \cup Upto(levels1, k - 1)) = {}
      <4>1. CASE k = K + 1
        <5>1. Upto(levels1, k - 1) = acc.completed /\ levels1[k] = a.level
          BY <1>1, <2>2, <2>3, <4>1
        <5>2. Range(a.level) \cap acc.completed = {}
          BY <1>1, <1>3
        <5>3. QED
          BY <1>3, <1>4, <5>1, <5>2
      <4>2. CASE k \in 1..K
        <5>1. Upto(levels1, k - 1) = Upto(acc.levels, k - 1) /\ levels1[k] = acc.levels[k]
          BY <2>2, <2>3, <4>2, SMTT(30)
        <5>2. k \in DOMAIN acc.levels
          BY <1>1, <4>2
        <5>3. QED
          BY <1>1, <5>1, <5>2 DEF LevelsFollow, LevelFollows
      <4>3. QED
        BY <2>2, <4>1, <4>2, SMTT(30)
    <3>2. QED
      BY <3>1 DEF LevelsFollow, LevelFollows
  <2>5. new \in [completed : SUBSET Tests, rest : Seq(Tests), levels : Seq(Seq(Tests))]
    BY <1>3, <2>1, <2>2
  <2>6. /\ new.completed = Upto(new.levels, Len(new.levels))
        /\ new.completed \cup Range(new.rest) = Range(s.order)
        /\ new.completed \cap Range(new.rest) = {}
        /\ Ordered(s, new.rest)
    BY <1>1, <1>3, <2>1, <2>2, <2>3
  <2>7. new \in Grouping(s)
    BY <2>1, <2>4, <2>5, <2>6 DEF Grouping
  <2>8. Len(new.rest) < Len(acc.rest)
    <3>1. Len(a.level) \in Nat /\ Len(a.level) # 0 /\ Len(a.rest) \in Nat
      BY <1>3, <1>7
    <3> DEFINE l == Len(a.level)
               r == Len(a.rest)
    <3>2. l \in Nat /\ l # 0 /\ r \in Nat
      BY <3>1
    <3> HIDE DEF l, r
    <3>3. r < l + r
      BY <3>2
    <3>4. QED
      BY <1>3, <2>1, <3>3 DEF l, r
  <2>9. ~StuckGroup(s, acc)
    <3>1. 1 \in DOMAIN a.level /\ a.level[1] \in Range(a.level)
      BY <1>3, <1>7, RangeTail, RangeFacts
    <3>2. s.deps[a.level[1]] \subseteq acc.completed
      BY <1>4, <3>1
    <3>3. QED
      BY <1>3, <3>1, <3>2 DEF StuckGroup
  <2>10. QED
    BY <2>7, <2>8, <2>9 DEF new
<1>8. QED
  BY <1>6, <1>7

\* The turns of the grouping are the repeated step, in any set that the step does not leave.
LEMMA GroupTurns ==
    ASSUME NEW s \in Suites, NEW A,
           [completed |-> {}, rest |-> s.order, levels |-> <<>>] \in A,
           \A acc \in A : group_step(s, acc) \in A
    PROVE  /\ group_turns(s) \in [0..Len(s.order) -> A]
           /\ group_turns(s)[0] = [completed |-> {}, rest |-> s.order, levels |-> <<>>]
           /\ \A n \in 1..Len(s.order) :
                  group_turns(s)[n] = group_step(s, group_turns(s)[n - 1])
<1> DEFINE N == Len(s.order)
           start == [completed |-> {}, rest |-> s.order, levels |-> <<>>]
           step == [n \in 1..N |-> [acc \in A |-> group_step(s, acc)]]
           Turns(t) == t = [n \in 0..N |-> IF n = 0 THEN start ELSE group_step(s, t[n - 1])]
<1>1. N \in Nat
  BY StrategyAssumption
<1>2. step \in [1..N -> [A -> A]] /\ start \in A
  OBVIOUS
<1>3. PICK g : Iterates(g, A, start, N, step)
  <2> HIDE DEF N, start, step
  <2>1. start \in A
    BY <1>2
  <2>2. step \in [1..N -> [A -> A]]
    BY <1>2
  <2>3. QED
    BY <1>1, <2>1, <2>2, Iteration
<1>4. ASSUME NEW n \in 1..N
      PROVE  g[n] = group_step(s, g[n - 1])
  <2>1. n - 1 \in 0..N /\ g[n - 1] \in A
    BY <1>1, <1>3 DEF Iterates
  <2>2. step[n][g[n - 1]] = group_step(s, g[n - 1])
    BY <2>1
  <2> HIDE DEF step
  <2>3. QED
    BY <1>3, <2>2 DEF Iterates
<1>5. Turns(g)
  <2> HIDE DEF start
  <2> QED
    BY <1>1, <1>3, <1>4 DEF Iterates
<1>6. group_turns(s) = CHOOSE t : Turns(t)
  BY DEF group_turns
<1>7. Turns(group_turns(s))
  <2> HIDE DEF Turns
  <2> QED
    BY <1>5, <1>6
<1> HIDE DEF start
<1>8. DOMAIN group_turns(s) = 0..N /\ group_turns(s)[0] = start
  BY <1>1, <1>7
<1>9. ASSUME NEW n \in 1..N
      PROVE  group_turns(s)[n] = group_step(s, group_turns(s)[n - 1])
  <2> DEFINE t == group_turns(s)
  <2>1. n \in 0..N /\ n # 0
    BY <1>1
  <2>2. t = [k \in 0..N |-> IF k = 0 THEN start ELSE group_step(s, t[k - 1])]
    BY <1>7
  <2> HIDE DEF t
  <2>3. t[n] = group_step(s, t[n - 1])
    BY <2>1, <2>2
  <2>4. QED
    BY <2>3 DEF t
<1>10. 0..N \subseteq {n \in 0..N : group_turns(s)[n] \in A}
  <2> DEFINE P == {n \in 0..N : group_turns(s)[n] \in A}
  <2>1. 0 \in P
    BY <1>1, <1>8 DEF start
  <2>2. \A n \in 1..N : n - 1 \in P => n \in P
    BY <1>1, <1>9
  <2> HIDE DEF P
  <2>3. 0..N \subseteq P
    BY <1>1, <2>1, <2>2, SetInduction
  <2>4. QED
    BY <2>3 DEF P
<1>11. QED
  BY <1>7, <1>8, <1>9, <1>10 DEF start

\* The levels hold the tests that are not blocked and can run one after the other.
LEMMA GroupSound ==
    ASSUME NEW s \in Suites
    PROVE  LET list == group_by_dependency_levels(s)
           IN  /\ list \in Seq(Seq(Tests))
               /\ LevelsFollow(s, {}, list)
               /\ Upto(list, Len(list)) = Range(s.order) \ Blocked(s)
<1> DEFINE N == Len(s.order)
           turn == group_turns(s)
           acc == turn[N]
           list == group_by_dependency_levels(s)
<1>1. N \in Nat /\ s.order \in Seq(Tests) /\ s.deps \in [Tests -> SUBSET Tests]
  BY StrategyAssumption
<1>2. [completed |-> {}, rest |-> s.order, levels |-> <<>>] \in Grouping(s)
  <2> DEFINE a == [completed |-> {}, rest |-> s.order, levels |-> <<>>]
  <2>1. a \in [completed : SUBSET Tests, rest : Seq(Tests), levels : Seq(Seq(Tests))]
    BY <1>1
  <2>2. a.completed = {} /\ a.rest = s.order /\ a.levels = <<>>
    OBVIOUS
  <2> HIDE DEF a
  <2>3. Upto(a.levels, Len(a.levels)) = {}
    BY <2>2 DEF Upto
  <2>4. Ordered(s, a.rest)
    BY <1>1, <2>2 DEF Ordered, ListedBefore
  <2>5. LevelsFollow(s, {}, a.levels)
    BY <2>2 DEF LevelsFollow, LevelFollows
  <2>6. a \in Grouping(s)
    BY <2>1, <2>2, <2>3, <2>4, <2>5 DEF Grouping
  <2>7. QED
    BY <2>6 DEF a
<1>3. \A a \in Grouping(s) : group_step(s, a) \in Grouping(s)
  BY GroupStep
<1>4. /\ turn \in [0..N -> Grouping(s)]
      /\ turn[0] = [completed |-> {}, rest |-> s.order, levels |-> <<>>]
      /\ \A n \in 1..N : turn[n] = group_step(s, turn[n - 1])
  BY <1>2, <1>3, GroupTurns
<1>5. acc \in Grouping(s) /\ list = acc.levels
  BY <1>1, <1>4 DEF group_by_dependency_levels
<1> HIDE DEF turn
<1>6. StuckGroup(s, acc) \/ Len(acc.rest) <= 0
  <2> DEFINE P == {n \in 0..N : StuckGroup(s, turn[n]) \/ Len(turn[n].rest) <= N - n}
  <2>1. 0 \in P
    BY <1>1, <1>4
  <2>2. ASSUME NEW n \in 1..N, n - 1 \in P
        PROVE  n \in P
    <3>1. n - 1 \in 0..N /\ n \in 0..N
      BY <1>1
    <3>2. turn[n - 1] \in Grouping(s) /\ turn[n] \in Grouping(s)
      <4> HIDE DEF N
      <4>1. QED
        BY <1>4, <3>1
    <3>3. turn[n] = group_step(s, turn[n - 1])
      BY <1>4
    <3>4. CASE turn[n] = turn[n - 1] /\ StuckGroup(s, turn[n - 1])
      BY <3>1, <3>4
    <3>5. CASE Len(turn[n].rest) < Len(turn[n - 1].rest) /\ ~StuckGroup(s, turn[n - 1])
      <4>1. Len(turn[n - 1].rest) <= N - (n - 1)
        BY <2>2, <3>5
      <4>2. Len(turn[n].rest) \in Nat /\ Len(turn[n - 1].rest) \in Nat
        BY <3>2 DEF Grouping
      <4>3. Len(turn[n].rest) <= N - n
        BY <1>1, <3>5, <4>1, <4>2, SMTT(30)
      <4>4. QED
        BY <3>1, <4>3
    <3>6. QED
      BY <3>2, <3>3, <3>4, <3>5, GroupStep
  <2>3. 0..N \subseteq P
    <3> HIDE DEF P, N
    <3>1. QED
      BY <1>1, <2>1, <2>2, SetInduction
  <2>4. N \in 0..N /\ N - N = 0
    BY <1>1
  <2>5. QED
    BY <2>3, <2>4
<1>7. /\ acc.completed = Upto(list, Len(list)) /\ acc.rest \in Seq(Tests)
      /\ acc.completed \cup Range(acc.rest) = Range(s.order)
      /\ acc.completed \cap Range(acc.rest) = {}
      /\ LevelsFollow(s, {}, list) /\ list \in Seq(Seq(Tests))
  BY <1>5 DEF Grouping
<1> HIDE DEF acc, list
<1>8. StuckGroup(s, acc)
  <2>1. CASE Len(acc.rest) <= 0
    <3>1. acc.rest = <<>>
      BY <1>7, <2>1
    <3>2. Range(acc.rest) = {}
      BY <3>1 DEF Range
    <3>3. QED
      BY <3>2 DEF StuckGroup
  <2>2. QED
    BY <1>6, <2>1
<1>9. Range(acc.rest) \subseteq Blocked(s)
  <2> DEFINE S == Range(acc.rest)
  <2>1. ASSUME NEW t \in S
        PROVE  \E d \in s.deps[t] : d \in S \/ d \notin Range(s.order)
    BY <1>7, <1>8 DEF StuckGroup
  <2>2. S \in SUBSET Range(s.order)
    BY <1>7
  <2> HIDE DEF S
  <2>3. S \subseteq Blocked(s)
    BY <2>1, <2>2 DEF Blocked
  <2>4. QED
    BY <2>3 DEF S
<1>10. ASSUME NEW b \in acc.completed, b \in Blocked(s)
       PROVE  FALSE
  <2>1. PICK S \in SUBSET Range(s.order) :
               /\ b \in S
               /\ \A t \in S : \E d \in s.deps[t] : d \in S \/ d \notin Range(s.order)
    BY <1>10 DEF Blocked
  <2> DEFINE reached == {k \in 1..Len(list) : Range(list[k]) \cap S # {}}
  <2>2. reached # {}
    <3>1. PICK k \in 1..Len(list) : b \in Range(list[k])
      BY <1>7 DEF Upto
    <3>2. QED
      BY <2>1, <3>1
  <2>3. reached \subseteq Nat
    OBVIOUS
  <2>4. PICK k \in reached : \A m \in reached : k <= m
    <3> HIDE DEF reached
    <3>1. QED
      BY <2>2, <2>3, LeastNatural
  <2>5. list[k] \in Seq(Tests) /\ k \in DOMAIN list /\ k \in 1..Len(list)
    BY <1>7
  <2>6. PICK i \in DOMAIN list[k] :
               list[k][i] \in S /\ \A j \in 1..(i - 1) : list[k][j] \notin S
    <3>1. Range(list[k]) \cap S # {}
      OBVIOUS
    <3>2. QED
      BY <2>5, <3>1, FirstPlace
  <2>7. \A m \in 1..(k - 1) : Range(list[m]) \cap S = {}
    <3> TAKE m \in 1..(k - 1)
    <3>1. m \in 1..Len(list) /\ ~(k <= m)
      BY <1>7, <2>5
    <3>2. QED
      BY <2>4, <3>1
  <2>8. Upto(list, k - 1) \cap S = {}
    BY <2>7 DEF Upto
  <2>9. s.deps[list[k][i]] \subseteq {} \cup Upto(list, k - 1)
                                        \cup {list[k][j] : j \in 1..(i - 1)}
    BY <1>7, <2>5, <2>6 DEF LevelsFollow, LevelFollows
  <2>10. s.deps[list[k][i]] \cap S = {}
    BY <2>6, <2>8, <2>9
  <2>11. Upto(list, k - 1) \subseteq Range(s.order)
    <3>1. 1..(k - 1) \subseteq 1..Len(list)
      BY <1>7, <2>5
    <3>2. QED
      BY <1>7, <3>1 DEF Upto
  <2>12. Range(list[k]) \subseteq Range(s.order)
    BY <1>7, <2>5 DEF Upto
  <2>13. \A j \in 1..(i - 1) : list[k][j] \in Range(list[k])
    <3>1. i \in 1..Len(list[k]) /\ Len(list[k]) \in Nat
      BY <2>5, <2>6
    <3>2. 1..(i - 1) \subseteq 1..Len(list[k])
      BY <3>1
    <3>3. QED
      BY <2>5, <3>2, RangeFacts
  <2>14. s.deps[list[k][i]] \subseteq Range(s.order)
    BY <2>9, <2>11, <2>12, <2>13
  <2>15. QED
    BY <2>1, <2>6, <2>10, <2>14
<1>11. QED
  BY <1>7, <1>9, <1>10 DEF list

-----------------------------------------------------------------------------
(***************************************************************************)
(* The invariant is preserved                                              *)
(***************************************************************************)
\* The steps of a call once it is under way, and the passing of time.
LEMMA TypeStep ==
    ASSUME StrategyTypeOK, [StrategyNext]_strategyVars
    PROVE  StrategyTypeOK'
<1> USE DEF StrategyTypeOK, Stages
<1> USE StrategyAssumption
<1>1. ASSUME NEW s \in Suites, execute_serial(s)
      PROVE  StrategyTypeOK'
  <2>1. sort_by_dependencies(s).sorted \in Seq(Tests)
    BY SortSound DEF Sorting
  <2>2. sorted' \in Seq(Tests)
    BY <1>1, <2>1 DEF execute_serial
  <2>3. strategy' = "serial" /\ suite' = s /\ phase' \in {"running", "error"}
    BY <1>1 DEF execute_serial
  <2>4. QED
    BY <1>1, <2>2, <2>3 DEF execute_serial, timeVars
<1>2. ASSUME NEW s \in Suites, execute_parallel(s)
      PROVE  StrategyTypeOK'
  <2>1. group_by_dependency_levels(s) \in Seq(Seq(Tests))
    BY GroupSound
  <2>2. QED
    BY <1>2, <2>1 DEF execute_parallel, timeVars
<1>3. CASE start_serial
  <2>1. stage' \in [Tests -> Stages] /\ seen' \in [Tests -> SUBSET Tests]
    BY <1>3 DEF start_serial
  <2>2. QED
    BY <1>3, <2>1 DEF start_serial, timeVars
<1>4. CASE finish_serial
  <2>1. Head(sorted) \in Tests /\ Tail(sorted) \in Seq(Tests)
    BY <1>4, RangeTail DEF finish_serial
  <2>2. stage' \in [Tests -> Stages]
    BY <1>4 DEF finish_serial
  <2>3. QED
    BY <1>4, <2>1, <2>2 DEF finish_serial, timeVars
<1>5. CASE return_serial
  BY <1>5 DEF return_serial, timeVars
<1>6. CASE next_level
  <2>1. CASE levels = <<>>
    BY <1>6, <2>1 DEF next_level, timeVars
  <2>2. CASE levels # <<>>
    <3>1. Head(levels) \in Seq(Tests) /\ Tail(levels) \in Seq(Seq(Tests))
      BY <2>2
    <3>2. QED
      BY <1>6, <2>2, <3>1 DEF next_level, timeVars
  <2>3. QED
    BY <2>1, <2>2
<1>7. CASE spawn
  <2>1. Tail(to_spawn) \in Seq(Tests)
    BY <1>7, RangeTail DEF spawn
  <2>2. stage' \in [Tests -> Stages]
    BY <1>7 DEF spawn
  <2>3. QED
    BY <1>7, <2>1, <2>2 DEF spawn, timeVars
<1>8. ASSUME NEW t \in Tests, rate_check(t)
      PROVE  StrategyTypeOK'
  <2>1. MinInterval - since \in 0..MinInterval
    OBVIOUS
  <2>2. stage' \in [Tests -> Stages] /\ sleep_left' \in [Tests -> 0..MinInterval]
    BY <1>8, <2>1, ZenonT(30) DEF rate_check, let_through, wait_time
  <2>3. 0 \in 0..MinInterval
    OBVIOUS
  <2>4. seen' \in [Tests -> SUBSET Tests]
    BY <1>8 DEF rate_check, let_through
  <2>5. age' \in [Tests -> 0..MinInterval] /\ since' \in 0..MinInterval
    BY <1>8, <2>3, ZenonT(30) DEF rate_check, let_through
  <2>6. QED
    BY <1>8, <2>2, <2>4, <2>5 DEF rate_check
<1>9. ASSUME NEW t \in Tests, rate_wake(t)
      PROVE  StrategyTypeOK'
  <2>1. stage' \in [Tests -> Stages] /\ seen' \in [Tests -> SUBSET Tests]
    BY <1>9 DEF rate_wake, let_through
  <2>2. age' \in [Tests -> 0..MinInterval] /\ since' \in 0..MinInterval
    BY <1>9 DEF rate_wake, let_through
  <2>3. QED
    BY <1>9, <2>1, <2>2 DEF rate_wake
<1>10. ASSUME NEW t \in Tests, finish_parallel(t)
       PROVE  StrategyTypeOK'
  <2>1. stage' \in [Tests -> Stages]
    BY <1>10 DEF finish_parallel
  <2>2. QED
    BY <1>10, <2>1 DEF finish_parallel, timeVars
<1>11. CASE tick
  <2>1. \A n \in 0..MinInterval : Up(n) \in 0..MinInterval /\ Down(n) \in 0..MinInterval
    BY DEF Up, Down
  <2>2. /\ since' \in 0..MinInterval
        /\ sleep_left' \in [Tests -> 0..MinInterval]
        /\ age' \in [Tests -> 0..MinInterval]
    BY <1>11, <2>1 DEF tick
  <2>3. QED
    BY <1>11, <2>2 DEF tick, runVars
<1>12. CASE UNCHANGED strategyVars
  BY <1>12 DEF strategyVars, runVars, timeVars
<1>13. QED
  BY <1>1, <1>2, <1>3, <1>4, <1>5, <1>6, <1>7, <1>8, <1>9, <1>10, <1>11, <1>12
  DEF StrategyNext, StrategyStep

\* What has happened before the call, and which call may fail.
LEMMA IdleStep ==
    ASSUME StrategyTypeOK, IdleInv, [StrategyNext]_strategyVars
    PROVE  IdleInv'
<1> USE DEF IdleInv, Started
<1>1. ASSUME NEW s \in Suites, execute_serial(s)
      PROVE  IdleInv'
  BY <1>1 DEF execute_serial
<1>2. ASSUME NEW s \in Suites, execute_parallel(s)
      PROVE  IdleInv'
  BY <1>2 DEF execute_parallel
<1>3. CASE start_serial
  BY <1>3 DEF start_serial
<1>4. CASE finish_serial
  BY <1>4 DEF finish_serial
<1>5. CASE return_serial
  BY <1>5 DEF return_serial
<1>6. CASE next_level
  BY <1>6 DEF next_level, Parallel
<1>7. CASE spawn
  BY <1>7 DEF spawn, Parallel
<1>8. ASSUME NEW t \in Tests, rate_check(t) \/ rate_wake(t) \/ finish_parallel(t)
      PROVE  IdleInv'
  BY <1>8 DEF rate_check, rate_wake, finish_parallel, Parallel
<1>9. CASE tick
  BY <1>9 DEF tick, runVars
<1>10. CASE UNCHANGED strategyVars
  BY <1>10 DEF strategyVars, runVars
<1>11. QED
  BY <1>1, <1>2, <1>3, <1>4, <1>5, <1>6, <1>7, <1>8, <1>9, <1>10 DEF StrategyNext, StrategyStep

-----------------------------------------------------------------------------
(***************************************************************************)
(* The rate limiter                                                        *)
(***************************************************************************)
\* Sets of tests are finite, and a part has no more tests than the whole.
LEMMA FewerTests ==
    ASSUME NEW T \in SUBSET Tests, NEW S \in SUBSET T
    PROVE  /\ IsFiniteSet(T) /\ Cardinality(S) \in Nat /\ Cardinality(T) \in Nat
           /\ Cardinality(S) <= Cardinality(T)
<1>1. IsFiniteSet(T)
  BY StrategyAssumption, FS_Subset
<1>2. IsFiniteSet(S) /\ Cardinality(S) <= Cardinality(T)
  BY <1>1, FS_Subset
<1>3. QED
  BY <1>1, <1>2, FS_CardinalityType

\* The recent tests held a permit together when the first of them was let through; one
\* that checks afterwards sleeps until all of them are old.
LEMMA BurstStep ==
    ASSUME StrategyTypeOK, IdleInv, BurstInv, [StrategyNext]_strategyVars, StrategyTypeOK'
    PROVE  BurstInv'
<1> DEFINE M == MinInterval
<1>types. /\ M \in Nat /\ Limit \in Nat /\ since \in 0..M
      /\ stage \in [Tests -> Stages]
      /\ age \in [Tests -> 0..M] /\ sleep_left \in [Tests -> 0..M]
  BY StrategyAssumption DEF StrategyTypeOK
\* Steps after which the limiter is not at work.
<1>calm. ASSUME strategy' # "parallel",
             \A t \in Tests : stage'[t] \notin {"waiting", "sleeping"} /\ age'[t] = M
      PROVE  BurstInv'
  <2>1. since' \in 0..M
    BY DEF StrategyTypeOK
  <2>2. \A t \in Through' : since' <= age'[t]
    BY <1>types, <1>calm, <2>1 DEF Through
  <2>3. ASSUME NEW a \in 0..(M - 1)
        PROVE  Cardinality(Recent(a)') <= Limit
    <3>1. ~(M <= a)
      BY <1>types
    <3>2. Recent(a)' = {}
      BY <1>calm, <3>1 DEF Recent, Through
    <3>3. QED
      BY <1>types, <3>2, FS_EmptySet
  <2>4. QED
    BY <1>calm, <2>2, <2>3 DEF BurstInv
\* Steps that only change which tests hold a permit.
<1>held. ASSUME strategy' = "parallel", UNCHANGED timeVars,
             \A t \in Tests : /\ stage'[t] = "sleeping" => stage[t] = "sleeping"
                              /\ stage'[t] \in {"requesting", "done"}
                                     => stage[t] \in {"requesting", "done"},
             Cardinality(InFlight') <= Limit
      PROVE  BurstInv'
  <2>1. Through' \subseteq Through
    BY <1>held DEF Through
  <2>2. ASSUME NEW a \in 0..(M - 1)
        PROVE  Cardinality(Recent(a)') <= Limit
    <3>1. Recent(a)' \subseteq Recent(a)
      BY <1>held DEF Recent, Through, timeVars
    <3>2. Recent(a) \subseteq Tests /\ Cardinality(Recent(a)) <= Limit
      BY DEF Recent, Through, BurstInv
    <3>3. QED
      BY <1>types, <3>1, <3>2, FewerTests
  <2>3. \A t \in Through' : since' <= age'[t]
    BY <1>held, <2>1 DEF BurstInv, timeVars
  <2>4. QED
    BY <1>held, <2>2, <2>3 DEF BurstInv
<1>1. ASSUME NEW s \in Suites, execute_serial(s)
      PROVE  BurstInv'
  <2>1. /\ strategy' # "parallel" /\ strategy = "none"
        /\ stage' = stage /\ age' = age
    BY <1>1 DEF execute_serial, IdleInv, timeVars
  <2>2. QED
    BY <1>calm, <2>1 DEF BurstInv
<1>2. ASSUME NEW s \in Suites, execute_parallel(s)
      PROVE  BurstInv'
  <2>1. /\ strategy' = "parallel" /\ strategy = "none" /\ stage' = stage /\ UNCHANGED timeVars
    BY <1>2 DEF execute_parallel, IdleInv
  <2>2. InFlight' = {}
    BY <2>1 DEF InFlight, IdleInv, Started
  <2>3. QED
    BY <1>types, <1>held, <2>1, <2>2, FS_EmptySet
<1>3. CASE start_serial \/ finish_serial \/ return_serial
  <2>1. /\ strategy' # "parallel" /\ strategy # "parallel" /\ age' = age
        /\ \A t \in Tests : stage'[t] \in {stage[t], "requesting", "done"}
    BY <1>types, <1>3 DEF start_serial, finish_serial, return_serial, timeVars
  <2>2. \A t \in Tests : stage[t] \notin {"waiting", "sleeping"} /\ age[t] = M
    BY <2>1 DEF BurstInv
  <2>3. QED
    BY <1>calm, <2>1, <2>2
<1>4. CASE next_level
  <2>1. strategy' = "parallel" /\ stage' = stage /\ UNCHANGED timeVars /\ strategy = strategy'
    BY <1>4 DEF next_level, Parallel
  <2>2. Cardinality(InFlight') <= Limit
    BY <2>1 DEF BurstInv, InFlight
  <2>3. QED
    BY <1>held, <2>1, <2>2
<1>5. CASE spawn
  <2> DEFINE h == Head(to_spawn)
  <2>1. /\ strategy' = "parallel" /\ UNCHANGED timeVars
        /\ stage' = [stage EXCEPT ![h] = "waiting"]
        /\ Cardinality(InFlight) < Limit
    BY <1>5 DEF spawn, Parallel
  <2> HIDE DEF h
  <2>2. InFlight' \subseteq InFlight \cup {h} /\ InFlight \subseteq Tests
    BY <1>types, <2>1 DEF InFlight
  <2>3. Cardinality(InFlight') <= Cardinality(InFlight) + 1
    <3>1. IsFiniteSet(InFlight) /\ Cardinality(InFlight) \in Nat
      BY <2>2, FewerTests
    <3>2. /\ IsFiniteSet(InFlight \cup {h})
          /\ Cardinality(InFlight \cup {h}) <= Cardinality(InFlight) + 1
      <4> DEFINE n == Cardinality(InFlight)
                 m == Cardinality(InFlight \cup {h})
      <4>1. IsFiniteSet(InFlight \cup {h}) /\ (m = n \/ m = n + 1)
        BY <3>1, FS_AddElement
      <4>2. n \in Nat
        BY <3>1
      <4> HIDE DEF n, m
      <4>3. m <= n + 1
        BY <4>1, <4>2
      <4>4. QED
        BY <4>1, <4>3 DEF n, m
    <3>3. /\ Cardinality(InFlight') <= Cardinality(InFlight \cup {h})
          /\ IsFiniteSet(InFlight')
      BY <2>2, <3>2, FS_Subset
    <3>4. Cardinality(InFlight') \in Nat /\ Cardinality(InFlight \cup {h}) \in Nat
      BY <3>2, <3>3, FS_CardinalityType
    <3>5. QED
      BY <3>1, <3>2, <3>3, <3>4
  <2>4. Cardinality(InFlight') <= Limit
    <3>1. Cardinality(InFlight) \in Nat /\ Cardinality(InFlight') \in Nat
      <4>1. InFlight' \subseteq Tests
        BY DEF InFlight
      <4>2. QED
        BY <2>2, <4>1, FewerTests
    <3>2. QED
      BY <1>types, <2>1, <2>3, <3>1
  <2>5. QED
    BY <1>types, <1>held, <2>1, <2>4
<1>6. ASSUME NEW t \in Tests, rate_check(t)
      PROVE  BurstInv'
  <2>1. strategy' = "parallel" /\ strategy = "parallel" /\ stage[t] = "waiting"
    BY <1>6 DEF rate_check, Parallel
  <2>2. InFlight' = InFlight
    BY <1>types, <1>6 DEF InFlight, rate_check, let_through
  <2>3. InFlight \subseteq Tests /\ Cardinality(InFlight) <= Limit
    BY <2>1 DEF InFlight, BurstInv
  <2>4. CASE since >= M
    <3>1. /\ stage' = [stage EXCEPT ![t] = "requesting"] /\ age' = [age EXCEPT ![t] = 0]
          /\ since' = 0 /\ sleep_left' = sleep_left
      BY <1>6, <2>4 DEF rate_check, let_through
    <3>2. \A u \in Through : age[u] = M
      BY <1>types, <2>4 DEF BurstInv, Through
    <3>3. ASSUME NEW a \in 0..(M - 1)
          PROVE  Cardinality(Recent(a)') <= Limit
      <4>1. ~(M <= a)
        BY <1>types
      <4>2. Recent(a)' \subseteq InFlight
        BY <1>types, <2>1, <3>1, <3>2, <4>1 DEF Recent, Through, InFlight
      <4>3. QED
        BY <1>types, <2>3, <4>2, FewerTests
    <3>4. \A u \in Through' : since' <= age'[u]
      BY <1>types, <3>1 DEF Through, StrategyTypeOK
    <3>5. QED
      BY <2>1, <2>2, <2>3, <3>3, <3>4 DEF BurstInv
  <2>5. CASE ~(since >= M)
    <3>1. /\ stage' = [stage EXCEPT ![t] = "sleeping"] /\ age' = age /\ since' = since
          /\ sleep_left' = [sleep_left EXCEPT ![t] = M - since]
      BY <1>6, <2>5 DEF rate_check, wait_time
    <3>2. Through' = Through
      BY <1>types, <2>1, <3>1 DEF Through
    <3>3. ASSUME NEW a \in 0..(M - 1)
          PROVE  Cardinality(Recent(a)') <= Limit
      <4>1. CASE a < since
        <5>1. \A u \in Through : ~(age[u] <= a)
          BY <1>types, <4>1 DEF BurstInv, Through
        <5>2. Recent(a)' \subseteq InFlight'
          BY <3>1, <3>2, <5>1 DEF Recent, InFlight
        <5>3. QED
          BY <1>types, <2>2, <2>3, <5>2, FewerTests
      <4>2. CASE ~(a < since)
        <5>1. ~((M - since) + a < M)
          BY <1>types, <4>2
        <5>2. Recent(a)' \subseteq Recent(a)
          BY <1>types, <3>1, <3>2, <5>1 DEF Recent
        <5>3. Recent(a) \subseteq Tests /\ Cardinality(Recent(a)) <= Limit
          BY DEF Recent, Through, BurstInv
        <5>4. QED
          BY <1>types, <5>2, <5>3, FewerTests
      <4>3. QED
        BY <4>1, <4>2
    <3>4. QED
      BY <2>1, <2>2, <2>3, <3>1, <3>2, <3>3 DEF BurstInv
  <2>6. QED
    BY <2>4, <2>5
<1>7. ASSUME NEW t \in Tests, rate_wake(t)
      PROVE  BurstInv'
  <2>1. /\ strategy' = "parallel" /\ strategy = "parallel"
        /\ stage[t] = "sleeping" /\ sleep_left[t] = 0
        /\ stage' = [stage EXCEPT ![t] = "requesting"] /\ age' = [age EXCEPT ![t] = 0]
        /\ since' = 0 /\ sleep_left' = sleep_left
    BY <1>7 DEF rate_wake, Parallel, let_through
  <2>2. InFlight' = InFlight
    BY <1>types, <2>1 DEF InFlight
  <2>3. ASSUME NEW a \in 0..(M - 1)
        PROVE  Cardinality(Recent(a)') <= Limit
    <3>1. 0 + a < M
      BY <1>types
    <3>2. Recent(a)' \subseteq Recent(a)
      BY <1>types, <2>1, <3>1 DEF Recent, Through
    <3>3. Recent(a) \subseteq Tests /\ Cardinality(Recent(a)) <= Limit
      BY DEF Recent, Through, BurstInv
    <3>4. QED
      BY <1>types, <3>2, <3>3, FewerTests
  <2>4. \A u \in Through' : since' <= age'[u]
    BY <1>types, <2>1 DEF Through, StrategyTypeOK
  <2>5. QED
    BY <2>1, <2>2, <2>3, <2>4 DEF BurstInv
<1>8. ASSUME NEW t \in Tests, finish_parallel(t)
      PROVE  BurstInv'
  <2>1. /\ strategy' = "parallel" /\ strategy = "parallel" /\ UNCHANGED timeVars
        /\ stage[t] = "requesting" /\ stage' = [stage EXCEPT ![t] = "done"]
    BY <1>8 DEF finish_parallel, Parallel, Requesting
  <2>2. InFlight' \subseteq InFlight /\ InFlight \subseteq Tests
    BY <1>types, <2>1 DEF InFlight
  <2>3. Cardinality(InFlight') <= Limit
    <3>1. Cardinality(InFlight) <= Limit
      BY <2>1 DEF BurstInv
    <3>2. QED
      BY <1>types, <2>2, <3>1, FewerTests
  <2>4. QED
    BY <1>types, <1>held, <2>1, <2>3
<1>9. CASE tick
  <2>1. /\ strategy' = strategy /\ stage' = stage
        /\ since' = Up(since)
        /\ \A t \in Tests : age'[t] = Up(age[t]) /\ sleep_left'[t] = Down(sleep_left[t])
    BY <1>9 DEF tick, runVars
  <2>2. CASE strategy # "parallel"
    <3>1. Up(M) = M
      BY <1>types DEF Up
    <3>2. \A t \in Tests : stage'[t] \notin {"waiting", "sleeping"} /\ age'[t] = M
      BY <2>1, <2>2, <3>1 DEF BurstInv
    <3>3. QED
      BY <1>calm, <2>1, <2>2, <3>2
  <2>3. CASE strategy = "parallel"
    <3>1. InFlight' = InFlight /\ InFlight \subseteq Tests /\ Cardinality(InFlight) <= Limit
      BY <2>1, <2>3 DEF InFlight, BurstInv
    <3>2. \A m, n \in 0..M : m <= n => Up(m) <= Up(n)
      BY <1>types DEF Up
    <3>3. \A t \in Through' : since' <= age'[t]
      BY <1>types, <2>1, <3>2 DEF Through, BurstInv
    <3>4. ASSUME NEW a \in 0..(M - 1)
          PROVE  Cardinality(Recent(a)') <= Limit
      <4>1. CASE a = 0
        <5>1. \A n \in 0..M : ~(Up(n) <= a)
          BY <1>types, <4>1 DEF Up
        <5>2. Recent(a)' \subseteq InFlight
          BY <1>types, <2>1, <5>1 DEF Recent, Through, InFlight
        <5>3. QED
          BY <1>types, <3>1, <5>2, FewerTests
      <4>2. CASE a # 0
        <5>1. a - 1 \in 0..(M - 1)
          BY <1>types, <4>2
        <5>2. \A n \in 0..M : Up(n) <= a => n <= a - 1
          BY <1>types, <4>2 DEF Up
        <5>3. \A n \in 0..M : Down(n) + a < M => n + (a - 1) < M
          BY <1>types, <4>2 DEF Down
        <5>4. Recent(a)' \subseteq Recent(a - 1)
          BY <1>types, <2>1, <5>2, <5>3 DEF Recent, Through
        <5>5. Recent(a - 1) \subseteq Tests /\ Cardinality(Recent(a - 1)) <= Limit
          BY <5>1 DEF Recent, Through, BurstInv
        <5>6. QED
          BY <1>types, <5>4, <5>5, FewerTests
      <4>3. QED
        BY <4>1, <4>2
    <3>5. QED
      BY <2>1, <2>3, <3>1, <3>3, <3>4 DEF BurstInv
  <2>4. QED
    BY <2>2, <2>3
<1>10. CASE UNCHANGED strategyVars
  BY <1>10 DEF strategyVars, runVars, timeVars, BurstInv, InFlight, Through, Recent
<1>11. QED
  BY <1>1, <1>2, <1>3, <1>4, <1>5, <1>6, <1>7, <1>8, <1>9, <1>10 DEF StrategyNext, StrategyStep

-----------------------------------------------------------------------------
(***************************************************************************)
(* The serial strategy                                                     *)
(***************************************************************************)
\* The tests follow one another in an order in which each finds its dependencies.
LEMMA SerialStep ==
    ASSUME StrategyTypeOK, IdleInv, SerialInv, [StrategyNext]_strategyVars
    PROVE  SerialInv'
<1>types. /\ sorted \in Seq(Tests) /\ context \subseteq Tests
          /\ stage \in [Tests -> Stages] /\ seen \in [Tests -> SUBSET Tests]
  BY DEF StrategyTypeOK
\* Steps of the parallel strategy.
<1>parallel. ASSUME strategy' # "serial"
             PROVE  SerialInv'
  BY <1>parallel DEF SerialInv
<1>1. ASSUME NEW s \in Suites, execute_serial(s)
      PROVE  SerialInv'
  <2> DEFINE acc == sort_by_dependencies(s)
  <2>1. acc \in Sorting(s) /\ (acc.left = <<>> <=> Blocked(s) = {})
    BY SortSound
  <2>2. /\ strategy' = "serial" /\ suite' = s /\ stage' = stage /\ context' = context
        /\ seen' = seen
        /\ IF acc.left = <<>> THEN sorted' = acc.sorted /\ phase' = "running"
           ELSE phase' = "error" /\ sorted' = sorted
    BY <1>1 DEF execute_serial
  <2> HIDE DEF acc
  <2>3. strategy = "none"
    BY <1>1 DEF execute_serial, IdleInv
  <2>4. /\ context' = {} /\ sorted = <<>> /\ \A t \in Tests : stage'[t] = "none"
    BY <2>2, <2>3 DEF IdleInv, Started
  <2>5. SerialSeesDependencies'
    BY <2>4 DEF SerialSeesDependencies
  <2>6. CASE acc.left = <<>>
    <3>1. sorted' = acc.sorted /\ phase' = "running" /\ Blocked(suite') = {}
      BY <2>1, <2>2, <2>6
    <3>2. Range(acc.left) = {}
      BY <2>6 DEF Range
    <3>3. context' \cup Range(sorted') = Range(suite'.order)
      BY <2>1, <2>2, <2>4, <3>1, <3>2 DEF Sorting
    <3>4. \A i \in DOMAIN sorted' : suite'.deps[sorted'[i]]
                                        \subseteq context' \cup {sorted'[j] : j \in 1..(i - 1)}
      BY <2>1, <2>2, <3>1 DEF Sorting
    <3>5. Blocked(suite)' = {}
      BY <3>1 DEF Blocked
    <3>6. QED
      BY <2>2, <2>4, <2>5, <3>1, <3>3, <3>4, <3>5 DEF SerialInv
  <2>7. CASE acc.left # <<>>
    <3>1. phase' = "error" /\ sorted' = <<>> /\ Blocked(suite') # {}
      BY <2>1, <2>2, <2>4, <2>7
    <3>2. Blocked(suite)' # {}
      BY <3>1 DEF Blocked
    <3>3. QED
      BY <2>2, <2>4, <2>5, <3>1, <3>2 DEF SerialInv
  <2>8. QED
    BY <2>6, <2>7
<1>2. ASSUME NEW s \in Suites, execute_parallel(s)
      PROVE  SerialInv'
  BY <1>parallel, <1>2 DEF execute_parallel
<1>3. CASE start_serial
  <2> DEFINE h == Head(sorted)
  <2>1. /\ strategy = "serial" /\ phase = "running" /\ sorted # <<>>
        /\ strategy' = strategy /\ suite' = suite /\ phase' = phase /\ sorted' = sorted
        /\ context' = context
        /\ stage' = [stage EXCEPT ![h] = "requesting"]
        /\ seen' = [seen EXCEPT ![h] = context]
        /\ \A t \in Tests : stage[t] # "requesting"
    BY <1>3 DEF start_serial, Requesting
  <2>2. h = sorted[1] /\ h \in Tests /\ 1 \in DOMAIN sorted
    BY <1>types, <2>1, RangeTail
  <2> HIDE DEF h
  <2>3. suite.deps[h] \subseteq context
    <3>1. suite.deps[sorted[1]] \subseteq context \cup {sorted[j] : j \in 1..(1 - 1)}
      BY <2>1, <2>2 DEF SerialInv
    <3>2. 1..(1 - 1) = {}
      OBVIOUS
    <3>3. QED
      BY <2>2, <3>1, <3>2
  <2>4. SerialSeesDependencies'
    <3>1. ASSUME NEW t \in Tests, stage'[t] # "none"
          PROVE  suite.deps[t] \subseteq seen'[t]
      <4>1. CASE t = h
        BY <1>types, <2>1, <2>3, <4>1
      <4>2. CASE t # h
        BY <1>types, <2>1, <3>1, <4>2 DEF SerialInv, SerialSeesDependencies
      <4>3. QED
        BY <4>1, <4>2
    <3>2. QED
      BY <2>1, <3>1 DEF SerialSeesDependencies
  <2>5. \A t \in Tests :
            /\ stage'[t] \in {"none", "requesting", "done"}
            /\ t \in context' => stage'[t] # "none"
            /\ stage'[t] = "done" => t \in context'
            /\ stage'[t] = "requesting" => sorted' # <<>> /\ t = sorted'[1]
    BY <1>types, <2>1, <2>2 DEF SerialInv
  <2>6. Blocked(suite)' = Blocked(suite)
    BY <2>1 DEF Blocked
  <2>7. QED
    BY <2>1, <2>4, <2>5, <2>6 DEF SerialInv
<1>4. CASE finish_serial
  <2> DEFINE h == Head(sorted)
             rest == Tail(sorted)
  <2>1. /\ strategy = "serial" /\ phase = "running" /\ sorted # <<>>
        /\ strategy' = strategy /\ suite' = suite /\ phase' = phase /\ sorted' = rest
        /\ context' = context \cup {h}
        /\ stage' = [stage EXCEPT ![h] = "done"]
        /\ seen' = seen
        /\ stage[h] = "requesting"
    BY <1>4 DEF finish_serial, Requesting
  <2>2. /\ h = sorted[1] /\ h \in Tests
        /\ rest \in Seq(Tests) /\ Len(rest) = Len(sorted) - 1
        /\ \A i \in 1..(Len(sorted) - 1) : rest[i] = sorted[i + 1]
        /\ Range(sorted) = {sorted[1]} \cup Range(rest)
    BY <1>types, <2>1, RangeTail
  <2> HIDE DEF h, rest
  <2>3. context' \cup Range(sorted') = Range(suite'.order) /\ Blocked(suite) = {}
    BY <2>1, <2>2 DEF SerialInv
  <2>4. ASSUME NEW i \in DOMAIN rest
        PROVE  suite.deps[rest[i]] \subseteq context' \cup {rest[j] : j \in 1..(i - 1)}
    <3>1. i \in 1..(Len(sorted) - 1) /\ i + 1 \in DOMAIN sorted /\ i \in Nat
      BY <1>types, <2>2
    <3>2. rest[i] = sorted[i + 1]
      BY <2>2, <3>1
    <3>3. suite.deps[sorted[i + 1]] \subseteq context \cup {sorted[j] : j \in 1..((i + 1) - 1)}
      BY <2>1, <3>1 DEF SerialInv
    <3>4. ASSUME NEW j \in 1..((i + 1) - 1), j # 1
          PROVE  sorted[j] \in {rest[m] : m \in 1..(i - 1)}
      <4>1. Len(sorted) \in Nat
        BY <1>types
      <4>2. /\ j - 1 \in 1..(i - 1) /\ j - 1 \in 1..(Len(sorted) - 1)
            /\ (j - 1) + 1 = j
        BY <3>1, <3>4, <4>1
      <4>3. rest[j - 1] = sorted[j]
        BY <2>2, <4>2
      <4>4. QED
        BY <4>2, <4>3
    <3>5. {sorted[j] : j \in 1..((i + 1) - 1)} \subseteq {h} \cup {rest[j] : j \in 1..(i - 1)}
      BY <2>2, <3>4
    <3>6. QED
      BY <2>1, <3>2, <3>3, <3>5
  <2>5. \A t \in Tests :
            /\ stage'[t] \in {"none", "requesting", "done"}
            /\ t \in context' => stage'[t] # "none"
            /\ stage'[t] = "done" => t \in context'
            /\ stage'[t] # "requesting"
    BY <1>types, <2>1, <2>2 DEF SerialInv
  <2>6. SerialSeesDependencies'
    BY <1>types, <2>1 DEF SerialInv, SerialSeesDependencies
  <2>7. Blocked(suite)' = Blocked(suite)
    BY <2>1 DEF Blocked
  <2>8. QED
    BY <2>1, <2>3, <2>4, <2>5, <2>6, <2>7 DEF SerialInv
<1>5. CASE return_serial
  <2>1. /\ strategy = "serial" /\ phase = "running" /\ sorted = <<>> /\ phase' = "done"
        /\ UNCHANGED <<strategy, suite, sorted, stage, context, seen>>
    BY <1>5 DEF return_serial
  <2>2. SerialSeesDependencies' /\ Blocked(suite)' = Blocked(suite)
    BY <2>1 DEF SerialInv, SerialSeesDependencies, Blocked
  <2>3. QED
    BY <2>1, <2>2 DEF SerialInv
<1>6. CASE next_level \/ spawn
  BY <1>parallel, <1>6 DEF next_level, spawn, Parallel
<1>7. ASSUME NEW t \in Tests, rate_check(t) \/ rate_wake(t) \/ finish_parallel(t)
      PROVE  SerialInv'
  BY <1>parallel, <1>7 DEF rate_check, rate_wake, finish_parallel, Parallel
<1>8. CASE tick \/ UNCHANGED strategyVars
  <2>1. UNCHANGED runVars
    BY <1>8 DEF tick, strategyVars
  <2>2. SerialSeesDependencies' = SerialSeesDependencies /\ Blocked(suite)' = Blocked(suite)
    BY <2>1 DEF runVars, SerialSeesDependencies, Blocked
  <2>3. QED
    BY <2>1, <2>2 DEF runVars, SerialInv
<1>9. QED
  BY <1>1, <1>2, <1>3, <1>4, <1>5, <1>6, <1>7, <1>8 DEF StrategyNext, StrategyStep

-----------------------------------------------------------------------------
(***************************************************************************)
(* The parallel strategy                                                   *)
(***************************************************************************)
\* A list of levels that loses its first one.
LEMMA UptoTail ==
    ASSUME NEW list \in Seq(Seq(Tests)), list # <<>>, NEW k \in 0..(Len(list) - 1)
    PROVE  Upto(list, k + 1) = Range(Head(list)) \cup Upto(Tail(list), k)
<1> DEFINE rest == Tail(list)
<1>1. /\ Head(list) = list[1] /\ Len(list) \in Nat
      /\ \A i \in 1..(Len(list) - 1) : rest[i] = list[i + 1]
  BY RangeTail
<1> HIDE DEF rest
<1>2. \A m \in 1..k : rest[m] = list[m + 1] /\ m + 1 \in 1..(k + 1)
  BY <1>1
<1>3. \A m \in 1..(k + 1) : m = 1 \/ (m - 1 \in 1..k /\ list[m] = rest[m - 1])
  <2> TAKE m \in 1..(k + 1)
  <2>1. CASE m # 1
    <3>1. m - 1 \in 1..k /\ (m - 1) + 1 = m
      BY <1>1, <2>1
    <3>2. QED
      BY <1>2, <3>1
  <2>2. QED
    BY <2>1
<1>4. 1 \in 1..(k + 1)
  OBVIOUS
<1>5. {Range(list[m]) : m \in 1..(k + 1)} = {Range(list[1])} \cup {Range(rest[m]) : m \in 1..k}
  BY <1>2, <1>3, <1>4
<1>6. Upto(list, k + 1) = Range(list[1]) \cup Upto(rest, k)
  BY <1>5 DEF Upto
<1>7. QED
  BY <1>1, <1>6 DEF rest

\* Once the first level has been taken, the others can still follow.
LEMMA LevelsFollowTail ==
    ASSUME NEW s, NEW before, NEW list \in Seq(Seq(Tests)), list # <<>>,
           LevelsFollow(s, before, list)
    PROVE  LevelsFollow(s, before \cup Range(Head(list)), Tail(list))
<1> DEFINE rest == Tail(list)
           head == Range(Head(list))
<1>1. /\ Len(list) \in Nat /\ DOMAIN list = 1..Len(list) /\ DOMAIN rest = 1..(Len(list) - 1)
      /\ \A i \in 1..(Len(list) - 1) : rest[i] = list[i + 1]
  BY RangeTail
<1>2. \A k \in 0..(Len(list) - 1) : Upto(list, k + 1) = head \cup Upto(rest, k)
  BY UptoTail
<1> HIDE DEF rest, head
<1>3. ASSUME NEW k \in DOMAIN rest
      PROVE  LevelFollows(s, (before \cup head) \cup Upto(rest, k - 1), rest[k])
  <2>1. k \in 1..(Len(list) - 1) /\ k \in Nat
    BY <1>1
  <2> DEFINE n == k + 1
  <2>2. n \in DOMAIN list /\ n - 1 = k
    BY <1>1, <2>1
  <2>3. rest[k] = list[n]
    BY <1>1, <2>1
  <2>4. Upto(list, n - 1) = head \cup Upto(rest, k - 1)
    <3>1. k - 1 \in 0..(Len(list) - 1) /\ (k - 1) + 1 = k
      BY <1>1, <2>1
    <3>2. QED
      BY <1>2, <2>2, <3>1
  <2> HIDE DEF n
  <2>5. LevelFollows(s, before \cup Upto(list, n - 1), list[n])
    BY <2>2 DEF LevelsFollow
  <2>6. before \cup Upto(list, n - 1) = (before \cup head) \cup Upto(rest, k - 1)
    BY <2>4
  <2>7. QED
    BY <2>3, <2>5, <2>6
<1>4. QED
  BY <1>3 DEF LevelsFollow, rest, head

\* What a test overlaps with stays allowed as tests start and end.
LEMMA OverlapsKept ==
    ASSUME NEW s \in Suites, NEW t \in Tests, NEW at, NEW later, NEW A, NEW B,
           Overlaps(s, at, t, A), A \subseteq B,
           \A d \in Tests : at[d] = "done" => later[d] = "done"
    PROVE  Overlaps(s, later, t, B)
<1>1. s.deps[t] \subseteq Tests
  BY StrategyAssumption
<1>2. QED
  BY <1>1 DEF Overlaps

\* Levels start one after the other, and the tests of a level in the order of the suite.
LEMMA ParallelStep ==
    ASSUME StrategyTypeOK, IdleInv, ParallelInv, [StrategyNext]_strategyVars
    PROVE  ParallelInv'
<1>types. /\ to_spawn \in Seq(Tests) /\ levels \in Seq(Seq(Tests))
          /\ stage \in [Tests -> Stages]
  BY DEF StrategyTypeOK
<1>parallel. strategy = "parallel" => suite \in Suites
  BY DEF IdleInv
\* Steps of the serial strategy.
<1>serial. ASSUME strategy' # "parallel"
           PROVE  ParallelInv'
  BY <1>serial DEF ParallelInv
\* Steps of the tasks.
<1>tasks. ASSUME UNCHANGED <<strategy, suite, levels, to_spawn>>,
                 phase' = phase,
                 \A t \in Tests : /\ stage[t] = "none" <=> stage'[t] = "none"
                                  /\ stage[t] = "done" => stage'[t] = "done",
                 phase = "done" => stage' = stage
          PROVE  ParallelInv'
  <2> SUFFICES ASSUME strategy = "parallel" PROVE ParallelInv'
    BY <1>tasks DEF ParallelInv
  <2>1. Started' = Started
    BY <1>tasks DEF Started
  <2>2. Blocked(suite)' = Blocked(suite)
    BY <1>tasks
  <2>3. Started' \cup Range(to_spawn') \cup Upto(levels', Len(levels'))
            = Range(suite'.order) \ Blocked(suite)'
    BY <1>tasks, <2>1, <2>2 DEF ParallelInv
  <2>4. LevelsFollow(suite', Started' \cup Range(to_spawn'), levels')
    BY <1>tasks, <2>1 DEF ParallelInv
  <2>5. Ordered(suite', to_spawn') /\ Range(to_spawn') \cap Started' = {}
    BY <1>tasks, <2>1 DEF ParallelInv
  <2>6. SpawnsFollow(suite', stage', Started', to_spawn')
    <3>1. SpawnsFollow(suite, stage, Started, to_spawn)
      BY DEF ParallelInv
    <3>2. ASSUME NEW i \in DOMAIN to_spawn
          PROVE  Overlaps(suite, stage', to_spawn[i],
                          Started \cup {to_spawn[j] : j \in 1..(i - 1)})
      <4> DEFINE before == Started \cup {to_spawn[j] : j \in 1..(i - 1)}
      <4>1. to_spawn[i] \in Tests /\ suite \in Suites
        BY <1>types, <1>parallel
      <4>2. Overlaps(suite, stage, to_spawn[i], before)
        BY <3>1 DEF SpawnsFollow
      <4> HIDE DEF before
      <4>3. Overlaps(suite, stage', to_spawn[i], before)
        BY <1>tasks, <4>1, <4>2, OverlapsKept
      <4>4. QED
        BY <4>3 DEF before
    <3>3. SpawnsFollow(suite, stage', Started, to_spawn)
      BY <3>2 DEF SpawnsFollow
    <3>4. QED
      BY <1>tasks, <2>1, <3>3
  <2>7. ASSUME NEW t \in Started'
        PROVE  Overlaps(suite', stage', t, Started')
    <3>1. t \in Tests /\ suite \in Suites /\ Overlaps(suite, stage, t, Started)
      BY <1>parallel, <2>1 DEF Started, ParallelInv
    <3>2. Overlaps(suite, stage', t, Started)
      BY <1>tasks, <3>1, OverlapsKept
    <3>3. QED
      BY <1>tasks, <2>1, <3>2
  <2>8. phase' = "done" => to_spawn' = <<>> /\ levels' = <<>> /\ InFlight' = {}
    BY <1>tasks DEF ParallelInv, InFlight
  <2>9. QED
    BY <1>tasks, <2>1, <2>3, <2>4, <2>5, <2>6, <2>7, <2>8 DEF ParallelInv
<1>1. ASSUME NEW s \in Suites, execute_serial(s)
      PROVE  ParallelInv'
  BY <1>serial, <1>1 DEF execute_serial
<1>2. ASSUME NEW s \in Suites, execute_parallel(s)
      PROVE  ParallelInv'
  <2> DEFINE list == group_by_dependency_levels(s)
  <2>1. /\ LevelsFollow(s, {}, list)
        /\ Upto(list, Len(list)) = Range(s.order) \ Blocked(s)
    BY GroupSound
  <2> HIDE DEF list
  <2>2. /\ strategy' = "parallel" /\ suite' = s /\ phase' = "running" /\ levels' = list
        /\ to_spawn' = to_spawn /\ stage' = stage /\ strategy = "none"
    BY <1>2 DEF execute_parallel, IdleInv, list
  <2>3. Started' = {} /\ to_spawn' = <<>>
    BY <2>2 DEF IdleInv, Started
  <2>4. Range(to_spawn') = {} /\ Ordered(suite', to_spawn') /\ DOMAIN to_spawn' = {}
    BY <2>3 DEF Range, Ordered
  <2>5. Blocked(suite)' = Blocked(s)
    BY <2>2
  <2>6. LevelsFollow(suite', Started' \cup Range(to_spawn'), levels')
    BY <2>1, <2>2, <2>3, <2>4
  <2>7. Started' \cup Range(to_spawn') \cup Upto(levels', Len(levels'))
            = Range(suite'.order) \ Blocked(suite)'
    BY <2>1, <2>2, <2>3, <2>4, <2>5
  <2>8. SpawnsFollow(suite', stage', Started', to_spawn')
    BY <2>4 DEF SpawnsFollow
  <2>9. QED
    BY <2>2, <2>3, <2>4, <2>6, <2>7, <2>8 DEF ParallelInv
<1>3. CASE start_serial \/ finish_serial \/ return_serial
  BY <1>serial, <1>3 DEF start_serial, finish_serial, return_serial
<1>4. CASE next_level
  <2>1. /\ strategy = "parallel" /\ phase = "running" /\ to_spawn = <<>> /\ InFlight = {}
        /\ UNCHANGED <<strategy, suite, stage>>
    BY <1>4 DEF next_level, Parallel
  <2>2. \A t \in Started : t \in Tests /\ stage[t] = "done" /\ stage'[t] = "done"
    BY <1>types, <2>1 DEF Started, InFlight, Stages
  <2>3. Started' = Started /\ Blocked(suite)' = Blocked(suite) /\ InFlight' = {}
    BY <2>1 DEF Started, InFlight
  <2>4. Range(to_spawn) = {} /\ DOMAIN to_spawn = {}
    BY <2>1 DEF Range
  <2>5. \A t \in Started' : Overlaps(suite', stage', t, Started')
    BY <2>1, <2>3 DEF ParallelInv
  <2>6. CASE levels = <<>>
    <3>1. levels' = levels /\ to_spawn' = to_spawn
      BY <1>4, <2>6 DEF next_level
    <3>2. /\ Started' \cup Range(to_spawn') \cup Upto(levels', Len(levels'))
                 = Range(suite'.order) \ Blocked(suite)'
          /\ LevelsFollow(suite', Started' \cup Range(to_spawn'), levels')
          /\ Ordered(suite', to_spawn') /\ Range(to_spawn') \cap Started' = {}
          /\ SpawnsFollow(suite', stage', Started', to_spawn')
      BY <2>1, <2>3, <3>1 DEF ParallelInv
    <3>3. QED
      BY <2>1, <2>3, <2>4, <2>5, <2>6, <3>1, <3>2 DEF ParallelInv
  <2>7. CASE levels # <<>>
    <3> DEFINE head == Head(levels)
               rest == Tail(levels)
    <3>1. levels' = rest /\ to_spawn' = head /\ phase' = phase
      BY <1>4, <2>7 DEF next_level
    <3>2. /\ head = levels[1] /\ 1 \in DOMAIN levels /\ Len(levels) \in Nat
          /\ Len(rest) = Len(levels) - 1 /\ head \in Seq(Tests)
      BY <1>types, <2>7, RangeTail
    <3>3. /\ LevelsFollow(suite, Started \cup {}, levels)
          /\ Started \cup Upto(levels, Len(levels)) = Range(suite.order) \ Blocked(suite)
      BY <2>1, <2>4 DEF ParallelInv
    <3>4. LevelsFollow(suite, (Started \cup {}) \cup Range(head), rest)
      BY <1>types, <2>7, <3>3, LevelsFollowTail
    <3>5. Upto(levels, Len(levels)) = Range(head) \cup Upto(rest, Len(rest))
      <4>1. Len(levels) - 1 \in 0..(Len(levels) - 1) /\ (Len(levels) - 1) + 1 = Len(levels)
        BY <1>types, <2>7, <3>2
      <4>2. Upto(levels, (Len(levels) - 1) + 1) = Range(head) \cup Upto(rest, Len(levels) - 1)
        BY <1>types, <2>7, <4>1, UptoTail
      <4>3. QED
        BY <3>2, <4>1, <4>2
    <3>6. LevelFollows(suite, Started, head)
      <4>1. LevelFollows(suite, (Started \cup {}) \cup Upto(levels, 1 - 1), head)
        BY <3>2, <3>3 DEF LevelsFollow
      <4>2. Upto(levels, 1 - 1) = {}
        BY DEF Upto
      <4>3. QED
        BY <4>1, <4>2
    <3> HIDE DEF head, rest
    <3>7. SpawnsFollow(suite, stage, Started, head)
      <4>1. ASSUME NEW i \in DOMAIN head
            PROVE  Overlaps(suite, stage, head[i], Started \cup {head[j] : j \in 1..(i - 1)})
        <5>1. suite.deps[head[i]] \subseteq Started \cup {head[j] : j \in 1..(i - 1)}
          BY <3>6 DEF LevelFollows
        <5>2. \A j \in 1..(i - 1) : j \in DOMAIN head /\ j < i
          BY <3>2
        <5>3. \A j \in 1..(i - 1) : ListedBefore(suite, head[j], head[i])
          BY <3>6, <5>2 DEF LevelFollows, Ordered
        <5>4. QED
          BY <2>2, <5>1, <5>3 DEF Overlaps
      <4>2. QED
        BY <4>1 DEF SpawnsFollow
    <3>8. /\ Started' \cup Range(to_spawn') \cup Upto(levels', Len(levels'))
                 = Range(suite'.order) \ Blocked(suite)'
      BY <2>1, <2>3, <3>1, <3>3, <3>5
    <3>9. LevelsFollow(suite', Started' \cup Range(to_spawn'), levels')
      BY <2>1, <2>3, <3>1, <3>4
    <3>10. Ordered(suite', to_spawn') /\ Range(to_spawn') \cap Started' = {}
      BY <2>1, <2>3, <3>1, <3>6 DEF LevelFollows
    <3>11. SpawnsFollow(suite', stage', Started', to_spawn')
      BY <2>1, <2>3, <3>1, <3>7
    <3>12. QED
      BY <2>1, <2>5, <3>1, <3>8, <3>9, <3>10, <3>11 DEF ParallelInv
  <2>8. QED
    BY <2>6, <2>7
<1>5. CASE spawn
  <2> DEFINE h == Head(to_spawn)
             rest == Tail(to_spawn)
  <2>1. /\ strategy = "parallel" /\ phase = "running" /\ to_spawn # <<>>
        /\ UNCHANGED <<strategy, suite, phase, levels>>
        /\ stage' = [stage EXCEPT ![h] = "waiting"]
        /\ to_spawn' = rest
    BY <1>5 DEF spawn, Parallel
  <2>2. /\ h = to_spawn[1] /\ h \in Tests
        /\ Len(to_spawn) \in Nat /\ 1 \in DOMAIN to_spawn /\ DOMAIN to_spawn = 1..Len(to_spawn)
        /\ rest \in Seq(Tests) /\ DOMAIN rest = 1..(Len(to_spawn) - 1)
        /\ \A i \in 1..(Len(to_spawn) - 1) : rest[i] = to_spawn[i + 1]
        /\ Range(to_spawn) = {h} \cup Range(rest)
    BY <1>types, <2>1, RangeTail
  <2> HIDE DEF h, rest
  <2>3. /\ suite \in Suites
        /\ Started \cup Range(to_spawn) \cup Upto(levels, Len(levels))
               = Range(suite.order) \ Blocked(suite)
        /\ LevelsFollow(suite, Started \cup Range(to_spawn), levels)
        /\ Ordered(suite, to_spawn)
        /\ Range(to_spawn) \cap Started = {}
        /\ SpawnsFollow(suite, stage, Started, to_spawn)
        /\ \A t \in Started : Overlaps(suite, stage, t, Started)
    BY <1>parallel, <2>1 DEF ParallelInv
  <2>4. stage[h] = "none"
    BY <2>2, <2>3 DEF Started
  <2>5. Started' = Started \cup {h} /\ Blocked(suite)' = Blocked(suite)
    BY <1>types, <2>1, <2>2 DEF Started
  <2>6. \A d \in Tests : stage[d] = "done" => stage'[d] = "done"
    BY <1>types, <2>1, <2>2, <2>4
  <2>7. \A i \in DOMAIN rest : i \in Nat /\ i + 1 \in DOMAIN to_spawn /\ rest[i] = to_spawn[i + 1]
    BY <2>2
  <2>8. Ordered(suite, rest)
    <3>1. ASSUME NEW i \in DOMAIN rest, NEW j \in DOMAIN rest, i < j
          PROVE  ListedBefore(suite, rest[i], rest[j])
      <4>1. i + 1 < j + 1
        BY <2>7, <3>1
      <4>2. ListedBefore(suite, to_spawn[i + 1], to_spawn[j + 1])
        BY <2>3, <2>7, <4>1 DEF Ordered
      <4>3. QED
        BY <2>7, <4>2
    <3>2. QED
      BY <3>1 DEF Ordered
  <2>9. h \notin Range(rest)
    <3>1. ASSUME NEW i \in DOMAIN rest
          PROVE  rest[i] # h
      <4>1. 1 < i + 1
        BY <2>2, <2>7
      <4>2. ListedBefore(suite, h, rest[i])
        BY <2>2, <2>3, <2>7, <4>1 DEF Ordered
      <4>3. QED
        BY <2>3, <4>2, NotBeforeItself
    <3>2. QED
      BY <3>1 DEF Range
  <2>10. SpawnsFollow(suite, stage', Started \cup {h}, rest)
    <3>1. ASSUME NEW i \in DOMAIN rest
          PROVE  Overlaps(suite, stage', rest[i],
                          (Started \cup {h}) \cup {rest[j] : j \in 1..(i - 1)})
      <4> DEFINE n == i + 1
                 before == Started \cup {to_spawn[j] : j \in 1..(n - 1)}
                 after == (Started \cup {h}) \cup {rest[j] : j \in 1..(i - 1)}
      <4>1. ASSUME NEW j \in 1..(n - 1)
            PROVE  to_spawn[j] \in after
        <5>1. CASE j = 1
          BY <2>2, <5>1
        <5>2. CASE j # 1
          <6>1. j - 1 \in 1..(i - 1) /\ j - 1 \in DOMAIN rest /\ (j - 1) + 1 = j
            BY <2>2, <2>7, <5>2
          <6>2. rest[j - 1] = to_spawn[j]
            BY <2>7, <6>1
          <6>3. QED
            BY <6>1, <6>2
        <5>3. QED
          BY <5>1, <5>2
      <4>2. before \subseteq after
        BY <4>1
      <4>3. n \in DOMAIN to_spawn /\ rest[i] = to_spawn[n] /\ rest[i] \in Tests
        BY <2>2, <2>7
      <4>4. Overlaps(suite, stage, rest[i], before)
        <5> HIDE DEF n
        <5>1. QED
          BY <2>3, <4>3 DEF SpawnsFollow
      <4> HIDE DEF before, after
      <4>5. Overlaps(suite, stage', rest[i], after)
        BY <2>3, <2>6, <4>2, <4>3, <4>4, OverlapsKept
      <4>6. QED
        BY <4>5 DEF after
    <3>2. QED
      BY <3>1 DEF SpawnsFollow
  <2>11. ASSUME NEW t \in Started \cup {h}
         PROVE  Overlaps(suite, stage', t, Started \cup {h})
    <3>1. CASE t \in Started
      <4>1. t \in Tests /\ Overlaps(suite, stage, t, Started)
        BY <2>3, <3>1 DEF Started
      <4>2. QED
        BY <2>3, <2>6, <4>1, OverlapsKept
    <3>2. CASE t = h
      <4>1. Overlaps(suite, stage, to_spawn[1], Started \cup {to_spawn[j] : j \in 1..(1 - 1)})
        BY <2>2, <2>3 DEF SpawnsFollow
      <4>2. Started \cup {to_spawn[j] : j \in 1..(1 - 1)} = Started
        OBVIOUS
      <4>3. Overlaps(suite, stage, h, Started)
        BY <2>2, <4>1, <4>2
      <4>4. QED
        BY <2>2, <2>3, <2>6, <3>2, <4>3, OverlapsKept
    <3>3. QED
      BY <2>11, <3>1, <3>2
  <2>12. Started \cup Range(to_spawn) = (Started \cup {h}) \cup Range(rest)
    BY <2>2
  <2>13. Range(to_spawn') = Range(rest) /\ suite' = suite /\ levels' = levels
    BY <2>1
  <2>14. Started' \cup Range(to_spawn') = Started \cup Range(to_spawn)
    BY <2>5, <2>12, <2>13
  <2>15. Started' \cup Range(to_spawn') \cup Upto(levels', Len(levels'))
             = Range(suite'.order) \ Blocked(suite)'
    BY <2>3, <2>5, <2>13, <2>14
  <2>16. LevelsFollow(suite', Started' \cup Range(to_spawn'), levels')
    BY <2>3, <2>13, <2>14
  <2>17. Range(to_spawn') \cap Started' = {}
    <3>1. Range(rest) \cap (Started \cup {h}) = {}
      BY <2>2, <2>3, <2>9
    <3>2. QED
      BY <2>5, <2>13, <3>1
  <2>18. /\ Ordered(suite', to_spawn') /\ SpawnsFollow(suite', stage', Started', to_spawn')
         /\ \A t \in Started' : Overlaps(suite', stage', t, Started')
    BY <2>1, <2>5, <2>8, <2>10, <2>11
  <2>19. QED
    BY <2>1, <2>15, <2>16, <2>17, <2>18 DEF ParallelInv
<1>6. ASSUME NEW t \in Tests, rate_check(t) \/ rate_wake(t) \/ finish_parallel(t)
      PROVE  ParallelInv'
  <2>1. /\ UNCHANGED <<strategy, suite, levels, to_spawn>> /\ phase' = phase
        /\ phase # "done"
        /\ stage[t] \in {"waiting", "sleeping", "requesting"}
        /\ \/ stage' = [stage EXCEPT ![t] = "requesting"] /\ stage[t] # "requesting"
           \/ stage' = [stage EXCEPT ![t] = "sleeping"]
           \/ stage' = [stage EXCEPT ![t] = "done"]
    BY <1>6 DEF rate_check, rate_wake, finish_parallel, let_through, Parallel, Requesting
  <2>2. \A u \in Tests : /\ stage[u] = "none" <=> stage'[u] = "none"
                         /\ stage[u] = "done" => stage'[u] = "done"
    BY <1>types, <2>1
  <2>3. QED
    BY <1>tasks, <2>1, <2>2
<1>7. CASE tick \/ UNCHANGED strategyVars
  <2>1. UNCHANGED runVars
    BY <1>7 DEF tick, strategyVars
  <2>2. QED
    BY <1>tasks, <2>1 DEF runVars
<1>8. QED
  BY <1>1, <1>2, <1>3, <1>4, <1>5, <1>6, <1>7 DEF StrategyNext, StrategyStep

-----------------------------------------------------------------------------
(***************************************************************************)
(* The theorems                                                            *)
(***************************************************************************)
\* Before the call the invariant holds.
LEMMA StrategyInitInv ==
    ASSUME StrategyInit
    PROVE  StrategyInv
<1> USE DEF StrategyInit
<1>1. MinInterval \in Nat /\ Limit \in Nat
  BY StrategyAssumption
<1>2. StrategyTypeOK
  BY <1>1 DEF StrategyTypeOK, Stages
<1>3. IdleInv
  BY DEF IdleInv, Started
<1>4. BurstInv
  <2>1. Through = {}
    BY DEF Through
  <2>2. ASSUME NEW a \in 0..(MinInterval - 1)
        PROVE  Cardinality(Recent(a)) <= Limit
    <3>1. Recent(a) = {}
      BY <2>1 DEF Recent
    <3>2. QED
      BY <1>1, <3>1, FS_EmptySet
  <2>3. QED
    BY <2>1, <2>2 DEF BurstInv
<1>5. SerialInv /\ ParallelInv
  BY DEF SerialInv, ParallelInv
<1>6. QED
  BY <1>2, <1>3, <1>4, <1>5 DEF StrategyInv

\* Every step preserves it.
LEMMA StrategyNextInv ==
    ASSUME StrategyInv, [StrategyNext]_strategyVars
    PROVE  StrategyInv'
<1>1. StrategyTypeOK /\ IdleInv /\ BurstInv /\ SerialInv /\ ParallelInv
  BY DEF StrategyInv
<1>2. StrategyTypeOK'
  BY <1>1, TypeStep
<1>3. IdleInv' /\ SerialInv' /\ ParallelInv'
  BY <1>1, IdleStep, SerialStep, ParallelStep
<1>4. BurstInv'
  BY <1>1, <1>2, BurstStep
<1>5. QED
  BY <1>2, <1>3, <1>4 DEF StrategyInv

\* The invariant holds in every state of a call of execute.
THEOREM StrategyInvariant == StrategySpec => []StrategyInv
<1>1. StrategyInit => StrategyInv
  BY StrategyInitInv
<1>2. StrategyInv /\ [StrategyNext]_strategyVars => StrategyInv'
  BY StrategyNextInv
<1>3. QED
  BY <1>1, <1>2, PTL DEF StrategySpec

\* RateLimiter::wait: in any time shorter than the interval no more requests are let
\* through than the strategy has permits, although the limiter's check, sleep and
\* update are not one step.
THEOREM BurstsAreBounded == StrategySpec => []BurstBound
<1>1. StrategyInv => BurstBound
  <2> SUFFICES ASSUME StrategyInv PROVE BurstBound
    OBVIOUS
  <2> DEFINE young == {t \in Tests : /\ stage[t] \in {"requesting", "done"}
                                     /\ age[t] < MinInterval}
  <2>1. /\ MinInterval \in Nat /\ Limit \in Nat /\ age \in [Tests -> 0..MinInterval]
        /\ BurstInv
    BY StrategyAssumption DEF StrategyInv, StrategyTypeOK
  <2>2. CASE MinInterval = 0
    <3>1. young = {}
      BY <2>1, <2>2
    <3>2. QED
      BY <2>1, <3>1, FS_EmptySet DEF BurstBound
  <2>3. CASE MinInterval # 0
    <3>1. MinInterval - 1 \in 0..(MinInterval - 1)
      BY <2>1, <2>3
    <3>2. \A n \in 0..MinInterval : n < MinInterval => n <= MinInterval - 1
      BY <2>1
    <3>3. young \subseteq Recent(MinInterval - 1)
      BY <2>1, <3>2 DEF Recent, Through
    <3>4. /\ Recent(MinInterval - 1) \subseteq Tests
          /\ Cardinality(Recent(MinInterval - 1)) <= Limit
      BY <2>1, <3>1 DEF Recent, Through, BurstInv
    <3>5. Cardinality(young) <= Limit
      <4> HIDE DEF young
      <4>1. QED
        BY <2>1, <3>3, <3>4, FewerTests
    <3>6. QED
      BY <3>5 DEF BurstBound
  <2>4. QED
    BY <2>2, <2>3
<1>2. QED
  BY <1>1, StrategyInvariant, PTL

\* SerialExecutor hands every test the variables of all it depends on, and
\* ParallelExecutor overlaps a test only with dependencies listed before it.
THEOREM DependenciesAreSeen == StrategySpec => []DependenciesSeen
<1>1. StrategyInv => DependenciesSeen
  <2> SUFFICES ASSUME StrategyInv PROVE DependenciesSeen
    OBVIOUS
  <2>1. SerialSeesDependencies
    BY DEF StrategyInv, SerialInv, SerialSeesDependencies
  <2>2. OverlapsOnlyEarlier
    <3>1. ASSUME NEW t \in Tests, strategy = "parallel", stage[t] # "none"
          PROVE  \A d \in suite.deps[t] :
                     IF ListedBefore(suite, d, t) THEN stage[d] # "none" ELSE stage[d] = "done"
      <4>1. t \in Started /\ Overlaps(suite, stage, t, Started)
        BY <3>1 DEF StrategyInv, ParallelInv, Started
      <4>2. QED
        BY <4>1 DEF Overlaps, Started
    <3>2. QED
      BY <3>1 DEF OverlapsOnlyEarlier
  <2>3. QED
    BY <2>1, <2>2 DEF DependenciesSeen
<1>2. QED
  BY <1>1, StrategyInvariant, PTL

\* sort_by_dependencies fails exactly if a test can never be ready, and
\* group_by_dependency_levels drops exactly these: all the others are executed.
THEOREM UnblockedAreExecuted == StrategySpec => []ExecutesUnblocked
<1>1. StrategyInv => ExecutesUnblocked
  <2> SUFFICES ASSUME StrategyInv PROVE ExecutesUnblocked
    OBVIOUS
  <2>1. StrategyTypeOK /\ IdleInv /\ SerialInv /\ ParallelInv
    BY DEF StrategyInv
  <2>2. phase = "error" => Blocked(suite) # {}
    BY <2>1 DEF IdleInv, SerialInv
  <2>3. ASSUME phase = "done", strategy = "serial"
        PROVE  /\ {t \in Tests : stage[t] = "done"} = Range(suite.order) \ Blocked(suite)
               /\ Blocked(suite) = {}
    <3>1. sorted = <<>> /\ Blocked(suite) = {} /\ context \cup Range(sorted) = Range(suite.order)
      BY <2>1, <2>3 DEF SerialInv
    <3>2. context = Range(suite.order) /\ context \subseteq Tests
      BY <2>1, <3>1 DEF Range, StrategyTypeOK
    <3>3. \A t \in Tests : stage[t] = "done" <=> t \in context
      BY <2>1, <2>3, <3>1 DEF SerialInv
    <3>4. QED
      BY <3>1, <3>2, <3>3
  <2>4. ASSUME phase = "done", strategy = "parallel"
        PROVE  {t \in Tests : stage[t] = "done"} = Range(suite.order) \ Blocked(suite)
    <3>1. /\ Started \cup Range(to_spawn) \cup Upto(levels, Len(levels))
                 = Range(suite.order) \ Blocked(suite)
          /\ to_spawn = <<>> /\ levels = <<>> /\ InFlight = {}
      BY <2>1, <2>4 DEF ParallelInv
    <3>2. Range(to_spawn) = {} /\ Upto(levels, Len(levels)) = {}
      BY <3>1 DEF Range, Upto
    <3>3. Started = {t \in Tests : stage[t] = "done"}
      BY <2>1, <3>1 DEF Started, InFlight, StrategyTypeOK, Stages
    <3>4. QED
      BY <3>1, <3>2, <3>3
  <2>5. phase = "done" => strategy \in {"serial", "parallel"}
    BY <2>1 DEF IdleInv, StrategyTypeOK
  <2>6. QED
    BY <2>2, <2>3, <2>4, <2>5 DEF ExecutesUnblocked
<1>2. QED
  BY <1>1, StrategyInvariant, PTL
=============================================================================
