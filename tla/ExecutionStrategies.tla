------------------------ MODULE ExecutionStrategies ------------------------
(***************************************************************************)
(* SerialExecutor, ParallelExecutor and RateLimiter of src/execution.rs:   *)
(* one execute call of one of the two strategies.                          *)
(*                                                                         *)
(* A suite is the list of its test cases and, for each of them, the set of *)
(* test cases it depends on.  Requests, assertions and extracted variables *)
(* are placeholders in the code that cannot fail; what is left of them is  *)
(* seen[t], the tests whose extracted variables were in the context when t *)
(* resolved its request.  Whether a test passes changes no control: its    *)
(* dependents run all the same.                                            *)
(*                                                                         *)
(* Time is relative: since is the time since last_request_time, sleep_left *)
(* the rest of a task's sleep, age the time since a test was let through;  *)
(* all stop at MinInterval.  The limiter's mutex is never held across an   *)
(* await, so a check and an update of last_request_time are one action;    *)
(* the sleep between them is not under the lock.                           *)
(***************************************************************************)
EXTENDS Naturals, FiniteSets, SequencesExt

CONSTANTS Tests,        \* identifiers of test cases
          Suites,       \* suites that may be given to execute
          Limit,        \* concurrency_limit
          MinInterval   \* 1 / max_requests_per_second in ticks, 0 for no limit

\* A test case is told apart by its identifier, so no suite lists one twice.
ASSUME StrategyAssumption ==
    /\ IsFiniteSet(Tests)
    /\ \A s \in Suites : /\ s.order \in Seq(Tests) /\ IsInjective(s.order)
                         /\ s.deps \in [Tests -> SUBSET Tests]
    /\ Limit \in Nat \ {0}
    /\ MinInterval \in Nat

VARIABLES strategy,    \* the strategy that was called
          suite,       \* the suite it was given
          phase,       \* where the call stands
          sorted,      \* serial: test cases still to execute
          levels,      \* parallel: levels not started
          to_spawn,    \* parallel: test cases of this level not spawned
          stage,       \* where each test stands
          context,     \* serial: tests whose variables are in the context
          seen,        \* the context each test was executed in
          since, sleep_left, age

runVars == <<strategy, suite, phase, sorted, levels, to_spawn, stage, context, seen>>
timeVars == <<since, sleep_left, age>>
strategyVars == <<runVars, timeVars>>

NoSuite == [order |-> <<>>, deps |-> [t \in Tests |-> {}]]

-----------------------------------------------------------------------------
(***************************************************************************)
(* Dependencies                                                            *)
(***************************************************************************)
check_dependencies(s, t, completed) == s.deps[t] \subseteq completed

\* One turn of the outer loop: the first test that is ready is taken from the list.
sort_step(s, acc) ==
    LET ready == {i \in DOMAIN acc.left :
                      check_dependencies(s, acc.left[i], Range(acc.sorted))}
        i == CHOOSE i \in ready : \A j \in ready : i <= j
    IN  IF ready = {} THEN acc
        ELSE [left |-> RemoveAt(acc.left, i), sorted |-> Append(acc.sorted, acc.left[i])]

\* The state of the loop after each of its turns.
sort_turns(s) ==
    LET turn[n \in 0..Len(s.order)] ==
            IF n = 0 THEN [left |-> s.order, sorted |-> <<>>] ELSE sort_step(s, turn[n - 1])
    IN  turn

\* Broken variant: the test cases are taken as they come.
sort_by_dependencies_as_given(s) == [left |-> <<>>, sorted |-> s.order]

\* left is empty, or what a circular or missing dependency leaves behind.
sort_by_dependencies(s) == sort_turns(s)[Len(s.order)]

\* A test counts as completed as soon as it is put into the level, so one listed after
\* it may join the same level.
level_step(s, a, t) ==
    IF check_dependencies(s, t, a.completed)
    THEN [a EXCEPT !.completed = @ \cup {t}, !.level = Append(@, t)]
    ELSE [a EXCEPT !.rest = Append(@, t)]

\* One pass of group_by_dependency_levels over the tests that remain.
level_passes(s, completed, remaining) ==
    LET pass[n \in 0..Len(remaining)] ==
            IF n = 0 THEN [completed |-> completed, level |-> <<>>, rest |-> <<>>]
            ELSE level_step(s, pass[n - 1], remaining[n])
    IN  pass

level_pass(s, acc) == level_passes(s, acc.completed, acc.rest)[Len(acc.rest)]

\* Broken variant: what cannot be resolved becomes the last level.
group_by_dependency_levels_all(s) ==
    LET pass == level_pass(s, [completed |-> {}, rest |-> s.order])
    IN  <<pass.level, pass.rest>>

group_step(s, acc) ==
    LET pass == level_pass(s, acc)
    IN  IF pass.level = <<>> THEN acc
        ELSE [completed |-> pass.completed, rest |-> pass.rest,
              levels |-> Append(acc.levels, pass.level)]

group_turns(s) ==
    LET turn[n \in 0..Len(s.order)] ==
            IF n = 0 THEN [completed |-> {}, rest |-> s.order, levels |-> <<>>]
            ELSE group_step(s, turn[n - 1])
    IN  turn

\* The tests that a pass leaves when it finds none are dropped.
group_by_dependency_levels(s) == group_turns(s)[Len(s.order)].levels

-----------------------------------------------------------------------------
(***************************************************************************)
(* SerialExecutor                                                          *)
(***************************************************************************)
execute_serial(s) ==
    /\ phase = "idle"
    /\ strategy' = "serial" /\ suite' = s
    /\ IF sort_by_dependencies(s).left = <<>>
       THEN /\ sorted' = sort_by_dependencies(s).sorted
            /\ phase' = "running"
       ELSE /\ phase' = "error"
            /\ UNCHANGED sorted
    /\ UNCHANGED <<levels, to_spawn, stage, context, seen, timeVars>>

Requesting(t) == stage[t] = "requesting"

start_serial ==
    /\ strategy = "serial" /\ phase = "running"
    /\ sorted # <<>>
    /\ \A t \in Tests : ~Requesting(t)
    /\ stage' = [stage EXCEPT ![Head(sorted)] = "requesting"]
    /\ seen' = [seen EXCEPT ![Head(sorted)] = context]
    /\ UNCHANGED <<strategy, suite, phase, sorted, levels, to_spawn, context, timeVars>>

\* The extracted variables go into the context of the next test.
finish_serial ==
    /\ strategy = "serial" /\ phase = "running"
    /\ sorted # <<>>
    /\ Requesting(Head(sorted))
    /\ stage' = [stage EXCEPT ![Head(sorted)] = "done"]
    /\ context' = context \cup {Head(sorted)}
    /\ sorted' = Tail(sorted)
    /\ UNCHANGED <<strategy, suite, phase, levels, to_spawn, seen, timeVars>>

return_serial ==
    /\ strategy = "serial" /\ phase = "running"
    /\ sorted = <<>>
    /\ phase' = "done"
    /\ UNCHANGED <<strategy, suite, sorted, levels, to_spawn, stage, context, seen, timeVars>>

(***************************************************************************)
(* ParallelExecutor                                                        *)
(***************************************************************************)
execute_parallel(s) ==
    /\ phase = "idle"
    /\ strategy' = "parallel" /\ suite' = s
    /\ phase' = "running"
    /\ levels' = group_by_dependency_levels(s)
    /\ UNCHANGED <<sorted, to_spawn, stage, context, seen, timeVars>>

Parallel == strategy = "parallel" /\ phase = "running"
InFlight == {t \in Tests : stage[t] \in {"waiting", "sleeping", "requesting"}}

\* try_join_all: the spawned tasks of a level end before the next one starts.
next_level ==
    /\ Parallel
    /\ to_spawn = <<>>
    /\ InFlight = {}
    /\ IF levels = <<>> THEN phase' = "done" /\ UNCHANGED <<levels, to_spawn>>
       ELSE /\ to_spawn' = Head(levels) /\ levels' = Tail(levels)
            /\ UNCHANGED phase
    /\ UNCHANGED <<strategy, suite, sorted, stage, context, seen, timeVars>>

\* The loop acquires a permit before it spawns the task that keeps it to its end.
spawn ==
    /\ Parallel
    /\ to_spawn # <<>>
    /\ Cardinality(InFlight) < Limit
    /\ stage' = [stage EXCEPT ![Head(to_spawn)] = "waiting"]
    /\ to_spawn' = Tail(to_spawn)
    /\ UNCHANGED <<strategy, suite, phase, sorted, levels, context, seen, timeVars>>

\* The sleep wait computes from the last request it saw.
wait_time == MinInterval - since

\* RateLimiter::wait lets t through, and t resolves its request: in parallel mode no
\* variables are propagated.
let_through(t) ==
    /\ stage' = [stage EXCEPT ![t] = "requesting"]
    /\ seen' = [seen EXCEPT ![t] = {}]
    /\ age' = [age EXCEPT ![t] = 0]

\* RateLimiter::wait up to its sleep.
rate_check(t) ==
    /\ Parallel
    /\ stage[t] = "waiting"
    /\ IF since >= MinInterval
       THEN /\ let_through(t)
            /\ since' = 0
            /\ UNCHANGED sleep_left
       ELSE /\ stage' = [stage EXCEPT ![t] = "sleeping"]
            /\ sleep_left' = [sleep_left EXCEPT ![t] = wait_time]
            /\ UNCHANGED <<seen, since, age>>
    /\ UNCHANGED <<strategy, suite, phase, sorted, levels, to_spawn, context>>

\* Broken variant: last_request_time is not updated after the sleep.
rate_wake_no_update(t) ==
    /\ Parallel
    /\ stage[t] = "sleeping" /\ sleep_left[t] = 0
    /\ let_through(t)
    /\ UNCHANGED <<strategy, suite, phase, sorted, levels, to_spawn, context, since,
                   sleep_left>>

\* RateLimiter::wait after its sleep: whoever went first in the meantime, t goes.
rate_wake(t) ==
    /\ Parallel
    /\ stage[t] = "sleeping" /\ sleep_left[t] = 0
    /\ let_through(t)
    /\ since' = 0
    /\ UNCHANGED <<strategy, suite, phase, sorted, levels, to_spawn, context, sleep_left>>

finish_parallel(t) ==
    /\ Parallel
    /\ Requesting(t)
    /\ stage' = [stage EXCEPT ![t] = "done"]
    /\ UNCHANGED <<strategy, suite, phase, sorted, levels, to_spawn, context, seen,
                   timeVars>>

Up(n) == IF n < MinInterval THEN n + 1 ELSE n
Down(n) == IF n > 0 THEN n - 1 ELSE n

tick ==
    /\ since' = Up(since)
    /\ sleep_left' = [t \in Tests |-> Down(sleep_left[t])]
    /\ age' = [t \in Tests |-> Up(age[t])]
    /\ UNCHANGED runVars
-----------------------------------------------------------------------------
StrategyInit ==
    /\ strategy = "none" /\ suite = NoSuite /\ phase = "idle"
    /\ sorted = <<>> /\ levels = <<>> /\ to_spawn = <<>>
    /\ stage = [t \in Tests |-> "none"]
    /\ context = {} /\ seen = [t \in Tests |-> {}]
    /\ since = 0
    /\ sleep_left = [t \in Tests |-> 0]
    /\ age = [t \in Tests |-> MinInterval]

StrategyStep ==
    \/ start_serial \/ finish_serial \/ return_serial
    \/ next_level \/ spawn
    \/ \E t \in Tests : rate_check(t) \/ rate_wake(t) \/ finish_parallel(t)

StrategyNext ==
    \/ \E s \in Suites : execute_serial(s) \/ execute_parallel(s)
    \/ StrategyStep
    \/ tick

StrategySpec == StrategyInit /\ [][StrategyNext]_strategyVars

\* Time passes, and tokio polls every task that is ready.
StrategyFairness ==
    /\ WF_strategyVars(tick)
    /\ WF_strategyVars(StrategyStep)

StrategyFairSpec == StrategySpec /\ StrategyFairness

-----------------------------------------------------------------------------
(***************************************************************************)
(* Properties                                                              *)
(***************************************************************************)
Stages == {"none", "waiting", "sleeping", "requesting", "done"}

\* Type invariant; no sleep is longer than the interval.
StrategyTypeOK ==
    /\ strategy \in {"none", "serial", "parallel"}
    /\ suite \in Suites \cup {NoSuite}
    /\ phase \in {"idle", "running", "done", "error"}
    /\ sorted \in Seq(Tests) /\ to_spawn \in Seq(Tests)
    /\ levels \in Seq(Seq(Tests))
    /\ stage \in [Tests -> Stages]
    /\ context \subseteq Tests
    /\ seen \in [Tests -> SUBSET Tests]
    /\ since \in 0..MinInterval
    /\ sleep_left \in [Tests -> 0..MinInterval]
    /\ age \in [Tests -> 0..MinInterval]

\* The tests that can never be ready: those of a set in which each waits for another
\* of the set or for a test that is not in the suite.
Blocked(s) ==
    UNION {S \in SUBSET Range(s.order) :
               \A t \in S : \E d \in s.deps[t] : d \in S \/ d \notin Range(s.order)}

\* The serial strategy refuses a suite exactly if some of its tests can never be
\* ready, and otherwise executes all; the parallel strategy executes all the others.
ExecutesUnblocked ==
    /\ phase = "error" => Blocked(suite) # {}
    /\ phase = "done" =>
           /\ {t \in Tests : stage[t] = "done"} = Range(suite.order) \ Blocked(suite)
           /\ strategy = "serial" => Blocked(suite) = {}

\* A test executed serially finds the variables of every test it depends on.
SerialSeesDependencies ==
    \A t \in Tests :
        strategy = "serial" /\ stage[t] # "none" => suite.deps[t] \subseteq seen[t]

ListedBefore(s, d, t) ==
    \E i, j \in DOMAIN s.order : i < j /\ s.order[i] = d /\ s.order[j] = t

\* A test executed in parallel overlaps only with dependencies that are listed before
\* it: one that is listed after it has ended when the test is spawned, and every
\* dependency was spawned before it.
OverlapsOnlyEarlier ==
    \A t \in Tests :
        strategy = "parallel" /\ stage[t] # "none" =>
            \A d \in suite.deps[t] :
                IF ListedBefore(suite, d, t) THEN stage[d] # "none" ELSE stage[d] = "done"

\* Either strategy keeps what it promises about the dependencies of a test that runs.
DependenciesSeen == SerialSeesDependencies /\ OverlapsOnlyEarlier

\* The rate limiter checks, sleeps and updates without holding its lock, so requests
\* bunch; but in any time shorter than the interval it lets through at most as many
\* as the strategy has permits.
BurstBound ==
    Cardinality({t \in Tests : stage[t] \in {"requesting", "done"} /\ age[t] < MinInterval})
        <= Limit

\* Every execute call returns: no permit is lost and no sleep repeated.
ExecuteEnds == phase = "running" ~> phase = "done"

\* "Group test cases by dependency levels": the levels run one after the other, so a
\* test is let through only after every test it depends on has ended.
DependenciesRespected ==
    [][\A t \in Tests :
          ~Requesting(t) /\ Requesting(t)' => \A d \in suite.deps[t] : stage[d] = "done"]_strategyVars
=============================================================================
