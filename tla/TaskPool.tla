------------------------------ MODULE TaskPool ------------------------------
(***************************************************************************)
(* What the task distributor promises to whoever submits work: a task is   *)
(* tried at most RetryLimit times and ends in exactly one final outcome.   *)
(* Queues, nodes, snapshots and locks do not appear here; TaskDistribution *)
(* is shown to implement this specification.                               *)
(***************************************************************************)
EXTENDS Naturals

CONSTANTS Tasks,       \* identifiers a submission may be given
          RetryLimit   \* failed tries after which a task is given up

VARIABLES stage,   \* where each task stands
          tries    \* failed tries of each task

poolVars == <<stage, tries>>

Stages == {"unissued", "waiting", "running", "answered", "given_up"}

PoolInit ==
    /\ stage = [t \in Tasks |-> "unissued"]
    /\ tries = [t \in Tasks |-> 0]

Submit(t) ==
    /\ stage[t] = "unissued"
    /\ stage' = [stage EXCEPT ![t] = "waiting"]
    /\ UNCHANGED tries

\* Some waiting tasks start together.
Start(S) ==
    /\ \A t \in S : stage[t] = "waiting"
    /\ stage' = [t \in Tasks |-> IF t \in S THEN "running" ELSE stage[t]]
    /\ UNCHANGED tries

Answer(t) ==
    /\ stage[t] = "running"
    /\ stage' = [stage EXCEPT ![t] = "answered"]
    /\ UNCHANGED tries

\* A failed try: back to waiting while tries remain, otherwise given up.
Fail(t) ==
    /\ stage[t] = "running"
    /\ tries[t] < RetryLimit
    /\ tries' = [tries EXCEPT ![t] = @ + 1]
    /\ stage' = [stage EXCEPT ![t] = IF tries[t] + 1 < RetryLimit
                                     THEN "waiting" ELSE "given_up"]

PoolNext ==
    \/ \E t \in Tasks : Submit(t) \/ Answer(t) \/ Fail(t)
    \/ \E S \in SUBSET Tasks : Start(S)

PoolSpec == PoolInit /\ [][PoolNext]_poolVars
=============================================================================
