--------------------- MODULE DistributedExecutor_proofs ---------------------
(***************************************************************************)
(* Proofs about TaskDistribution and DistributedExecutor, for any number   *)
(* of suites, agents, nodes and tasks: where the tasks of the distributor  *)
(* are and how often they are dispatched; then that the executor at the    *)
(* granularity of its locks is still this distributor, that its results    *)
(* cover what its suites added, and that its locks lead to a circle of     *)
(* waiting processes only through handle_task_failure.                     *)
(***************************************************************************)
EXTENDS DistributedExecutor, SequenceTheorems, FiniteSetTheorems, TLAPS

-----------------------------------------------------------------------------
(***************************************************************************)
(* The distributor                                                         *)
(***************************************************************************)
\* The conjunction is inductive: a retry count stays in its range only because
\* an active task has not yet reached the limit.
IInv == TypeOK /\ EachTaskInOnePlace /\ DispatchAccounting

-----------------------------------------------------------------------------
\* Appending to the queue of pending tasks adds the task at the end and queues
\* nothing else (push_back in add_task and handle_task_failure).
LEMMA PushBack ==
    ASSUME NEW t \in Tasks, pending_tasks \in Seq(Tasks),
           pending_tasks' = Append(pending_tasks, t)
    PROVE  /\ pending_tasks' \in Seq(Tasks)
           /\ \A u : Queued(u)' <=> (Queued(u) \/ u = t)
           /\ ~Queued(t) /\ QueuedOnce => QueuedOnce'
<1>1. /\ pending_tasks' \in Seq(Tasks)
      /\ DOMAIN pending_tasks' = 1..Len(pending_tasks) + 1
      /\ \A i \in DOMAIN pending_tasks : pending_tasks'[i] = pending_tasks[i]
      /\ pending_tasks'[Len(pending_tasks) + 1] = t
      /\ DOMAIN pending_tasks = 1..Len(pending_tasks)
      /\ Len(pending_tasks) \in Nat
  OBVIOUS
<1>2. \A u : Queued(u)' <=> (Queued(u) \/ u = t)
  BY <1>1 DEF Queued
<1>3. ~Queued(t) /\ QueuedOnce => QueuedOnce'
  BY <1>1 DEF Queued, QueuedOnce
<1>4. QED
  BY <1>1, <1>2, <1>3

\* No task is queued in an empty queue.
LEMMA EmptyQueue ==
    ASSUME pending_tasks = <<>>
    PROVE  \A u : ~Queued(u)
BY DEF Queued

\* The invariant holds of an empty distributor.
LEMMA InitIInv == Init => IInv
<1> SUFFICES ASSUME Init PROVE IInv
  OBVIOUS
<1>1. \A u : ~Queued(u)
  BY EmptyQueue DEF Init
<1>2. TypeOK
  BY LoadAssumption DEF Init, TypeOK, RetryLimit, Outcome
<1>3. EachTaskInOnePlace
  BY <1>1 DEF Init, EachTaskInOnePlace, QueuedOnce, Active
<1>4. DispatchAccounting
  BY DEF Init, DispatchAccounting, Active, RetryLimit
<1>5. QED
  BY <1>2, <1>3, <1>4 DEF IInv

\* A step of the registry leaves every task where it is.
LEMMA NodeStepIInv == IInv /\ NodeStep => IInv'
<1> SUFFICES ASSUME IInv, NodeStep PROVE IInv'
  OBVIOUS
<1>1. UNCHANGED poolState /\ UNCHANGED snapshot
  BY DEF NodeStep, register_node, deregister_node, update_heartbeat, cleanup
<1>2. nodes' \in [Nodes -> NodeRecord \cup {NotRegistered}]
  <2>1. [status |-> "Available", load |-> 0] \in NodeRecord
    BY LoadAssumption DEF NodeRecord, NodeStatus
  <2>2. CASE \E n \in Nodes : register_node(n) \/ deregister_node(n)
    BY <2>1, <2>2 DEF register_node, deregister_node, IInv, TypeOK
  <2>3. CASE \E n \in Nodes, status \in NodeStatus, load \in 0..MaxLoad :
                 update_heartbeat(n, status, load)
    BY <2>3 DEF update_heartbeat, IInv, TypeOK, NodeRecord
  <2>4. CASE \E S \in SUBSET Nodes : cleanup(S)
    BY <2>4 DEF cleanup, IInv, TypeOK
  <2>5. QED
    BY <2>2, <2>3, <2>4 DEF NodeStep
<1>3. TypeOK'
  BY <1>1, <1>2 DEF IInv, TypeOK, poolState
<1>4. EachTaskInOnePlace' /\ DispatchAccounting'
  BY <1>1 DEF IInv, EachTaskInOnePlace, QueuedOnce, DispatchAccounting,
                   Queued, Active, poolState
<1>5. QED
  BY <1>3, <1>4 DEF IInv

\* add_task queues a task that is nowhere yet.
LEMMA AddTaskIInv ==
    ASSUME NEW t \in Tasks, IInv, add_task(t)
    PROVE  IInv'
<1> USE DEF add_task
<1>1. /\ pending_tasks \in Seq(Tasks)
      /\ t \notin issued
      /\ ~Queued(t) /\ ~Active(t) /\ completed[t] = "none"
  BY DEF IInv, TypeOK, EachTaskInOnePlace
<1>2. /\ pending_tasks' \in Seq(Tasks)
      /\ \A u : Queued(u)' <=> (Queued(u) \/ u = t)
      /\ QueuedOnce'
  BY <1>1, PushBack DEF IInv, EachTaskInOnePlace
<1>3. TypeOK'
  BY <1>2 DEF IInv, TypeOK
<1>4. EachTaskInOnePlace'
  BY <1>1, <1>2 DEF IInv, EachTaskInOnePlace, Active
<1>5. DispatchAccounting'
  BY DEF IInv, DispatchAccounting, Active
<1>6. QED
  BY <1>3, <1>4, <1>5 DEF IInv

\* The first half of distribute_tasks only takes a copy of the node list.
LEMMA ReadIInv ==
    ASSUME NEW d \in Distributors, IInv, distribute_read(d)
    PROVE  IInv'
<1> USE DEF distribute_read
<1>1. get_available_nodes \in SUBSET NodeView
  BY DEF get_available_nodes
<1>2. TypeOK'
  BY <1>1 DEF IInv, TypeOK, poolState
<1>3. EachTaskInOnePlace' /\ DispatchAccounting'
  BY DEF IInv, EachTaskInOnePlace, QueuedOnce, DispatchAccounting,
                   Queued, Active, poolState
<1>4. QED
  BY <1>2, <1>3 DEF IInv

\* The second half moves every queued task to the active map, or none.
LEMMA AssignIInv ==
    ASSUME NEW d \in Distributors, IInv, distribute_assign(d)
    PROVE  IInv'
<1> USE DEF distribute_assign
<1>1. snapshot' \in [Distributors -> SUBSET NodeView]
  BY DEF IInv, TypeOK
<1>2. CASE UNCHANGED poolState
  <2>1. TypeOK'
    BY <1>1, <1>2 DEF IInv, TypeOK, poolState
  <2>2. EachTaskInOnePlace' /\ DispatchAccounting'
    BY <1>2 DEF IInv, EachTaskInOnePlace, QueuedOnce, DispatchAccounting,
                   Queued, Active, poolState
  <2>3. QED
    BY <2>1, <2>2 DEF IInv
<1>3. CASE ~ UNCHANGED poolState
  <2>1. PICK best \in select_best_node(snapshot[d]) :
            /\ active_tasks' = [t \in Tasks |-> IF Queued(t) THEN best
                                                ELSE active_tasks[t]]
            /\ dispatches' = [t \in Tasks |-> IF Queued(t) THEN dispatches[t] + 1
                                              ELSE dispatches[t]]
            /\ pending_tasks' = <<>>
            /\ UNCHANGED <<completed, retry_count, issued>>
    BY <1>3
  <2>2. best \in Nodes /\ best # NoNode
    BY NoNodeAssumption DEF select_best_node, NodeView, IInv, TypeOK
  <2>3. (\A t \in Tasks : ~Queued(t)') /\ QueuedOnce'
    BY <2>1 DEF Queued, QueuedOnce
  <2>4. \A t \in Tasks : Active(t)' <=> (Active(t) \/ Queued(t))
    BY <2>1, <2>2 DEF Active
  <2>5. TypeOK'
    BY <1>1, <2>1, <2>2 DEF IInv, TypeOK
  <2>6. EachTaskInOnePlace'
    BY <2>1, <2>3, <2>4 DEF IInv, EachTaskInOnePlace
  <2>7. DispatchAccounting'
    BY <2>1, <2>4 DEF IInv, TypeOK, EachTaskInOnePlace, DispatchAccounting
  <2>8. QED
    BY <2>5, <2>6, <2>7 DEF IInv
<1>4. QED
  BY <1>2, <1>3

\* A result moves an active task to the completed map and is ignored otherwise.
LEMMA CompletionIInv ==
    ASSUME NEW t \in Tasks, IInv, handle_task_completion(t)
    PROVE  IInv'
<1> USE DEF handle_task_completion
<1>1. \A u \in Tasks : Queued(u)' <=> Queued(u)
  BY DEF Queued
<1>2. QueuedOnce <=> QueuedOnce'
  BY DEF QueuedOnce
<1>3. TypeOK'
  BY DEF IInv, TypeOK, Outcome
<1>4. EachTaskInOnePlace'
  BY <1>1, <1>2, NoNodeAssumption DEF IInv, TypeOK, EachTaskInOnePlace, Active
<1>5. DispatchAccounting'
  BY DEF IInv, TypeOK, EachTaskInOnePlace, DispatchAccounting, Active, RetryLimit
<1>6. QED
  BY <1>3, <1>4, <1>5 DEF IInv

\* A failure moves an active task back to the queue or to the completed map.
LEMMA FailureIInv ==
    ASSUME NEW t \in Tasks, IInv, handle_task_failure(t)
    PROVE  IInv'
<1>1. CASE ~Active(t)
  BY <1>1 DEF handle_task_failure, IInv, TypeOK, EachTaskInOnePlace, QueuedOnce,
              DispatchAccounting, Queued, Active
<1>2. CASE Active(t)
  <2>1. /\ active_tasks' = [active_tasks EXCEPT ![t] = NoNode]
        /\ retry_count' = [retry_count EXCEPT ![t] = @ + 1]
        /\ UNCHANGED <<nodes, issued, dispatches, snapshot>>
    BY <1>2 DEF handle_task_failure
  <2>2. /\ retry_count[t] \in 0..RetryLimit /\ retry_count[t] # RetryLimit
        /\ t \in issued /\ ~Queued(t) /\ completed[t] = "none"
    BY <1>2 DEF handle_task_failure, IInv, TypeOK, EachTaskInOnePlace, DispatchAccounting
  <2>3. \A u \in Tasks : Active(u)' <=> (Active(u) /\ u # t)
    BY <2>1 DEF Active, IInv, TypeOK
  <2>4. CASE may_retry(t)
    <3>1. pending_tasks' = Append(pending_tasks, t) /\ UNCHANGED completed
      BY <1>2, <2>4 DEF handle_task_failure
    <3>2. /\ pending_tasks' \in Seq(Tasks)
          /\ \A u : Queued(u)' <=> (Queued(u) \/ u = t)
          /\ QueuedOnce'
      BY <2>2, <3>1, PushBack DEF IInv, TypeOK, EachTaskInOnePlace
    <3>3. TypeOK'
      BY <2>1, <2>2, <2>4, <3>1, <3>2 DEF IInv, TypeOK, RetryLimit, may_retry
    <3>4. EachTaskInOnePlace'
      BY <2>1, <2>2, <2>3, <3>1, <3>2 DEF IInv, EachTaskInOnePlace
    <3>5. DispatchAccounting'
      BY <1>2, <2>1, <2>2, <2>3, <2>4, <3>1
      DEF IInv, TypeOK, DispatchAccounting, RetryLimit, may_retry
    <3>6. QED
      BY <3>3, <3>4, <3>5 DEF IInv
  <2>5. CASE ~may_retry(t)
    <3>1. /\ completed' = [completed EXCEPT ![t] = "given_up"]
          /\ UNCHANGED pending_tasks
      BY <1>2, <2>5 DEF handle_task_failure
    <3>2. /\ \A u \in Tasks : Queued(u)' <=> Queued(u)
          /\ QueuedOnce <=> QueuedOnce'
      BY <3>1 DEF Queued, QueuedOnce
    <3>3. TypeOK'
      BY <2>1, <2>2, <2>5, <3>1 DEF IInv, TypeOK, RetryLimit, Outcome, may_retry
    <3>4. EachTaskInOnePlace'
      BY <2>1, <2>2, <2>3, <3>1, <3>2 DEF IInv, TypeOK, EachTaskInOnePlace
    <3>5. DispatchAccounting'
      BY <1>2, <2>1, <2>2, <2>3, <2>5, <3>1
      DEF IInv, TypeOK, DispatchAccounting, RetryLimit, may_retry
    <3>6. QED
      BY <3>3, <3>4, <3>5 DEF IInv
  <2>6. QED
    BY <2>4, <2>5
<1>3. QED
  BY <1>1, <1>2

\* The invariant is inductive.
LEMMA NextIInv == IInv /\ [Next]_vars => IInv'
<1> SUFFICES ASSUME IInv, [Next]_vars PROVE IInv'
  OBVIOUS
<1>1. CASE NodeStep
  BY <1>1, NodeStepIInv
<1>2. ASSUME NEW t \in Tasks, add_task(t) PROVE IInv'
  BY <1>2, AddTaskIInv
<1>3. ASSUME NEW t \in Tasks, handle_task_completion(t) PROVE IInv'
  BY <1>3, CompletionIInv
<1>4. ASSUME NEW t \in Tasks, handle_task_failure(t) PROVE IInv'
  BY <1>4, FailureIInv
<1>5. ASSUME NEW d \in Distributors, distribute_read(d) PROVE IInv'
  BY <1>5, ReadIInv
<1>6. ASSUME NEW d \in Distributors, distribute_assign(d) PROVE IInv'
  BY <1>6, AssignIInv
<1>7. CASE UNCHANGED vars
  BY <1>7 DEF IInv, TypeOK, EachTaskInOnePlace, QueuedOnce, DispatchAccounting,
                   Queued, Active, vars
<1>8. QED
  BY <1>1, <1>2, <1>3, <1>4, <1>5, <1>6, <1>7 DEF Next

-----------------------------------------------------------------------------
\* The containers and counters of the distributor keep their types; in
\* particular no retry count passes the limit.
THEOREM TypeCorrect == Spec => []TypeOK
<1>1. IInv => TypeOK
  BY DEF IInv
<1>2. QED
  BY InitIInv, NextIInv, <1>1, PTL DEF Spec

\* No task is lost, queued twice, or in two containers at once, for any number
\* of tasks, nodes and concurrent distributors.
THEOREM TasksKeptOnce == Spec => []EachTaskInOnePlace
<1>1. IInv => EachTaskInOnePlace
  BY DEF IInv
<1>2. QED
  BY InitIInv, NextIInv, <1>1, PTL DEF Spec

\* The count of dispatches is explained by the failures, and a task is given up
\* exactly at the retry limit.
THEOREM DispatchesAccounted == Spec => []DispatchAccounting
<1>1. IInv => DispatchAccounting
  BY DEF IInv
<1>2. QED
  BY InitIInv, NextIInv, <1>1, PTL DEF Spec

\* No step replaces or drops a recorded outcome.
LEMMA OutcomeKept ==
    ASSUME IInv, [Next]_vars, NEW t \in Tasks, completed[t] # "none"
    PROVE  completed'[t] = completed[t]
<1>1. ~Active(t)
  BY DEF IInv, EachTaskInOnePlace
<1>2. CASE NodeStep
  BY <1>2 DEF NodeStep, register_node, deregister_node, update_heartbeat, cleanup,
              poolState
<1>3. ASSUME NEW u \in Tasks, add_task(u) PROVE completed'[t] = completed[t]
  BY <1>3 DEF add_task
<1>4. ASSUME NEW u \in Tasks, handle_task_completion(u)
      PROVE  completed'[t] = completed[t]
  BY <1>1, <1>4 DEF handle_task_completion, IInv, TypeOK
<1>5. ASSUME NEW u \in Tasks, handle_task_failure(u)
      PROVE  completed'[t] = completed[t]
  BY <1>1, <1>5 DEF handle_task_failure, IInv, TypeOK
<1>6. ASSUME NEW d \in Distributors, distribute_read(d) \/ distribute_assign(d)
      PROVE  completed'[t] = completed[t]
  BY <1>6 DEF distribute_read, distribute_assign, poolState
<1>7. CASE UNCHANGED vars
  BY <1>7 DEF vars
<1>8. QED
  BY <1>2, <1>3, <1>4, <1>5, <1>6, <1>7 DEF Next

\* A recorded outcome never changes.
THEOREM OutcomesAreFinal == Spec => OutcomeFinal
<1>1. IInv /\ [Next]_vars =>
          [\A t \in Tasks : completed[t] # "none" => completed'[t] = completed[t]]_vars
  BY OutcomeKept
<1>2. QED
  BY InitIInv, NextIInv, <1>1, PTL DEF Spec, OutcomeFinal

-----------------------------------------------------------------------------
\* The stage of a task is decided by the container it is in.
LEMMA StageByPlace ==
    ASSUME NEW t \in Tasks, EachTaskInOnePlace
    PROVE  /\ Queued(t) => StageOf(t) = "waiting"
           /\ Active(t) => StageOf(t) = "running"
           /\ completed[t] = "answered" => StageOf(t) = "answered"
           /\ completed[t] = "given_up" => StageOf(t) = "given_up"
           /\ ~Queued(t) /\ ~Active(t) /\ completed[t] = "none"
                  => StageOf(t) = "unissued"
BY DEF EachTaskInOnePlace, StageOf

\* A step that moves no task between containers is a stutter of the pool.
LEMMA StageUnchanged ==
    ASSUME \A t \in Tasks : Queued(t)' <=> Queued(t),
           \A t \in Tasks : Active(t)' <=> Active(t),
           UNCHANGED <<completed, retry_count>>
    PROVE  UNCHANGED Pool!poolVars
BY DEF Pool!poolVars, StageOf

\* add_task is a submission.
LEMMA AddTaskSubmits ==
    ASSUME NEW t \in Tasks, IInv, IInv', add_task(t)
    PROVE  Pool!Submit(t)
<1>1. t \notin issued /\ ~Queued(t) /\ ~Active(t) /\ completed[t] = "none"
  BY DEF add_task, IInv, EachTaskInOnePlace
<1>2. \A u \in Tasks : Queued(u)' <=> (Queued(u) \/ u = t)
  BY <1>1, PushBack DEF add_task, IInv, TypeOK
<1>3. \A u \in Tasks : Active(u)' <=> Active(u)
  BY DEF add_task, Active
<1>4. \A u \in Tasks : StageOf(u)' = IF u = t THEN "waiting" ELSE StageOf(u)
  BY <1>1, <1>2, <1>3 DEF StageOf, add_task, IInv, EachTaskInOnePlace
<1>5. StageOf(t) = "unissued"
  BY <1>1, StageByPlace DEF IInv
<1>6. QED
  BY <1>4, <1>5 DEF Pool!Submit, add_task

\* The assigning half of distribute_tasks starts every waiting task, or none.
LEMMA AssignStarts ==
    ASSUME NEW d \in Distributors, IInv, IInv', distribute_assign(d)
    PROVE  \/ \E S \in SUBSET Tasks : Pool!Start(S)
           \/ UNCHANGED Pool!poolVars
<1>1. CASE UNCHANGED poolState
  BY <1>1, StageUnchanged DEF poolState, Queued, Active
<1>2. CASE ~ UNCHANGED poolState
  <2>1. PICK best \in select_best_node(snapshot[d]) :
            /\ active_tasks' = [t \in Tasks |-> IF Queued(t) THEN best
                                                ELSE active_tasks[t]]
            /\ pending_tasks' = <<>>
            /\ UNCHANGED <<completed, retry_count>>
    BY <1>2 DEF distribute_assign
  <2>2. best # NoNode
    BY NoNodeAssumption DEF select_best_node, NodeView, IInv, TypeOK
  <2>3. \A t \in Tasks : ~Queued(t)'
    BY <2>1 DEF Queued
  <2>4. \A t \in Tasks : Active(t)' <=> (Active(t) \/ Queued(t))
    BY <2>1, <2>2 DEF Active
  <2>5. \A t \in Tasks : StageOf(t)' = IF Queued(t) THEN "running" ELSE StageOf(t)
    BY <2>1, <2>3, <2>4 DEF StageOf, IInv, EachTaskInOnePlace
  <2>6. \A t \in Tasks : Queued(t) => StageOf(t) = "waiting"
    BY StageByPlace DEF IInv
  <2>7. Pool!Start({t \in Tasks : Queued(t)})
    BY <2>1, <2>5, <2>6 DEF Pool!Start
  <2>8. QED
    BY <2>7
<1>3. QED
  BY <1>1, <1>2

\* A result settles a running task and changes nothing for any other.
LEMMA CompletionSucceeds ==
    ASSUME NEW t \in Tasks, IInv, IInv', handle_task_completion(t)
    PROVE  Pool!Answer(t) \/ UNCHANGED Pool!poolVars
<1>1. \A u \in Tasks : Queued(u)' <=> Queued(u)
  BY DEF handle_task_completion, Queued
<1>2. CASE ~Active(t)
  BY <1>1, <1>2, StageUnchanged DEF handle_task_completion, Active
<1>3. CASE Active(t)
  <2>1. ~Queued(t) /\ StageOf(t) = "running"
    BY <1>3, StageByPlace DEF IInv, EachTaskInOnePlace
  <2>2. \A u \in Tasks : Active(u)' <=> (Active(u) /\ u # t)
    BY <1>3 DEF handle_task_completion, Active, IInv, TypeOK
  <2>3. \A u \in Tasks : completed'[u] = IF u = t THEN "answered" ELSE completed[u]
    BY <1>3 DEF handle_task_completion, IInv, TypeOK
  <2>4. \A u \in Tasks : StageOf(u)' = IF u = t THEN "answered" ELSE StageOf(u)
    BY <1>1, <2>1, <2>2, <2>3 DEF StageOf
  <2>5. Pool!Answer(t)
    BY <2>1, <2>4 DEF Pool!Answer, handle_task_completion
  <2>6. QED
    BY <2>5
<1>4. QED
  BY <1>2, <1>3

\* A failure is a failed try of a running task and nothing for any other.
LEMMA FailureFails ==
    ASSUME NEW t \in Tasks, IInv, IInv', handle_task_failure(t)
    PROVE  Pool!Fail(t) \/ UNCHANGED Pool!poolVars
<1>1. CASE ~Active(t)
  BY <1>1, StageUnchanged DEF handle_task_failure, Active, Queued
<1>2. CASE Active(t)
  <2>1. ~Queued(t) /\ completed[t] = "none" /\ StageOf(t) = "running"
    BY <1>2, StageByPlace DEF IInv, EachTaskInOnePlace
  <2>2. retry_count[t] \in 0..RetryLimit /\ retry_count[t] < RetryLimit
    BY <2>1 DEF IInv, TypeOK, DispatchAccounting, RetryLimit, may_retry
  <2>3. \A u \in Tasks : Active(u)' <=> (Active(u) /\ u # t)
    BY <1>2 DEF handle_task_failure, Active, IInv, TypeOK
  <2>4. retry_count' = [retry_count EXCEPT ![t] = @ + 1]
    BY <1>2 DEF handle_task_failure
  <2>5. CASE may_retry(t)
    <3>1. pending_tasks' = Append(pending_tasks, t) /\ UNCHANGED completed
      BY <1>2, <2>5 DEF handle_task_failure
    <3>2. \A u \in Tasks : Queued(u)' <=> (Queued(u) \/ u = t)
      BY <3>1, PushBack DEF IInv, TypeOK
    <3>3. \A u \in Tasks : StageOf(u)' = IF u = t THEN "waiting" ELSE StageOf(u)
      BY <2>1, <2>3, <3>1, <3>2 DEF StageOf, IInv, EachTaskInOnePlace
    <3>4. QED
      BY <2>1, <2>2, <2>4, <2>5, <3>3 DEF Pool!Fail, may_retry
  <2>6. CASE ~may_retry(t)
    <3>1. completed' = [completed EXCEPT ![t] = "given_up"] /\ UNCHANGED pending_tasks
      BY <1>2, <2>6 DEF handle_task_failure
    <3>2. \A u \in Tasks : /\ Queued(u)' <=> Queued(u)
                           /\ completed'[u] = IF u = t THEN "given_up" ELSE completed[u]
      BY <3>1 DEF Queued, IInv, TypeOK
    <3>3. \A u \in Tasks : StageOf(u)' = IF u = t THEN "given_up" ELSE StageOf(u)
      BY <2>1, <2>3, <3>2 DEF StageOf
    <3>4. QED
      BY <2>1, <2>2, <2>4, <2>6, <3>3 DEF Pool!Fail, may_retry
  <2>7. QED
    BY <2>5, <2>6
<1>3. QED
  BY <1>1, <1>2

\* The distributor implements TaskPool: each operation is one submission, start,
\* answer or failed try of the pool, or leaves the pool unchanged.
THEOREM DistributorImplementsPool == Spec => ImplementsPool
<1>1. Init => Pool!PoolInit
  <2> SUFFICES ASSUME Init PROVE Pool!PoolInit
    OBVIOUS
  <2>1. IInv /\ \A t \in Tasks : ~Queued(t)
    BY InitIInv, EmptyQueue DEF Init
  <2>2. \A t \in Tasks : StageOf(t) = "unissued"
    BY <2>1, StageByPlace DEF Init, IInv, Active
  <2>3. QED
    BY <2>2 DEF Init, Pool!PoolInit
<1>2. IInv /\ IInv' /\ [Next]_vars => [Pool!PoolNext]_(Pool!poolVars)
  <2> SUFFICES ASSUME IInv, IInv', [Next]_vars
               PROVE  Pool!PoolNext \/ UNCHANGED Pool!poolVars
    OBVIOUS
  <2>1. CASE NodeStep
    BY <2>1, StageUnchanged
    DEF NodeStep, register_node, deregister_node, update_heartbeat, cleanup,
        poolState, Queued, Active
  <2>2. ASSUME NEW t \in Tasks, add_task(t) PROVE Pool!PoolNext
    BY <2>2, AddTaskSubmits DEF Pool!PoolNext
  <2>3. ASSUME NEW t \in Tasks, handle_task_completion(t)
        PROVE  Pool!PoolNext \/ UNCHANGED Pool!poolVars
    BY <2>3, CompletionSucceeds DEF Pool!PoolNext
  <2>4. ASSUME NEW t \in Tasks, handle_task_failure(t)
        PROVE  Pool!PoolNext \/ UNCHANGED Pool!poolVars
    BY <2>4, FailureFails DEF Pool!PoolNext
  <2>5. ASSUME NEW d \in Distributors, distribute_read(d)
        PROVE  UNCHANGED Pool!poolVars
    BY <2>5, StageUnchanged DEF distribute_read, poolState, Queued, Active
  <2>6. ASSUME NEW d \in Distributors, distribute_assign(d)
        PROVE  Pool!PoolNext \/ UNCHANGED Pool!poolVars
    BY <2>6, AssignStarts DEF Pool!PoolNext
  <2>7. CASE UNCHANGED vars
    BY <2>7, StageUnchanged DEF vars, Queued, Active
  <2>8. QED
    BY <2>1, <2>2, <2>3, <2>4, <2>5, <2>6, <2>7 DEF Next
<1>3. QED
  BY <1>1, <1>2, InitIInv, NextIInv, PTL DEF Spec, ImplementsPool, Pool!PoolSpec

-----------------------------------------------------------------------------
(***************************************************************************)
(* The executor                                                            *)
(***************************************************************************)
Locks == {"pending", "active", "failed"}
Requests == [who : Processes, mode : {"read", "write"}]

Holds(queue, r) == \E i \in DOMAIN queue : queue[i] = r
First(queue, r) == 1 \in DOMAIN queue /\ queue[1] = r
NoRepeat(queue) == \A i, j \in DOMAIN queue : queue[i] = queue[j] => i = j

PendingSteps == {"add", "lock_pending", "lock_active", "poll_pending", "poll_active"}

-----------------------------------------------------------------------------
(***************************************************************************)
(* The inductive invariant                                                 *)
(***************************************************************************)
QueuesOK ==
    /\ requests \in [Locks -> Seq(Requests)]
    /\ \A lock \in Locks : NoRepeat(requests[lock])

\* A suite has the requests its place in the code calls for, and it only asks for
\* the active map once the queue of pending tasks is its own.
SuiteAsks(s) ==
    /\ Holds(requests["pending"], Write(Suite(s))) <=> pc[s] \in PendingSteps
    /\ Holds(requests["active"], Write(Suite(s))) <=> pc[s] = "lock_active"
    /\ Holds(requests["active"], Read(Suite(s))) <=> pc[s] = "poll_active"
    /\ ~Holds(requests["failed"], Write(Suite(s)))
    /\ \A lock \in {"pending", "failed"} : ~Holds(requests[lock], Read(Suite(s)))
    /\ pc[s] \in {"lock_active", "poll_active"}
           => First(requests["pending"], Write(Suite(s)))

\* A caller has the write requests its call needs.
CallerAsks(p) ==
    /\ Holds(requests["pending"], Write(p)) <=> call[p].op \in {"add", "failing"}
    /\ Holds(requests["active"], Write(p))
           <=> call[p].op \in {"completion", "failure", "failing"}
    /\ \A lock \in {"pending", "failed"} : ~Holds(requests[lock], Read(p))

\* A monitor reads the active map only while it owns the set of failed nodes.
MonitorAsks(s) ==
    /\ Holds(requests["active"], Read(Monitor(s))) <=> monitor[s] = "scan"
    /\ Holds(requests["failed"], Write(Monitor(s)))
           <=> monitor[s] \in {"lock_failed", "scan"}
    /\ monitor[s] = "scan" => First(requests["failed"], Write(Monitor(s)))
    /\ call[Monitor(s)].op \in {"none", "failure", "failing"}

AgentAsks(a) ==
    /\ ~Holds(requests["active"], Read(Agent(a)))
    /\ ~Holds(requests["failed"], Write(Agent(a)))

LocksOK ==
    /\ QueuesOK
    /\ \A s \in Distributors : SuiteAsks(s) /\ MonitorAsks(s)
    /\ \A p \in Callers : CallerAsks(p)
    /\ \A a \in Agents : AgentAsks(a)

\* What a suite added was issued, is completed once all_tasks_completed has said
\* so, and an outcome is never taken back before the suite collects.
OwnTasksKept ==
    \A s \in Distributors :
        /\ task_ids[s] \subseteq issued
        /\ pc[s] = "add" => to_add[s] > 0
        /\ pc[s] = "collect" => \A t \in task_ids[s] : completed[t] # "none"
        /\ pc[s] = "ok" => task_ids[s] \subseteq reported[s]

\* The monitor of a suite is spawned when the suite begins.
MonitorsWait == \A s \in Distributors : pc[s] = "idle" => monitor[s] = "off"

Calls == {NoCall} \cup
             [op : {"add", "completion", "failure", "failing"}, task : Tasks]

Places == Returned \cup {"idle", "register", "partition", "add", "distribute",
                         "lock_pending", "lock_active", "poll_pending", "poll_active",
                         "check_wait", "collect"}

SuiteTypes ==
    /\ pc \in [Distributors -> Places]
    /\ to_register \in [Distributors -> SUBSET Nodes]
    /\ to_add \in [Distributors -> Nat]
    /\ task_ids \in [Distributors -> SUBSET Tasks]
    /\ reported \in [Distributors -> SUBSET Tasks]

CallerTypes ==
    /\ monitor \in [Distributors -> {"off", "tick", "lock_failed", "scan"}]
    /\ seen \in [Distributors -> SUBSET Nodes]
    /\ failed_nodes \subseteq Nodes
    /\ call \in [Callers -> Calls]

ExecInv == IInv /\ SuiteTypes /\ CallerTypes /\ OwnTasksKept /\ MonitorsWait /\ LocksOK

\* The types of the parts of the invariant are those of the executor.
LEMMA InvTypes == ExecInv => ExecTypeOK
BY DEF ExecInv, IInv, SuiteTypes, CallerTypes, Places, Calls, LocksOK, QueuesOK,
       Requests, ExecTypeOK

-----------------------------------------------------------------------------
(***************************************************************************)
(* Queues of requests                                                      *)
(***************************************************************************)
\* Processes of different kinds, and requests of different processes, differ.
LEMMA ProcessesDiffer ==
    /\ \A s, t \in Distributors : Suite(s) = Suite(t) => s = t
    /\ \A s, t \in Distributors : Monitor(s) = Monitor(t) => s = t
    /\ \A s \in Distributors : Suite(s) \notin Callers
    /\ \A s \in Distributors, a \in Agents : Agent(a) # Monitor(s)
    /\ \A p, q : (Write(p) = Write(q) => p = q) /\ (Read(p) = Read(q) => p = q)
    /\ \A p, q : Read(p) # Write(q)
BY DEF Suite, Monitor, Agent, Callers, Read, Write

\* Every process may make read and write requests.
LEMMA RequestTypes ==
    /\ \A s \in Distributors : Suite(s) \in Processes /\ Monitor(s) \in Callers
    /\ \A a \in Agents : Agent(a) \in Callers
    /\ \A p \in Callers : p \in Processes
    /\ \A p \in Processes : Write(p) \in Requests /\ Read(p) \in Requests
BY DEF Suite, Monitor, Agent, Callers, Processes, Read, Write, Requests

\* A new request goes to the end of the queue.
LEMMA Enqueue ==
    ASSUME NEW queue \in Seq(Requests), NoRepeat(queue), NEW r \in Requests,
           ~Holds(queue, r)
    PROVE  LET longer == Append(queue, r)
           IN  /\ longer \in Seq(Requests)
               /\ NoRepeat(longer)
               /\ \A x : Holds(longer, x) <=> Holds(queue, x) \/ x = r
               /\ \A x : First(queue, x) => First(longer, x)
<1> DEFINE longer == Append(queue, r)
<1>1. /\ longer \in Seq(Requests)
      /\ DOMAIN longer = 1..Len(queue) + 1
      /\ DOMAIN queue = 1..Len(queue)
      /\ Len(queue) \in Nat
      /\ \A i \in DOMAIN queue : longer[i] = queue[i]
      /\ longer[Len(queue) + 1] = r
  OBVIOUS
<1>2. \A x : Holds(longer, x) <=> Holds(queue, x) \/ x = r
  BY <1>1 DEF Holds
<1>3. NoRepeat(longer)
  BY <1>1 DEF NoRepeat, Holds
<1>4. \A x : First(queue, x) => First(longer, x)
  BY <1>1 DEF First
<1>5. QED
  BY <1>1, <1>2, <1>3, <1>4

\* Removing a place of a sequence moves the places behind it up by one.
LEMMA RemovedAt ==
    ASSUME NEW S, NEW seq \in Seq(S), NEW place \in 1..Len(seq)
    PROVE  /\ RemoveAt(seq, place) \in Seq(S)
           /\ Len(RemoveAt(seq, place)) = Len(seq) - 1
           /\ \A i \in 1..Len(seq) - 1 :
                 RemoveAt(seq, place)[i] = IF i < place THEN seq[i] ELSE seq[i + 1]
<1> DEFINE before == SubSeq(seq, 1, place - 1)
           after == SubSeq(seq, place + 1, Len(seq))
<1>1. /\ before \in Seq(S) /\ Len(before) = place - 1
      /\ \A i \in 1..place - 1 : before[i] = seq[i]
  OBVIOUS
<1>2. /\ after \in Seq(S) /\ Len(after) = Len(seq) - place
      /\ \A i \in 1..Len(seq) - place : after[i] = seq[place + i]
  OBVIOUS
<1>3. RemoveAt(seq, place) = before \o after
  BY DEF RemoveAt
<1> HIDE DEF before, after
<1>4. /\ before \o after \in Seq(S)
      /\ Len(before \o after) = Len(before) + Len(after)
      /\ \A i \in 1..Len(before) + Len(after) :
            (before \o after)[i] = IF i <= Len(before) THEN before[i]
                                   ELSE after[i - Len(before)]
  BY <1>1, <1>2, ConcatProperties
<1>5. ASSUME NEW i \in 1..Len(seq) - 1
      PROVE  (before \o after)[i] = IF i < place THEN seq[i] ELSE seq[i + 1]
  <2>1. CASE i < place
    BY <1>1, <1>2, <1>4, <2>1
  <2>2. CASE ~(i < place)
    <3>1. /\ ~(i <= Len(before)) /\ i \in 1..Len(before) + Len(after)
          /\ i - Len(before) \in 1..Len(seq) - place
          /\ place + (i - Len(before)) = i + 1
      BY <1>1, <1>2, <2>2
    <3>2. (before \o after)[i] = after[i - Len(before)]
      BY <1>4, <3>1
    <3>3. after[i - Len(before)] = seq[i + 1]
      BY <1>2, <3>1
    <3>4. QED
      BY <2>2, <3>2, <3>3
  <2>3. QED
    BY <2>1, <2>2
<1>6. QED
  BY <1>1, <1>2, <1>3, <1>4, <1>5

\* A request that is given up leaves the others in their order.
LEMMA Dequeue ==
    ASSUME NEW queue \in Seq(Requests), NoRepeat(queue), NEW r, Holds(queue, r)
    PROVE  LET shorter == Release(queue, r)
           IN  /\ shorter \in Seq(Requests)
               /\ NoRepeat(shorter)
               /\ \A x : Holds(shorter, x) <=> Holds(queue, x) /\ x # r
               /\ \A x : First(queue, x) /\ x # r => First(shorter, x)
<1>1. PICK place \in 1..Len(queue) :
          queue[place] = r /\ Release(queue, r) = RemoveAt(queue, place)
  <2> DEFINE place == CHOOSE i \in DOMAIN queue : queue[i] = r
  <2>1. place \in 1..Len(queue) /\ queue[place] = r
    BY DEF Holds
  <2>2. Release(queue, r) = RemoveAt(queue, place)
    BY DEF Release
  <2>3. QED
    BY <2>1, <2>2
<1> DEFINE shorter == Release(queue, r)
<1>2. /\ shorter \in Seq(Requests)
      /\ DOMAIN shorter = 1..Len(queue) - 1
      /\ \A i \in 1..Len(queue) - 1 :
            shorter[i] = IF i < place THEN queue[i] ELSE queue[i + 1]
  <2>1. /\ shorter \in Seq(Requests)
        /\ Len(shorter) = Len(queue) - 1
        /\ \A i \in 1..Len(queue) - 1 :
              shorter[i] = IF i < place THEN queue[i] ELSE queue[i + 1]
    BY <1>1, RemovedAt
  <2> HIDE DEF shorter
  <2>2. QED
    BY <2>1
<1>3. DOMAIN queue = 1..Len(queue) /\ Len(queue) \in Nat
  OBVIOUS
<1> HIDE DEF shorter
<1>4. \A x : Holds(shorter, x) => Holds(queue, x) /\ x # r
  <2>1. ASSUME NEW i \in DOMAIN shorter
        PROVE  \E j \in DOMAIN queue : shorter[i] = queue[j] /\ j # place
    <3>1. CASE i < place
      BY <1>2, <1>3, <3>1
    <3>2. CASE ~(i < place)
      <4>1. i + 1 \in DOMAIN queue /\ shorter[i] = queue[i + 1] /\ i + 1 # place
        BY <1>2, <1>3, <3>2
      <4>2. QED
        BY <4>1
    <3>3. QED
      BY <3>1, <3>2
  <2>2. place \in DOMAIN queue
    BY <1>3
  <2>3. \A j \in DOMAIN queue : j # place => queue[j] # r
    BY <1>1, <2>2 DEF NoRepeat
  <2>4. QED
    BY <2>1, <2>3 DEF Holds
<1>5. \A x : Holds(queue, x) /\ x # r => Holds(shorter, x)
  <2> SUFFICES ASSUME NEW i \in DOMAIN queue, i # place
               PROVE  \E j \in DOMAIN shorter : shorter[j] = queue[i]
    BY <1>1, <1>3 DEF Holds
  <2>1. CASE i < place
    BY <1>2, <1>3, <2>1
  <2>2. CASE ~(i < place)
    <3>1. i - 1 \in DOMAIN shorter /\ shorter[i - 1] = queue[i]
      BY <1>2, <1>3, <2>2
    <3>2. QED
      BY <3>1
  <2>3. QED
    BY <2>1, <2>2
<1>6. NoRepeat(shorter)
  <2> SUFFICES ASSUME NEW i \in DOMAIN shorter, NEW j \in DOMAIN shorter,
                      shorter[i] = shorter[j]
               PROVE  i = j
    BY DEF NoRepeat
  <2> DEFINE old(k) == IF k < place THEN k ELSE k + 1
  <2>1. /\ old(i) \in DOMAIN queue /\ shorter[i] = queue[old(i)]
        /\ old(j) \in DOMAIN queue /\ shorter[j] = queue[old(j)]
    BY <1>2, <1>3
  <2>2. old(i) = old(j)
    BY <2>1 DEF NoRepeat
  <2>3. QED
    BY <1>2, <1>3, <2>2
<1>7. \A x : First(queue, x) /\ x # r => First(shorter, x)
  <2> SUFFICES ASSUME First(queue, queue[1]), queue[1] # r
               PROVE  First(shorter, queue[1])
    BY DEF First
  <2>1. place # 1 /\ 1 < place /\ 1 \in 1..Len(queue) - 1
    BY <1>1, <1>3
  <2>2. QED
    BY <1>2, <2>1 DEF First
<1>8. QED
  BY <1>2, <1>4, <1>5, <1>6, <1>7 DEF shorter

\* A write request is granted only at the head of its queue.
LEMMA GrantedWriteIsFirst ==
    ASSUME NEW lock \in Locks, NEW p, QueuesOK, Granted(lock, Write(p))
    PROVE  First(requests[lock], Write(p)) /\ Holds(requests[lock], Write(p))
<1>1. requests[lock] \in Seq(Requests)
  BY DEF QueuesOK
<1>2. PICK i \in DOMAIN requests[lock] :
          /\ requests[lock][i] = Write(p)
          /\ i = 1 \/ \A j \in 1..i : requests[lock][j].mode = "read"
  BY DEF Granted
<1>3. i \in 1..i /\ Write(p).mode = "write"
  BY <1>1, <1>2 DEF Write
<1>4. QED
  BY <1>2, <1>3 DEF First, Holds

-----------------------------------------------------------------------------
(***************************************************************************)
(* The executor is the distributor                                         *)
(***************************************************************************)
\* A step of an execute call, of a call made by an agent or a monitor, or of the
\* nodes is a step of the distributor or leaves its state alone.
LEMMA StepOfDistributor ==
    ASSUME SuiteTypes, CallerTypes, [ExecNext]_execVars
    PROVE  [Next]_vars
<1>1. CASE UNCHANGED execVars
  BY <1>1 DEF execVars
<1>2. CASE NodeEvent
  BY <1>2 DEF NodeEvent, Next, NodeStep
<1>3. ASSUME NEW s \in Distributors, Begin(s) \/ SuiteStep(s) \/ MonitorStep(s)
      PROVE  [Next]_vars
  <2>1. CASE RegisterMockNode(s)
    <3>1. PICK n \in to_register[s] : register_node(n)
      BY <2>1 DEF RegisterMockNode
    <3>2. QED
      BY <3>1 DEF Next, NodeStep, SuiteTypes
  <2>2. CASE AddChunk(s)
    <3>1. FreshTask \in Tasks /\ add_task(FreshTask)
      BY <2>2 DEF AddChunk, FreshTask, FreshTasks
    <3>2. QED
      BY <3>1 DEF Next
  <2>3. CASE ReadNodes(s) \/ Assign(s)
    BY <2>3 DEF ReadNodes, Assign, Next
  <2>4. CASE Begin(s) \/ Partition(s) \/ LockActive(s) \/ PollPending(s) \/ PollActive(s)
             \/ CheckWait(s) \/ TimeOut(s) \/ Collect(s) \/ MonitorStep(s)
    <3>1. UNCHANGED vars
      BY <2>4 DEF Begin, Partition, LockActive, PollPending, PollActive, CheckWait,
                  TimeOut, Collect, MonitorStep, MonitorTick, MonitorLock, MonitorScan
    <3>2. QED
      BY <3>1
  <2>5. QED
    BY <1>3, <2>1, <2>2, <2>3, <2>4 DEF SuiteStep
<1>4. ASSUME NEW a \in Agents, Report(a) \/ Submit(a) PROVE [Next]_vars
  BY <1>4 DEF Report, Submit
<1>5. ASSUME NEW p \in Callers, CallStep(p) PROVE [Next]_vars
  <2>1. call[p] \in Calls
    BY DEF CallerTypes
  <2>2. CASE FailLockPending(p)
    BY <2>2 DEF FailLockPending
  <2>3. CASE Add(p) \/ Complete(p) \/ Fail(p)
    <3>1. call[p].task \in Tasks
      BY <2>1, <2>3 DEF Add, Complete, Fail, Calls, NoCall
    <3>2. \/ add_task(call[p].task)
          \/ handle_task_completion(call[p].task)
          \/ handle_task_failure(call[p].task)
      BY <2>3 DEF Add, Complete, Fail
    <3>3. QED
      BY <3>1, <3>2 DEF Next
  <2>4. QED
    BY <1>5, <2>2, <2>3 DEF CallStep
<1>6. QED
  BY <1>1, <1>2, <1>3, <1>4, <1>5 DEF ExecNext

-----------------------------------------------------------------------------
(***************************************************************************)
(* Types                                                                   *)
(***************************************************************************)
\* The available nodes can be counted.
LEMMA AvailableNodesFinite ==
    ASSUME TypeOK
    PROVE  IsFiniteSet(get_available_nodes)
<1> DEFINE S == get_available_nodes
           id == [v \in S |-> v.node_id]
<1>1. id \in Injection(S, Nodes)
  <2>1. id \in [S -> Nodes]
    BY DEF get_available_nodes, NodeView
  <2>2. ASSUME NEW v \in S, NEW w \in S, id[v] = id[w] PROVE v = w
    BY <2>2 DEF get_available_nodes, NodeView
  <2>3. QED
    BY <2>1, <2>2 DEF Injection, IsInjective
<1>2. QED
  BY <1>1, NodesAssumption, FS_Injection

\* The test cases are cut into a natural number of chunks.
LEMMA ChunksAreCounted ==
    ASSUME NEW n \in Nat, NEW k \in Nat \ {0}
    PROVE  chunk_count(n, k) \in Nat
<1>1. ASSUME NEW x \in Nat, NEW y \in Nat \ {0} PROVE x \div y \in Nat
  BY <1>1
<1>2. QED
  BY <1>1 DEF chunk_count

\* The program counters and what the suites keep stay in their types.
LEMMA SuiteTypesStep ==
    ASSUME TypeOK, SuiteTypes, OwnTasksKept, ExecNext
    PROVE  SuiteTypes'
<1>1. CASE UNCHANGED suiteVars
  BY <1>1 DEF suiteVars, SuiteTypes
<1>2. ASSUME NEW s \in Distributors, Begin(s) \/ SuiteStep(s) PROVE SuiteTypes'
  <2>1. CASE Begin(s)
    BY <2>1 DEF Begin, SuiteTypes, Places
  <2>2. CASE RegisterMockNode(s)
    BY <2>2 DEF RegisterMockNode, SuiteTypes, Places
  <2>3. CASE Partition(s)
    <3>1. CASE get_available_nodes = {}
      BY <2>3, <3>1 DEF Partition, SuiteTypes, Places, Returned
    <3>2. CASE get_available_nodes # {}
      <4> DEFINE k == Cardinality(get_available_nodes)
      <4>1. k \in Nat \ {0}
        BY <3>2, AvailableNodesFinite, FS_CardinalityType, FS_EmptySet
      <4>2. PICK n \in 0..MaxTests :
                /\ pc' = [pc EXCEPT ![s] = IF chunk_count(n, k) = 0 THEN "distribute"
                                           ELSE "add"]
                /\ to_add' = [to_add EXCEPT ![s] = chunk_count(n, k)]
                /\ UNCHANGED <<to_register, task_ids, reported>>
        BY <2>3, <3>2 DEF Partition
      <4>3. chunk_count(n, k) \in Nat
        BY <4>1, ChunksAreCounted, MaxTestsAssumption
      <4>4. QED
        BY <4>2, <4>3 DEF SuiteTypes, Places
    <3>3. QED
      BY <3>1, <3>2
  <2>4. CASE AddChunk(s)
    <3>1. FreshTask \in Tasks
      BY <2>4 DEF AddChunk, FreshTask, FreshTasks
    <3>2. to_add[s] - 1 \in Nat
      BY <2>4 DEF AddChunk, OwnTasksKept, SuiteTypes
    <3>3. QED
      BY <2>4, <3>1, <3>2 DEF AddChunk, SuiteTypes, Places
  <2>5. CASE ReadNodes(s)
    BY <2>5 DEF ReadNodes, SuiteTypes, Places
  <2>6. CASE LockActive(s) \/ Assign(s) \/ PollPending(s) \/ PollActive(s)
    BY <2>6 DEF LockActive, Assign, PollPending, PollActive, SuiteTypes, Places
  <2>7. CASE CheckWait(s) \/ TimeOut(s)
    BY <2>7 DEF CheckWait, TimeOut, SuiteTypes, Places, Returned
  <2>8. CASE Collect(s)
    BY <2>8 DEF Collect, SuiteTypes, Places, Returned
  <2>9. QED
    BY <1>2, <2>1, <2>2, <2>3, <2>4, <2>5, <2>6, <2>7, <2>8 DEF SuiteStep
<1>3. ASSUME NEW s \in Distributors, MonitorStep(s) PROVE UNCHANGED suiteVars
  BY <1>3 DEF MonitorStep, MonitorTick, MonitorLock, MonitorScan
<1>4. ASSUME NEW a \in Agents, Report(a) \/ Submit(a) PROVE UNCHANGED suiteVars
  BY <1>4 DEF Report, Submit
<1>5. ASSUME NEW p \in Callers, CallStep(p) PROVE UNCHANGED suiteVars
  BY <1>5 DEF CallStep, Add, Complete, FailLockPending, Fail
<1>6. CASE NodeEvent
  BY <1>1, <1>6 DEF NodeEvent
<1>7. QED
  BY <1>1, <1>2, <1>3, <1>4, <1>5, <1>6 DEF ExecNext

\* The monitors and the calls stay in their types.
LEMMA CallerTypesStep ==
    ASSUME TypeOK, CallerTypes, ExecNext
    PROVE  CallerTypes'
<1>1. CASE UNCHANGED <<monitorVars, call>>
  BY <1>1 DEF monitorVars, CallerTypes
<1>2. ASSUME NEW s \in Distributors, Begin(s) \/ SuiteStep(s) PROVE CallerTypes'
  <2>1. CASE Begin(s)
    BY <2>1 DEF Begin, CallerTypes
  <2>2. CASE SuiteStep(s)
    <3>1. UNCHANGED <<monitorVars, call>>
      BY <2>2 DEF SuiteStep, RegisterMockNode, Partition, AddChunk, ReadNodes, LockActive,
                  Assign, PollPending, PollActive, CheckWait, TimeOut, Collect
    <3>2. QED
      BY <1>1, <3>1
  <2>3. QED
    BY <1>2, <2>1, <2>2
<1>3. ASSUME NEW s \in Distributors, MonitorStep(s) PROVE CallerTypes'
  <2>1. CASE MonitorTick(s)
    BY <2>1 DEF MonitorTick, CallerTypes, get_available_nodes, NodeView
  <2>2. CASE MonitorLock(s)
    BY <2>2 DEF MonitorLock, CallerTypes
  <2>3. CASE MonitorScan(s)
    <3>1. CASE UNCHANGED <<failed_nodes, call>>
      BY <2>3, <3>1 DEF MonitorScan, CallerTypes
    <3>2. CASE ~ UNCHANGED <<failed_nodes, call>>
      <4>1. PICK t \in Tasks :
                /\ Orphan(s, t)
                /\ failed_nodes' = failed_nodes \cup {active_tasks[t]}
                /\ call' = [call EXCEPT ![Monitor(s)] = [op |-> "failure", task |-> t]]
                /\ UNCHANGED <<monitor, seen>>
        BY <2>3, <3>2 DEF MonitorScan
      <4>2. active_tasks[t] \in Nodes
        BY <4>1 DEF Orphan, Active, TypeOK
      <4>3. QED
        BY <4>1, <4>2 DEF CallerTypes, Calls
    <3>3. QED
      BY <3>1, <3>2
  <2>4. QED
    BY <1>3, <2>1, <2>2, <2>3 DEF MonitorStep
<1>4. ASSUME NEW a \in Agents, Report(a) \/ Submit(a) PROVE CallerTypes'
  <2>1. PICK t \in Tasks, op \in {"completion", "failure", "add"} :
            /\ call' = [call EXCEPT ![Agent(a)] = [op |-> op, task |-> t]]
            /\ UNCHANGED monitorVars
    BY <1>4, AgentTasksAssumption DEF Report, Submit
  <2>2. QED
    BY <2>1 DEF CallerTypes, Calls, monitorVars
<1>5. ASSUME NEW p \in Callers, CallStep(p) PROVE CallerTypes'
  <2>1. CASE Add(p) \/ Complete(p) \/ Fail(p)
    BY <2>1 DEF Add, Complete, Fail, CallerTypes, Calls, monitorVars
  <2>2. CASE FailLockPending(p)
    BY <2>2 DEF FailLockPending, CallerTypes, Calls, NoCall, monitorVars
  <2>3. QED
    BY <1>5, <2>1, <2>2 DEF CallStep
<1>6. CASE NodeEvent
  BY <1>1, <1>6 DEF NodeEvent
<1>7. QED
  BY <1>2, <1>3, <1>4, <1>5, <1>6 DEF ExecNext

-----------------------------------------------------------------------------
(***************************************************************************)
(* Results                                                                 *)
(***************************************************************************)
\* Identifiers stay issued.
LEMMA IssuedKept ==
    ASSUME [Next]_vars
    PROVE  issued \subseteq issued'
BY DEF Next, NodeStep, register_node, deregister_node, update_heartbeat, cleanup,
       poolState, add_task, handle_task_completion, handle_task_failure,
       distribute_read, distribute_assign, vars

\* When all_tasks_completed holds, every issued task has an outcome.
LEMMA AllCompleted ==
    ASSUME EachTaskInOnePlace, all_tasks_completed
    PROVE  \A t \in Tasks \cap issued : completed[t] # "none"
BY EmptyQueue DEF EachTaskInOnePlace, all_tasks_completed

\* What a suite added is covered by what it reports.
LEMMA OwnTasksStep ==
    ASSUME IInv, SuiteTypes, CallerTypes, OwnTasksKept, ExecNext
    PROVE  OwnTasksKept'
<1>1. issued \subseteq issued'
  BY StepOfDistributor, IssuedKept
<1>2. \A t \in Tasks : completed[t] # "none" => completed'[t] # "none"
  BY StepOfDistributor, OutcomeKept
<1>3. CASE UNCHANGED suiteVars
  BY <1>1, <1>2, <1>3 DEF suiteVars, OwnTasksKept, SuiteTypes
<1>4. ASSUME NEW s \in Distributors, Begin(s) \/ SuiteStep(s) PROVE OwnTasksKept'
  <2> DEFINE Kept(r) == /\ task_ids'[r] \subseteq issued'
                        /\ pc'[r] = "add" => to_add'[r] > 0
                        /\ pc'[r] = "collect" =>
                               \A t \in task_ids'[r] : completed'[t] # "none"
                        /\ pc'[r] = "ok" => task_ids'[r] \subseteq reported'[r]
  <2>1. \A r \in Distributors : /\ pc[r] \in Places
                                /\ task_ids[r] \subseteq Tasks
                                /\ to_add[r] \in Nat
    BY DEF SuiteTypes
  <2>2. ASSUME NEW r \in Distributors, r # s PROVE Kept(r)
    <3>1. /\ pc'[r] = pc[r] /\ to_add'[r] = to_add[r]
          /\ task_ids'[r] = task_ids[r] /\ reported'[r] = reported[r]
      BY <1>4, <2>2 DEF Begin, SuiteStep, RegisterMockNode, Partition, AddChunk, ReadNodes,
         LockActive, Assign, PollPending, PollActive, CheckWait, TimeOut, Collect,
         SuiteTypes
    <3>2. QED
      BY <1>1, <1>2, <2>1, <3>1 DEF OwnTasksKept
  <2>3. Kept(s)
    <3>1. CASE Begin(s) \/ RegisterMockNode(s) \/ ReadNodes(s) \/ LockActive(s) \/ Assign(s)
               \/ PollPending(s) \/ CheckWait(s) \/ TimeOut(s)
      <4>1. /\ pc'[s] \notin {"add", "collect", "ok"}
            /\ task_ids' = task_ids
        BY <3>1 DEF Begin, RegisterMockNode, ReadNodes, LockActive, Assign, PollPending,
                    CheckWait, TimeOut, SuiteTypes
      <4>2. QED
        BY <1>1, <4>1 DEF OwnTasksKept
    <3>2. CASE Partition(s)
      <4>1. /\ pc'[s] \notin {"collect", "ok"}
            /\ task_ids' = task_ids
            /\ pc'[s] = "add" => to_add'[s] # 0
        BY <3>2 DEF Partition, SuiteTypes
      <4>2. to_add'[s] \in Nat
        BY SuiteTypesStep DEF IInv, SuiteTypes
      <4>3. QED
        BY <1>1, <4>1, <4>2 DEF OwnTasksKept
    <3>3. CASE AddChunk(s)
      <4>1. /\ task_ids'[s] = task_ids[s] \cup {FreshTask}
            /\ issued' = issued \cup {FreshTask}
            /\ to_add'[s] = to_add[s] - 1
            /\ pc'[s] = IF to_add[s] > 1 THEN "add" ELSE "distribute"
        BY <3>3 DEF AddChunk, add_task, SuiteTypes
      <4>2. QED
        BY <2>1, <4>1 DEF OwnTasksKept
    <3>4. CASE PollActive(s)
      <4>1. /\ pc'[s] = IF all_tasks_completed THEN "collect" ELSE "check_wait"
            /\ task_ids' = task_ids /\ completed' = completed /\ issued' = issued
        BY <3>4 DEF PollActive, SuiteTypes, vars
      <4>2. all_tasks_completed => \A t \in task_ids[s] : completed[t] # "none"
        BY <2>1, AllCompleted DEF IInv, OwnTasksKept
      <4>3. QED
        BY <4>1, <4>2 DEF OwnTasksKept
    <3>5. CASE Collect(s)
      <4>1. /\ pc[s] = "collect" /\ pc'[s] = "ok"
            /\ task_ids' = task_ids /\ issued' = issued
            /\ reported'[s] = {t \in Tasks : completed[t] # "none"}
        BY <3>5 DEF Collect, SuiteTypes, vars
      <4>2. QED
        BY <2>1, <4>1 DEF OwnTasksKept
    <3>6. QED
      BY <1>4, <3>1, <3>2, <3>3, <3>4, <3>5 DEF SuiteStep
  <2>4. QED
    BY <2>2, <2>3 DEF OwnTasksKept
<1>5. ASSUME NEW s \in Distributors, MonitorStep(s) PROVE UNCHANGED suiteVars
  BY <1>5 DEF MonitorStep, MonitorTick, MonitorLock, MonitorScan
<1>6. ASSUME NEW a \in Agents, Report(a) \/ Submit(a) PROVE UNCHANGED suiteVars
  BY <1>6 DEF Report, Submit
<1>7. ASSUME NEW p \in Callers, CallStep(p) PROVE UNCHANGED suiteVars
  BY <1>7 DEF CallStep, Add, Complete, FailLockPending, Fail
<1>8. CASE NodeEvent
  BY <1>3, <1>8 DEF NodeEvent
<1>9. QED
  BY <1>3, <1>4, <1>5, <1>6, <1>7, <1>8 DEF ExecNext

-----------------------------------------------------------------------------
(***************************************************************************)
(* Locks                                                                   *)
(***************************************************************************)
\* Only process p has changed its requests for the lock.
OnlyOf(p, lock) ==
    /\ requests'[lock] \in Seq(Requests)
    /\ NoRepeat(requests'[lock])
    /\ \A q : q # p =>
           \A r \in {Read(q), Write(q)} :
               /\ Holds(requests'[lock], r) <=> Holds(requests[lock], r)
               /\ First(requests[lock], r) => First(requests'[lock], r)

\* A step asks for a lock, or leaves its queue alone.
LEMMA Asks ==
    ASSUME NEW lock \in Locks, NEW p \in Processes, NEW r \in {Read(p), Write(p)},
           QueuesOK, ~Holds(requests[lock], r),
           requests'[lock] = Append(requests[lock], r)
    PROVE  /\ OnlyOf(p, lock)
           /\ \A x : Holds(requests'[lock], x) <=> Holds(requests[lock], x) \/ x = r
           /\ \A x : First(requests[lock], x) => First(requests'[lock], x)
<1>1. requests[lock] \in Seq(Requests) /\ NoRepeat(requests[lock]) /\ r \in Requests
  BY RequestTypes DEF QueuesOK
<1>2. /\ requests'[lock] \in Seq(Requests)
      /\ NoRepeat(requests'[lock])
      /\ \A x : Holds(requests'[lock], x) <=> Holds(requests[lock], x) \/ x = r
      /\ \A x : First(requests[lock], x) => First(requests'[lock], x)
  BY <1>1, Enqueue
<1>3. QED
  BY <1>2, ProcessesDiffer DEF OnlyOf

\* A request that is released leaves its queue, and nobody else's place in it gets worse.
LEMMA Leaves ==
    ASSUME NEW lock \in Locks, NEW p, QueuesOK, requests'[lock] = requests[lock]
    PROVE  /\ OnlyOf(p, lock)
           /\ \A x : Holds(requests'[lock], x) <=> Holds(requests[lock], x)
           /\ \A x : First(requests[lock], x) => First(requests'[lock], x)
BY DEF OnlyOf, QueuesOK

\* A step gives a lock up.
LEMMA Releases ==
    ASSUME NEW lock \in Locks, NEW p, NEW r \in {Read(p), Write(p)},
           QueuesOK, Holds(requests[lock], r),
           requests'[lock] = Release(requests[lock], r)
    PROVE  /\ OnlyOf(p, lock)
           /\ \A x : Holds(requests'[lock], x) <=> Holds(requests[lock], x) /\ x # r
<1>1. requests[lock] \in Seq(Requests) /\ NoRepeat(requests[lock])
  BY DEF QueuesOK
<1>2. /\ requests'[lock] \in Seq(Requests)
      /\ NoRepeat(requests'[lock])
      /\ \A x : Holds(requests'[lock], x) <=> Holds(requests[lock], x) /\ x # r
      /\ \A x : First(requests[lock], x) /\ x # r => First(requests'[lock], x)
  BY <1>1, Dequeue
<1>3. QED
  BY <1>2, ProcessesDiffer DEF OnlyOf

\* A step gives a lock up and asks for it again.
LEMMA AsksAgain ==
    ASSUME NEW lock \in Locks, NEW p \in Processes, NEW r \in {Read(p), Write(p)},
           QueuesOK, Holds(requests[lock], r),
           requests'[lock] = Append(Release(requests[lock], r), r)
    PROVE  /\ OnlyOf(p, lock)
           /\ \A x : Holds(requests'[lock], x) <=> Holds(requests[lock], x)
<1> DEFINE between == Release(requests[lock], r)
<1>1. requests[lock] \in Seq(Requests) /\ NoRepeat(requests[lock]) /\ r \in Requests
  BY RequestTypes DEF QueuesOK
<1>2. /\ between \in Seq(Requests)
      /\ NoRepeat(between)
      /\ \A x : Holds(between, x) <=> Holds(requests[lock], x) /\ x # r
      /\ \A x : First(requests[lock], x) /\ x # r => First(between, x)
  BY <1>1, Dequeue
<1> HIDE DEF between
<1>3. /\ Append(between, r) \in Seq(Requests)
      /\ NoRepeat(Append(between, r))
      /\ \A x : Holds(Append(between, r), x) <=> Holds(between, x) \/ x = r
      /\ \A x : First(between, x) => First(Append(between, r), x)
  BY <1>1, <1>2, Enqueue
<1>4. requests'[lock] = Append(between, r)
  BY DEF between
<1>5. QED
  BY <1>2, <1>3, <1>4, ProcessesDiffer DEF OnlyOf

\* A step that changes requests of one process only keeps what the invariant says of
\* the others.
LEMMA OthersKeep ==
    ASSUME LocksOK, NEW p, \A lock \in Locks : OnlyOf(p, lock)
    PROVE  /\ \A s \in Distributors :
                  Suite(s) # p /\ pc'[s] = pc[s] => SuiteAsks(s)'
           /\ \A q \in Callers : q # p /\ call'[q] = call[q] => CallerAsks(q)'
           /\ \A s \in Distributors :
                  /\ Monitor(s) # p
                  /\ monitor'[s] = monitor[s]
                  /\ call'[Monitor(s)] = call[Monitor(s)]
                  => MonitorAsks(s)'
           /\ \A a \in Agents : Agent(a) # p => AgentAsks(a)'
<1>1. \A lock \in Locks : \A q : q # p =>
          /\ Holds(requests'[lock], Read(q)) <=> Holds(requests[lock], Read(q))
          /\ Holds(requests'[lock], Write(q)) <=> Holds(requests[lock], Write(q))
          /\ First(requests[lock], Write(q)) => First(requests'[lock], Write(q))
  BY DEF OnlyOf
<1>2. "pending" \in Locks /\ "active" \in Locks /\ "failed" \in Locks
  BY DEF Locks
<1>3. ASSUME NEW s \in Distributors, Suite(s) # p, pc'[s] = pc[s] PROVE SuiteAsks(s)'
  BY <1>1, <1>2, <1>3 DEF LocksOK, SuiteAsks
<1>4. ASSUME NEW q \in Callers, q # p, call'[q] = call[q] PROVE CallerAsks(q)'
  BY <1>1, <1>2, <1>4 DEF LocksOK, CallerAsks
<1>5. ASSUME NEW s \in Distributors, Monitor(s) # p, monitor'[s] = monitor[s],
             call'[Monitor(s)] = call[Monitor(s)]
      PROVE  MonitorAsks(s)'
  BY <1>1, <1>2, <1>5 DEF LocksOK, MonitorAsks
<1>6. ASSUME NEW a \in Agents, Agent(a) # p PROVE AgentAsks(a)'
  BY <1>1, <1>2, <1>6 DEF LocksOK, AgentAsks
<1>7. QED
  BY <1>3, <1>4, <1>5, <1>6

\* A step of a suite keeps the invariant if it keeps what that says of the suite.
LEMMA SuiteMoves ==
    ASSUME LocksOK, SuiteTypes, NEW s \in Distributors, UNCHANGED <<monitor, call>>,
           \A t \in Distributors : t # s => pc'[t] = pc[t],
           requests' \in [Locks -> Seq(Requests)],
           \A lock \in Locks : OnlyOf(Suite(s), lock),
           SuiteAsks(s)'
    PROVE  LocksOK'
<1>1. QueuesOK'
  BY DEF QueuesOK, OnlyOf
<1>2. /\ \A t \in Distributors : t # s => Suite(t) # Suite(s)
      /\ \A q \in Callers : q # Suite(s)
      /\ \A t \in Distributors : Monitor(t) # Suite(s)
      /\ \A a \in Agents : Agent(a) # Suite(s)
      /\ \A q : monitor'[q] = monitor[q] /\ call'[q] = call[q]
  BY ProcessesDiffer, RequestTypes
<1>3. /\ \A t \in Distributors :
            Suite(t) # Suite(s) /\ pc'[t] = pc[t] => SuiteAsks(t)'
      /\ \A q \in Callers : q # Suite(s) /\ call'[q] = call[q] => CallerAsks(q)'
      /\ \A t \in Distributors :
            /\ Monitor(t) # Suite(s)
            /\ monitor'[t] = monitor[t]
            /\ call'[Monitor(t)] = call[Monitor(t)]
            => MonitorAsks(t)'
      /\ \A a \in Agents : Agent(a) # Suite(s) => AgentAsks(a)'
  BY OthersKeep
<1>4. /\ \A t \in Distributors : SuiteAsks(t)' /\ MonitorAsks(t)'
      /\ \A q \in Callers : CallerAsks(q)'
      /\ \A a \in Agents : AgentAsks(a)'
  BY <1>2, <1>3
<1>5. QED
  BY <1>1, <1>4 DEF LocksOK

\* The same for a caller of the distributor.
LEMMA CallerMoves ==
    ASSUME LocksOK, NEW p \in Callers, UNCHANGED pc,
           \A q \in Callers : q # p => call'[q] = call[q],
           \A s \in Distributors : p # Monitor(s) => monitor'[s] = monitor[s],
           requests' \in [Locks -> Seq(Requests)],
           \A lock \in Locks : OnlyOf(p, lock),
           CallerAsks(p)',
           \A s \in Distributors : p = Monitor(s) => MonitorAsks(s)',
           \A a \in Agents : p = Agent(a) => AgentAsks(a)'
    PROVE  LocksOK'
<1>1. QueuesOK'
  BY DEF QueuesOK, OnlyOf
<1>2. \A t \in Distributors : SuiteAsks(t)'
  <2>1. \A t \in Distributors : Suite(t) # p /\ pc'[t] = pc[t]
    BY ProcessesDiffer
  <2>2. \A t \in Distributors : Suite(t) # p /\ pc'[t] = pc[t] => SuiteAsks(t)'
    BY OthersKeep
  <2>3. QED
    BY <2>1, <2>2
<1>3. \A t \in Distributors : MonitorAsks(t)'
  BY OthersKeep, RequestTypes
<1>4. /\ \A q \in Callers : CallerAsks(q)'
      /\ \A a \in Agents : AgentAsks(a)'
  BY OthersKeep
<1>5. QED
  BY <1>1, <1>2, <1>3, <1>4 DEF LocksOK

\* A step that touches no lock keeps the requests in order.
LEMMA NoLockStep ==
    ASSUME LocksOK, SuiteTypes, NEW s \in Distributors,
           UNCHANGED <<requests, monitor, call>>,
           \A t \in Distributors : t # s => pc'[t] = pc[t],
           pc[s] \notin PendingSteps, pc'[s] \notin PendingSteps
    PROVE  LocksOK'
<1>1. \A lock \in Locks : OnlyOf(Suite(s), lock)
  BY Leaves DEF LocksOK
<1>2. requests' \in [Locks -> Seq(Requests)]
  BY DEF LocksOK, QueuesOK
<1>3. SuiteAsks(s)'
  BY DEF LocksOK, SuiteAsks, PendingSteps
<1>4. QED
  BY <1>1, <1>2, <1>3, SuiteMoves

\* Begin spawns the monitor, which has asked for nothing yet.
LEMMA BeginLocks ==
    ASSUME LocksOK, SuiteTypes, CallerTypes, MonitorsWait,
           NEW s \in Distributors, Begin(s)
    PROVE  LocksOK'
<1>1. /\ UNCHANGED <<requests, call>>
      /\ pc[s] = "idle" /\ pc'[s] = "register"
      /\ monitor[s] = "off" /\ monitor'[s] = "tick"
      /\ \A t \in Distributors : t # s => pc'[t] = pc[t] /\ monitor'[t] = monitor[t]
  BY DEF Begin, SuiteTypes, CallerTypes, MonitorsWait
<1>2. \A t \in Distributors : SuiteAsks(t)'
  BY <1>1 DEF LocksOK, SuiteAsks, PendingSteps
<1>3. \A t \in Distributors : MonitorAsks(t)'
  BY <1>1 DEF LocksOK, MonitorAsks
<1>4. /\ \A p \in Callers : CallerAsks(p)'
      /\ \A a \in Agents : AgentAsks(a)'
      /\ QueuesOK'
  BY <1>1 DEF LocksOK, CallerAsks, AgentAsks, QueuesOK
<1>5. QED
  BY <1>2, <1>3, <1>4 DEF LocksOK

\* The parts of the invariant that the steps of suite s use.
LEMMA SuiteFacts ==
    ASSUME LocksOK, NEW s \in Distributors
    PROVE  /\ QueuesOK /\ SuiteAsks(s)
           /\ requests \in [Locks -> Seq(Requests)]
           /\ "pending" \in Locks /\ "active" \in Locks /\ "failed" \in Locks
           /\ Suite(s) \in Processes
           /\ \A p, q : Write(p) # Read(q)
BY RequestTypes, ProcessesDiffer DEF LocksOK, QueuesOK, Locks

\* Asking for the queue of pending tasks, for the first time or after a round.
LEMMA AskPending ==
    ASSUME LocksOK, SuiteTypes, NEW s \in Distributors, UNCHANGED <<monitor, call>>,
           \A t \in Distributors : t # s => pc'[t] = pc[t],
           pc[s] \notin PendingSteps, pc'[s] \in {"add", "lock_pending", "poll_pending"},
           requests' = [requests EXCEPT !["pending"] = Append(@, Write(Suite(s)))]
    PROVE  LocksOK'
<1> DEFINE w == Write(Suite(s))
<1>1. /\ QueuesOK /\ SuiteAsks(s)
      /\ requests \in [Locks -> Seq(Requests)]
      /\ "pending" \in Locks /\ "active" \in Locks /\ "failed" \in Locks
      /\ Suite(s) \in Processes
      /\ \A p, q : Write(p) # Read(q)
  BY SuiteFacts
<1>2. /\ requests'["pending"] = Append(requests["pending"], w)
      /\ requests'["active"] = requests["active"]
      /\ requests'["failed"] = requests["failed"]
      /\ ~Holds(requests["pending"], w)
  BY <1>1 DEF SuiteAsks
<1>3. /\ OnlyOf(Suite(s), "pending")
      /\ \A x : Holds(requests'["pending"], x) <=> Holds(requests["pending"], x) \/ x = w
  BY <1>1, <1>2, Asks
<1>4. OnlyOf(Suite(s), "active") /\ OnlyOf(Suite(s), "failed")
  BY <1>1, <1>2, Leaves
<1>5. /\ requests' \in [Locks -> Seq(Requests)]
      /\ \A lock \in Locks : OnlyOf(Suite(s), lock)
  BY <1>1, <1>3, <1>4 DEF OnlyOf, Locks
<1>6. SuiteAsks(s)'
  BY <1>1, <1>2, <1>3 DEF SuiteAsks, PendingSteps
<1>7. QED
  BY <1>5, <1>6, SuiteMoves

\* Asking for the active map while the queue is held.
LEMMA AskActive ==
    ASSUME LocksOK, SuiteTypes, NEW s \in Distributors, UNCHANGED <<monitor, call>>,
           \A t \in Distributors : t # s => pc'[t] = pc[t],
           NEW r \in {Read(Suite(s)), Write(Suite(s))},
           pc[s] \in {"lock_pending", "poll_pending"},
           pc'[s] = IF r = Write(Suite(s)) THEN "lock_active" ELSE "poll_active",
           Granted("pending", Write(Suite(s))),
           requests' = [requests EXCEPT !["active"] = Append(@, r)]
    PROVE  LocksOK'
<1>1. /\ QueuesOK /\ SuiteAsks(s)
      /\ requests \in [Locks -> Seq(Requests)]
      /\ "pending" \in Locks /\ "active" \in Locks /\ "failed" \in Locks
      /\ Suite(s) \in Processes
      /\ \A p, q : Write(p) # Read(q)
  BY SuiteFacts
<1>2. First(requests["pending"], Write(Suite(s)))
  BY <1>1, GrantedWriteIsFirst
<1>3. /\ requests'["active"] = Append(requests["active"], r)
      /\ requests'["pending"] = requests["pending"]
      /\ requests'["failed"] = requests["failed"]
      /\ ~Holds(requests["active"], r)
  BY <1>1 DEF SuiteAsks
<1>4. /\ OnlyOf(Suite(s), "active")
      /\ \A x : Holds(requests'["active"], x) <=> Holds(requests["active"], x) \/ x = r
  BY <1>1, <1>3, Asks
<1>5. OnlyOf(Suite(s), "pending") /\ OnlyOf(Suite(s), "failed")
  BY <1>1, <1>3, Leaves
<1>6. /\ requests' \in [Locks -> Seq(Requests)]
      /\ \A lock \in Locks : OnlyOf(Suite(s), lock)
  BY <1>1, <1>4, <1>5 DEF OnlyOf, Locks
<1>7. SuiteAsks(s)'
  BY <1>1, <1>2, <1>3, <1>4 DEF SuiteAsks, PendingSteps
<1>8. QED
  BY <1>6, <1>7, SuiteMoves

\* add_task gives the queue up; the next one of the loop asks for it again.
LEMMA AddChunkLocks ==
    ASSUME LocksOK, SuiteTypes, NEW s \in Distributors, AddChunk(s)
    PROVE  LocksOK'
<1> DEFINE w == Write(Suite(s))
<1>1. /\ QueuesOK /\ SuiteAsks(s)
      /\ requests \in [Locks -> Seq(Requests)]
      /\ "pending" \in Locks /\ "active" \in Locks /\ "failed" \in Locks
      /\ Suite(s) \in Processes
      /\ \A p, q : Write(p) # Read(q)
  BY SuiteFacts
<1>2. /\ UNCHANGED <<monitor, call>>
      /\ \A t \in Distributors : t # s => pc'[t] = pc[t]
      /\ requests'["active"] = requests["active"]
      /\ requests'["failed"] = requests["failed"]
      /\ pc[s] = "add" /\ Holds(requests["pending"], w)
  BY <1>1 DEF AddChunk, SuiteTypes, monitorVars, SuiteAsks, PendingSteps
<1>3. OnlyOf(Suite(s), "active") /\ OnlyOf(Suite(s), "failed")
  BY <1>1, <1>2, Leaves
<1>4. CASE to_add[s] > 1
  <2>1. /\ requests' = [requests EXCEPT !["pending"] = Append(Release(@, w), w)]
        /\ requests'["pending"] = Append(Release(requests["pending"], w), w)
        /\ pc' = pc
    BY <1>1, <1>4 DEF AddChunk
  <2>2. /\ OnlyOf(Suite(s), "pending")
        /\ \A x : Holds(requests'["pending"], x) <=> Holds(requests["pending"], x)
    BY <1>1, <1>2, <2>1, AsksAgain
  <2>3. /\ requests' \in [Locks -> Seq(Requests)]
        /\ \A lock \in Locks : OnlyOf(Suite(s), lock)
    BY <1>1, <1>3, <2>1, <2>2 DEF OnlyOf, Locks
  <2>4. SuiteAsks(s)'
    BY <1>1, <1>2, <2>1, <2>2 DEF SuiteAsks
  <2>5. QED
    BY <1>2, <2>3, <2>4, SuiteMoves
<1>5. CASE ~(to_add[s] > 1)
  <2>1. /\ requests' = [requests EXCEPT !["pending"] = Release(@, w)]
        /\ requests'["pending"] = Release(requests["pending"], w)
        /\ pc'[s] = "distribute"
    BY <1>1, <1>5 DEF AddChunk, SuiteTypes
  <2>2. /\ OnlyOf(Suite(s), "pending")
        /\ \A x : Holds(requests'["pending"], x) <=> Holds(requests["pending"], x) /\ x # w
    BY <1>1, <1>2, <2>1, Releases
  <2>3. /\ requests' \in [Locks -> Seq(Requests)]
        /\ \A lock \in Locks : OnlyOf(Suite(s), lock)
    BY <1>1, <1>3, <2>1, <2>2 DEF OnlyOf, Locks
  <2>4. SuiteAsks(s)'
    BY <1>1, <1>2, <2>1, <2>2 DEF SuiteAsks, PendingSteps
  <2>5. QED
    BY <1>2, <2>3, <2>4, SuiteMoves
<1>6. QED
  BY <1>4, <1>5

\* The end of distribute_tasks gives both locks up and all_tasks_completed asks for
\* the queue.
LEMMA AssignLocks ==
    ASSUME LocksOK, SuiteTypes, NEW s \in Distributors, Assign(s)
    PROVE  LocksOK'
<1> DEFINE w == Write(Suite(s))
<1>1. /\ QueuesOK /\ SuiteAsks(s)
      /\ requests \in [Locks -> Seq(Requests)]
      /\ "pending" \in Locks /\ "active" \in Locks /\ "failed" \in Locks
      /\ Suite(s) \in Processes
      /\ \A p, q : Write(p) # Read(q)
  BY SuiteFacts
<1>2. /\ UNCHANGED <<monitor, call>>
      /\ \A t \in Distributors : t # s => pc'[t] = pc[t]
      /\ requests' = [requests EXCEPT !["pending"] = Append(Release(@, w), w),
                                      !["active"] = Release(@, w)]
      /\ requests'["pending"] = Append(Release(requests["pending"], w), w)
      /\ requests'["active"] = Release(requests["active"], w)
      /\ requests'["failed"] = requests["failed"]
      /\ pc[s] = "lock_active" /\ pc'[s] = "poll_pending"
  BY <1>1 DEF Assign, SuiteTypes, monitorVars
<1>3. Holds(requests["pending"], w) /\ Holds(requests["active"], w)
  BY <1>1, <1>2 DEF SuiteAsks, PendingSteps
<1>4. /\ OnlyOf(Suite(s), "pending")
      /\ \A x : Holds(requests'["pending"], x) <=> Holds(requests["pending"], x)
  BY <1>1, <1>2, <1>3, AsksAgain
<1>5. /\ OnlyOf(Suite(s), "active")
      /\ \A x : Holds(requests'["active"], x) <=> Holds(requests["active"], x) /\ x # w
  BY <1>1, <1>2, <1>3, Releases
<1>6. OnlyOf(Suite(s), "failed")
  BY <1>1, <1>2, Leaves
<1>7. /\ requests' \in [Locks -> Seq(Requests)]
      /\ \A lock \in Locks : OnlyOf(Suite(s), lock)
  BY <1>1, <1>2, <1>4, <1>5, <1>6 DEF OnlyOf, Locks
<1>8. SuiteAsks(s)'
  BY <1>1, <1>2, <1>4, <1>5 DEF SuiteAsks, PendingSteps
<1>9. QED
  BY <1>2, <1>7, <1>8, SuiteMoves

\* The end of all_tasks_completed gives both locks up.
LEMMA PollActiveLocks ==
    ASSUME LocksOK, SuiteTypes, NEW s \in Distributors, PollActive(s)
    PROVE  LocksOK'
<1> DEFINE w == Write(Suite(s))
           r == Read(Suite(s))
<1>1. /\ QueuesOK /\ SuiteAsks(s)
      /\ requests \in [Locks -> Seq(Requests)]
      /\ "pending" \in Locks /\ "active" \in Locks /\ "failed" \in Locks
      /\ Suite(s) \in Processes
      /\ \A p, q : Write(p) # Read(q)
  BY SuiteFacts
<1>2. /\ UNCHANGED <<monitor, call>>
      /\ \A t \in Distributors : t # s => pc'[t] = pc[t]
      /\ requests' = [requests EXCEPT !["pending"] = Release(@, w),
                                      !["active"] = Release(@, r)]
      /\ requests'["pending"] = Release(requests["pending"], w)
      /\ requests'["active"] = Release(requests["active"], r)
      /\ requests'["failed"] = requests["failed"]
      /\ pc[s] = "poll_active" /\ pc'[s] \in {"collect", "check_wait"}
  BY <1>1 DEF PollActive, SuiteTypes, monitorVars
<1>3. Holds(requests["pending"], w) /\ Holds(requests["active"], r)
  BY <1>1, <1>2 DEF SuiteAsks, PendingSteps
<1>4. /\ OnlyOf(Suite(s), "pending")
      /\ \A x : Holds(requests'["pending"], x) <=> Holds(requests["pending"], x) /\ x # w
  BY <1>1, <1>2, <1>3, Releases
<1>5. /\ OnlyOf(Suite(s), "active")
      /\ \A x : Holds(requests'["active"], x) <=> Holds(requests["active"], x) /\ x # r
  BY <1>1, <1>2, <1>3, Releases
<1>6. OnlyOf(Suite(s), "failed")
  BY <1>1, <1>2, Leaves
<1>7. /\ requests' \in [Locks -> Seq(Requests)]
      /\ \A lock \in Locks : OnlyOf(Suite(s), lock)
  BY <1>1, <1>2, <1>4, <1>5, <1>6 DEF OnlyOf, Locks
<1>8. SuiteAsks(s)'
  BY <1>1, <1>2, <1>4, <1>5 DEF SuiteAsks, PendingSteps
<1>9. QED
  BY <1>2, <1>7, <1>8, SuiteMoves

\* Every step of execute asks for and gives up the locks its new place calls for.
LEMMA SuiteLocks ==
    ASSUME LocksOK, SuiteTypes, CallerTypes, NEW s \in Distributors, SuiteStep(s)
    PROVE  LocksOK'
<1> DEFINE asking == [requests EXCEPT !["pending"] = Append(@, Write(Suite(s)))]
<1>1. /\ UNCHANGED <<monitor, call>>
      /\ \A t \in Distributors : t # s => pc'[t] = pc[t]
  BY DEF SuiteStep, RegisterMockNode, Partition, AddChunk, ReadNodes, LockActive, Assign,
         PollPending, PollActive, CheckWait, TimeOut, Collect, SuiteTypes, monitorVars
<1>2. CASE RegisterMockNode(s) \/ CheckWait(s) \/ TimeOut(s) \/ Collect(s)
  <2>1. /\ UNCHANGED requests
        /\ pc[s] \notin PendingSteps /\ pc'[s] \notin PendingSteps
    BY <1>2 DEF RegisterMockNode, CheckWait, TimeOut, Collect, SuiteTypes, PendingSteps
  <2>2. QED
    BY <1>1, <2>1, NoLockStep
<1>3. CASE Partition(s)
  <2>1. \/ UNCHANGED requests /\ pc'[s] \in {"no_nodes", "distribute"}
        \/ requests' = asking /\ pc'[s] = "add"
    BY <1>3 DEF Partition, SuiteTypes
  <2>2. pc[s] \notin PendingSteps
    BY <1>3 DEF Partition, PendingSteps
  <2>3. CASE UNCHANGED requests /\ pc'[s] \in {"no_nodes", "distribute"}
    <3>1. pc'[s] \notin PendingSteps
      BY <2>3 DEF PendingSteps
    <3>2. QED
      BY <1>1, <2>2, <2>3, <3>1, NoLockStep
  <2>4. CASE requests' = asking /\ pc'[s] = "add"
    BY <1>1, <2>2, <2>4, AskPending
  <2>5. QED
    BY <2>1, <2>3, <2>4
<1>4. CASE ReadNodes(s)
  <2>1. /\ requests' = asking
        /\ pc[s] \notin PendingSteps /\ pc'[s] \in {"lock_pending", "poll_pending"}
    BY <1>4 DEF ReadNodes, SuiteTypes, PendingSteps
  <2>2. QED
    BY <1>1, <2>1, AskPending
<1>5. CASE LockActive(s)
  <2>1. /\ requests' = [requests EXCEPT !["active"] = Append(@, Write(Suite(s)))]
        /\ pc[s] = "lock_pending" /\ pc'[s] = "lock_active"
        /\ Granted("pending", Write(Suite(s)))
    BY <1>5 DEF LockActive, SuiteTypes
  <2>2. QED
    BY <1>1, <2>1, AskActive
<1>6. CASE PollPending(s)
  <2>1. /\ requests' = [requests EXCEPT !["active"] = Append(@, Read(Suite(s)))]
        /\ pc[s] = "poll_pending" /\ pc'[s] = "poll_active"
        /\ Granted("pending", Write(Suite(s)))
        /\ Read(Suite(s)) # Write(Suite(s))
    BY <1>6, ProcessesDiffer DEF PollPending, SuiteTypes
  <2>2. QED
    BY <1>1, <2>1, AskActive
<1>7. CASE AddChunk(s)
  BY <1>7, AddChunkLocks
<1>8. CASE Assign(s)
  BY <1>8, AssignLocks
<1>9. CASE PollActive(s)
  BY <1>9, PollActiveLocks
<1>10. QED
  BY <1>2, <1>3, <1>4, <1>5, <1>6, <1>7, <1>8, <1>9 DEF SuiteStep

\* The parts of the invariant that the steps of caller p use.
LEMMA CallerFacts ==
    ASSUME LocksOK, CallerTypes, NEW p \in Callers
    PROVE  /\ QueuesOK /\ CallerAsks(p) /\ call[p] \in Calls
           /\ requests \in [Locks -> Seq(Requests)]
           /\ "pending" \in Locks /\ "active" \in Locks /\ "failed" \in Locks
           /\ p \in Processes
           /\ \A x, y : Write(x) # Read(y)
           /\ \A s \in Distributors : p = Monitor(s) => MonitorAsks(s)
           /\ \A a \in Agents : p = Agent(a) => AgentAsks(a)
BY RequestTypes, ProcessesDiffer DEF LocksOK, QueuesOK, Locks, CallerTypes

\* A caller begins a call, or the second half of handle_task_failure.
LEMMA CallAsks ==
    ASSUME LocksOK, CallerTypes, NEW p \in Callers, NEW lock \in {"pending", "active"},
           UNCHANGED <<pc, monitor>>,
           \A q \in Callers : q # p => call'[q] = call[q],
           ~Holds(requests[lock], Write(p)),
           requests' = [requests EXCEPT ![lock] = Append(@, Write(p))],
           call'[p].op \in {"add", "failing"}
               <=> (lock = "pending" \/ call[p].op \in {"add", "failing"}),
           call'[p].op \in {"completion", "failure", "failing"}
               <=> (lock = "active" \/ call[p].op \in {"completion", "failure", "failing"}),
           \A s \in Distributors : p = Monitor(s) => call'[p].op \in {"failure", "failing"}
    PROVE  LocksOK'
<1> DEFINE w == Write(p)
<1>1. /\ QueuesOK /\ CallerAsks(p)
      /\ requests \in [Locks -> Seq(Requests)]
      /\ "pending" \in Locks /\ "active" \in Locks /\ "failed" \in Locks
      /\ p \in Processes
      /\ \A x, y : Write(x) # Read(y)
      /\ \A s \in Distributors : p = Monitor(s) => MonitorAsks(s)
      /\ \A a \in Agents : p = Agent(a) => AgentAsks(a)
  BY CallerFacts
<1>2. /\ lock \in Locks
      /\ requests'[lock] = Append(requests[lock], w)
      /\ \A other \in Locks : other # lock => requests'[other] = requests[other]
  BY <1>1
<1>3. /\ OnlyOf(p, lock)
      /\ \A x : Holds(requests'[lock], x) <=> Holds(requests[lock], x) \/ x = w
      /\ \A x : First(requests[lock], x) => First(requests'[lock], x)
  BY <1>1, <1>2, Asks
<1>4. \A other \in Locks : other # lock => OnlyOf(p, other)
  BY <1>1, <1>2, Leaves
<1>5. /\ requests' \in [Locks -> Seq(Requests)]
      /\ \A other \in Locks : OnlyOf(p, other)
  BY <1>1, <1>2, <1>3, <1>4 DEF OnlyOf
<1>6. CallerAsks(p)'
  BY <1>1, <1>2, <1>3 DEF CallerAsks
<1>7. ASSUME NEW s \in Distributors, p = Monitor(s) PROVE MonitorAsks(s)'
  BY <1>1, <1>2, <1>3, <1>7 DEF MonitorAsks
<1>8. ASSUME NEW a \in Agents, p = Agent(a) PROVE AgentAsks(a)'
  BY <1>1, <1>2, <1>3, <1>8 DEF AgentAsks
<1>9. QED
  BY <1>5, <1>6, <1>7, <1>8, CallerMoves

\* The queue of a lock after p has given up its write request, if it had one.
WithoutWrite(lock, p) ==
    IF Holds(requests[lock], Write(p)) THEN Release(requests[lock], Write(p))
    ELSE requests[lock]

\* A call returns and gives up whatever it had asked for.
LEMMA CallEnds ==
    ASSUME LocksOK, CallerTypes, NEW p \in Callers, UNCHANGED <<pc, monitor>>,
           call' = [call EXCEPT ![p] = NoCall],
           requests' = [requests EXCEPT !["pending"] = WithoutWrite("pending", p),
                                        !["active"] = WithoutWrite("active", p)]
    PROVE  LocksOK'
<1> DEFINE w == Write(p)
<1>1. /\ QueuesOK /\ CallerAsks(p)
      /\ requests \in [Locks -> Seq(Requests)]
      /\ "pending" \in Locks /\ "active" \in Locks /\ "failed" \in Locks
      /\ p \in Processes
      /\ \A x, y : Write(x) # Read(y)
      /\ \A s \in Distributors : p = Monitor(s) => MonitorAsks(s)
      /\ \A a \in Agents : p = Agent(a) => AgentAsks(a)
  BY CallerFacts
<1>2. /\ requests'["pending"] = WithoutWrite("pending", p)
      /\ requests'["active"] = WithoutWrite("active", p)
      /\ requests'["failed"] = requests["failed"]
      /\ call'[p] = NoCall
      /\ \A q \in Callers : q # p => call'[q] = call[q]
  BY <1>1 DEF CallerTypes
<1>3. ASSUME NEW lock \in Locks, requests'[lock] = WithoutWrite(lock, p)
      PROVE  /\ OnlyOf(p, lock)
             /\ \A x : Holds(requests'[lock], x) <=> Holds(requests[lock], x) /\ x # w
  <2>1. CASE Holds(requests[lock], w)
    BY <1>1, <1>3, <2>1, Releases DEF WithoutWrite
  <2>2. CASE ~Holds(requests[lock], w)
    BY <1>1, <1>3, <2>2, Leaves DEF WithoutWrite
  <2>3. QED
    BY <2>1, <2>2
<1>4. OnlyOf(p, "failed")
  BY <1>1, <1>2, Leaves
<1>5. /\ requests' \in [Locks -> Seq(Requests)]
      /\ \A lock \in Locks : OnlyOf(p, lock)
  BY <1>1, <1>2, <1>3, <1>4 DEF OnlyOf, Locks
<1>6. CallerAsks(p)'
  BY <1>1, <1>2, <1>3 DEF CallerAsks, NoCall
<1>7. ASSUME NEW s \in Distributors, p = Monitor(s) PROVE MonitorAsks(s)'
  BY <1>1, <1>2, <1>3, <1>7 DEF MonitorAsks, NoCall
<1>8. ASSUME NEW a \in Agents, p = Agent(a) PROVE AgentAsks(a)'
  BY <1>1, <1>2, <1>3, <1>8 DEF AgentAsks
<1>9. QED
  BY <1>2, <1>5, <1>6, <1>7, <1>8, CallerMoves

\* The steps of a call.
LEMMA CallLocks ==
    ASSUME LocksOK, CallerTypes, NEW p \in Callers, CallStep(p)
    PROVE  LocksOK'
<1> DEFINE w == Write(p)
<1>1. /\ QueuesOK /\ CallerAsks(p) /\ call[p] \in Calls
      /\ requests \in [Locks -> Seq(Requests)]
      /\ "pending" \in Locks /\ "active" \in Locks /\ "failed" \in Locks
      /\ \A s \in Distributors : p = Monitor(s) => MonitorAsks(s)
  BY CallerFacts
<1>2. UNCHANGED <<pc, monitor>>
  BY DEF CallStep, Add, Complete, FailLockPending, Fail, suiteVars, monitorVars
<1>3. CASE Add(p)
  <2>1. /\ call[p].op = "add" /\ call' = [call EXCEPT ![p] = NoCall]
        /\ requests' = [requests EXCEPT !["pending"] = Release(@, w)]
    BY <1>3 DEF Add
  <2>2. Holds(requests["pending"], w) /\ ~Holds(requests["active"], w)
    BY <1>1, <2>1 DEF CallerAsks
  <2>3. requests' = [requests EXCEPT !["pending"] = WithoutWrite("pending", p),
                                     !["active"] = WithoutWrite("active", p)]
    BY <1>1, <2>1, <2>2 DEF WithoutWrite
  <2>4. QED
    BY <1>2, <2>1, <2>3, CallEnds
<1>4. CASE Complete(p)
  <2>1. /\ call[p].op = "completion" /\ call' = [call EXCEPT ![p] = NoCall]
        /\ requests' = [requests EXCEPT !["active"] = Release(@, w)]
    BY <1>4 DEF Complete
  <2>2. ~Holds(requests["pending"], w) /\ Holds(requests["active"], w)
    BY <1>1, <2>1 DEF CallerAsks
  <2>3. requests' = [requests EXCEPT !["pending"] = WithoutWrite("pending", p),
                                     !["active"] = WithoutWrite("active", p)]
    BY <1>1, <2>1, <2>2 DEF WithoutWrite
  <2>4. QED
    BY <1>2, <2>1, <2>3, CallEnds
<1>5. CASE Fail(p)
  <2>1. /\ call[p].op = "failing" /\ call' = [call EXCEPT ![p] = NoCall]
        /\ requests' = [requests EXCEPT !["active"] = Release(@, w),
                                        !["pending"] = Release(@, w)]
    BY <1>5 DEF Fail
  <2>2. Holds(requests["pending"], w) /\ Holds(requests["active"], w)
    BY <1>1, <2>1 DEF CallerAsks
  <2>3. requests' = [requests EXCEPT !["pending"] = WithoutWrite("pending", p),
                                     !["active"] = WithoutWrite("active", p)]
    BY <1>1, <2>1, <2>2 DEF WithoutWrite
  <2>4. QED
    BY <1>2, <2>1, <2>3, CallEnds
<1>6. CASE FailLockPending(p)
  <2>1. /\ call[p].op = "failure" /\ call'[p].op = "failing"
        /\ \A q \in Callers : q # p => call'[q] = call[q]
        /\ requests' = [requests EXCEPT !["pending"] = Append(@, w)]
    BY <1>6 DEF FailLockPending, CallerTypes, Calls, NoCall
  <2>2. ~Holds(requests["pending"], w)
    BY <1>1, <2>1 DEF CallerAsks
  <2>3. QED
    BY <1>2, <2>1, <2>2, CallAsks
<1>7. QED
  BY <1>3, <1>4, <1>5, <1>6 DEF CallStep

\* An agent begins a call.
LEMMA AgentLocks ==
    ASSUME LocksOK, CallerTypes, NEW a \in Agents, Report(a) \/ Submit(a)
    PROVE  LocksOK'
<1> DEFINE p == Agent(a)
           w == Write(p)
<1>1. p \in Callers /\ \A s \in Distributors : p # Monitor(s)
  BY RequestTypes, ProcessesDiffer
<1>2. CallerAsks(p)
  BY <1>1 DEF LocksOK
<1>3. /\ UNCHANGED <<pc, monitor>> /\ call[p].op = "none"
      /\ \A q \in Callers : q # p => call'[q] = call[q]
      /\ ~Holds(requests["pending"], w) /\ ~Holds(requests["active"], w)
  BY <1>1, <1>2 DEF Report, Submit, NoCall, suiteVars, monitorVars, CallerTypes, CallerAsks
<1>4. CASE Report(a)
  <2>1. /\ call'[p].op \in {"completion", "failure"}
        /\ requests' = [requests EXCEPT !["active"] = Append(@, w)]
    BY <1>1, <1>4 DEF Report, CallerTypes
  <2>2. QED
    BY <1>1, <1>3, <2>1, CallAsks
<1>5. CASE Submit(a)
  <2>1. /\ call'[p].op = "add"
        /\ requests' = [requests EXCEPT !["pending"] = Append(@, w)]
    BY <1>1, <1>5 DEF Submit, CallerTypes
  <2>2. QED
    BY <1>1, <1>3, <2>1, CallAsks
<1>6. QED
  BY <1>4, <1>5

\* The monitor asks for the set of failed nodes, then for the active map, and gives
\* both up after its scan.
LEMMA MonitorLocks ==
    ASSUME LocksOK, CallerTypes, NEW s \in Distributors, MonitorStep(s)
    PROVE  LocksOK'
<1> DEFINE p == Monitor(s)
           w == Write(p)
           r == Read(p)
<1>1. /\ QueuesOK /\ CallerAsks(p) /\ MonitorAsks(s)
      /\ requests \in [Locks -> Seq(Requests)]
      /\ "pending" \in Locks /\ "active" \in Locks /\ "failed" \in Locks
      /\ p \in Callers /\ p \in Processes
      /\ \A x, y : Write(x) # Read(y)
      /\ \A t \in Distributors : p = Monitor(t) => t = s
      /\ \A a \in Agents : p # Agent(a)
  BY CallerFacts, RequestTypes, ProcessesDiffer
<1>2. UNCHANGED pc
  BY DEF MonitorStep, MonitorTick, MonitorLock, MonitorScan, suiteVars
<1>3. CASE MonitorTick(s)
  <2>1. /\ requests' = [requests EXCEPT !["failed"] = Append(@, w)]
        /\ requests'["failed"] = Append(requests["failed"], w)
        /\ requests'["active"] = requests["active"]
        /\ requests'["pending"] = requests["pending"]
        /\ monitor[s] = "tick" /\ monitor'[s] = "lock_failed" /\ UNCHANGED call
        /\ \A t \in Distributors : t # s => monitor'[t] = monitor[t]
    BY <1>1, <1>3 DEF MonitorTick, CallerTypes
  <2>2. /\ OnlyOf(p, "failed")
        /\ \A x : Holds(requests'["failed"], x) <=> Holds(requests["failed"], x) \/ x = w
    BY <1>1, <2>1, Asks DEF MonitorAsks
  <2>3. OnlyOf(p, "active") /\ OnlyOf(p, "pending")
    BY <1>1, <2>1, Leaves
  <2>4. /\ requests' \in [Locks -> Seq(Requests)]
        /\ \A lock \in Locks : OnlyOf(p, lock)
    BY <1>1, <2>1, <2>2, <2>3 DEF OnlyOf, Locks
  <2>5. CallerAsks(p)' /\ MonitorAsks(s)'
    BY <1>1, <2>1, <2>2 DEF CallerAsks, MonitorAsks
  <2>6. QED
    BY <1>1, <1>2, <2>1, <2>4, <2>5, CallerMoves
<1>4. CASE MonitorLock(s)
  <2>1. /\ requests' = [requests EXCEPT !["active"] = Append(@, r)]
        /\ requests'["active"] = Append(requests["active"], r)
        /\ requests'["failed"] = requests["failed"]
        /\ requests'["pending"] = requests["pending"]
        /\ monitor[s] = "lock_failed" /\ monitor'[s] = "scan" /\ UNCHANGED call
        /\ \A t \in Distributors : t # s => monitor'[t] = monitor[t]
        /\ Granted("failed", w)
    BY <1>1, <1>4 DEF MonitorLock, CallerTypes
  <2>2. First(requests["failed"], w)
    BY <1>1, <2>1, GrantedWriteIsFirst
  <2>3. /\ OnlyOf(p, "active")
        /\ \A x : Holds(requests'["active"], x) <=> Holds(requests["active"], x) \/ x = r
    BY <1>1, <2>1, Asks DEF MonitorAsks
  <2>4. OnlyOf(p, "failed") /\ OnlyOf(p, "pending")
    BY <1>1, <2>1, Leaves
  <2>5. /\ requests' \in [Locks -> Seq(Requests)]
        /\ \A lock \in Locks : OnlyOf(p, lock)
    BY <1>1, <2>1, <2>3, <2>4 DEF OnlyOf, Locks
  <2>6. CallerAsks(p)' /\ MonitorAsks(s)'
    BY <1>1, <2>1, <2>2, <2>3 DEF CallerAsks, MonitorAsks
  <2>7. QED
    BY <1>1, <1>2, <2>1, <2>5, <2>6, CallerMoves
<1>5. CASE MonitorScan(s) /\ monitor' = monitor
  <2>1. /\ call[p] = NoCall /\ call'[p].op = "failure" /\ UNCHANGED monitor
        /\ \A q \in Callers : q # p => call'[q] = call[q]
        /\ requests' = [requests EXCEPT !["active"] = Append(@, w)]
    BY <1>1, <1>5 DEF MonitorScan, CallerTypes
  <2>2. call[p].op = "none"
    BY <2>1 DEF NoCall
  <2>3. ~Holds(requests["active"], w)
    BY <1>1, <2>2 DEF CallerAsks
  <2>4. QED
    BY <1>1, <1>2, <2>1, <2>2, <2>3, CallAsks
<1>6. CASE MonitorScan(s) /\ monitor' # monitor
  <2>1. /\ requests' = [requests EXCEPT !["active"] = Release(@, r),
                                        !["failed"] = Release(@, w)]
        /\ requests'["active"] = Release(requests["active"], r)
        /\ requests'["failed"] = Release(requests["failed"], w)
        /\ requests'["pending"] = requests["pending"]
        /\ monitor[s] = "scan" /\ monitor'[s] = "tick" /\ UNCHANGED call
        /\ \A t \in Distributors : t # s => monitor'[t] = monitor[t]
    BY <1>1, <1>6 DEF MonitorScan, CallerTypes
  <2>2. Holds(requests["active"], r) /\ Holds(requests["failed"], w)
    BY <1>1, <2>1 DEF MonitorAsks
  <2>3. /\ OnlyOf(p, "active")
        /\ \A x : Holds(requests'["active"], x) <=> Holds(requests["active"], x) /\ x # r
        /\ OnlyOf(p, "failed")
        /\ \A x : Holds(requests'["failed"], x) <=> Holds(requests["failed"], x) /\ x # w
    BY <1>1, <2>1, <2>2, Releases
  <2>4. OnlyOf(p, "pending")
    BY <1>1, <2>1, Leaves
  <2>5. /\ requests' \in [Locks -> Seq(Requests)]
        /\ \A lock \in Locks : OnlyOf(p, lock)
    BY <1>1, <2>1, <2>3, <2>4 DEF OnlyOf, Locks
  <2>6. CallerAsks(p)' /\ MonitorAsks(s)'
    BY <1>1, <2>1, <2>3 DEF CallerAsks, MonitorAsks
  <2>7. QED
    BY <1>1, <1>2, <2>1, <2>5, <2>6, CallerMoves
<1>7. QED
  BY <1>3, <1>4, <1>5, <1>6 DEF MonitorStep

\* The requests of all processes stay those their places call for.
LEMMA LocksStep ==
    ASSUME LocksOK, SuiteTypes, CallerTypes, MonitorsWait, ExecNext
    PROVE  LocksOK'
<1>1. CASE NodeEvent
  <2>1. UNCHANGED <<requests, pc, monitor, call>>
    BY <1>1 DEF NodeEvent, suiteVars, monitorVars
  <2>2. QED
    BY <2>1 DEF LocksOK, QueuesOK, SuiteAsks, MonitorAsks, CallerAsks, AgentAsks
<1>2. ASSUME NEW s \in Distributors, Begin(s) \/ SuiteStep(s) \/ MonitorStep(s)
      PROVE  LocksOK'
  BY <1>2, BeginLocks, SuiteLocks, MonitorLocks
<1>3. ASSUME NEW a \in Agents, Report(a) \/ Submit(a) PROVE LocksOK'
  BY <1>3, AgentLocks
<1>4. ASSUME NEW p \in Callers, CallStep(p) PROVE LocksOK'
  BY <1>4, CallLocks
<1>5. QED
  BY <1>1, <1>2, <1>3, <1>4 DEF ExecNext

-----------------------------------------------------------------------------
(***************************************************************************)
(* The invariant is inductive                                              *)
(***************************************************************************)
\* The invariant holds when the program starts.
LEMMA ExecInitInv == ExecInit => ExecInv
<1> SUFFICES ASSUME ExecInit PROVE ExecInv
  OBVIOUS
<1>1. IInv
  BY InitIInv DEF ExecInit
<1>2. SuiteTypes /\ CallerTypes /\ OwnTasksKept /\ MonitorsWait
  BY DEF ExecInit, SuiteTypes, CallerTypes, OwnTasksKept, MonitorsWait, Places, Calls
<1>3. \A lock \in Locks : requests[lock] = <<>>
  BY DEF ExecInit, Locks
<1>4. QueuesOK
  BY <1>3 DEF ExecInit, QueuesOK, Locks, NoRepeat
<1>5. \A lock \in Locks : \A r : ~Holds(requests[lock], r)
  BY <1>3 DEF Holds
<1>6. \A s \in Distributors : SuiteAsks(s) /\ MonitorAsks(s)
  BY <1>5, RequestTypes DEF ExecInit, SuiteAsks, MonitorAsks, Locks, PendingSteps, NoCall
<1>7. (\A p \in Callers : CallerAsks(p)) /\ (\A a \in Agents : AgentAsks(a))
  BY <1>5 DEF ExecInit, CallerAsks, AgentAsks, Locks, NoCall
<1>8. QED
  BY <1>1, <1>2, <1>4, <1>6, <1>7 DEF ExecInv, LocksOK

\* A monitor leaves "off" only when its suite begins.
LEMMA MonitorsWaitStep ==
    ASSUME SuiteTypes, CallerTypes, MonitorsWait, ExecNext
    PROVE  MonitorsWait'
<1>1. CASE UNCHANGED <<pc, monitor>>
  BY <1>1 DEF MonitorsWait
<1>2. ASSUME NEW s \in Distributors, Begin(s) PROVE MonitorsWait'
  BY <1>2 DEF Begin, MonitorsWait, SuiteTypes, CallerTypes
<1>3. ASSUME NEW s \in Distributors, SuiteStep(s) PROVE MonitorsWait'
  <2>1. /\ pc'[s] # "idle" /\ UNCHANGED monitor
        /\ \A t \in Distributors : t # s => pc'[t] = pc[t]
    BY <1>3 DEF SuiteStep, RegisterMockNode, Partition, AddChunk, ReadNodes, LockActive,
                Assign, PollPending, PollActive, CheckWait, TimeOut, Collect, SuiteTypes,
                monitorVars
  <2>2. QED
    BY <2>1 DEF MonitorsWait
<1>4. ASSUME NEW s \in Distributors, MonitorStep(s) PROVE MonitorsWait'
  BY <1>4 DEF MonitorStep, MonitorTick, MonitorLock, MonitorScan, suiteVars, MonitorsWait,
              CallerTypes
<1>5. ASSUME NEW a \in Agents, Report(a) \/ Submit(a) PROVE UNCHANGED <<pc, monitor>>
  BY <1>5 DEF Report, Submit, suiteVars, monitorVars
<1>6. ASSUME NEW p \in Callers, CallStep(p) PROVE UNCHANGED <<pc, monitor>>
  BY <1>6 DEF CallStep, Add, Complete, FailLockPending, Fail, suiteVars, monitorVars
<1>7. CASE NodeEvent
  BY <1>1, <1>7 DEF NodeEvent, suiteVars, monitorVars
<1>8. QED
  BY <1>1, <1>2, <1>3, <1>4, <1>5, <1>6, <1>7 DEF ExecNext

\* Every step of the executor, its callers, the monitor and the nodes keeps the invariant.
LEMMA ExecNextInv == ExecInv /\ [ExecNext]_execVars => ExecInv'
<1> SUFFICES ASSUME ExecInv, [ExecNext]_execVars PROVE ExecInv'
  OBVIOUS
<1>1. IInv'
  BY StepOfDistributor, NextIInv DEF ExecInv
<1>2. CASE ExecNext
  <2>1. TypeOK
    BY DEF ExecInv, IInv
  <2>2. QED
    BY <1>1, <1>2, <2>1, SuiteTypesStep, CallerTypesStep, OwnTasksStep, MonitorsWaitStep,
       LocksStep
    DEF ExecInv
<1>3. CASE UNCHANGED execVars
  BY <1>1, <1>3
  DEF execVars, vars, suiteVars, monitorVars, ExecInv, SuiteTypes, CallerTypes,
      OwnTasksKept, MonitorsWait, LocksOK, QueuesOK, SuiteAsks, CallerAsks, MonitorAsks,
      AgentAsks
<1>4. QED
  BY <1>2, <1>3

-----------------------------------------------------------------------------
(***************************************************************************)
(* Circles of waiting processes                                            *)
(***************************************************************************)
\* The request at place j of a queue is one of p that has not been granted.
Stuck(p, lock, j) ==
    /\ j \in DOMAIN requests[lock]
    /\ requests[lock][j].who = p
    /\ ~Granted(lock, requests[lock][j])

\* No member of S is inside handle_task_failure.
NoneFails(S) == \A p \in S \cap Callers : call[p].op \notin {"failure", "failing"}

\* Every set of natural numbers has a least member.
LEMMA LeastNatural ==
    ASSUME NEW T, T \subseteq Nat, T # {}
    PROVE  \E least \in T : \A n \in T : least <= n
<1>1. PICK least \in T : \A n \in T : <<n, least>> \notin OpToRel(<, Nat)
  BY NatLessThanWellFounded, WFMin
<1>2. \A n \in T : ~(n < least)
  BY <1>1 DEF OpToRel
<1>3. QED
  BY <1>2

\* A request is the read or the write request of its process.
LEMMA RequestForms ==
    ASSUME QueuesOK, NEW lock \in Locks, NEW i \in DOMAIN requests[lock]
    PROVE  LET r == requests[lock][i]
           IN  /\ r = Read(r.who) \/ r = Write(r.who)
               /\ Holds(requests[lock], r)
               /\ r.who \in Processes
<1> DEFINE r == requests[lock][i]
<1>1. r \in Requests
  BY DEF QueuesOK
<1>2. r = Read(r.who) \/ r = Write(r.who)
  <2>1. r = [who |-> r.who, mode |-> r.mode] /\ r.mode \in {"read", "write"}
    BY <1>1 DEF Requests
  <2>2. QED
    BY <2>1 DEF Read, Write
<1>3. r.who \in Processes
  BY <1>1 DEF Requests
<1>4. Holds(requests[lock], r)
  BY DEF Holds
<1>5. QED
  BY <1>2, <1>3, <1>4

\* A process is a suite, a monitor or an agent.
LEMMA ProcessKinds ==
    ASSUME NEW p \in Processes
    PROVE  \/ \E s \in Distributors : p = Suite(s)
           \/ \E s \in Distributors : p = Monitor(s)
           \/ \E a \in Agents : p = Agent(a)
BY DEF Processes, Callers

\* If no member of a circle has two requests at a lock, and none that has one there
\* is stuck at another lock, then none is stuck at this lock: the first of them in
\* the queue would wait for a member that is not waiting.
LEMMA NobodyStuckAt ==
    ASSUME QueuesOK, NEW lock \in Locks, NEW S, WaitCycle(S),
           \A i, j \in DOMAIN requests[lock] :
               /\ requests[lock][i].who \in S
               /\ requests[lock][i].who = requests[lock][j].who
               => i = j,
           \A i \in DOMAIN requests[lock] : requests[lock][i].who \in S =>
               \A other \in Locks \ {lock} :
                   \A k : ~Stuck(requests[lock][i].who, other, k)
    PROVE  \A p \in S : \A j : ~Stuck(p, lock, j)
<1> DEFINE T == {j \in DOMAIN requests[lock] : /\ requests[lock][j].who \in S
                                               /\ ~Granted(lock, requests[lock][j])}
<1>1. ASSUME NEW p \in S
      PROVE  \E other \in Locks : \E i, k \in DOMAIN requests[other] :
                 /\ i < k
                 /\ requests[other][i].who \in S
                 /\ Stuck(p, other, k)
  <2>1. PICK q \in S : WaitsFor(p, q)
    BY DEF WaitCycle
  <2>2. DOMAIN requests = Locks
    BY DEF QueuesOK
  <2>3. PICK other \in Locks : \E i, k \in DOMAIN requests[other] :
            /\ i < k
            /\ requests[other][i].who = q
            /\ requests[other][k].who = p
            /\ ~Granted(other, requests[other][k])
    BY <2>1, <2>2 DEF WaitsFor
  <2>4. QED
    BY <2>3 DEF Stuck
<1>2. SUFFICES ASSUME T # {} PROVE FALSE
  BY DEF Stuck
<1>3. T \subseteq Nat
  BY DEF QueuesOK
<1>4. PICK j \in T : \A n \in T : j <= n
  BY <1>2, <1>3, LeastNatural
<1>5. PICK i \in DOMAIN requests[lock] : i < j /\ requests[lock][i].who \in S
  <2> DEFINE p == requests[lock][j].who
  <2>1. PICK other \in Locks : \E i, k \in DOMAIN requests[other] :
                 /\ i < k
                 /\ requests[other][i].who \in S
                 /\ Stuck(p, other, k)
    BY <1>1
  <2>2. other = lock
    BY <2>1
  <2>3. \A k \in DOMAIN requests[lock] : Stuck(p, lock, k) => k = j
    BY DEF Stuck
  <2>4. QED
    BY <2>1, <2>2, <2>3
<1>6. Granted(lock, requests[lock][i])
  <2>1. i \in Nat /\ j \in Nat
    BY <1>3 DEF QueuesOK
  <2>2. i \notin T
    BY <1>4, <1>5, <2>1
  <2>3. QED
    BY <1>5, <2>2
<1>7. PICK other \in Locks : \E k : Stuck(requests[lock][i].who, other, k)
  BY <1>1, <1>5
<1>8. other = lock
  BY <1>5, <1>7
<1>9. \A k : Stuck(requests[lock][i].who, lock, k) => k = i
  BY <1>5 DEF Stuck
<1>10. QED
  BY <1>6, <1>7, <1>8, <1>9 DEF Stuck

\* A process without a request at a lock, or with its write request at the head, is
\* not stuck there.
LEMMA NotStuck ==
    ASSUME QueuesOK, NEW lock \in Locks, NEW p, ~Holds(requests[lock], Read(p)),
           ~Holds(requests[lock], Write(p)) \/ First(requests[lock], Write(p))
    PROVE  \A k : ~Stuck(p, lock, k)
<1> SUFFICES ASSUME NEW k, Stuck(p, lock, k) PROVE FALSE
  OBVIOUS
<1>1. k \in DOMAIN requests[lock] /\ requests[lock][k].who = p
  BY DEF Stuck
<1>2. requests[lock][k] = Write(p) /\ Holds(requests[lock], Write(p))
  BY <1>1, RequestForms
<1>3. k = 1
  BY <1>1, <1>2 DEF First, QueuesOK, NoRepeat
<1>4. Granted(lock, requests[lock][k])
  BY <1>1, <1>3 DEF Granted
<1>5. QED
  BY <1>4 DEF Stuck

\* Two requests of one process at a lock are its read and its write request.
LEMMA OneRequest ==
    ASSUME QueuesOK, NEW lock \in Locks,
           NEW i \in DOMAIN requests[lock], NEW j \in DOMAIN requests[lock],
           NEW p, requests[lock][i].who = p, requests[lock][j].who = p,
           ~Holds(requests[lock], Read(p)) \/ ~Holds(requests[lock], Write(p))
    PROVE  i = j
<1>1. /\ requests[lock][i] \in {Read(p), Write(p)} /\ Holds(requests[lock], requests[lock][i])
      /\ requests[lock][j] \in {Read(p), Write(p)} /\ Holds(requests[lock], requests[lock][j])
  BY RequestForms
<1>2. requests[lock][i] = requests[lock][j]
  BY <1>1
<1>3. QED
  BY <1>2 DEF QueuesOK, NoRepeat

\* What a member of a circle without handle_task_failure asks for.
LEMMA QuietRequests ==
    ASSUME LocksOK, NEW S, S \subseteq Processes, NoneFails(S), NEW p \in S
    PROVE  /\ \A lock \in {"pending", "failed"} : ~Holds(requests[lock], Read(p))
           /\ ~Holds(requests["active"], Read(p)) \/ ~Holds(requests["active"], Write(p))
           /\ Holds(requests["active"], Read(p)) \/ Holds(requests["active"], Write(p)) =>
                  \A lock \in {"pending", "failed"} :
                      \/ ~Holds(requests[lock], Write(p))
                      \/ First(requests[lock], Write(p))
           /\ Holds(requests["pending"], Write(p)) => ~Holds(requests["failed"], Write(p))
<1>1. CASE \E s \in Distributors : p = Suite(s)
  <2>1. PICK s \in Distributors : p = Suite(s) /\ SuiteAsks(s)
    BY <1>1 DEF LocksOK
  <2>2. QED
    BY <2>1 DEF SuiteAsks
<1>2. CASE \E s \in Distributors : p = Monitor(s)
  <2>1. PICK s \in Distributors : p = Monitor(s) /\ MonitorAsks(s)
    BY <1>2 DEF LocksOK
  <2>2. p \in Callers /\ CallerAsks(p) /\ call[p].op = "none"
    BY <2>1, RequestTypes DEF LocksOK, MonitorAsks, NoneFails
  <2>3. QED
    BY <2>1, <2>2 DEF CallerAsks, MonitorAsks
<1>3. CASE \E a \in Agents : p = Agent(a)
  <2>1. PICK a \in Agents : p = Agent(a) /\ AgentAsks(a)
    BY <1>3 DEF LocksOK
  <2>2. p \in Callers /\ CallerAsks(p) /\ call[p].op \notin {"failure", "failing"}
    BY <2>1, RequestTypes DEF LocksOK, NoneFails
  <2>3. QED
    BY <2>1, <2>2 DEF CallerAsks, AgentAsks
<1>4. QED
  BY <1>1, <1>2, <1>3, ProcessKinds

\* No circle closes without handle_task_failure: no member is stuck at the active
\* map, then none at the queue, then none at the set of failed nodes.
LEMMA NoQuietCircle ==
    ASSUME LocksOK, NEW S, S \subseteq Processes, NoneFails(S), WaitCycle(S)
    PROVE  FALSE
<1>1. QueuesOK /\ "pending" \in Locks /\ "active" \in Locks /\ "failed" \in Locks
  BY DEF LocksOK, Locks
<1>2. \A lock \in Locks : \A i, j \in DOMAIN requests[lock] :
          /\ requests[lock][i].who \in S
          /\ requests[lock][i].who = requests[lock][j].who
          => i = j
  <2> SUFFICES ASSUME NEW lock \in Locks,
                      NEW i \in DOMAIN requests[lock], NEW j \in DOMAIN requests[lock],
                      requests[lock][i].who \in S,
                      requests[lock][i].who = requests[lock][j].who
               PROVE  i = j
    OBVIOUS
  <2> DEFINE p == requests[lock][i].who
  <2>1. ~Holds(requests[lock], Read(p)) \/ ~Holds(requests[lock], Write(p))
    BY QuietRequests DEF Locks
  <2>2. QED
    BY <1>1, <2>1, OneRequest
<1>3. \A lock \in Locks : \A i \in DOMAIN requests[lock] :
          \/ Holds(requests[lock], Read(requests[lock][i].who))
          \/ Holds(requests[lock], Write(requests[lock][i].who))
  BY <1>1, RequestForms
<1>4. \A p \in S : \A j : ~Stuck(p, "active", j)
  <2>1. ASSUME NEW i \in DOMAIN requests["active"], requests["active"][i].who \in S,
               NEW other \in Locks \ {"active"}
        PROVE  \A k : ~Stuck(requests["active"][i].who, other, k)
    <3> DEFINE p == requests["active"][i].who
    <3>1. Holds(requests["active"], Read(p)) \/ Holds(requests["active"], Write(p))
      BY <1>1, <1>3
    <3>2. other \in {"pending", "failed"}
      BY DEF Locks
    <3>3. /\ ~Holds(requests[other], Read(p))
          /\ ~Holds(requests[other], Write(p)) \/ First(requests[other], Write(p))
      BY <2>1, <3>1, <3>2, QuietRequests
    <3>4. QED
      BY <1>1, <3>3, NotStuck
  <2>2. QED
    BY <1>1, <1>2, <2>1, NobodyStuckAt
<1>5. \A p \in S : \A j : ~Stuck(p, "pending", j)
  <2>1. ASSUME NEW i \in DOMAIN requests["pending"], requests["pending"][i].who \in S,
               NEW other \in Locks \ {"pending"}
        PROVE  \A k : ~Stuck(requests["pending"][i].who, other, k)
    <3> DEFINE p == requests["pending"][i].who
    <3>1. Holds(requests["pending"], Read(p)) \/ Holds(requests["pending"], Write(p))
      BY <1>1, <1>3
    <3>2. ~Holds(requests["failed"], Read(p)) /\ ~Holds(requests["failed"], Write(p))
      BY <2>1, <3>1, QuietRequests
    <3>3. \A k : ~Stuck(p, "failed", k)
      BY <1>1, <3>2, NotStuck
    <3>4. other \in {"active", "failed"}
      BY DEF Locks
    <3>5. QED
      BY <1>4, <2>1, <3>3, <3>4
  <2>2. QED
    BY <1>1, <1>2, <2>1, NobodyStuckAt
<1>6. \A p \in S : \A j : ~Stuck(p, "failed", j)
  <2>1. ASSUME NEW i \in DOMAIN requests["failed"], requests["failed"][i].who \in S,
               NEW other \in Locks \ {"failed"}
        PROVE  \A k : ~Stuck(requests["failed"][i].who, other, k)
    <3>1. other \in {"active", "pending"}
      BY DEF Locks
    <3>2. QED
      BY <1>4, <1>5, <2>1, <3>1
  <2>2. QED
    BY <1>1, <1>2, <2>1, NobodyStuckAt
<1>7. PICK p \in S, q \in S : WaitsFor(p, q)
  BY DEF WaitCycle
<1>8. DOMAIN requests = Locks
  BY <1>1 DEF QueuesOK
<1>9. \E lock \in Locks : \E j : Stuck(p, lock, j)
  BY <1>7, <1>8 DEF WaitsFor, Stuck
<1>10. QED
  BY <1>4, <1>5, <1>6, <1>9 DEF Locks

-----------------------------------------------------------------------------
(***************************************************************************)
(* Theorems                                                                *)
(***************************************************************************)
\* The executor with its locks is a distributor: what is proved of TaskDistribution,
\* whose operations are atomic, holds of execute, its monitors and other callers.
THEOREM ExecutorIsDistributor == ExecSpec => Spec
<1>1. ExecInit => Init
  BY DEF ExecInit
<1>2. ExecInv /\ [ExecNext]_execVars => [Next]_vars
  BY StepOfDistributor DEF ExecInv
<1>3. QED
  BY <1>1, <1>2, ExecInitInv, ExecNextInv, PTL DEF ExecSpec, Spec

\* A result that execute returns covers every task the call added (and the
\* executor's state keeps its type).
THEOREM ResultsCoverOwnTasks == ExecSpec => []OkCoversOwnTasks
<1>1. ExecInv => OkCoversOwnTasks
  BY InvTypes DEF ExecInv, OwnTasksKept, OkCoversOwnTasks
<1>2. QED
  BY <1>1, ExecInitInv, ExecNextInv, PTL DEF ExecSpec

\* A circle of waiting processes has a member inside handle_task_failure: adding,
\* distributing, polling, completing and monitoring never block one another for good.
THEOREM CirclesNeedFailure == ExecSpec => []DeadlockNeedsFailure
<1>1. ExecInv => DeadlockNeedsFailure
  <2> SUFFICES ASSUME ExecInv, NEW S \in SUBSET Waiting, WaitCycle(S),
                      ~ \E p \in S \cap Callers : call[p].op \in {"failure", "failing"}
               PROVE  FALSE
    BY DEF DeadlockNeedsFailure
  <2>1. S \subseteq Processes /\ NoneFails(S)
    BY DEF Waiting, NoneFails
  <2>2. QED
    BY <2>1, NoQuietCircle DEF ExecInv
<1>2. QED
  BY <1>1, ExecInitInv, ExecNextInv, PTL DEF ExecSpec
=============================================================================
