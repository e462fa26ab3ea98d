-------------------------- MODULE TaskDistribution --------------------------
(***************************************************************************)
(* NodeDiscovery and TaskDistributor of src/distributed_execution.rs.      *)
(*                                                                         *)
(* Every operation of TaskDistributor keeps the locks it takes until it    *)
(* returns, so an operation on pending_tasks, active_tasks and             *)
(* completed_tasks is one action here.  distribute_tasks is two: it reads  *)
(* the available nodes first (get_available_nodes releases the node lock)  *)
(* and takes the queue locks afterwards, so it works on a node list that   *)
(* may be stale.  The locks themselves, and what happens when they are     *)
(* requested in conflicting orders, are in module DistributedExecutor.     *)
(*                                                                         *)
(* The hash maps are total functions: NoNode / "none" is an absent key.    *)
(* A status other than Available is always tested as "not Available", so   *)
(* "Busy" stands for the four of them.  Time is abstracted: the cleanup    *)
(* task may find the heartbeat of any registered node too old.             *)
(*                                                                         *)
(* An operator marked "Broken variant" is the operation after it with a    *)
(* bug planted; nothing uses it, and it shows that the properties notice.  *)
(***************************************************************************)
EXTENDS Naturals, Sequences, FiniteSets

CONSTANTS Nodes,          \* node identifiers
          Tasks,          \* identifiers Uuid::new_v4 may return
          Distributors,   \* callers of distribute_tasks
          MaxLoad,        \* bound on the load a heartbeat reports
          MaxConcurrent,  \* max_concurrent_tasks of each node
          NoNode          \* the empty node_id

ASSUME LoadAssumption == MaxLoad \in Nat /\ MaxConcurrent \in [Nodes -> Nat]
ASSUME NoNodeAssumption == NoNode \notin Nodes

VARIABLES nodes,          \* the registry: a record per registered node
          pending_tasks,  \* VecDeque of task identifiers
          active_tasks,   \* node_id of each active task
          completed,      \* outcome of each completed task
          retry_count,    \* retry_count of each assignment
          issued,         \* identifiers add_task has returned
          dispatches,     \* how often each task was sent to a node
          snapshot        \* available_nodes of a distribute_tasks under way

poolState == <<pending_tasks, active_tasks, completed, retry_count, issued,
               dispatches>>
vars == <<nodes, pending_tasks, active_tasks, completed, retry_count, issued,
          dispatches, snapshot>>

-----------------------------------------------------------------------------
NodeStatus == {"Available", "Busy"}
NotRegistered == [status |-> "absent", load |-> 0]
NodeRecord == [status : NodeStatus, load : 0..MaxLoad]
NodeView == [node_id : Nodes, load : 0..MaxLoad]

RetryLimit == 3

Registered(n) == nodes[n] # NotRegistered
Queued(t) == \E i \in DOMAIN pending_tasks : pending_tasks[i] = t
Active(t) == active_tasks[t] # NoNode

(***************************************************************************)
(* NodeDiscovery                                                           *)
(***************************************************************************)
register_node(n) ==
    /\ nodes' = [nodes EXCEPT ![n] = [status |-> "Available", load |-> 0]]
    /\ UNCHANGED <<poolState, snapshot>>

deregister_node(n) ==
    /\ nodes' = [nodes EXCEPT ![n] = NotRegistered]
    /\ UNCHANGED <<poolState, snapshot>>

\* A heartbeat of a node that is no longer registered changes nothing.
update_heartbeat(n, status, load) ==
    /\ nodes' = IF Registered(n)
                THEN [nodes EXCEPT ![n] = [status |-> status, load |-> load]]
                ELSE nodes
    /\ UNCHANGED <<poolState, snapshot>>

\* One tick of the cleanup task: the nodes of S have outlived the timeout.
cleanup(S) ==
    /\ \A n \in S : Registered(n)
    /\ nodes' = [n \in Nodes |-> IF n \in S THEN NotRegistered ELSE nodes[n]]
    /\ UNCHANGED <<poolState, snapshot>>

get_available_nodes ==
    {v \in NodeView : nodes[v.node_id] = [status |-> "Available", load |-> v.load]}

(***************************************************************************)
(* TaskDistributor                                                         *)
(***************************************************************************)
add_task(t) ==
    /\ t \notin issued
    /\ issued' = issued \cup {t}
    /\ pending_tasks' = Append(pending_tasks, t)
    /\ UNCHANGED <<nodes, active_tasks, completed, retry_count, dispatches,
                   snapshot>>

\* The nodes select_best_node may return: the order of the list decides among
\* equal loads, and the list comes from a hash map.
select_best_node(views) ==
    LET eligible == {v \in views : v.load < MaxConcurrent[v.node_id]}
    IN  {v.node_id : v \in {x \in eligible : \A y \in eligible : x.load <= y.load}}

\* distribute_tasks up to the queue locks; with no available node it returns.
distribute_read(d) ==
    /\ snapshot[d] = {}
    /\ snapshot' = [snapshot EXCEPT ![d] = get_available_nodes]
    /\ UNCHANGED <<nodes, poolState>>

\* Broken variant: the first node of the list, tested against its limit only then.
distribute_assign_first(d) ==
    /\ snapshot[d] # {}
    /\ snapshot' = [snapshot EXCEPT ![d] = {}]
    /\ \E first \in snapshot[d] :
          IF first.load < MaxConcurrent[first.node_id]
          THEN /\ active_tasks' = [t \in Tasks |-> IF Queued(t) THEN first.node_id
                                                   ELSE active_tasks[t]]
               /\ dispatches' = [t \in Tasks |-> IF Queued(t) THEN dispatches[t] + 1
                                                 ELSE dispatches[t]]
               /\ pending_tasks' = <<>>
               /\ UNCHANGED <<completed, retry_count, issued>>
          ELSE UNCHANGED poolState
    /\ UNCHANGED nodes

\* The rest of distribute_tasks.  The list and its loads do not change inside
\* the loop, so either every queued task goes to the same node or none goes.
distribute_assign(d) ==
    /\ snapshot[d] # {}
    /\ snapshot' = [snapshot EXCEPT ![d] = {}]
    /\ \/ /\ select_best_node(snapshot[d]) = {}
          /\ UNCHANGED poolState
       \/ \E best \in select_best_node(snapshot[d]) :
            /\ active_tasks' = [t \in Tasks |-> IF Queued(t) THEN best
                                                ELSE active_tasks[t]]
            /\ dispatches' = [t \in Tasks |-> IF Queued(t) THEN dispatches[t] + 1
                                              ELSE dispatches[t]]
            /\ pending_tasks' = <<>>
            /\ UNCHANGED <<completed, retry_count, issued>>
    /\ UNCHANGED nodes

\* A result arrives for a task some node was sent: any number of times, late,
\* and from a node the task has since been taken from.  It is the final answer,
\* whatever its success flag says: a node that reports success: false is not retried.
handle_task_completion(t) ==
    /\ dispatches[t] > 0
    /\ IF Active(t)
       THEN /\ active_tasks' = [active_tasks EXCEPT ![t] = NoNode]
            /\ completed' = [completed EXCEPT ![t] = "answered"]
       ELSE UNCHANGED <<active_tasks, completed>>
    /\ UNCHANGED <<nodes, pending_tasks, retry_count, issued, dispatches, snapshot>>

may_retry_early(t) == retry_count[t] + 2 < RetryLimit

\* The count is raised first: the third failure is the last.
may_retry(t) == retry_count[t] + 1 < RetryLimit

\* Broken variants: the task is looked up but not removed from the active map; a
\* task that is given up gets no outcome.
handle_task_failure_keeps(t) ==
    /\ Active(t)
    /\ retry_count' = [retry_count EXCEPT ![t] = @ + 1]
    /\ may_retry(t)
    /\ pending_tasks' = Append(pending_tasks, t)
    /\ UNCHANGED <<nodes, active_tasks, completed, issued, dispatches, snapshot>>

handle_task_failure_forgets(t) ==
    /\ Active(t)
    /\ active_tasks' = [active_tasks EXCEPT ![t] = NoNode]
    /\ retry_count' = [retry_count EXCEPT ![t] = @ + 1]
    /\ pending_tasks' = IF may_retry(t) THEN Append(pending_tasks, t) ELSE pending_tasks
    /\ UNCHANGED <<nodes, completed, issued, dispatches, snapshot>>

handle_task_failure(t) ==
    /\ t \in issued
    /\ IF Active(t)
       THEN /\ active_tasks' = [active_tasks EXCEPT ![t] = NoNode]
            /\ retry_count' = [retry_count EXCEPT ![t] = @ + 1]
            /\ IF may_retry(t)
               THEN /\ pending_tasks' = Append(pending_tasks, t)
                    /\ UNCHANGED completed
               ELSE /\ completed' = [completed EXCEPT ![t] = "given_up"]
                    /\ UNCHANGED pending_tasks
       ELSE UNCHANGED <<active_tasks, retry_count, pending_tasks, completed>>
    /\ UNCHANGED <<nodes, issued, dispatches, snapshot>>

\* Broken variant: the active map is not consulted.
all_tasks_completed_pending == pending_tasks = <<>>

all_tasks_completed ==
    /\ pending_tasks = <<>>
    /\ \A t \in Tasks : ~Active(t)

-----------------------------------------------------------------------------
Init ==
    /\ nodes = [n \in Nodes |-> NotRegistered]
    /\ pending_tasks = <<>>
    /\ active_tasks = [t \in Tasks |-> NoNode]
    /\ completed = [t \in Tasks |-> "none"]
    /\ retry_count = [t \in Tasks |-> 0]
    /\ issued = {}
    /\ dispatches = [t \in Tasks |-> 0]
    /\ snapshot = [d \in Distributors |-> {}]

NodeStep ==
    \/ \E n \in Nodes : register_node(n) \/ deregister_node(n)
    \/ \E n \in Nodes, status \in NodeStatus, load \in 0..MaxLoad :
           update_heartbeat(n, status, load)
    \/ \E S \in SUBSET Nodes : cleanup(S)

Next ==
    \/ NodeStep
    \/ \E t \in Tasks : \/ add_task(t)
                        \/ handle_task_completion(t)
                        \/ handle_task_failure(t)
    \/ \E d \in Distributors : distribute_read(d) \/ distribute_assign(d)

Spec == Init /\ [][Next]_vars

\* DistributedExecutor::execute calls distribute_tasks once a second until its
\* tasks are done: the two halves of a call keep being taken.
Fairness ==
    \A d \in Distributors : WF_vars(distribute_read(d)) /\ WF_vars(distribute_assign(d))

FairSpec == Spec /\ Fairness

-----------------------------------------------------------------------------
(***************************************************************************)
(* Properties                                                              *)
(***************************************************************************)
Outcome == {"none", "answered", "given_up"}

\* Type invariant of the registry, the three task containers and the counters.
TypeOK ==
    /\ nodes \in [Nodes -> NodeRecord \cup {NotRegistered}]
    /\ pending_tasks \in Seq(Tasks)
    /\ active_tasks \in [Tasks -> Nodes \cup {NoNode}]
    /\ completed \in [Tasks -> Outcome]
    /\ retry_count \in [Tasks -> 0..RetryLimit]
    /\ issued \subseteq Tasks
    /\ dispatches \in [Tasks -> Nat]
    /\ snapshot \in [Distributors -> SUBSET NodeView]

\* A task that was handed out is in exactly one of the queue (once), the active
\* map and the completed map, whatever results, failures and redistributions
\* come in between; a task that was not handed out is in none.
QueuedOnce ==
    \A i, j \in DOMAIN pending_tasks : pending_tasks[i] = pending_tasks[j] => i = j

EachTaskInOnePlace ==
    /\ QueuedOnce
    /\ \A t \in Tasks :
           /\ (t \in issued) <=> (Queued(t) \/ Active(t) \/ completed[t] # "none")
           /\ ~(Queued(t) /\ Active(t))
           /\ completed[t] # "none" => ~Queued(t) /\ ~Active(t)

\* A task was sent to a node once for every failure counted, and once more if it
\* is running or was answered; it is given up exactly at the limit.  So a task that
\* is given up was sent RetryLimit times: with the limit of the code, it was retried
\* twice, although handle_task_failure speaks of three retries.
DispatchAccounting ==
    \A t \in Tasks :
        /\ dispatches[t] = retry_count[t] +
               (IF Active(t) \/ completed[t] = "answered" THEN 1 ELSE 0)
        /\ retry_count[t] = RetryLimit <=> completed[t] = "given_up"

\* An outcome, once recorded, is never replaced or dropped: a late or repeated
\* result, or a failure reported for a task already settled, changes nothing.
OutcomeFinal ==
    [][\A t \in Tasks : completed[t] # "none" => completed'[t] = completed[t]]_vars

\* A queued task does not wait for ever while some registered node is available
\* and below its limit, although every decision is made on a stale node list.
PendingDrains ==
    \A t \in Tasks : ~<>[](Queued(t) /\ select_best_node(get_available_nodes) # {})

\* The distributor implements the task pool it promises.
StageOf(t) ==
    CASE Queued(t) -> "waiting"
      [] Active(t) -> "running"
      [] completed[t] = "answered" -> "answered"
      [] completed[t] = "given_up" -> "given_up"
      [] OTHER -> "unissued"

Pool == INSTANCE TaskPool WITH stage <- [t \in Tasks |-> StageOf(t)],
                               tries <- retry_count

\* Refinement: every behaviour of the distributor is one of TaskPool.
ImplementsPool == Pool!PoolSpec
=============================================================================
