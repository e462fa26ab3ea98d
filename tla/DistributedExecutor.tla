------------------------- MODULE DistributedExecutor -------------------------
(***************************************************************************)
(* DistributedExecutor::execute and the monitor of FaultToleranceManager,  *)
(* in src/distributed_execution.rs, running over the task distributor at   *)
(* the granularity of its locks.                                           *)
(*                                                                         *)
(* Each suite s in Distributors is one call of execute; it spawns its own  *)
(* monitor, <<"monitor", s>>.  The members of Agents are the other callers *)
(* of the distributor: they report completions and failures on behalf of   *)
(* nodes and submit tasks of their own.  A lock is the queue of the        *)
(* requests made for it: tokio's Mutex and RwLock serve requests in order, *)
(* so a write request is granted when it is first, and a read request when *)
(* only read requests precede it.  Requesting a lock is part of the step   *)
(* before the one that needs it.  completed_tasks and the node map are     *)
(* never held while waiting for another lock and need no queue.            *)
(***************************************************************************)
EXTENDS TaskDistribution, SequencesExt

CONSTANTS Agents,      \* other callers of the distributor: nodes' agents, users
          AgentTasks,  \* the identifiers their submissions get, the rest are the suites'
          MaxTests     \* bound on the number of test cases given to execute

ASSUME MaxTestsAssumption == MaxTests \in Nat
ASSUME AgentTasksAssumption == AgentTasks \subseteq Tasks
ASSUME NodesAssumption == IsFiniteSet(Nodes)

VARIABLES pc,           \* where each execute call stands
          to_register,  \* mock nodes an execute call has still to register
          to_add,       \* chunks it has still to hand to add_task
          task_ids,     \* the tasks it has added
          reported,     \* the completed tasks its result aggregates
          monitor,      \* where the monitor of each execute call stands
          seen,         \* the available nodes that monitor read at its last tick
          failed_nodes,
          call,         \* the distributor call an agent or a monitor is making
          requests      \* the request queue of each lock

suiteVars == <<pc, to_register, to_add, task_ids, reported>>
monitorVars == <<monitor, seen, failed_nodes>>
execVars == <<vars, suiteVars, monitorVars, call, requests>>

-----------------------------------------------------------------------------
(***************************************************************************)
(* Processes and locks                                                     *)
(***************************************************************************)
Suite(s) == <<"suite", s>>
Monitor(s) == <<"monitor", s>>
Agent(a) == <<"agent", a>>

Callers == {Agent(a) : a \in Agents} \cup {Monitor(s) : s \in Distributors}
Processes == Callers \cup {Suite(s) : s \in Distributors}

Read(p) == [who |-> p, mode |-> "read"]
Write(p) == [who |-> p, mode |-> "write"]

Granted(lock, r) ==
    \E i \in DOMAIN requests[lock] :
        /\ requests[lock][i] = r
        /\ i = 1 \/ \A j \in 1..i : requests[lock][j].mode = "read"

\* The queue without request r, which its process gives up: a process never has the
\* same request twice.
Release(queue, r) ==
    LET place == CHOOSE i \in DOMAIN queue : queue[i] = r
    IN  RemoveAt(queue, place)

\* p has a request that is not granted, behind one of q; a process may wait for
\* itself when it asks to write what it already reads.
WaitsFor(p, q) ==
    \E lock \in DOMAIN requests : \E i, j \in DOMAIN requests[lock] :
        /\ i < j
        /\ requests[lock][i].who = q
        /\ requests[lock][j].who = p
        /\ ~Granted(lock, requests[lock][j])

Waiting == {p \in Processes : \E q \in Processes : WaitsFor(p, q)}

WaitCycle(S) == S # {} /\ \A p \in S : \E q \in S : WaitsFor(p, q)

NoCall == [op |-> "none"]

-----------------------------------------------------------------------------
(***************************************************************************)
(* execute                                                                 *)
(***************************************************************************)
\* The number of chunks of test_cases.chunks(chunk_size), for n test cases and
\* k available nodes.
chunk_count(n, k) ==
    LET size == IF n \div k > 1 THEN n \div k ELSE 1
    IN  (n + size - 1) \div size

\* initialize: spawn the monitor (and the cleanup task), then register the nodes.
Begin(s) ==
    /\ pc[s] = "idle"
    /\ pc' = [pc EXCEPT ![s] = "register"]
    /\ to_register' = [to_register EXCEPT ![s] = Nodes]
    /\ monitor' = [monitor EXCEPT ![s] = "tick"]
    /\ UNCHANGED <<vars, to_add, task_ids, reported, seen, failed_nodes,
                   call, requests>>

RegisterMockNode(s) ==
    /\ pc[s] = "register"
    /\ \E n \in to_register[s] :
          /\ register_node(n)
          /\ to_register' = [to_register EXCEPT ![s] = @ \ {n}]
          /\ pc' = [pc EXCEPT ![s] = IF to_register[s] = {n} THEN "partition" ELSE @]
    /\ UNCHANGED <<to_add, task_ids, reported, monitorVars, call, requests>>

Partition(s) ==
    /\ pc[s] = "partition"
    /\ IF get_available_nodes = {}
       THEN /\ pc' = [pc EXCEPT ![s] = "no_nodes"]
            /\ UNCHANGED <<to_add, requests>>
       ELSE \E n \in 0..MaxTests :
            LET chunks == chunk_count(n, Cardinality(get_available_nodes))
            IN  /\ pc' = [pc EXCEPT ![s] = IF chunks = 0 THEN "distribute" ELSE "add"]
                /\ to_add' = [to_add EXCEPT ![s] = chunks]
                /\ requests' = IF chunks = 0 THEN requests
                               ELSE [requests EXCEPT !["pending"] = Append(@, Write(Suite(s)))]
    /\ UNCHANGED <<vars, to_register, task_ids, reported, monitorVars, call>>

\* Identifiers are interchangeable: any fresh one stands for what Uuid returns.
FreshTasks == Tasks \ (issued \cup AgentTasks)
FreshTask == CHOOSE t \in FreshTasks : TRUE

\* One add_task of the loop over the chunks.
AddChunk(s) ==
    LET me == Write(Suite(s))
    IN  /\ pc[s] = "add"
        /\ Granted("pending", me)
        /\ FreshTasks # {}
        /\ add_task(FreshTask)
        /\ task_ids' = [task_ids EXCEPT ![s] = @ \cup {FreshTask}]
        /\ to_add' = [to_add EXCEPT ![s] = @ - 1]
        /\ IF to_add[s] > 1
           THEN /\ requests' = [requests EXCEPT !["pending"] = Append(Release(@, me), me)]
                /\ UNCHANGED pc
           ELSE /\ requests' = [requests EXCEPT !["pending"] = Release(@, me)]
                /\ pc' = [pc EXCEPT ![s] = "distribute"]
        /\ UNCHANGED <<to_register, reported, monitorVars, call>>

\* distribute_tasks before the queue locks: without a node it returns at once.
ReadNodes(s) ==
    /\ pc[s] = "distribute"
    /\ distribute_read(s)
    /\ pc' = [pc EXCEPT ![s] = IF snapshot'[s] = {} THEN "poll_pending"
                               ELSE "lock_pending"]
    /\ requests' = [requests EXCEPT !["pending"] = Append(@, Write(Suite(s)))]
    /\ UNCHANGED <<to_register, to_add, task_ids, reported, monitorVars, call>>

LockActive(s) ==
    /\ pc[s] = "lock_pending"
    /\ Granted("pending", Write(Suite(s)))
    /\ pc' = [pc EXCEPT ![s] = "lock_active"]
    /\ requests' = [requests EXCEPT !["active"] = Append(@, Write(Suite(s)))]
    /\ UNCHANGED <<vars, to_register, to_add, task_ids, reported, monitorVars, call>>

\* Broken variant: the write guard of the active map outlives the call.
Assign_keeps_guard(s) ==
    LET me == Write(Suite(s))
    IN  /\ pc[s] = "lock_active"
        /\ Granted("active", me)
        /\ distribute_assign(s)
        /\ pc' = [pc EXCEPT ![s] = "poll_pending"]
        /\ requests' = [requests EXCEPT !["pending"] = Append(Release(@, me), me)]
        /\ UNCHANGED <<to_register, to_add, task_ids, reported, monitorVars, call>>

Assign(s) ==
    LET me == Write(Suite(s))
    IN  /\ pc[s] = "lock_active"
        /\ Granted("active", me)
        /\ distribute_assign(s)
        /\ pc' = [pc EXCEPT ![s] = "poll_pending"]
        /\ requests' = [requests EXCEPT !["pending"] = Append(Release(@, me), me),
                                        !["active"] = Release(@, me)]
        /\ UNCHANGED <<to_register, to_add, task_ids, reported, monitorVars, call>>

\* all_tasks_completed locks the queue, then the active map.
PollPending(s) ==
    /\ pc[s] = "poll_pending"
    /\ Granted("pending", Write(Suite(s)))
    /\ pc' = [pc EXCEPT ![s] = "poll_active"]
    /\ requests' = [requests EXCEPT !["active"] = Append(@, Read(Suite(s)))]
    /\ UNCHANGED <<vars, to_register, to_add, task_ids, reported, monitorVars, call>>

PollActive(s) ==
    /\ pc[s] = "poll_active"
    /\ Granted("active", Read(Suite(s)))
    /\ pc' = [pc EXCEPT ![s] = IF all_tasks_completed THEN "collect" ELSE "check_wait"]
    /\ requests' = [requests EXCEPT !["pending"] = Release(@, Write(Suite(s))),
                                    !["active"] = Release(@, Read(Suite(s)))]
    /\ UNCHANGED <<vars, to_register, to_add, task_ids, reported, monitorVars, call>>

CheckWait(s) ==
    /\ pc[s] = "check_wait"
    /\ pc' = [pc EXCEPT ![s] = "distribute"]
    /\ UNCHANGED <<vars, to_register, to_add, task_ids, reported, monitorVars, call,
                   requests>>

\* Broken variant: no time-out while a task is out on a node.
TimeOut_when_idle(s) ==
    /\ pc[s] = "check_wait"
    /\ \A t \in Tasks : ~Active(t)
    /\ pc' = [pc EXCEPT ![s] = "timed_out"]
    /\ UNCHANGED <<vars, to_register, to_add, task_ids, reported, monitorVars, call,
                   requests>>

\* The same check once max_wait_time has elapsed.
TimeOut(s) ==
    /\ pc[s] = "check_wait"
    /\ pc' = [pc EXCEPT ![s] = "timed_out"]
    /\ UNCHANGED <<vars, to_register, to_add, task_ids, reported, monitorVars, call,
                   requests>>

\* get_completed_tasks and aggregate_results: every completed task of the shared
\* distributor, whichever suite added it; a task that was given up carries no result.
Collect(s) ==
    /\ pc[s] = "collect"
    /\ pc' = [pc EXCEPT ![s] = "ok"]
    /\ reported' = [reported EXCEPT ![s] = {t \in Tasks : completed[t] # "none"}]
    /\ UNCHANGED <<vars, to_register, to_add, task_ids, monitorVars, call, requests>>

SuiteStep(s) ==
    \/ RegisterMockNode(s) \/ Partition(s) \/ AddChunk(s) \/ ReadNodes(s)
    \/ LockActive(s) \/ Assign(s) \/ PollPending(s) \/ PollActive(s)
    \/ CheckWait(s) \/ TimeOut(s) \/ Collect(s)

-----------------------------------------------------------------------------
(***************************************************************************)
(* Calls of handle_task_completion and handle_task_failure, by an agent or *)
(* by a monitor                                                            *)
(***************************************************************************)
Report(a) ==
    LET p == Agent(a)
    IN  /\ call[p] = NoCall
        /\ \E t \in Tasks, op \in {"completion", "failure"} :
              /\ dispatches[t] > 0
              /\ call' = [call EXCEPT ![p] = [op |-> op, task |-> t]]
        /\ requests' = [requests EXCEPT !["active"] = Append(@, Write(p))]
        /\ UNCHANGED <<vars, suiteVars, monitorVars>>

\* Another user of the same distributor submits a task.
Submit(a) ==
    LET p == Agent(a)
    IN  /\ call[p] = NoCall
        /\ \E t \in AgentTasks \ issued :
              /\ \A q \in Callers : call[q] # [op |-> "add", task |-> t]
              /\ call' = [call EXCEPT ![p] = [op |-> "add", task |-> t]]
        /\ requests' = [requests EXCEPT !["pending"] = Append(@, Write(p))]
        /\ UNCHANGED <<vars, suiteVars, monitorVars>>

Add(p) ==
    /\ call[p].op = "add"
    /\ Granted("pending", Write(p))
    /\ add_task(call[p].task)
    /\ call' = [call EXCEPT ![p] = NoCall]
    /\ requests' = [requests EXCEPT !["pending"] = Release(@, Write(p))]
    /\ UNCHANGED <<suiteVars, monitorVars>>

Complete(p) ==
    /\ call[p].op = "completion"
    /\ Granted("active", Write(p))
    /\ handle_task_completion(call[p].task)
    /\ call' = [call EXCEPT ![p] = NoCall]
    /\ requests' = [requests EXCEPT !["active"] = Release(@, Write(p))]
    /\ UNCHANGED <<suiteVars, monitorVars>>

\* handle_task_failure locks the active map, then the queue.
FailLockPending(p) ==
    /\ call[p].op = "failure"
    /\ Granted("active", Write(p))
    /\ call' = [call EXCEPT ![p].op = "failing"]
    /\ requests' = [requests EXCEPT !["pending"] = Append(@, Write(p))]
    /\ UNCHANGED <<vars, suiteVars, monitorVars>>

Fail(p) ==
    /\ call[p].op = "failing"
    /\ Granted("pending", Write(p))
    /\ handle_task_failure(call[p].task)
    /\ call' = [call EXCEPT ![p] = NoCall]
    /\ requests' = [requests EXCEPT !["active"] = Release(@, Write(p)),
                                    !["pending"] = Release(@, Write(p))]
    /\ UNCHANGED <<suiteVars, monitorVars>>

CallStep(p) == Add(p) \/ Complete(p) \/ FailLockPending(p) \/ Fail(p)

(***************************************************************************)
(* FaultToleranceManager                                                   *)
(***************************************************************************)
MonitorTick(s) ==
    /\ monitor[s] = "tick"
    /\ monitor' = [monitor EXCEPT ![s] = "lock_failed"]
    /\ seen' = [seen EXCEPT ![s] = {v.node_id : v \in get_available_nodes}]
    /\ requests' = [requests EXCEPT !["failed"] = Append(@, Write(Monitor(s)))]
    /\ UNCHANGED <<vars, suiteVars, failed_nodes, call>>

MonitorLock(s) ==
    /\ monitor[s] = "lock_failed"
    /\ Granted("failed", Write(Monitor(s)))
    /\ monitor' = [monitor EXCEPT ![s] = "scan"]
    /\ requests' = [requests EXCEPT !["active"] = Append(@, Read(Monitor(s)))]
    /\ UNCHANGED <<vars, suiteVars, seen, failed_nodes, call>>

\* A task on a node that was not available, and is not marked as failed yet.
Orphan(s, t) == Active(t) /\ active_tasks[t] \notin seen[s] \cup failed_nodes

\* The loop over the active tasks keeps the read guard while it calls
\* handle_task_failure, which asks for the write guard of the same lock.
MonitorScan(s) ==
    LET me == Monitor(s)
    IN  /\ monitor[s] = "scan"
        /\ call[me] = NoCall
        /\ Granted("active", Read(me))
        /\ \/ /\ \E t \in Tasks :
                    /\ Orphan(s, t)
                    /\ failed_nodes' = failed_nodes \cup {active_tasks[t]}
                    /\ call' = [call EXCEPT ![me] = [op |-> "failure", task |-> t]]
              /\ requests' = [requests EXCEPT !["active"] = Append(@, Write(me))]
              /\ UNCHANGED monitor
           \/ /\ \A t \in Tasks : ~Orphan(s, t)
              /\ monitor' = [monitor EXCEPT ![s] = "tick"]
              /\ requests' = [requests EXCEPT !["active"] = Release(@, Read(me)),
                                              !["failed"] = Release(@, Write(me))]
              /\ UNCHANGED <<failed_nodes, call>>
        /\ UNCHANGED <<vars, suiteVars, seen>>

MonitorStep(s) == MonitorTick(s) \/ MonitorLock(s) \/ MonitorScan(s)

-----------------------------------------------------------------------------
ExecInit ==
    /\ Init
    /\ pc = [s \in Distributors |-> "idle"]
    /\ to_register = [s \in Distributors |-> {}]
    /\ to_add = [s \in Distributors |-> 0]
    /\ task_ids = [s \in Distributors |-> {}]
    /\ reported = [s \in Distributors |-> {}]
    /\ monitor = [s \in Distributors |-> "off"]
    /\ seen = [s \in Distributors |-> {}]
    /\ failed_nodes = {}
    /\ call = [p \in Callers |-> NoCall]
    /\ requests = [lock \in {"pending", "active", "failed"} |-> <<>>]

\* Heartbeats of the nodes, and the cleanup task of any started execute.
NodeEvent ==
    /\ \/ \E n \in Nodes, status \in NodeStatus, load \in 0..MaxLoad :
              update_heartbeat(n, status, load)
       \/ /\ \E s \in Distributors : pc[s] # "idle"
          /\ \E S \in SUBSET Nodes : cleanup(S)
    /\ UNCHANGED <<suiteVars, monitorVars, call, requests>>

ExecNext ==
    \/ NodeEvent
    \/ \E s \in Distributors : Begin(s) \/ SuiteStep(s) \/ MonitorStep(s)
    \/ \E a \in Agents : Report(a) \/ Submit(a)
    \/ \E p \in Callers : CallStep(p)

\* Tokio keeps polling every task that is ready; a call that checks the clock again
\* and again finds max_wait_time elapsed in the end.
ExecFairness ==
    /\ \A s \in Distributors : /\ WF_execVars(SuiteStep(s))
                               /\ SF_execVars(TimeOut(s))
                               /\ WF_execVars(MonitorStep(s))
    /\ \A p \in Callers : WF_execVars(CallStep(p))

ExecSpec == ExecInit /\ [][ExecNext]_execVars /\ ExecFairness

-----------------------------------------------------------------------------
(***************************************************************************)
(* Properties                                                              *)
(***************************************************************************)
Returned == {"ok", "timed_out", "no_nodes"}

\* Type invariant of the executor's own state.
ExecTypeOK ==
    /\ TypeOK
    /\ pc \in [Distributors -> Returned \cup {"idle", "register", "partition", "add",
                  "distribute", "lock_pending", "lock_active", "poll_pending",
                  "poll_active", "check_wait", "collect"}]
    /\ to_register \in [Distributors -> SUBSET Nodes]
    /\ to_add \in [Distributors -> Nat]
    /\ task_ids \in [Distributors -> SUBSET Tasks]
    /\ reported \in [Distributors -> SUBSET Tasks]
    /\ monitor \in [Distributors -> {"off", "tick", "lock_failed", "scan"}]
    /\ seen \in [Distributors -> SUBSET Nodes]
    /\ failed_nodes \subseteq Nodes
    /\ \A p \in Callers :
          call[p] \in {NoCall} \cup
                      [op : {"add", "completion", "failure", "failing"}, task : Tasks]
    /\ \A lock \in DOMAIN requests :
          requests[lock] \in Seq([who : Processes, mode : {"read", "write"}])

\* A result that execute returns covers every task the call added, although other
\* calls, agents and monitors change the shared queues between its last poll and
\* the moment it collects.
OkCoversOwnTasks ==
    ExecTypeOK /\ \A s \in Distributors : pc[s] = "ok" => task_ids[s] \subseteq reported[s]

\* Whenever processes wait for one another in a circle, one of them is inside
\* handle_task_failure: add_task, distribute_tasks, all_tasks_completed and
\* handle_task_completion are free of deadlock among themselves.
DeadlockNeedsFailure ==
    \A S \in SUBSET Waiting :
        WaitCycle(S) => \E p \in S \cap Callers : call[p].op \in {"failure", "failing"}

\* An execute call returns unless a circle of waiting processes has formed.
ReturnsUnlessDeadlocked ==
    \A s \in Distributors :
        pc[s] = "register" ~> \/ pc[s] \in Returned
                              \/ \E S \in SUBSET Waiting : WaitCycle(S)

\* "10 minute max wait": every execute call returns.
ExecuteReturns ==
    \A s \in Distributors : pc[s] = "register" ~> pc[s] \in Returned
=============================================================================
