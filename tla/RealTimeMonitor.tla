-------------------------- MODULE RealTimeMonitor --------------------------
(***************************************************************************)
(* RealTimeMonitor of src/real_time_monitoring.rs under concurrent         *)
(* callers.  Its three parts (tracker, cancellation tokens, result         *)
(* channels) have a lock each, and an operation passes from one to the     *)
(* next with no lock held: a step of a caller is one part's share.         *)
(***************************************************************************)
EXTENDS Naturals, FiniteSets

CONSTANTS Executions, Clients,
          Total,        \* total_tests of every execution
          MaxCalls      \* bound on the operations of all clients

VARIABLES executions,   \* active_executions: the progress of an execution, or Untracked
          metrics,      \* the metrics of the tracker: active executions and samples
          tokens,       \* "none", "live" or "cancelled"
          channels,     \* the executions that have a result channel
          at,           \* where each client is inside its operation
          overlapped,   \* history: executions that were started, cancelled or
                        \* completed by overlapping operations
          operations    \* operations begun so far

monitorVars == <<executions, metrics, tokens, channels, at, overlapped, operations>>

ExecutionStatus == {"Starting", "Running", "Completed", "Failed", "Cancelled"}
ExecutionProgress == [completed : 0..MaxCalls, failed : 0..MaxCalls, status : ExecutionStatus]
ExecutionMetrics == [active : 0..Cardinality(Executions), samples : 0..100]
Untracked == [completed |-> 0, failed |-> 0, status |-> "Untracked"]
Away == [op |-> "away"]

Tracked == {x \in Executions : executions[x] # Untracked}
\* shutdown_all holds the map of tokens for reading while it awaits it for writing.
TokensHeld == \E c \in Clients : at[c].op = "shutdown_all" /\ at[c].step = "cancelling"

-----------------------------------------------------------------------------
Moves(c, step) == at' = [at EXCEPT ![c].step = step]
Returns(c) == at' = [at EXCEPT ![c] = Away]
Inside(c, op, step) == at[c].op = op /\ at[c].step = step

Changing == {"start_monitoring", "complete_monitoring", "cancel_execution"}
Call(c, op, x, step) ==
    /\ at[c] = Away /\ operations < MaxCalls
    /\ operations' = operations + 1
    /\ at' = [at EXCEPT ![c] = [op |-> op, x |-> x, step |-> step]]
    /\ overlapped' = IF op \in Changing /\ \E d \in Clients : at[d].op \in Changing /\ at[d].x = x
                THEN overlapped \cup {x} ELSE overlapped

\* The first share of an operation is done as it is called.
add_execution(c, x) ==
    /\ Call(c, "start_monitoring", x, "token")
    /\ executions' = [executions EXCEPT ![x] =
                          [completed |-> 0, failed |-> 0, status |-> "Starting"]]
    /\ metrics' = [metrics EXCEPT !.active = Cardinality(Tracked \cup {x})]
    /\ UNCHANGED <<tokens, channels>>

create_token(c) ==
    /\ Inside(c, "start_monitoring", "token") /\ ~TokensHeld
    /\ tokens' = [tokens EXCEPT ![at[c].x] = "live"]
    /\ Moves(c, "channel")
    /\ UNCHANGED <<executions, metrics, channels, overlapped, operations>>

create_channel(c) ==
    /\ Inside(c, "start_monitoring", "channel")
    /\ channels' = channels \cup {at[c].x}
    /\ Returns(c)
    /\ UNCHANGED <<executions, metrics, tokens, overlapped, operations>>

\* total_tests - completed_tests on usize: when more tests are reported than there are, a
\* build with overflow checks panics, after the status is set, and any other goes on.
Overflows(x) == executions[x].completed > Total

update_progress(c, x) ==
    /\ x \in Tracked
    /\ executions' = [executions EXCEPT ![x].status = "Running"]
    /\ \/ Call(c, "update_progress", x, "stream")
       \/ Overflows(x) /\ Call(c, "update_progress", x, "panicked")
    /\ UNCHANGED <<metrics, tokens, channels>>

record_test_completion(c, x, success) ==
    /\ Call(c, "report_test_completion", x, "stream")
    /\ executions' =
          IF x \notin Tracked THEN executions
          ELSE [executions EXCEPT ![x].completed = @ + 1,
                                  ![x].failed = IF success THEN @ ELSE @ + 1]
    /\ UNCHANGED <<metrics, tokens, channels>>

\* Broken variant: the execution that ends is counted among the active ones.
complete_execution_counted(c, x) ==
    /\ Call(c, "complete_monitoring", x, "token")
    /\ metrics' = [active |-> Cardinality(Tracked),
                   samples |-> IF x \in Tracked /\ metrics.samples < 100
                               THEN metrics.samples + 1 ELSE metrics.samples]
    /\ executions' = [executions EXCEPT ![x] = Untracked]
    /\ UNCHANGED <<tokens, channels>>

\* The count goes down by one whether the execution is known or not.
complete_execution(c, x) ==
    /\ Call(c, "complete_monitoring", x, "token")
    /\ metrics' = [active |-> IF Tracked = {} THEN 0 ELSE Cardinality(Tracked) - 1,
                   samples |-> IF x \in Tracked /\ metrics.samples < 100
                               THEN metrics.samples + 1 ELSE metrics.samples]
    /\ executions' = [executions EXCEPT ![x] = Untracked]
    /\ UNCHANGED <<tokens, channels>>

remove_token(c) ==
    /\ Inside(c, "complete_monitoring", "token") /\ ~TokensHeld
    /\ tokens' = [tokens EXCEPT ![at[c].x] = "none"]
    /\ Moves(c, "stream")
    /\ UNCHANGED <<executions, metrics, channels, overlapped, operations>>

cancel_token(c, x) ==
    /\ ~TokensHeld
    /\ Call(c, "cancel_execution", x, "tracker")
    /\ tokens' = [tokens EXCEPT ![x] = IF @ = "none" THEN @ ELSE "cancelled"]
    /\ UNCHANGED <<executions, metrics, channels>>

cancel_tracked(c) ==
    /\ Inside(c, "cancel_execution", "tracker")
    /\ executions' = IF at[c].x \in Tracked
                     THEN [executions EXCEPT ![at[c].x].status = "Cancelled"] ELSE executions
    /\ Moves(c, "stream")
    /\ UNCHANGED <<metrics, tokens, channels, overlapped, operations>>

\* create_channel drops its receiver, so a send to any channel there is fails.
send_to_channel(x) == x \notin channels

\* The end of an operation that only sends: its result is lost, or it returns the error.
stream(c) ==
    /\ \E op \in {"update_progress", "report_test_completion", "cancel_execution"} :
          Inside(c, op, "stream")
    /\ Returns(c)
    /\ UNCHANGED <<executions, metrics, tokens, channels, overlapped, operations>>

\* The error of the send returns before the channel is removed.
complete_stream(c) ==
    /\ Inside(c, "complete_monitoring", "stream")
    /\ channels' = IF send_to_channel(at[c].x) THEN channels \ {at[c].x} ELSE channels
    /\ Returns(c)
    /\ UNCHANGED <<executions, metrics, tokens, overlapped, operations>>

\* With no token there is nothing to cancel; with one, the first cancel_execution awaits
\* the write lock of the map that this very call reads.  shutdown_signal stays locked too.
shutdown_all(c) ==
    /\ \A d \in Clients : at[d].op # "shutdown_all"
    /\ Call(c, "shutdown_all", "all",
            IF \A x \in Executions : tokens[x] = "none" THEN "done" ELSE "cancelling")
    /\ UNCHANGED <<executions, metrics, tokens, channels>>

shutdown_done(c) ==
    /\ Inside(c, "shutdown_all", "done") \/ Inside(c, "update_progress", "panicked")
    /\ Returns(c)
    /\ UNCHANGED <<executions, metrics, tokens, channels, overlapped, operations>>

-----------------------------------------------------------------------------
MonitorInit ==
    /\ executions = [x \in Executions |-> Untracked]
    /\ metrics = [active |-> 0, samples |-> 0]
    /\ tokens = [x \in Executions |-> "none"]
    /\ channels = {} /\ overlapped = {} /\ operations = 0
    /\ at = [c \in Clients |-> Away]

Proceed(c) ==
    \/ create_token(c) \/ create_channel(c) \/ remove_token(c) \/ cancel_tracked(c)
    \/ stream(c) \/ complete_stream(c) \/ shutdown_done(c)

MonitorNext ==
    \E c \in Clients :
        \/ Proceed(c)
        \/ shutdown_all(c)
        \/ \E x \in Executions :
              \/ add_execution(c, x) \/ update_progress(c, x)
              \/ complete_execution(c, x) \/ cancel_token(c, x)
              \/ \E success \in BOOLEAN : record_test_completion(c, x, success)

MonitorSpec == MonitorInit /\ [][MonitorNext]_monitorVars

\* A task of the runtime that is inside an operation is polled until it waits for a lock.
MonitorFairness == \A c \in Clients : WF_monitorVars(Proceed(c))

-----------------------------------------------------------------------------
\* The parts hold what the code puts there.
MonitorTypeOK ==
    /\ \A x \in Executions : executions[x] \in ExecutionProgress \cup {Untracked}
    /\ metrics \in ExecutionMetrics
    /\ tokens \in [Executions -> {"none", "live", "cancelled"}]
    /\ channels \subseteq Executions /\ overlapped \subseteq Executions

\* What starts and ends an execution passes from part to part; between two operations the
\* parts agree all the same: an execution can be cancelled exactly while it is tracked.
\* A start that overlaps an end of the same execution may leave a token behind.
TokensMatch ==
    \A x \in Executions :
        (\A c \in Clients : at[c] = Away \/ at[c].x # x) /\ x \notin overlapped
        => (tokens[x] # "none" <=> x \in Tracked)

\* Nobody is shown a cancelled execution whose token has not been cancelled, although
\* update_progress may overwrite the status in between.
CancelIsSignalled ==
    \A x \in Executions \ overlapped :
        x \in Tracked /\ executions[x].status = "Cancelled" /\ tokens[x] # "none"
        => tokens[x] = "cancelled"

\* Failures are among the completions, and when every execution is tracked the metrics
\* count them all: the count is wrong only after the end of an unknown execution.
CountsAgree ==
    /\ \A x \in Tracked : executions[x].failed <= executions[x].completed
    /\ metrics.active <= Cardinality(Tracked)
    /\ Tracked = {} => metrics.active = 0

\* The three parts of the monitor agree although no lock spans them.
MonitorAgrees == TokensMatch /\ CancelIsSignalled /\ CountsAgree

\* Every operation returns, unless shutdown_all has met a token: then it waits for itself,
\* and with it whoever needs the tokens.
MonitorCallsEnd ==
    \A c \in Clients :
        at[c] # Away ~> at[c] = Away \/ (TokensHeld /\ \E x \in Executions : tokens[x] # "none")
=============================================================================
