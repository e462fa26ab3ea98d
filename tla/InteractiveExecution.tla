----------------------- MODULE InteractiveExecution -----------------------
(***************************************************************************)
(* InteractiveExecutor of src/interactive_execution.rs: debugging sessions *)
(* of several clients over one executor, which has one execution_state for *)
(* all of them, one VariableInspector and one ProgressReporter.            *)
(*                                                                         *)
(* Requests, assertions and extractions are placeholders that succeed, so  *)
(* no step fails and pause_on_failure never pauses; no operation cancels   *)
(* an execution.  What can fail is a progress subscriber.                  *)
(***************************************************************************)
EXTENDS Naturals, SequencesExt

CONSTANTS Debuggers,      \* clients of the executor
          DebugCases,     \* test cases: [url, assertions, extractions]
          DebugBatches,   \* sequences of test cases
          DebugOptions,   \* [dry_run, inspect_variables, breakpoints, step_through]
          Watchers,       \* progress subscribers
          MaxSessions,    \* bound on the sessions of all clients
          MaxRefused      \* bound on the events that the store refuses

ASSUME DebugAssumption ==
    /\ \A cases \in DebugBatches : cases \in Seq(DebugCases) \ {<<>>}
    /\ MaxSessions \in Nat /\ MaxRefused \in Nat

VARIABLES execution_state,     \* shared: what the last session to write it says
          session,             \* the session of each client
          publications,        \* the lifecycle events given to the bus, in order
          refused,             \* which of these the store refused: nobody gets them
          inspection_history,  \* the sessions a snapshot was taken for, in order
          sessions,            \* sessions begun so far
          shared_by            \* history: sessions another one ran beside

debugVars ==
    <<execution_state, session, publications, refused, inspection_history, sessions, shared_by>>

StepType == {"RequestExecution", "AssertionValidation", "VariableExtraction"}
DefaultOptions == [dry_run |-> FALSE, inspect_variables |-> FALSE, breakpoints |-> {},
                   step_through |-> FALSE]

\* The steps of a test case, all assertions being one.
create_execution_steps(case) ==
    <<"RequestExecution">>
    \o (IF case.assertions > 0 THEN <<"AssertionValidation">> ELSE <<>>)
    \o (IF case.extractions THEN <<"VariableExtraction">> ELSE <<>>)

\* The number the state shows counts every assertion.
calculate_total_steps(case) == 1 + case.assertions + (IF case.extractions THEN 1 ELSE 0)

\* A dry run finds an empty URL and nothing else.
validate_test_case(case) == IF case.url = "" THEN <<"InvalidUrl">> ELSE <<>>

NoSession == [at |-> "none", id |-> 0, cases |-> <<>>, options |-> DefaultOptions, step |-> 0,
              results |-> <<>>, snapshots |-> {}, tests |-> 0, errors |-> <<>>]
Running(c) == session[c].at \notin {"none", "returned", "failed"}
Steps(c) == create_execution_steps(Head(session[c].cases))
Goes(c, place) == session' = [session EXCEPT ![c].at = place]

-----------------------------------------------------------------------------
\* A session takes an id and resets the state, whoever uses it.
ResetFor(id, case, options) ==
    execution_state' = [id |-> id, current_step |-> 0, is_paused |-> FALSE,
                        total_steps |-> calculate_total_steps(case),
                        breakpoints |-> options.breakpoints, step_results |-> <<>>]

Begins(c, cases, options, tests) ==
    /\ sessions < MaxSessions
    /\ sessions' = sessions + 1
    /\ shared_by' = LET others == {d \in Debuggers \ {c} : Running(d)}
                    IN  IF others = {} THEN shared_by
                        ELSE shared_by \cup {sessions + 1} \cup {session[d].id : d \in others}
    /\ ResetFor(sessions + 1, Head(cases), options)
    /\ session' = [session EXCEPT ![c] =
                     [NoSession EXCEPT !.id = sessions + 1, !.cases = cases, !.options = options,
                                       !.tests = tests,
                                       !.at = IF options.dry_run THEN "validate" ELSE "start"]]
    /\ UNCHANGED <<publications, refused, inspection_history>>

execute_single_with_debugging(c, case, options) ==
    ~Running(c) /\ Begins(c, <<case>>, options, 0)

\* The batch runs its test cases one after the other with the default options.
execute(c, cases) == ~Running(c) /\ Begins(c, cases, DefaultOptions, 0)

\* A dry run ends without an event.
validate(c) ==
    /\ session[c].at = "validate"
    /\ session' = [session EXCEPT ![c].at = "returned",
                                  ![c].errors = validate_test_case(Head(session[c].cases))]
    /\ UNCHANGED <<execution_state, publications, refused, inspection_history, sessions, shared_by>>

\* The bus refuses what its store cannot keep; publish_execution_event drops that error.
publish_execution_event(c, kind) ==
    /\ publications' = Append(publications, <<session[c].id, kind>>)
    /\ \/ UNCHANGED refused
       \/ /\ Cardinality(refused) < MaxRefused
          /\ refused' = refused \cup {Len(publications) + 1}

publish_started(c) ==
    /\ session[c].at = "start"
    /\ publish_execution_event(c, "TestCaseStarted")
    /\ Goes(c, "step")
    /\ UNCHANGED <<execution_state, inspection_history, sessions, shared_by>>

Breaks(c) == session[c].options.step_through \/ session[c].step \in session[c].options.breakpoints

begin_step(c) ==
    /\ session[c].at = "step" /\ session[c].step < Len(Steps(c))
    /\ execution_state' = [execution_state EXCEPT !.current_step = session[c].step]
    /\ Goes(c, IF Breaks(c) THEN "pause" ELSE "inspect")
    /\ UNCHANGED <<publications, refused, inspection_history, sessions, shared_by>>

pause_execution(c) ==
    /\ session[c].at \in {"pause", "paused"}
    /\ execution_state' = [execution_state EXCEPT !.is_paused = session[c].at = "pause"]
    /\ Goes(c, IF session[c].at = "pause" THEN "paused" ELSE "inspect")
    /\ UNCHANGED <<publications, refused, inspection_history, sessions, shared_by>>

\* Steps count from 0.
inspect_and_execute(c) ==
    /\ session[c].at = "inspect"
    /\ LET s == session[c] IN
       /\ inspection_history' = IF s.options.inspect_variables
                                THEN Append(inspection_history, s.id) ELSE inspection_history
       /\ session' = [session EXCEPT ![c].at = "store",
             ![c].snapshots = IF s.options.inspect_variables THEN @ \cup {s.step} ELSE @,
             ![c].results = Append(@, Steps(c)[s.step + 1])]
    /\ UNCHANGED <<execution_state, publications, refused, sessions, shared_by>>

\* Broken variant: the result is stored again when the step is reported.
store_result_twice(c) ==
    /\ session[c].at \in {"store", "report"} /\ Len(execution_state.step_results) < 5
    /\ execution_state' = [execution_state EXCEPT !.step_results = Append(@, Last(session[c].results))]
    /\ Goes(c, "report")
    /\ UNCHANGED <<publications, refused, inspection_history, sessions, shared_by>>

store_result(c) ==
    /\ session[c].at = "store"
    /\ execution_state' = [execution_state EXCEPT !.step_results = Append(@, Last(session[c].results))]
    /\ Goes(c, "report")
    /\ UNCHANGED <<publications, refused, inspection_history, sessions, shared_by>>

\* The subscribers are told in their order, until one fails: then the session ends without
\* its second event, and a batch without its results.
report_step_progress(c) ==
    /\ session[c].at = "report"
    /\ \/ session' = [session EXCEPT ![c].at = "step", ![c].step = @ + 1]
       \/ Watchers # {} /\ Goes(c, "failed")
    /\ UNCHANGED <<execution_state, publications, refused, inspection_history, sessions, shared_by>>

\* No step fails, so the last event is always the one of success.
publish_completed(c) ==
    /\ session[c].at = "step" /\ session[c].step = Len(Steps(c))
    /\ publish_execution_event(c, "TestCaseCompleted")
    /\ session' = [session EXCEPT ![c].at = IF Len(session[c].cases) = 1 THEN "returned" ELSE "next"]
    /\ UNCHANGED <<execution_state, inspection_history, sessions, shared_by>>

next_case(c) ==
    /\ session[c].at = "next"
    /\ Begins(c, Tail(session[c].cases), DefaultOptions, session[c].tests + 1)

-----------------------------------------------------------------------------
DebugInit ==
    /\ execution_state = [id |-> 0, current_step |-> 0, is_paused |-> FALSE, total_steps |-> 0,
                          breakpoints |-> {}, step_results |-> <<>>]
    /\ session = [c \in Debuggers |-> NoSession]
    /\ publications = <<>> /\ refused = {} /\ inspection_history = <<>>
    /\ sessions = 0 /\ shared_by = {}

DebugNext ==
    \E c \in Debuggers :
        \/ \E case \in DebugCases, options \in DebugOptions :
              execute_single_with_debugging(c, case, options)
        \/ \E cases \in DebugBatches : execute(c, cases)
        \/ validate(c) \/ publish_started(c) \/ begin_step(c) \/ pause_execution(c)
        \/ inspect_and_execute(c) \/ store_result(c) \/ report_step_progress(c)
        \/ publish_completed(c) \/ next_case(c)

DebugSpec == DebugInit /\ [][DebugNext]_debugVars

-----------------------------------------------------------------------------
DebugTypeOK ==
    /\ execution_state.id <= sessions /\ execution_state.is_paused \in BOOLEAN
    /\ \A c \in Debuggers : Range(session[c].results) \subseteq StepType

\* Where the events of a kind that a session gave to the bus are, and the snapshots it took.
Publications(id, kind) == {i \in DOMAIN publications : publications[i] = <<id, kind>>}
Inspected(id) == {i \in DOMAIN inspection_history : inspection_history[i] = id}
Done(s) == s.at \in {"returned", "next"} /\ ~s.options.dry_run

\* Whatever the sessions of the others do, a session executes each step of its test case
\* once and in order, and takes the snapshot of each when asked to.
StepsInOrder ==
    \A c \in Debuggers : session[c].at \notin {"none", "validate"} /\ ~session[c].options.dry_run =>
        /\ IsPrefix(session[c].results, Steps(c))
        /\ session[c].at = "returned" => session[c].results = Steps(c)
        /\ session[c].options.inspect_variables =>
              session[c].snapshots = 0..Len(session[c].results) - 1
        /\ Cardinality(Inspected(session[c].id)) = Cardinality(session[c].snapshots)

\* A session that returned has given the bus its start and then its end, each once; one that
\* failed, or was a dry run, has given no end.  What the store refuses is lost without an
\* error: only so do subscribers see an end without its start, or a session without an end.
EventsPaired ==
    \A c \in Debuggers :
        LET started == Publications(session[c].id, "TestCaseStarted")
            completed == Publications(session[c].id, "TestCaseCompleted")
        IN  /\ Cardinality(started) <= 1 /\ Cardinality(completed) <= Cardinality(started)
            /\ Done(session[c]) <=> completed # {}
            /\ \A i \in started, j \in completed : i < j
            /\ completed \ refused # {} /\ started \ refused = {} => started \cap refused # {}
            /\ Done(session[c]) /\ completed \ refused = {} => completed \cap refused # {}

\* A session that no other ran beside sees itself in the shared state: its id, its results,
\* and a pause exactly while it pauses.
AloneStateTrue ==
    \A c \in Debuggers :
        session[c].id = execution_state.id /\ session[c].id # 0 /\ session[c].id \notin shared_by =>
            /\ execution_state.step_results =
                  IF session[c].at = "store" THEN Front(session[c].results) ELSE session[c].results
            /\ execution_state.is_paused <=> session[c].at = "paused"

SessionsSound == StepsInOrder /\ EventsPaired /\ AloneStateTrue
=============================================================================
