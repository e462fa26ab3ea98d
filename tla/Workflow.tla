------------------------------ MODULE Workflow ------------------------------
(***************************************************************************)
(* WorkflowValidation of src/workflow_validation.rs: the steps of a        *)
(* workflow in the order of their dependencies, and the rollback.          *)
(*                                                                         *)
(* Requests are simulated by the code, so their responses are known.  The  *)
(* time-out of a workflow is stored and never looked at.                   *)
(***************************************************************************)
EXTENDS Naturals, SequencesExt, DepthFirst

CONSTANTS Workflows,    \* [steps, rollback_on_failure]
          MaxRuns       \* bound on the runs of one validation

\* Workflows list their steps, and the steps what they depend on.
ASSUME WorkflowAssumption ==
    \A w \in Workflows :
        /\ w.steps \in Seq(Range(w.steps))
        /\ \A s \in Range(w.steps) : s.depends_on \in Seq(Range(s.depends_on))

VARIABLES workflow,         \* the workflow of the validation
          execution_order,  \* steps that were executed, in order
          variables,        \* what was extracted from responses
          rest,             \* steps that the run has still to execute or to undo
          phase,            \* "idle", "executing", "rolling back", "ok" or "error"
          runs,             \* runs begun
          earlier,          \* steps of the state that were there before this run
          requested,        \* history: the requests of this run that execute a step, in order
          undone            \* history: the steps that this run has undone, in order

workflowVars ==
    <<workflow, execution_order, variables, rest, phase, runs, earlier, requested, undone>>

find_step(steps, id) == steps[CHOOSE i \in DOMAIN steps :
                                 steps[i].id = id /\ \A j \in 1..(i - 1) : steps[j].id # id]
Ids_of(steps) == {steps[i].id : i \in DOMAIN steps}

\* Dependencies before the steps that have them, depth first.
Dependencies(steps) == [id \in Ids_of(steps) |-> find_step(steps, id).depends_on]
resolve_execution_order(steps) ==
    resolve(Dependencies(steps), [i \in DOMAIN steps |-> steps[i].id])

-----------------------------------------------------------------------------
(***************************************************************************)
(* One step                                                                *)
(***************************************************************************)
\* An empty body is no JSON.
simulate_request_execution(request) ==
    CASE request = "login" -> [status |-> "200", json |-> TRUE, token |-> "token", data |-> "null"]
      [] request = "POST" -> [status |-> "201", json |-> TRUE, token |-> "null", data |-> "null"]
      [] request = "GET" -> [status |-> "200", json |-> TRUE, token |-> "null", data |-> "2"]
      [] request = "DELETE" -> [status |-> "204", json |-> FALSE, token |-> "null", data |-> "null"]

\* "$.token", "$.data.length" and fields that no response has.
extract_from_json_path(response, path) ==
    CASE ~response.json -> "error"
      [] path = "$.token" -> response.token
      [] path = "$.data.length" -> response.data
      [] OTHER -> "null"

Extracted(response, extraction) ==
    CASE extraction.type = "JsonPath" -> extract_from_json_path(response, extraction.path)
      [] extraction.type = "Header" -> IF extraction.path = "Content-Type" THEN "json" ELSE "null"
      [] extraction.type = "StatusCode" -> response.status
      [] extraction.type = "ResponseTime" -> "100"

\* Only exact values and NotEmpty are supported.
compare_values(actual, expected) ==
    CASE expected.kind = "Exact" -> actual = expected.value
      [] expected.kind = "NotEmpty" -> actual # "null"
      [] OTHER -> FALSE

execute_assertion(response, assertion) ==
    CASE assertion.type = "status_code" -> compare_values(response.status, assertion.expected)
      [] assertion.type = "json_path" ->
            LET actual == extract_from_json_path(response, assertion.path)
            IN  actual # "error" /\ compare_values(actual, assertion.expected)
      [] OTHER -> FALSE

\* A reference to a variable nobody extracted stays in the request.
Requested(id, refs) == [id |-> id, left |-> refs \ DOMAIN variables]

\* A name that is extracted again has the new value.
Learned(found) ==
    [x \in DOMAIN found \cup DOMAIN variables |->
        IF x \in DOMAIN found THEN found[x] ELSE variables[x]]

-----------------------------------------------------------------------------
(***************************************************************************)
(* A run                                                                   *)
(***************************************************************************)
\* Called on the validation itself, execute_workflow goes on with the state of the runs
\* before; AssertionPlugin::execute works on a copy that no run has touched.
execute_workflow ==
    /\ phase \in {"idle", "ok", "error"} /\ runs < MaxRuns
    /\ runs' = runs + 1
    /\ LET resolved == resolve_execution_order(workflow.steps)
       IN  /\ phase' = IF resolved.ok THEN "executing" ELSE "error"
           /\ rest' = IF resolved.ok THEN resolved.order ELSE <<>>
    /\ requested' = <<>> /\ undone' = <<>> /\ earlier' = execution_order
    /\ UNCHANGED <<workflow, execution_order, variables>>

\* Broken variant: the rollback goes from the first step to the last.
RollBack_forward(order) ==
    IF workflow.rollback_on_failure THEN rest' = order /\ phase' = "rolling back"
    ELSE rest' = <<>> /\ phase' = "error"

RollBack(order) ==
    IF workflow.rollback_on_failure THEN rest' = Reverse(order) /\ phase' = "rolling back"
    ELSE rest' = <<>> /\ phase' = "error"

\* A step whose assertions fail is executed and extracted all the same; one whose response
\* cannot be read is not.
execute_step ==
    /\ phase = "executing" /\ rest # <<>>
    /\ LET step == find_step(workflow.steps, Head(rest))
           response == simulate_request_execution(step.request)
           found == [x \in {e.name : e \in step.extractions} |->
                        Extracted(response, CHOOSE e \in step.extractions : e.name = x)]
           passed == \A a \in step.assertions : execute_assertion(response, a)
       IN  /\ requested' = Append(requested, Requested(step.id, step.refs))
           /\ IF "error" \in Range(found)
              THEN RollBack(execution_order) /\ UNCHANGED <<execution_order, variables>>
              ELSE /\ execution_order' = Append(execution_order, step.id)
                   /\ variables' = Learned(found)
                   /\ IF passed THEN rest' = Tail(rest) /\ UNCHANGED phase
                      ELSE RollBack(execution_order')
    /\ UNCHANGED <<workflow, runs, earlier, undone>>

rollback_step ==
    /\ phase = "rolling back" /\ rest # <<>>
    /\ LET step == find_step(workflow.steps, Head(rest))
       IN  undone' = IF step.rollback = "" THEN undone ELSE Append(undone, step.id)
    /\ rest' = Tail(rest)
    /\ UNCHANGED <<workflow, execution_order, variables, phase, runs, earlier, requested>>

finish ==
    /\ phase \in {"executing", "rolling back"} /\ rest = <<>>
    /\ phase' = IF phase = "executing" THEN "ok" ELSE "error"
    /\ UNCHANGED <<workflow, execution_order, variables, rest, runs, earlier, requested, undone>>

WorkflowInit ==
    /\ workflow \in Workflows
    /\ execution_order = <<>> /\ variables = <<>> /\ rest = <<>> /\ phase = "idle"
    /\ runs = 0 /\ earlier = <<>> /\ requested = <<>> /\ undone = <<>>

WorkflowNext == execute_workflow \/ execute_step \/ rollback_step \/ finish

WorkflowSpec == WorkflowInit /\ [][WorkflowNext]_workflowVars

-----------------------------------------------------------------------------
(***************************************************************************)
(* Properties                                                              *)
(***************************************************************************)
WorkflowTypeOK ==
    /\ phase \in {"idle", "executing", "rolling back", "ok", "error"}
    /\ Range(execution_order) \cup Range(rest) \subseteq Ids_of(workflow.steps)

\* A step is requested once in a run, after all it depends on, and with the variables they
\* extract replaced.
StepsInDependencyOrder ==
    \A i \in DOMAIN requested :
        /\ \A j \in 1..(i - 1) : requested[j].id # requested[i].id
        /\ \A d \in Range(find_step(workflow.steps, requested[i].id).depends_on) :
              /\ \E j \in 1..(i - 1) : requested[j].id = d
              /\ \A e \in find_step(workflow.steps, d).extractions :
                    e.name \notin requested[i].left

\* For each n: those of the first n steps that can be undone, the last one first.
Undoable(steps, order) ==
    LET undos[n \in 0..Len(order)] ==
            IF n = 0 THEN <<>>
            ELSE IF find_step(steps, order[n]).rollback = "" THEN undos[n - 1]
            ELSE <<order[n]>> \o undos[n - 1]
    IN  undos

\* A run that is ok has executed every step and undone none.  One that ends with an error
\* has undone, from the last to the first, the steps of its state that can be undone: its
\* own, with the one whose assertions failed and without the one whose response could not
\* be read, and then once more those of the runs before.
UndoneInReverse ==
    /\ phase = "ok" => /\ undone = <<>>
                       /\ {requested[i].id : i \in DOMAIN requested} = Ids_of(workflow.steps)
    /\ phase = "error" /\ requested # <<>> =>
          undone = IF workflow.rollback_on_failure
                   THEN Undoable(workflow.steps, execution_order)[Len(execution_order)] ELSE <<>>
    /\ phase # "idle" =>
          \E n \in {Len(requested), Len(requested) - 1} :
              execution_order = earlier \o [i \in 1..n |-> requested[i].id]

\* Before it is executed, no dependency is missing or circular: otherwise nothing is sent.
NothingOnCycles ==
    phase = "error" /\ requested = <<>> =>
        Circular(Dependencies(workflow.steps)) \/ Dangling(Dependencies(workflow.steps))

WorkflowSound == StepsInDependencyOrder /\ UndoneInReverse /\ NothingOnCycles
=============================================================================
