------------------------------ MODULE Alerting ------------------------------
(***************************************************************************)
(* AlertingSystem of src/alerting.rs: loops that evaluate the rules on a   *)
(* snapshot of the metrics, beside callers that add and remove rules and   *)
(* acknowledge alerts.  A loop looks at the state of a rule under the      *)
(* lock, releases it, and acts on what it saw under the lock again; every  *)
(* start adds a loop over the same state.                                  *)
(***************************************************************************)
EXTENDS Integers, SequencesExt

CONSTANTS AlertRules,      \* the rules that may be added
          Conditions,      \* the conditions a rule may have
          Snapshots,       \* the snapshots that the metrics may yield
          Loops,           \* how many times start may be called, at most
          Registered,      \* the channels of the notification manager that are available
          DefaultChannels,
          MaxClock,         \* bound on the clock
          MaxRuleChanges,      \* bound on the rules added and removed
          MaxRounds        \* bound on the rounds of all loops

ASSUME AlertAssumption ==
    /\ \A c \in Conditions : c.kind \in {"ErrorRate", "ResponseTime", "ResourceUsage",
                                       "TestFailureRate", "MetricThreshold"}
    /\ \A r \in AlertRules : Len(r.escalations) \in Nat
    /\ IsFiniteSet(Loops) /\ MaxClock \in Nat

VARIABLES rules,        \* the rules, in the order they were added
          alertState,   \* what is known of each rule; level -1: no entry yet
          loops,        \* where each loop is; "none" before its start
          clock, rounds, rule_changes,
          raised,       \* alerts raised so far: their ids are 1..raised
          told          \* history: the notifications of each rule, in order

alertVars == <<rules, alertState, loops, clock, rounds, rule_changes, raised, told>>

RuleIds == {r.id : r \in AlertRules}
NoAlert == 0
Unseen == [alert |-> NoAlert, status |-> "Firing", first |-> 0, level |-> -1]
AlertStatus == {"Firing", "Acknowledged"}
AlertState == [alert : 0..raised, status : AlertStatus, first : 0..MaxClock, level : -1..2]

\* The part of the snapshot a condition looks at (times in milliseconds).  Network usage
\* is not measured; a threshold on a metric reads the number of requests, whatever its name.
get_current_value(condition, s) ==
    CASE condition.kind = "ErrorRate" -> s.error_rate
      [] condition.kind = "ResponseTime" ->
            (CASE condition.percentile = 95 -> s.p95
               [] condition.percentile = 99 -> s.p99
               [] OTHER -> s.average)
      [] condition.kind = "ResourceUsage" ->
            IF condition.resource = "Network" THEN 0 ELSE s.usage[condition.resource]
      [] condition.kind = "TestFailureRate" -> 100 - s.success_rate
      [] condition.kind = "MetricThreshold" -> s.total_requests

get_threshold_value(condition) == condition.threshold

ComparisonOperator == {"GreaterThan", "LessThan", "Equal"}
\* Only two comparisons are carried out; the others never trigger.
evaluate_condition(condition, s) ==
    CASE condition.kind = "ErrorRate" -> s.error_rate > condition.threshold
      [] condition.kind = "ResponseTime" ->
            (CASE condition.percentile = 95 -> s.p95
               [] condition.percentile = 99 -> s.p99
               [] OTHER -> s.average) > condition.threshold
      [] condition.kind = "ResourceUsage" ->
            (IF condition.resource = "Network" THEN 0 ELSE s.usage[condition.resource])
                > condition.threshold
      [] condition.kind = "TestFailureRate" -> 100 - s.success_rate > condition.threshold
      [] condition.kind = "MetricThreshold" ->
            \/ condition.operator = "GreaterThan" /\ s.total_requests > condition.threshold
            \/ condition.operator = "LessThan" /\ s.total_requests < condition.threshold

-----------------------------------------------------------------------------
add_rule(r) ==
    /\ rule_changes < MaxRuleChanges
    /\ rule_changes' = rule_changes + 1
    /\ rules' = Append(rules, r)
    /\ UNCHANGED <<alertState, loops, clock, rounds, raised, told>>

\* The first rule of that id goes; its state, and an alert that fires, stay behind.
remove_rule(id) ==
    /\ rule_changes < MaxRuleChanges /\ \E i \in DOMAIN rules : rules[i].id = id
    /\ rule_changes' = rule_changes + 1
    /\ rules' = RemoveAt(rules, SelectInSeq(rules, LAMBDA r : r.id = id))
    /\ UNCHANGED <<alertState, loops, clock, rounds, raised, told>>

get_active_alerts == {alertState[id].alert : id \in RuleIds} \ {NoAlert}

acknowledge_alert(a) ==
    /\ a \in get_active_alerts
    /\ alertState' = [id \in RuleIds |->
          IF alertState[id].alert = a THEN [alertState[id] EXCEPT !.status = "Acknowledged"]
          ELSE alertState[id]]
    /\ UNCHANGED <<rules, loops, clock, rounds, rule_changes, raised, told>>

start_alerting(l) ==
    /\ loops[l].at = "none"
    /\ loops' = [loops EXCEPT ![l] = [at |-> "waiting"]]
    /\ UNCHANGED <<rules, alertState, clock, rounds, rule_changes, raised, told>>

\* A round works on the rules, the snapshot and the time of its beginning.
evaluate_rules(l, s) ==
    /\ loops[l].at = "waiting" /\ rules # <<>> /\ rounds < MaxRounds
    /\ rounds' = rounds + 1
    /\ loops' = [loops EXCEPT ![l] = [at |-> "look", todo |-> rules, snapshot |-> s, now |-> clock]]
    /\ UNCHANGED <<rules, alertState, clock, rule_changes, raised, told>>

Rule(l) == Head(loops[l].todo)
State(l) == alertState[Rule(l).id]
NextRule(l) == IF Len(loops[l].todo) = 1 THEN [at |-> "waiting"]
               ELSE [loops[l] EXCEPT !.at = "look", !.todo = Tail(@)]
Sends(l, kind, a, level, names) ==
    [at |-> "send", todo |-> loops[l].todo, snapshot |-> loops[l].snapshot, now |-> loops[l].now,
     notification |-> [kind |-> kind, alert |-> a, level |-> level,
                       to |-> (IF names = {} THEN DefaultChannels ELSE names) \cap Registered]]

\* What a rule needs, as its state is now.
needs(l) ==
    LET triggers == evaluate_condition(Rule(l).condition, loops[l].snapshot)
    IN  CASE triggers /\ State(l).alert = NoAlert -> "raise"
          [] triggers /\ State(l).alert # NoAlert -> "escalate"
          [] ~triggers /\ State(l).alert # NoAlert -> "resolve"
          [] OTHER -> "next"

process_rule_evaluation(l) ==
    /\ loops[l].at = "look"
    /\ IF ~Rule(l).enabled THEN UNCHANGED alertState /\ loops' = [loops EXCEPT ![l] = NextRule(l)]
       ELSE /\ alertState' = IF State(l).level >= 0 THEN alertState
                             ELSE [alertState EXCEPT ![Rule(l).id] =
                                      [Unseen EXCEPT !.first = loops[l].now, !.level = 0]]
            /\ loops' = [loops EXCEPT ![l] = IF needs(l) = "next" THEN NextRule(l)
                                             ELSE [@ EXCEPT !.at = needs(l)]]
    /\ UNCHANGED <<rules, clock, rounds, rule_changes, raised, told>>

\* A new alert takes the place of any other, also of one raised since the look.
raise(l) ==
    /\ loops[l].at = "raise"
    /\ raised' = raised + 1
    /\ alertState' = [alertState EXCEPT ![Rule(l).id] =
          [alert |-> raised + 1, status |-> "Firing", first |-> loops[l].now, level |-> 0]]
    /\ loops' = [loops EXCEPT ![l] = Sends(l, "AlertTriggered", raised + 1, 0, Rule(l).channels)]
    /\ UNCHANGED <<rules, clock, rounds, rule_changes, told>>

\* Broken variant: the alert seen at the look is told of, also if it was resolved since.
resolve_seen(l) ==
    /\ loops[l].at = "resolve"
    /\ LET seen == IF State(l).alert = NoAlert THEN raised ELSE State(l).alert
       IN  loops' = [loops EXCEPT ![l] = Sends(l, "AlertResolved", seen, 0, Rule(l).channels)]
    /\ alertState' = [alertState EXCEPT ![Rule(l).id].alert = NoAlert]
    /\ UNCHANGED <<rules, clock, rounds, rule_changes, raised, told>>

resolve_alert(l) ==
    /\ loops[l].at = "resolve"
    /\ IF State(l).alert = NoAlert THEN loops' = [loops EXCEPT ![l] = NextRule(l)]
       ELSE loops' = [loops EXCEPT ![l] = Sends(l, "AlertResolved", State(l).alert, 0, Rule(l).channels)]
    /\ alertState' = [alertState EXCEPT ![Rule(l).id].alert = NoAlert]
    /\ UNCHANGED <<rules, clock, rounds, rule_changes, raised, told>>

\* The levels (counted from 0) above the one that is reached and past their delay; level 0
\* is reached from the start, so the first escalation rule never fires.  A time that lies in
\* the future is no time ago.
escalation_due(l) ==
    {level \in 0..Len(Rule(l).escalations) - 1 :
        /\ level > State(l).level
        /\ Max({0, loops[l].now - State(l).first}) >= Rule(l).escalations[level + 1].delay}

check_escalation_async(l) ==
    /\ loops[l].at = "escalate"
    /\ IF State(l).alert = NoAlert \/ State(l).status = "Acknowledged" \/ escalation_due(l) = {}
       THEN UNCHANGED alertState /\ loops' = [loops EXCEPT ![l] = NextRule(l)]
       ELSE LET level == Min(escalation_due(l))
            IN  /\ alertState' = [alertState EXCEPT ![Rule(l).id].level = level]
                /\ loops' = [loops EXCEPT ![l] =
                      Sends(l, "AlertEscalated", State(l).alert, level,
                            Rule(l).escalations[level + 1].channels)]
    /\ UNCHANGED <<rules, clock, rounds, rule_changes, raised, told>>

\* A channel that is missing, not available or fails is logged; the others get theirs.
send_notification(l) ==
    /\ loops[l].at = "send"
    /\ told' = [told EXCEPT ![Rule(l).id] = Append(@, loops[l].notification)]
    /\ loops' = [loops EXCEPT ![l] = IF Len(@.todo) = 1 THEN [at |-> "waiting"]
                 ELSE [at |-> "look", todo |-> Tail(@.todo), snapshot |-> @.snapshot, now |-> @.now]]
    /\ UNCHANGED <<rules, alertState, clock, rounds, rule_changes, raised>>

clock_ticks ==
    /\ clock < MaxClock
    /\ clock' = clock + 1
    /\ UNCHANGED <<rules, alertState, loops, rounds, rule_changes, raised, told>>

-----------------------------------------------------------------------------
AlertInit ==
    /\ rules = <<>> /\ raised = 0 /\ clock = 0 /\ rounds = 0 /\ rule_changes = 0
    /\ alertState = [id \in RuleIds |-> Unseen]
    /\ loops = [l \in Loops |-> [at |-> "none"]]
    /\ told = [id \in RuleIds |-> <<>>]

AlertNext ==
    \/ clock_ticks
    \/ \E r \in AlertRules : add_rule(r)
    \/ \E id \in RuleIds : remove_rule(id)
    \/ \E a \in 1..raised : acknowledge_alert(a)
    \/ \E l \in Loops :
          \/ start_alerting(l) \/ process_rule_evaluation(l) \/ raise(l) \/ resolve_alert(l)
          \/ check_escalation_async(l) \/ send_notification(l)
          \/ \E s \in Snapshots : evaluate_rules(l, s)

AlertSpec == AlertInit /\ [][AlertNext]_alertVars

-----------------------------------------------------------------------------
\* The state of a rule holds what the code puts there, an alert that was raised.
AlertTypeOK ==
    /\ alertState \in [RuleIds -> AlertState]
    /\ raised \in 0..MaxRounds * MaxRuleChanges /\ Len(rules) <= MaxRuleChanges

Started == {l \in Loops : loops[l].at # "none"}

\* However many loops there are, nobody is told twice that an alert is raised, resolved or
\* escalated to a level.
ToldOnce ==
    \A id \in RuleIds : \A i, j \in DOMAIN told[id] :
        i < j => <<told[id][i].kind, told[id][i].alert, told[id][i].level>>
                 # <<told[id][j].kind, told[id][j].alert, told[id][j].level>>

\* With a single loop, the notifications of a rule tell whole stories, one after the
\* other: raised, escalated ever higher, resolved; no alert replaces one that fires.
ToldInOrder ==
    Cardinality(Started) = 1 =>
    \A id \in RuleIds : \A i \in 1..Len(told[id]) - 1 :
        LET a == told[id][i]
            b == told[id][i + 1]
        IN  IF b.kind = "AlertTriggered" THEN a.kind = "AlertResolved" /\ b.alert > a.alert
            ELSE a.kind # "AlertResolved" /\ b.alert = a.alert
                 /\ (b.kind = "AlertEscalated" => b.level > a.level)

\* An alert that is raised shows a value past its threshold, though the value is read
\* by another function than the one that finds the condition met.
AlertJustified ==
    \A c \in Conditions, s \in Snapshots :
        evaluate_condition(c, s) =>
            IF c.kind = "MetricThreshold" /\ c.operator = "LessThan"
            THEN get_current_value(c, s) < get_threshold_value(c)
            ELSE get_current_value(c, s) > get_threshold_value(c)

\* What the alerting tells its channels is a true and orderly account.
AlertsTold == ToldOnce /\ ToldInOrder /\ AlertJustified
=============================================================================
