--------------------------- MODULE ResultAnalysis ---------------------------
(***************************************************************************)
(* The results that are kept for browsing and comparing: ResultAnalyzer,   *)
(* its store with the indices, its engines and the ResultBrowser of        *)
(* src/result_analysis.rs.                                                 *)
(*                                                                         *)
(* Durations are in half milliseconds.  The message of an error is the set *)
(* of the words it contains that classify_error looks for; what is absent  *)
(* is <<>>.  The session of a result is kept but never looked at: the      *)
(* history of sessions is never filled, so get_session_summary finds none. *)
(***************************************************************************)
EXTENDS Integers, SequencesExt

CONSTANTS Executed,     \* results of interactive executions that may be added
          Added,        \* results that may be added as they are
          Filters,      \* filters the browser may be set to
          Sorts,        \* orders the browser may be set to
          MaxResults,   \* how many results are added at most
          MaxViews      \* how often the browser may be set or look

VARIABLES results,      \* the stored results, by id
          indices,      \* what was entered in each index: keys and ids, in order
          browser       \* [filter, sort, shown, of, views]: of is what was shown by

\* No duration is negative.
ASSUME ResultAssumption ==
    /\ \A executed \in Executed : executed.success \in BOOLEAN /\ executed.duration \in Nat
    /\ \A result \in Added : result.duration \in Nat

resultVars == <<results, indices, browser>>

Indices == {"by_test_name", "by_status", "by_execution_time", "by_duration", "by_error_type"}

as_millis(duration) == duration \div 2

-----------------------------------------------------------------------------
(***************************************************************************)
(* The analysis of a failure                                               *)
(***************************************************************************)
\* The order in which the words are looked for, and what they mean.
Classes == <<[words |-> {"assertion", "expected"}, type |-> "AssertionFailure"],
             [words |-> {"timeout", "timed out"}, type |-> "TimeoutError"],
             [words |-> {"network", "connection"}, type |-> "NetworkError"],
             [words |-> {"auth", "unauthorized"}, type |-> "AuthenticationError"],
             [words |-> {"validation", "invalid"}, type |-> "ValidationError"]>>
classify_error(message) ==
    LET hits == {n \in DOMAIN Classes : Classes[n].words \cap message # {}}
    IN  IF hits = {} THEN "SystemError" ELSE Classes[Min(hits)].type

\* The kinds of two JSON values; that of a missing one is null.
calculate_value_difference(expected, actual) ==
    IF expected # actual THEN "TypeMismatch"
    ELSE IF expected = "array" THEN "ArrayElementMismatch" ELSE "ValueMismatch"

\* The last request and the last response that were made, of different steps perhaps.
create_error_context(steps) ==
    LET last(part) == SelectLastInSeq(steps, LAMBDA s : s[part] # <<>>)
        of(part) == IF last(part) = 0 THEN <<>> ELSE steps[last(part)][part]
    IN  [request |-> of("request"), response |-> of("response")]

\* Two to three fixes for a type, and one for each failed assertion if that is the type.
generate_suggested_fixes(type, failed) ==
    CASE type = "AssertionFailure" -> 2 + Len(failed)
      [] type \in {"SystemError", "UnknownError"} -> 2
      [] OTHER -> 3

\* The last message decides; failed assertions count in steps that failed.
analyze_failure(executed) ==
    LET failed == SelectSeq(executed.steps, LAMBDA s : ~s.success)
        last == SelectLastInSeq(failed, LAMBDA s : s.message # <<>>)
        type == IF last = 0 THEN "UnknownError" ELSE classify_error(failed[last].message[1])
        assertions == FlattenSeq([n \in DOMAIN failed |->
                                    SelectSeq(failed[n].assertions, LAMBDA a : ~a.success)])
    IN  [failure_type |-> type,
         root_cause |-> IF last = 0 THEN <<>> ELSE failed[last].message,
         failed_assertions |-> [n \in DOMAIN assertions |->
             calculate_value_difference(assertions[n].expected, assertions[n].actual)],
         error_context |-> create_error_context(executed.steps),
         suggested_fixes |-> generate_suggested_fixes(type, assertions)]

-----------------------------------------------------------------------------
(***************************************************************************)
(* The store                                                               *)
(***************************************************************************)
\* Broken variant: an index is left out when the key is there already.
enter_once(index, key, id) ==
    IF \E n \in DOMAIN index : index[n].key = key THEN index
    ELSE Append(index, [key |-> key, id |-> id])

enter(index, key, id) == Append(index, [key |-> key, id |-> id])

index_result(result, id) ==
    [by_test_name |-> enter(indices.by_test_name, result.name, id),
     by_status |-> enter(indices.by_status, result.status, id),
     by_execution_time |-> enter(indices.by_execution_time, result.time, id),
     by_duration |-> enter(indices.by_duration, as_millis(result.duration), id),
     by_error_type |-> IF result.analysis = <<>> THEN indices.by_error_type
                       ELSE enter(indices.by_error_type, result.analysis[1].failure_type, id)]

\* Nothing is taken out of the indices when an id is stored again.
add_result(result, id) ==
    /\ indices' = index_result(result, id)
    /\ results' = [i \in DOMAIN results \cup {id} |-> IF i = id THEN result ELSE results[i]]
    /\ UNCHANGED browser

\* A new id; the result only passes or fails, at the time it is added.
add_interactive_result(executed, id, time) ==
    /\ add_result([name |-> executed.name, duration |-> executed.duration, time |-> time,
                   status |-> IF executed.success THEN "Passed" ELSE "Failed",
                   analysis |-> IF executed.success THEN <<>>
                                ELSE <<analyze_failure(executed)>>], id)

get_failure_analysis(id) ==
    IF id \in DOMAIN results THEN [ok |-> TRUE, analysis |-> results[id].analysis]
    ELSE [ok |-> FALSE, analysis |-> <<>>]

-----------------------------------------------------------------------------
(***************************************************************************)
(* Comparing                                                               *)
(***************************************************************************)
\* The change in percent of what it was, which is not a number (-1) if that was nothing.
compare_performance(result1, result2) ==
    LET m1 == as_millis(result1.duration)
        m2 == as_millis(result2.duration)
        apart == IF m1 > m2 THEN m1 - m2 ELSE m2 - m1
    IN  IF apart <= 100 THEN <<>>
        ELSE <<[value1 |-> m1, value2 |-> m2, slower |-> m2 > m1,
                percentage_change |-> IF m1 = 0 THEN -1 ELSE (100 * apart) \div m1]>>

\* Requests, responses and assertions are not compared, so no difference is critical.
compare_results(id1, id2, config) ==
    LET performance == IF config.compare_performance /\ ~config.ignore_timing_differences
                       THEN compare_performance(results[id1], results[id2]) ELSE <<>>
    IN  IF {id1, id2} \subseteq DOMAIN results
        THEN [ok |-> TRUE, performance |-> performance, total |-> Len(performance), critical |-> 0]
        ELSE [ok |-> FALSE, performance |-> <<>>, total |-> 0, critical |-> 0]

-----------------------------------------------------------------------------
(***************************************************************************)
(* Browsing                                                                *)
(***************************************************************************)
\* Tags and the type of the error are not looked at; both ends belong to a range.
matches_result(result, filter) ==
    LET asked(part, Holds(_)) == filter[part] = <<>> \/ Holds(filter[part][1])
    IN  /\ asked("status", LAMBDA s : result.status = s)
        /\ asked("name", LAMBDA names : result.name \in names)
        /\ asked("time", LAMBDA r : result.time >= r[1] /\ result.time <= r[2])
        /\ asked("duration", LAMBDA r : result.duration >= r[1] /\ result.duration <= r[2])
        /\ asked("has_failure_analysis", LAMBDA b : b <=> result.analysis # <<>>)
apply_filter(filter) == {id \in DOMAIN results : matches_result(results[id], filter)}

\* The statuses in the order of their names.
StatusOrder == <<"Cancelled", "Error", "Failed", "Passed", "Skipped">>
SortKey(result, field) ==
    CASE field = "ExecutionTime" -> result.time
      [] field = "Duration" -> result.duration
      [] field = "TestName" -> result.name
      [] field = "Status" -> CHOOSE n \in DOMAIN StatusOrder : StatusOrder[n] = result.status
      [] field = "FailureCount" -> IF result.status = "Failed" THEN 1 ELSE 0

\* Any order of the results that the sort allows: the map they come from has none.
sort_results_by(ids, sort) ==
    LET key(id) == SortKey(results[id], sort.field)
    IN  {view \in SetToSeqs(ids) :
            \A m, n \in DOMAIN view : m < n =>
                IF sort.descending THEN key(view[m]) >= key(view[n]) ELSE key(view[m]) <= key(view[n])}

set_filter(filter) ==
    /\ browser.views < MaxViews
    /\ browser' = [browser EXCEPT !.filter = filter, !.views = @ + 1]
    /\ UNCHANGED <<results, indices>>
set_sort(sort) ==
    /\ browser.views < MaxViews
    /\ browser' = [browser EXCEPT !.sort = sort, !.views = @ + 1]
    /\ UNCHANGED <<results, indices>>
browse_results ==
    /\ browser.views < MaxViews
    /\ \E view \in sort_results_by(apply_filter(browser.filter), browser.sort) :
          browser' = [browser EXCEPT !.shown = [n \in DOMAIN view |-> results[view[n]]],
                                     !.of = [filter |-> browser.filter, sort |-> browser.sort,
                                             size |-> Cardinality(DOMAIN results)],
                                     !.views = @ + 1]
    /\ UNCHANGED <<results, indices>>

\* Skipped and cancelled results are in the total alone; the average is rounded down.
generate_summary(shown) ==
    LET count(status) == Cardinality({n \in DOMAIN shown : shown[n].status = status})
        sum[n \in 0..Len(shown)] ==
            IF n = 0 THEN 0 ELSE sum[n - 1] + as_millis(shown[n].duration)
        total == sum[Len(shown)]
    IN  [total |-> Len(shown), passed |-> count("Passed"), failed |-> count("Failed"),
         errors |-> count("Error"),
         average |-> IF shown = <<>> THEN 0 ELSE total \div Len(shown),
         success_rate |-> IF shown = <<>> THEN 0 ELSE (100 * count("Passed")) \div Len(shown)]

AnyResult == [status |-> <<>>, name |-> <<>>, time |-> <<>>, duration |-> <<>>,
              has_failure_analysis |-> <<>>]
NewestFirst == [field |-> "ExecutionTime", descending |-> TRUE]

ResultInit ==
    /\ results = <<>>
    /\ indices = [by \in Indices |-> <<>>]
    /\ browser = [filter |-> AnyResult, sort |-> NewestFirst, shown |-> <<>>, views |-> 0,
                  of |-> [filter |-> AnyResult, sort |-> NewestFirst, size |-> 0]]

\* The ids are counted here; in the code those of executions are random.
NewId == Cardinality(DOMAIN results) + 1
ResultNext ==
    \/ \E executed \in Executed, time \in 1..2 :
          /\ Len(indices.by_status) < MaxResults
          /\ add_interactive_result(executed, NewId, time)
    \/ \E result \in Added, id \in 1..NewId :
          Len(indices.by_status) < MaxResults /\ add_result(result, id)
    \/ \E filter \in Filters : set_filter(filter)
    \/ \E sort \in Sorts : set_sort(sort)
    \/ browse_results

ResultSpec == ResultInit /\ [][ResultNext]_resultVars

-----------------------------------------------------------------------------
(***************************************************************************)
(* What it promises                                                        *)
(***************************************************************************)
\* The key of a result in an index.
KeyIn(by, r) == CASE by = "by_test_name" -> r.name
                  [] by = "by_status" -> r.status
                  [] by = "by_execution_time" -> r.time
                  [] by = "by_duration" -> as_millis(r.duration)
                  [] by = "by_error_type" -> r.analysis[1].failure_type

\* Every entry of an index is of a result that is stored, and the last one of a result has
\* the key of the result as it is stored; only those of a result that was stored again may
\* have another.
IndicesTell ==
    \A by \in Indices :
        LET index == indices[by]
            of(id) == {n \in DOMAIN index : index[n].id = id}
        IN  /\ \A n \in DOMAIN index : index[n].id \in DOMAIN results
            /\ \A id \in DOMAIN results :
                  by # "by_error_type" \/ results[id].analysis # <<>> =>
                      of(id) # {} /\ index[Max(of(id))].key = KeyIn(by, results[id])

\* What is shown passes the filter it was shown by, in the order asked for, and nothing
\* that passes is missing while no id was added since.
ViewTrue ==
    LET by == browser.of
        shown == browser.shown
    IN  /\ \A n \in DOMAIN shown : matches_result(shown[n], by.filter)
        /\ \A m, n \in DOMAIN shown : m < n =>
              LET a == SortKey(shown[m], by.sort.field)
                  b == SortKey(shown[n], by.sort.field)
              IN  IF by.sort.descending THEN a >= b ELSE a <= b
        /\ by.size = Cardinality(DOMAIN results) /\ Len(indices.by_status) = by.size =>
              Len(shown) = Cardinality(apply_filter(by.filter))

\* The counts of a summary never exceed its total, which they fill when every result came
\* from an execution; all passed if and only if the rate is 100; the average lies between
\* the shortest and the longest.
SummaryTrue ==
    LET s == generate_summary(browser.shown)
        millis == {as_millis(r.duration) : r \in Range(browser.shown)}
    IN  /\ s.passed + s.failed + s.errors <= s.total
        /\ (\A r \in Range(browser.shown) : r.status \in {"Passed", "Failed", "Error"})
              => s.passed + s.failed + s.errors = s.total
        /\ s.success_rate = 100 <=> s.total > 0 /\ s.passed = s.total
        /\ s.total > 0 => Min(millis) <= s.average /\ s.average <= Max(millis)

\* What failed, and nothing else, was analysed, but for a result that was added as it is; a
\* stored result can be asked for its analysis, and does not differ from itself; and how
\* results compare does not depend on which is first, except for the change in percent.
AnalysisTrue ==
    LET compared(a, b) == compare_results(a, b, [compare_performance |-> TRUE,
                                                 ignore_timing_differences |-> FALSE])
    IN  /\ \A id \in DOMAIN results :
              /\ results[id] \in Added
                    \/ (results[id].analysis # <<>> <=> results[id].status = "Failed")
              /\ get_failure_analysis(id).ok
              /\ compared(id, id).total = 0
        /\ \A a, b \in DOMAIN results :
              /\ compared(a, b).total = compared(b, a).total
              /\ compared(a, b).total > 0 =>
                    compared(a, b).performance[1].slower # compared(b, a).performance[1].slower

ResultsSound == IndicesTell /\ ViewTrue /\ SummaryTrue /\ AnalysisTrue
=============================================================================
