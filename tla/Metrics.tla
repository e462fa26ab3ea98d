------------------------------- MODULE Metrics -------------------------------
(***************************************************************************)
(* MetricsCollector of src/metrics.rs: counters that threads increase one  *)
(* by one and that a snapshot reads one by one, with no lock around either.*)
(* Every single read and increment is atomic (counters of the prometheus   *)
(* library).                                                               *)
(***************************************************************************)
EXTENDS Naturals, Sequences, FiniteSets

CONSTANTS Recorders,
          MaxRecords     \* bound on the recordings of all threads

ASSUME MetricsAssumption == IsFiniteSet(Recorders) /\ MaxRecords \in Nat

VARIABLES counters,      \* requests by result, tests, and their durations observed
          recording,     \* what is left to increase of each thread's recording
          snapshot,      \* the counters the snapshot has read so far
          asked,         \* history: the counters when the snapshot began
          open,          \* history: the tests without a result when the snapshot read the tests
          records        \* recordings begun so far

metricsVars == <<counters, recording, snapshot, asked, open, records>>

RequestNames == {"requests_ok", "requests_failed", "request_durations"}
MetricNames == RequestNames \cup {"tests", "tests_passed", "tests_failed", "test_durations"}
Outcomes == {"tests_passed", "tests_failed"}
NotRead == MaxRecords + 1
Percent(part, whole) == IF whole > 0 THEN (part * 100) \div whole ELSE 0

-----------------------------------------------------------------------------
Record(r, increases) ==
    /\ recording[r] = <<>> /\ records < MaxRecords
    /\ records' = records + 1
    /\ recording' = [recording EXCEPT ![r] = increases]
    /\ UNCHANGED <<counters, snapshot, asked, open>>

\* A status from 200 up to 399 is a success, any other (and none) a failure.
SuccessStatus(status) == status >= 200 /\ status < 400
record_request(r, status) ==
    Record(r, <<"request_durations",
                IF SuccessStatus(status) THEN "requests_ok" ELSE "requests_failed">>)

\* Broken variant: the test is counted last.
record_test_case_last(r, passed) ==
    Record(r, <<IF passed THEN "tests_passed" ELSE "tests_failed", "tests", "test_durations">>)

record_test_case(r, passed) ==
    Record(r, <<"tests", IF passed THEN "tests_passed" ELSE "tests_failed", "test_durations">>)

\* What the library does for one inc or observe.
increase(r) ==
    /\ recording[r] # <<>>
    /\ counters' = [counters EXCEPT ![recording[r][1]] = @ + 1]
    /\ recording' = [recording EXCEPT ![r] = [i \in 1..Len(@) - 1 |-> @[i + 1]]]
    /\ UNCHANGED <<snapshot, asked, open, records>>

-----------------------------------------------------------------------------
get_snapshot ==
    /\ snapshot = [n \in MetricNames |-> NotRead]
    /\ asked = [n \in MetricNames |-> NotRead]
    /\ asked' = counters
    /\ UNCHANGED <<counters, recording, snapshot, open, records>>

Asked == asked["tests"] # NotRead
Unread(n) == snapshot[n] = NotRead
\* The threads that have counted a test and not yet its result.
Between == {r \in Recorders : \E n \in Outcomes : recording[r] = <<n, "test_durations">>}
Reads(n) ==
    /\ Asked /\ Unread(n)
    /\ snapshot' = [snapshot EXCEPT ![n] = counters[n]]
    /\ open' = IF n = "tests" THEN Cardinality(Between) ELSE open
    /\ UNCHANGED <<counters, recording, asked, records>>

\* The families come in any order, and so do the series of one family.
get_performance_metrics ==
    \E n \in RequestNames : Reads(n)

\* Total, then passed, then failed, and the durations last.
get_test_execution_metrics ==
    \/ (\A n \in RequestNames : ~Unread(n)) /\ Reads("tests")
    \/ ~Unread("tests") /\ Reads("tests_passed")
    \/ ~Unread("tests_passed") /\ Reads("tests_failed")
    \/ ~Unread("tests_failed") /\ Reads("test_durations")

total_requests == snapshot["requests_ok"] + snapshot["requests_failed"]
error_rate == Percent(snapshot["requests_failed"], total_requests)
success_rate == Percent(snapshot["tests_passed"], snapshot["tests"])

-----------------------------------------------------------------------------
MetricsInit ==
    /\ counters = [n \in MetricNames |-> 0]
    /\ recording = [r \in Recorders |-> <<>>]
    /\ snapshot = [n \in MetricNames |-> NotRead] /\ asked = [n \in MetricNames |-> NotRead]
    /\ open = 0 /\ records = 0

MetricsNext ==
    \/ get_snapshot \/ get_performance_metrics \/ get_test_execution_metrics
    \/ \E r \in Recorders :
          \/ increase(r)
          \/ \E status \in {200, 404} : record_request(r, status)
          \/ \E passed \in BOOLEAN : record_test_case(r, passed)

MetricsSpec == MetricsInit /\ [][MetricsNext]_metricsVars

-----------------------------------------------------------------------------
MetricsTypeOK ==
    /\ counters \in [MetricNames -> 0..MaxRecords]
    /\ snapshot \in [MetricNames -> 0..NotRead]

Taken == \A n \in MetricNames : ~Unread(n)
\* The tests counted since the snapshot began.
Beside == counters["tests"] - asked["tests"]

\* A snapshot is taken counter by counter beside the recordings.  Each count is one that
\* its counter went through since the snapshot began.  The error rate never leaves 0..100.
\* The success rate may pass 100, because the total is read before the tests passed, but
\* only by tests counted after the snapshot began; and no more tests lack a result than
\* threads were between a test and its result when the total was read.
SnapshotTrue ==
    /\ \A n \in MetricNames :
          Unread(n) \/ (asked[n] <= snapshot[n] /\ snapshot[n] <= counters[n])
    /\ Taken =>
        /\ error_rate <= 100
        /\ Beside = 0 => success_rate <= 100
        /\ snapshot["tests_passed"] + snapshot["tests_failed"] <= snapshot["tests"] + Beside
        /\ snapshot["tests"] <= snapshot["tests_passed"] + snapshot["tests_failed"] + open
=============================================================================
