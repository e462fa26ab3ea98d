--------------------------- MODULE MetricsHistory ---------------------------
(***************************************************************************)
(* MetricsHistory of src/metrics_history.rs: the loops that collect        *)
(* snapshots, one more at every start_collection, beside readers.          *)
(* Everything is behind one RwLock of parking_lot, which is fair: once a   *)
(* writer waits, a new reader waits too, even one that holds the lock for  *)
(* reading already.  The times of snapshots and baselines are those of     *)
(* SystemTime, which may be set back.                                      *)
(***************************************************************************)
EXTENDS Integers, SequencesExt

CONSTANTS Collectors,   \* the calls of start_collection there may be
          Readers,
          MaxDataPoints, Retention, BaselinePeriod,   \* of MetricsHistoryConfig
          MinSamples,   \* 10 in the code
          NoCollector,
          MaxTime,      \* bound on the clock
          MaxWork       \* bound on the rounds of the loops and the calls of the readers

ASSUME HistoryAssumption ==
    /\ MaxDataPoints \in Nat /\ Retention \in Nat /\ BaselinePeriod \in Nat
    /\ MinSamples \in Nat \ {0} /\ MaxTime \in Nat /\ MaxWork \in Nat
    /\ NoCollector \notin Collectors

VARIABLES snapshots, baseline,   \* the storage; one baseline stands for those of each metric
          now,        \* SystemTime
          steady,     \* for the invariants: SystemTime was never set back
          loop,       \* what each collecting task does next and carries
          doing,      \* what each reader is inside, and how many read locks it holds
          writer,     \* the loop that has claimed the lock, which new readers wait for
          work

historyVars == <<snapshots, baseline, now, steady, loop, doing, writer, work>>

NoBaseline == [count |-> 0, at |-> 0]
NotStarted == [at |-> "idle", time |-> 0, count |-> 0]
AtRest == [call |-> "none", locks |-> 0]

Held == \E r \in Readers : doing[r].locks > 0
\* RwLock::read of parking_lot.
MayRead == writer = NoCollector

-----------------------------------------------------------------------------
(***************************************************************************)
(* The loops                                                               *)
(***************************************************************************)
Turns(l, at, time, count) ==
    loop' = [loop EXCEPT ![l] = [at |-> at, time |-> time, count |-> count]]

\* Another loop each time: nothing tells that one runs already.
start_collection(l) ==
    /\ loop[l].at = "idle"
    /\ Turns(l, "collect", 0, 0)
    /\ UNCHANGED <<snapshots, baseline, now, steady, doing, writer, work>>

\* A tick of the interval starts each round; ticks that were missed follow at once, so that
\* a round may start at any time.  The time of a snapshot is taken before the lock is.
take_snapshot(l) ==
    /\ loop[l].at = "collect" /\ work < MaxWork
    /\ work' = work + 1
    /\ Turns(l, "push", now, 0)
    /\ UNCHANGED <<snapshots, baseline, now, steady, doing, writer>>

\* Three of the steps of a loop write, and wait for the readers there are.
AsksToWrite(l) ==
    /\ loop[l].at \in {"push", "cleanup", "install"} /\ writer = NoCollector /\ Held
    /\ writer' = l
    /\ UNCHANGED <<snapshots, baseline, now, steady, loop, doing, work>>

Writes(l) == writer \in {l, NoCollector} /\ ~Held

\* The time of the clean-up is taken before its lock, too.
Newest(s, n) == IF Len(s) > n THEN SubSeq(s, Len(s) - n + 1, Len(s)) ELSE s
collect_snapshot(l) ==
    /\ Writes(l) /\ loop[l].at = "push"
    /\ snapshots' = Newest(Append(snapshots, [time |-> loop[l].time, by |-> l]), MaxDataPoints)
    /\ Turns(l, "cleanup", now, 0) /\ writer' = NoCollector
    /\ UNCHANGED <<baseline, now, steady, doing, work>>

Young(snapshot, time) == snapshot.time >= time - Retention

\* Broken variant: the oldest snapshot goes, not all that are old.
DropFirst(time) ==
    snapshots' = IF snapshots = <<>> THEN <<>>
                 ELSE IF Young(Head(snapshots), time) THEN snapshots ELSE Tail(snapshots)

\* Snapshots go from the front until one is young enough.
DropOld(time) ==
    \/ (\A i \in DOMAIN snapshots : ~Young(snapshots[i], time)) /\ snapshots' = <<>>
    \/ \E first \in DOMAIN snapshots :
          /\ Young(snapshots[first], time) /\ \A i \in 1..first - 1 : ~Young(snapshots[i], time)
          /\ snapshots' = SubSeq(snapshots, first, Len(snapshots))
cleanup_old_data(l) ==
    /\ Writes(l) /\ loop[l].at = "cleanup"
    /\ DropOld(loop[l].time)
    /\ baseline' = IF baseline.at + BaselinePeriod > now THEN baseline ELSE NoBaseline
    /\ Turns(l, "update", loop[l].time, 0) /\ writer' = NoCollector
    /\ UNCHANGED <<now, steady, doing, work>>

\* A copy is taken under a read lock that ends with the statement.  calculate_baseline runs
\* on what is recent of it before the lock is taken to write; of its result, the number of
\* samples and the time are kept.
update_baselines(l) ==
    /\ loop[l].at = "update" /\ MayRead
    /\ LET recent == {i \in DOMAIN snapshots : snapshots[i].time >= now - BaselinePeriod}
       IN  IF Cardinality(recent) < MinSamples THEN Turns(l, "collect", 0, 0)
           ELSE Turns(l, "install", now, Cardinality(recent))
    /\ UNCHANGED <<snapshots, baseline, now, steady, doing, writer, work>>

install_baselines(l) ==
    /\ Writes(l) /\ loop[l].at = "install"
    /\ baseline' = [count |-> loop[l].count, at |-> loop[l].time]
    /\ Turns(l, "collect", 0, 0) /\ writer' = NoCollector
    /\ UNCHANGED <<snapshots, now, steady, doing, work>>

(***************************************************************************)
(* Readers                                                                 *)
(***************************************************************************)
Enter(r, call) ==
    /\ doing[r] = AtRest /\ work < MaxWork
    /\ work' = work + 1
    /\ doing' = [doing EXCEPT ![r] = [call |-> call, locks |-> 0]]
    /\ UNCHANGED <<snapshots, baseline, now, steady, loop, writer>>
Locks(r, n) ==
    /\ doing' = [doing EXCEPT ![r].locks = n]
    /\ UNCHANGED <<snapshots, baseline, now, steady, loop, writer, work>>
Leave(r) ==
    /\ doing' = [doing EXCEPT ![r] = AtRest]
    /\ UNCHANGED <<snapshots, baseline, now, steady, loop, writer, work>>

get_trend_analysis(r) == doing[r].call = "trend" /\ doing[r].locks = 0 /\ MayRead /\ Locks(r, 1)

\* With fewer than two snapshots in its range, the analysis is refused.
trend_refused(r) == doing[r].call = "trend" /\ doing[r].locks = 1 /\ Leave(r)

\* The second lock, while the first is held.
detect_anomalies(r) == doing[r].call = "trend" /\ doing[r].locks = 1 /\ MayRead /\ Locks(r, 2)
trend_done(r) == doing[r].call = "trend" /\ doing[r].locks = 2 /\ Leave(r)

\* compare_with_baseline, get_baselines, get_snapshots and get_recent_summary: one lock.
compare_with_baseline(r) ==
    /\ doing[r].call = "compare"
    /\ \/ doing[r].locks = 0 /\ MayRead /\ Locks(r, 1)
       \/ doing[r].locks = 1 /\ Leave(r)

-----------------------------------------------------------------------------
pass ==
    /\ now < MaxTime
    /\ now' = now + 1
    /\ UNCHANGED <<snapshots, baseline, steady, loop, doing, writer, work>>

\* The clock of the system is set back; once is enough to see what follows.
fall_back ==
    /\ steady /\ steady' = FALSE
    /\ now' \in 0..now - 1
    /\ UNCHANGED <<snapshots, baseline, loop, doing, writer, work>>

HistoryInit ==
    /\ snapshots = <<>> /\ baseline = NoBaseline /\ writer = NoCollector /\ work = 0
    /\ now = 0 /\ steady = TRUE
    /\ loop = [l \in Collectors |-> NotStarted]
    /\ doing = [r \in Readers |-> AtRest]

LoopStep(l) ==
    \/ take_snapshot(l) \/ AsksToWrite(l) \/ collect_snapshot(l)
    \/ cleanup_old_data(l) \/ update_baselines(l) \/ install_baselines(l)
ReaderStep(r) ==
    \/ get_trend_analysis(r) \/ trend_refused(r) \/ detect_anomalies(r) \/ trend_done(r)
    \/ compare_with_baseline(r)

HistoryNext ==
    \/ pass \/ fall_back
    \/ \E l \in Collectors : start_collection(l) \/ LoopStep(l)
    \/ \E r \in Readers : Enter(r, "trend") \/ Enter(r, "compare") \/ ReaderStep(r)

HistorySpec == HistoryInit /\ [][HistoryNext]_historyVars

\* Threads run; the lock serves a writer that waits once its readers are gone.
HistoryFairness ==
    /\ \A l \in Collectors : WF_historyVars(LoopStep(l))
    /\ \A r \in Readers : WF_historyVars(ReaderStep(r))

-----------------------------------------------------------------------------
HistoryTypeOK ==
    /\ baseline \in [count : 0..MaxDataPoints, at : 0..MaxTime]
    /\ now \in 0..MaxTime
    /\ writer \in Collectors \cup {NoCollector} /\ \A r \in Readers : doing[r].locks \in 0..2

Collecting == {l \in Collectors : loop[l].at # "idle"}

\* Each loop leaves its snapshots in the order of their times.
InOrder(s) == \A i, j \in DOMAIN s : i < j /\ s[i].by = s[j].by => s[i].time <= s[j].time

\* A loop that is alone leaves nothing behind that was too old at its clean-up.
NoneExpired ==
    \A l \in Collectors : Collecting = {l} /\ loop[l].at = "update" =>
        \A i \in DOMAIN snapshots : Young(snapshots[i], loop[l].time)

\* Whatever the loops and the clock do, the history keeps its limit and a baseline rests on
\* enough samples and on no more than there may be.  The clean-up stops at the first young
\* snapshot, so what it leaves depends on the order: with one loop and a steady clock nothing
\* outlives its retention, though times are taken before the lock is.
HistorySound ==
    /\ Len(snapshots) <= MaxDataPoints
    /\ baseline # NoBaseline => baseline.count \in MinSamples..MaxDataPoints
    /\ steady => InOrder(snapshots) /\ NoneExpired

\* The one way to stop: a trend analysis between its two locks while a loop waits to write
\* in between.  Nobody reads or writes the history any more.
StoppedByNesting ==
    writer # NoCollector /\ \E r \in Readers : doing[r].call = "trend" /\ doing[r].locks = 1

\* Every reader gets its result, unless the history is stopped by the nested lock.
HistoryCallsEnd ==
    \A r \in Readers : doing[r] # AtRest ~> doing[r] = AtRest \/ StoppedByNesting
=============================================================================
