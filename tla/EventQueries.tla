---------------------------- MODULE EventQueries ----------------------------
(***************************************************************************)
(* What is asked about events: EventFilter::matches of src/event.rs and    *)
(* the queries of the two stores of src/event_persistence.rs.              *)
(*                                                                         *)
(* A store is the sequence of the events in the order it yields them.  The *)
(* id of a suite or of a test case is a sequence of characters; an event   *)
(* of a whole suite has the empty one for its test case.  What a filter    *)
(* does not ask for is <<>>, its custom predicate is never looked at.      *)
(***************************************************************************)
EXTENDS Naturals, SequencesExt

metadata(kind) ==
    CASE kind = "test_lifecycle" -> [source |-> "test_engine", tags |-> {"test", "lifecycle"}]
      [] kind = "request_execution" ->
            [source |-> "protocol_plugin", tags |-> {"request", "execution"}]
      [] kind = "assertion_result" ->
            [source |-> "assertion_engine", tags |-> {"assertion", "validation"}]
      [] kind = "plugin_lifecycle" ->
            [source |-> "plugin_manager", tags |-> {"plugin", "lifecycle"}]
      [] kind = "system_metrics" ->
            [source |-> "metrics_collector", tags |-> {"metrics", "system"}]
      [] kind = "error" -> [source |-> "error_handler", tags |-> {"error", "system"}]

OfTests == {"test_lifecycle", "request_execution", "assertion_result"}

\* A request and an assertion know their suite only as the beginning of their test case's id.
of_suite(event, suites) ==
    CASE event.kind = "test_lifecycle" -> event.suite \in suites
      [] event.kind \in {"request_execution", "assertion_result"} ->
            \E s \in suites : IsPrefix(s, event.case)
      [] OTHER -> TRUE

\* Events that are not about tests pass every filter by suites and by test cases.
matches(filter, event) ==
    LET of == metadata(event.kind)
        asked(part, Holds(_)) == filter[part] = <<>> \/ Holds(filter[part][1])
    IN  /\ asked("types", LAMBDA types : event.kind \in types)
        /\ asked("sources", LAMBDA sources : of.source \in sources)
        /\ asked("tags", LAMBDA tags : of.tags \cap tags # {})
        /\ asked("start", LAMBDA t : event.time >= t)
        /\ asked("end", LAMBDA t : event.time <= t)
        /\ asked("suites", LAMBDA suites : of_suite(event, suites))
        /\ asked("cases", LAMBDA cases : event.kind \in OfTests =>
                                          event.case # <<>> /\ event.case \in cases)

-----------------------------------------------------------------------------
(***************************************************************************)
(* The stores                                                              *)
(***************************************************************************)
\* The key of an event in sled is a text, "{time}_{id}", and texts are compared byte by byte:
\* the mark between time and id comes after every digit.
Digits[n \in Nat] == IF n < 10 THEN <<n>> ELSE Append(Digits[n \div 10], n % 10)
Mark == 10
TimeKey(time) == Append(Digits[time], Mark)
generate_event_key(event) == Append(TimeKey(event.time), event.id)

\* One text comes before another.
Before(a, b) ==
    \E k \in 0..Len(a) :
        /\ k < Len(b) /\ \A i \in 1..k : a[i] = b[i]
        /\ k < Len(a) => a[k + 1] < b[k + 1]

\* Sled is ordered by the keys, and keeps one event for each.
sled_order(stored) ==
    LET key(i) == generate_event_key(stored[i])
        last == {i \in DOMAIN stored : \A j \in (i + 1)..Len(stored) : key(j) # key(i)}
        order == SetToSortSeq(last, LAMBDA i, j : Before(key(i), key(j)))
    IN  [n \in DOMAIN order |-> stored[order[n]]]

Take(events, limit) == SubSeq(events, 1, IF limit < Len(events) THEN limit ELSE Len(events))

\* The newest first.
get_events(events, filter, limit) ==
    Take(SelectSeq(Reverse(events), LAMBDA e : matches(filter, e)), limit)

\* A range of keys, in which the end is not.
sled_range(events, start, end, limit) ==
    Take(SelectSeq(events, LAMBDA e : /\ ~Before(generate_event_key(e), TimeKey(start))
                                      /\ Before(generate_event_key(e), TimeKey(end))), limit)
memory_range(events, start, end, limit) ==
    Take(SelectSeq(events, LAMBDA e : e.time >= start /\ e.time <= end), limit)

\* Broken variant: the event that is named is not replayed itself.
replay_after(events, from) ==
    LET found == {i \in DOMAIN events : events[i].id = from}
    IN  IF from = 0 THEN [ok |-> TRUE, events |-> events]
        ELSE IF found = {} THEN [ok |-> FALSE, events |-> <<>>]
        ELSE [ok |-> TRUE, events |-> SubSeq(events, Min(found) + 1, Len(events))]

\* From the first event with the id on; 0 is no id.
replay_events(events, from) ==
    LET found == {i \in DOMAIN events : events[i].id = from}
    IN  IF from = 0 THEN [ok |-> TRUE, events |-> events]
        ELSE IF found = {} THEN [ok |-> FALSE, events |-> <<>>]
        ELSE [ok |-> TRUE, events |-> SubSeq(events, Min(found), Len(events))]

-----------------------------------------------------------------------------
(***************************************************************************)
(* What they promise                                                       *)
(***************************************************************************)
\* The stores give the same answers when the events were stored in the order of their times
\* and all times are written with equally many digits (as those in nanoseconds since 2001
\* are), with the one exception of events at the end of a range; otherwise sled still returns
\* none that the other does not, but may lack one of two with one time and id, and what it
\* takes for the newest or for a range of times may not be.  A limit takes nothing from the
\* front, and what is replayed from an event begins with it.
StoresAgree(stored, filter, limit, start, end) ==
    LET sled == sled_order(stored)
        inOrder == \A i, j \in DOMAIN stored : i < j => stored[i].time < stored[j].time
        times == {start, end} \cup {stored[i].time : i \in DOMAIN stored}
        evenly == \A t, u \in times : Len(Digits[t]) = Len(Digits[u])
        all == Len(stored)
    IN  /\ Range(get_events(sled, filter, all)) \subseteq Range(get_events(stored, filter, all))
        /\ inOrder /\ evenly =>
              /\ get_events(sled, filter, limit) = get_events(stored, filter, limit)
              /\ sled_range(sled, start, end, all)
                    = SelectSeq(memory_range(stored, start, end, all), LAMBDA e : e.time # end)
              /\ \A e \in Range(stored) \cup {[id |-> 0], [id |-> 9]} :
                    replay_events(sled, e.id) = replay_events(stored, e.id)
        /\ \A e \in Range(stored) :
              /\ replay_events(sled, e.id).events # <<>>
              /\ replay_events(sled, e.id).events[1].id = e.id
        /\ \A events \in {sled, stored} :
              IsPrefix(get_events(events, filter, limit), get_events(events, filter, all))
        /\ IsPrefix(sled_range(sled, start, end, limit), sled_range(sled, start, end, all))
        /\ IsPrefix(memory_range(stored, start, end, limit), memory_range(stored, start, end, all))

\* What a filter by suites and test cases says of one test: of its requests and assertions it
\* passes those whose test case is one that is asked for and has an id that begins with that
\* of a suite that is asked for, be it the suite of the test or not (a test case whose id is
\* a UUID has none of them); a request and its assertions together; and events that are not
\* about tests, it never holds back, whatever else the filter asks for.
FiltersAgree(filter, suite, case, time) ==
    LET event(kind) == [id |-> 1, time |-> time, kind |-> kind, suite |-> suite, case |-> case]
        ofTests == [filter EXCEPT !.types = <<>>, !.sources = <<>>, !.tags = <<>>]
        ofCases == [ofTests EXCEPT !.suites = <<>>]
        begins == filter.suites = <<>> \/ \E s \in filter.suites[1] : IsPrefix(s, case)
        others == [filter EXCEPT !.suites = <<>>, !.cases = <<>>]
    IN  /\ matches(ofTests, event("request_execution"))
              <=> matches(ofCases, event("test_lifecycle")) /\ begins
        /\ matches(ofTests, event("request_execution"))
              <=> matches(ofTests, event("assertion_result"))
        /\ \A kind \in {"plugin_lifecycle", "system_metrics", "error"} :
              matches(filter, event(kind)) <=> matches(others, event(kind))
=============================================================================
