--------------------------- MODULE Queries_proofs ---------------------------
(***************************************************************************)
(* Proofs about what filters of events pass and what the change log of a   *)
(* test case says, for every filter, event and test case.                  *)
(***************************************************************************)
EXTENDS EventQueries, TestCaseSearch, DataLemmas

\* A filter asks for something or for nothing.
FilterParts == {"types", "sources", "tags", "start", "end", "suites", "cases"}

\* What a filter says of the tests an event is about, and of the rest of it.
OfItsTest(filter, event) ==
    /\ filter.suites = <<>> \/ of_suite(event, filter.suites[1])
    /\ filter.cases = <<>> \/ (event.kind \in OfTests =>
                                 event.case # <<>> /\ event.case \in filter.cases[1])
OfItself(filter, event) ==
    /\ filter.types = <<>> \/ event.kind \in filter.types[1]
    /\ filter.sources = <<>> \/ metadata(event.kind).source \in filter.sources[1]
    /\ filter.tags = <<>> \/ metadata(event.kind).tags \cap filter.tags[1] # {}
    /\ filter.start = <<>> \/ event.time >= filter.start[1]
    /\ filter.end = <<>> \/ event.time <= filter.end[1]

\* A filter has these two parts.
LEMMA MatchesParts ==
    ASSUME NEW filter, NEW event
    PROVE  matches(filter, event) <=> OfItself(filter, event) /\ OfItsTest(filter, event)
BY DEF matches, OfItself, OfItsTest

\* Of the requests and assertions of a test, a filter passes those of the test cases that are
\* asked for whose ids begin with that of a suite that is asked for, both together, and it
\* holds nothing back that is not about a test, whatever it asks for (EventFilter::matches).
THEOREM FiltersPass ==
    ASSUME NEW filter, filter = [part \in FilterParts |-> filter[part]],
           NEW suite, NEW case, NEW time
    PROVE  FiltersAgree(filter, suite, case, time)
<1> DEFINE event(kind) == [id |-> 1, time |-> time, kind |-> kind, suite |-> suite, case |-> case]
           ofTests == [filter EXCEPT !.types = <<>>, !.sources = <<>>, !.tags = <<>>]
           ofCases == [ofTests EXCEPT !.suites = <<>>]
           begins == filter.suites = <<>> \/ \E s \in filter.suites[1] : IsPrefix(s, case)
           others == [filter EXCEPT !.suites = <<>>, !.cases = <<>>]
<1>0. /\ ofCases.types = <<>> /\ ofCases.sources = <<>> /\ ofCases.tags = <<>>
      /\ ofCases.start = filter.start /\ ofCases.end = filter.end
      /\ ofCases.suites = <<>> /\ ofCases.cases = filter.cases
  BY DEF FilterParts
<1>1. /\ ofTests.types = <<>> /\ ofTests.sources = <<>> /\ ofTests.tags = <<>>
      /\ ofTests.start = filter.start /\ ofTests.end = filter.end
      /\ ofTests.suites = filter.suites /\ ofTests.cases = filter.cases
  BY DEF FilterParts
<1>2. /\ others.types = filter.types /\ others.sources = filter.sources
      /\ others.tags = filter.tags /\ others.start = filter.start /\ others.end = filter.end
      /\ others.suites = <<>> /\ others.cases = <<>>
  BY DEF FilterParts
<1>3. \A kind : /\ event(kind).kind = kind /\ event(kind).time = time
                /\ event(kind).suite = suite /\ event(kind).case = case
  OBVIOUS
<1> HIDE DEF event, ofTests, ofCases, others
\* The kinds of one test do not differ but in how they know their suite.
<1>4. OfItself(ofCases, event("test_lifecycle")) <=> OfItself(ofTests, event("request_execution"))
  BY <1>0, <1>1, <1>3 DEF OfItself
<1>5. OfItself(ofTests, event("request_execution")) <=> OfItself(ofTests, event("assertion_result"))
  BY <1>1, <1>3 DEF OfItself
<1>6. OfItsTest(ofTests, event("request_execution"))
         <=> OfItsTest(ofTests, event("assertion_result"))
  BY <1>3 DEF OfItsTest, of_suite, OfTests
<1>7. OfItsTest(ofTests, event("request_execution"))
         <=> OfItsTest(ofCases, event("test_lifecycle")) /\ begins
  BY <1>0, <1>1, <1>3 DEF OfItsTest, of_suite, OfTests
<1>8. \A kind \in {"plugin_lifecycle", "system_metrics", "error"} :
         OfItsTest(filter, event(kind)) /\ OfItsTest(others, event(kind))
  BY <1>3 DEF OfItsTest, of_suite, OfTests
<1>9. \A kind : OfItself(filter, event(kind)) <=> OfItself(others, event(kind))
  BY <1>2 DEF OfItself
<1>10. /\ matches(ofTests, event("request_execution"))
             <=> matches(ofCases, event("test_lifecycle")) /\ begins
       /\ matches(ofTests, event("request_execution"))
             <=> matches(ofTests, event("assertion_result"))
  BY <1>4, <1>5, <1>6, <1>7, MatchesParts
<1>11. \A kind \in {"plugin_lifecycle", "system_metrics", "error"} :
          matches(filter, event(kind)) <=> matches(others, event(kind))
  BY <1>8, <1>9, MatchesParts
<1>12. QED
  BY <1>10, <1>11 DEF FiltersAgree, event, ofTests, ofCases, others

-----------------------------------------------------------------------------
(***************************************************************************)
(* Change logs                                                             *)
(***************************************************************************)
\* The types of changes that come before the others, with the fields they are of.
LEMMA FirstOfTypes ==
    ASSUME NEW fields \in SUBSET ChangedFields
    PROVE  determine_change_type(fields) =
             IF "tags" \in fields THEN "TagsModified"
             ELSE IF OfRequest \cap fields # {} THEN "RequestModified"
             ELSE IF "assertions" \in fields THEN "AssertionsModified"
             ELSE IF "variable_extractions" \in fields THEN "VariablesModified"
             ELSE IF "dependencies" \in fields THEN "DependenciesModified"
             ELSE "MetadataModified"
<1> DEFINE hits == {n \in DOMAIN ChangeTypes : ChangeTypes[n].of \cap fields # {}}
<1>1. /\ DOMAIN ChangeTypes = 1..5
      /\ ChangeTypes[1] = [type |-> "TagsModified", of |-> {"tags"}]
      /\ ChangeTypes[2] = [type |-> "RequestModified", of |-> OfRequest]
      /\ ChangeTypes[3] = [type |-> "AssertionsModified", of |-> {"assertions"}]
      /\ ChangeTypes[4] = [type |-> "VariablesModified", of |-> {"variable_extractions"}]
      /\ ChangeTypes[5] = [type |-> "DependenciesModified", of |-> {"dependencies"}]
  BY DEF ChangeTypes
<1>2. /\ hits \subseteq 1..5
      /\ 1 \in hits <=> "tags" \in fields
      /\ 2 \in hits <=> OfRequest \cap fields # {}
      /\ 3 \in hits <=> "assertions" \in fields
      /\ 4 \in hits <=> "variable_extractions" \in fields
      /\ 5 \in hits <=> "dependencies" \in fields
  BY <1>1
<1>3. determine_change_type(fields) =
        IF hits = {} THEN "MetadataModified" ELSE ChangeTypes[Min(hits)].type
  BY DEF determine_change_type
<1> HIDE DEF hits
<1>4. ASSUME hits # {}
      PROVE  Min(hits) \in hits /\ \A n \in hits : Min(hits) <= n
  <2>1. hits \subseteq Nat
    BY <1>2
  <2>2. PICK least \in hits : \A n \in hits : least <= n
    BY <1>4, <2>1, LeastNatural
  <2>3. QED
    BY <2>2 DEF Min
<1>5. CASE hits = {}
  BY <1>2, <1>3, <1>5
<1>6. CASE hits # {}
  <2>1. Min(hits) \in 1..5 /\ Min(hits) \in hits /\ \A n \in hits : Min(hits) <= n
    BY <1>2, <1>4, <1>6
  <2>2. PICK first \in 1..5 : first = Min(hits)
    BY <2>1
  <2>3. determine_change_type(fields) = ChangeTypes[first].type
    BY <1>3, <1>6, <2>2
  <2>4. first \in hits /\ \A n \in hits : first <= n
    BY <2>1, <2>2
  <2>5. QED
    BY <1>1, <1>2, <2>3, <2>4
<1>7. QED
  BY <1>5, <1>6

\* The entry of an update names exactly what it changed and a type it is of, and changing back
\* gives the same entry (TestCaseManager::update_test_case, detect_changes).
THEOREM ChangesAreRight ==
    ASSUME NEW S, NEW old \in [ChangedFields -> S], NEW new \in [ChangedFields -> S]
    PROVE  ChangesRight(old, new)
<1> DEFINE fields == detect_changes(old, new)
           type == determine_change_type(fields)
           entry == LogEntry(old, new, 1)
           back == LogEntry(new, old, 2)
<1>1. fields \in SUBSET ChangedFields
  BY DEF detect_changes
<1>2. detect_changes(new, old) = fields
  BY DEF detect_changes
<1>3. entry = [version |-> 2, fields |-> fields, type |-> type]
  BY DEF LogEntry
<1>4. back = [version |-> 3, fields |-> fields, type |-> type]
  BY <1>2 DEF LogEntry
<1>5. fields = {} <=> old = new
  <2>1. fields = {} => \A k \in ChangedFields : old[k] = new[k]
    BY DEF detect_changes
  <2>2. old = new => fields = {}
    BY DEF detect_changes
  <2>3. QED
    BY <2>1, <2>2
<1> DEFINE kinds == [TagsModified |-> {"tags"}, RequestModified |-> OfRequest,
                     AssertionsModified |-> {"assertions"},
                     VariablesModified |-> {"variable_extractions"},
                     DependenciesModified |-> {"dependencies"},
                     MetadataModified |-> {"name", "description", "protocol", "timeout"}]
<1>6. /\ fields # {} => kinds[type] \cap fields # {}
      /\ type = "MetadataModified" => fields \subseteq kinds.MetadataModified
  <2>1. PICK some \in SUBSET ChangedFields : some = fields
    BY <1>1
  <2> HIDE DEF fields
  <2>2. type = IF "tags" \in some THEN "TagsModified"
               ELSE IF OfRequest \cap some # {} THEN "RequestModified"
               ELSE IF "assertions" \in some THEN "AssertionsModified"
               ELSE IF "variable_extractions" \in some THEN "VariablesModified"
               ELSE IF "dependencies" \in some THEN "DependenciesModified"
               ELSE "MetadataModified"
    BY <2>1, FirstOfTypes
  <2>3. /\ kinds["TagsModified"] = {"tags"} /\ kinds["RequestModified"] = OfRequest
        /\ kinds["AssertionsModified"] = {"assertions"}
        /\ kinds["VariablesModified"] = {"variable_extractions"}
        /\ kinds["DependenciesModified"] = {"dependencies"}
        /\ kinds["MetadataModified"] = {"name", "description", "protocol", "timeout"}
        /\ kinds.MetadataModified = kinds["MetadataModified"]
    OBVIOUS
  <2> HIDE DEF kinds, type
  <2>4. CASE type = "MetadataModified"
    <3>1. some \subseteq {"name", "description", "protocol", "timeout"}
      BY <2>2, <2>4 DEF ChangedFields, OfRequest
    <3>2. QED
      BY <2>1, <2>3, <2>4, <3>1
  <2>5. CASE type # "MetadataModified"
    <3>1. kinds[type] \cap some # {}
      <4>1. CASE "tags" \in some
        BY <2>2, <2>3, <4>1
      <4>2. CASE "tags" \notin some /\ OfRequest \cap some # {}
        BY <2>2, <2>3, <4>2
      <4>3. CASE "tags" \notin some /\ OfRequest \cap some = {}
        BY <2>2, <2>3, <2>5, <4>3
      <4>4. QED
        BY <4>1, <4>2, <4>3
    <3>2. QED
      BY <2>1, <2>5, <3>1
  <2>6. QED
    BY <2>4, <2>5
<1>7. search_by_change_type(<<<<entry>>, <<>>>>, entry.type) = {1}
  <2>1. PICK one : one = entry
    OBVIOUS
  <2>2. {i \in 1..2 : \E n \in DOMAIN <<<<one>>, <<>>>>[i] : <<<<one>>, <<>>>>[i][n].type = one.type}
          = {1}
    OBVIOUS
  <2>3. QED
    BY <2>1, <2>2 DEF search_by_change_type
<1> HIDE DEF fields, type, entry, back, kinds
<1>8. /\ back = [entry EXCEPT !.version = 3]
      /\ entry.fields = fields /\ entry.type = type
  BY <1>3, <1>4
<1>9. QED
  BY <1>5, <1>6, <1>7, <1>8 DEF ChangesRight, fields, type, entry, back, kinds
=============================================================================
