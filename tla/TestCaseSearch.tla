--------------------------- MODULE TestCaseSearch ---------------------------
(***************************************************************************)
(* Searches, statistics and change logs of src/test_case_manager.rs over   *)
(* the list of src/storage/filesystem.rs.                                  *)
(*                                                                         *)
(* listed is the sequence of the test cases in the order the directory of  *)
(* metadata yields them; readable is whether the test case's own file can  *)
(* be read.  A name is a number, for its place in the alphabet; a          *)
(* description is one or <<>>.  A pattern is [valid, exact, folded]: what  *)
(* it is found in, and in which if case does not matter.  What a filter    *)
(* does not ask for is <<>>.                                               *)
(***************************************************************************)
EXTENDS Naturals, SequencesExt

\* The filter that asks for nothing.
AnyCase == [name_pattern |-> <<>>, description_pattern |-> <<>>, tags |-> <<>>,
            tags_match_all |-> FALSE, protocol |-> <<>>, method |-> <<>>, url_pattern |-> <<>>,
            has_auth |-> <<>>, has_assertions |-> <<>>, has_variables |-> <<>>,
            version |-> <<>>, created_after |-> <<>>, created_before |-> <<>>,
            updated_after |-> <<>>, updated_before |-> <<>>]
Asked(value, Holds(_)) == value = <<>> \/ Holds(value[1])

\* The list of the storage: names without regard to case, days of creation inclusive.
matches_filter(case, filter) ==
    /\ Asked(filter.name_pattern, LAMBDA p : case.name \in p.folded)
    /\ Asked(filter.tags, LAMBDA tags : IF filter.tags_match_all THEN tags \subseteq case.tags
                                        ELSE tags \cap case.tags # {})
    /\ Asked(filter.protocol, LAMBDA p : case.protocol = p)
    /\ Asked(filter.created_after, LAMBDA t : case.created_at >= t)
    /\ Asked(filter.created_before, LAMBDA t : case.created_at <= t)
list_test_cases(listed, filter) == SelectSeq(listed, LAMBDA c : matches_filter(c, filter))

matches_pattern(word, pattern, options) ==
    word \in (IF options.case_sensitive THEN pattern.exact ELSE pattern.folded)

\* Both patterns together are a search for a text, which either may contain; days of update
\* are exclusive.
matches_advanced_filter(case, filter, options) ==
    LET name == Asked(filter.name_pattern, LAMBDA p : matches_pattern(case.name, p, options))
        description == Asked(filter.description_pattern, LAMBDA p :
                          case.description # <<>> /\ matches_pattern(case.description[1], p, options))
    IN  /\ IF filter.name_pattern # <<>> /\ filter.description_pattern # <<>>
           THEN name \/ description
           ELSE name /\ description
        /\ Asked(filter.method, LAMBDA p : matches_pattern(case.method, p, options))
        /\ Asked(filter.url_pattern, LAMBDA p : matches_pattern(case.url, p, options))
        /\ Asked(filter.has_auth, LAMBDA b : case.auth = b)
        /\ Asked(filter.has_assertions, LAMBDA b : case.assertions = b)
        /\ Asked(filter.has_variables, LAMBDA b : case.variables = b)
        /\ Asked(filter.version, LAMBDA v : case.version = v)
        /\ Asked(filter.updated_after, LAMBDA t : case.updated_at > t)
        /\ Asked(filter.updated_before, LAMBDA t : case.updated_at < t)

\* A regular expression that is not one is noticed when it is matched with a test case: the
\* ones for names and descriptions with every one, the others with those that pass so far.
InvalidPattern(case, filter, options) ==
    LET invalid(patterns) == \E p \in Range(patterns) : ~p.valid
        texts == [AnyCase EXCEPT !.name_pattern = filter.name_pattern,
                                 !.description_pattern = filter.description_pattern]
        passes(f) == matches_advanced_filter(case, f, options)
    IN  /\ options.use_regex
        /\ \/ invalid(filter.name_pattern)
           \/ case.description # <<>> /\ invalid(filter.description_pattern)
           \/ passes(texts) /\ invalid(filter.method)
           \/ passes([texts EXCEPT !.method = filter.method]) /\ invalid(filter.url_pattern)

\* One test case that cannot be read, or matched, fails the whole search.
apply_advanced_filtering(found, filter, options) ==
    IF \E i \in DOMAIN found : ~found[i].readable \/ InvalidPattern(found[i], filter, options)
    THEN [ok |-> FALSE, cases |-> <<>>]
    ELSE [ok |-> TRUE,
          cases |-> SelectSeq(found, LAMBDA c : matches_advanced_filter(c, filter, options))]

\* A stable sort; there is no sorting by the method, the name is taken instead.
sort_results(cases, options) ==
    LET key(i) == CASE options.sort_by = "CreatedAt" -> cases[i].created_at
                    [] options.sort_by = "UpdatedAt" -> cases[i].updated_at
                    [] options.sort_by \in {"Name", "Method"} -> cases[i].name
                    [] OTHER -> 0
        before(i, j) == IF options.descending THEN key(i) > key(j) ELSE key(i) < key(j)
        order == SetToSortSeq(DOMAIN cases, LAMBDA i, j : before(i, j) \/ (key(i) = key(j) /\ i < j))
    IN  [n \in DOMAIN order |-> cases[order[n]]]

paginate(cases, options) ==
    LET left == SubSeq(cases, options.offset + 1, Len(cases))
    IN  SubSeq(left, 1, IF options.limit < Len(left) THEN options.limit ELSE Len(left))

\* The pattern of names is kept from the storage when the advanced filter needs it whole.
search_test_cases(listed, filter, options) ==
    LET advanced == \/ options.use_regex
                    \/ \E k \in {"method", "url_pattern", "description_pattern", "has_auth",
                              "has_assertions", "has_variables"} : filter[k] # <<>>
        found == list_test_cases(listed, IF advanced THEN [filter EXCEPT !.name_pattern = <<>>]
                                         ELSE filter)
        result == apply_advanced_filtering(found, filter, options)
    IN  [result EXCEPT !.cases = paginate(sort_results(@, options), options)]

DefaultOptions == [case_sensitive |-> FALSE, use_regex |-> FALSE, limit |-> 100, offset |-> 0,
                   sort_by |-> "UpdatedAt", descending |-> TRUE]

search_by_text(listed, pattern, options) ==
    search_test_cases(listed, [AnyCase EXCEPT !.name_pattern = <<pattern>>,
                                              !.description_pattern = <<pattern>>], options)
get_recent_test_cases(listed, limit) ==
    search_test_cases(listed, AnyCase, [DefaultOptions EXCEPT !.limit = limit])

get_test_case_statistics(listed) ==
    [total |-> Len(listed),
     protocols |-> [p \in {c.protocol : c \in Range(listed)} |->
                      Cardinality({i \in DOMAIN listed : listed[i].protocol = p})],
     tags |-> [t \in UNION {c.tags : c \in Range(listed)} |->
                 Cardinality({i \in DOMAIN listed : t \in listed[i].tags})]]

-----------------------------------------------------------------------------
(***************************************************************************)
(* What an update changed                                                  *)
(***************************************************************************)
ChangedFields == {"name", "description", "tags", "protocol", "request.method", "request.url",
                  "request.headers", "request.body", "request.auth", "assertions",
                  "variable_extractions", "dependencies", "timeout"}
OfRequest == {"request.method", "request.url", "request.headers", "request.body", "request.auth"}

\* A test case as far as it can be changed: a function from the fields.
detect_changes(old, new) == {k \in ChangedFields : old[k] # new[k]}

\* One type for all the changes, the first that applies.
ChangeTypes == <<[type |-> "TagsModified", of |-> {"tags"}],
                 [type |-> "RequestModified", of |-> OfRequest],
                 [type |-> "AssertionsModified", of |-> {"assertions"}],
                 [type |-> "VariablesModified", of |-> {"variable_extractions"}],
                 [type |-> "DependenciesModified", of |-> {"dependencies"}]>>
determine_change_type(fields) ==
    LET hits == {n \in DOMAIN ChangeTypes : ChangeTypes[n].of \cap fields # {}}
    IN  IF hits = {} THEN "MetadataModified" ELSE ChangeTypes[Min(hits)].type

\* An update that changes nothing is a new version too.
LogEntry(old, new, version) ==
    [version |-> version + 1, fields |-> detect_changes(old, new),
     type |-> determine_change_type(detect_changes(old, new))]
search_by_change_type(logs, type) ==
    {i \in DOMAIN logs : \E n \in DOMAIN logs[i] : logs[i][n].type = type}

-----------------------------------------------------------------------------
(***************************************************************************)
(* What they promise                                                       *)
(***************************************************************************)
\* The pages of a search are its result, once each; what is found passes the filter, in
\* order; less is found with regard to case than without; a test case either has something
\* or it has not; and of the days of creation the bounds belong to a range, of the days of
\* update they do not.  A search only fails when a test case cannot be read or a pattern is
\* none, and on an empty store not even then.
SearchSound(listed, filter, options, t) ==
    LET all == [options EXCEPT !.limit = Len(listed), !.offset = 0]
        found == search_test_cases(listed, filter, all)
        page(n) == search_test_cases(listed, filter, [all EXCEPT !.limit = 2, !.offset = 2 * n])
        folded == search_test_cases(listed, filter, [all EXCEPT !.case_sensitive = FALSE])
        ids(f) == {c.id : c \in Range(search_test_cases(listed, f, all).cases)}
        readable == \A c \in Range(listed) : c.readable
        created == [AnyCase EXCEPT !.created_after = <<t>>, !.created_before = <<t>>]
        updated == [AnyCase EXCEPT !.updated_after = <<t>>, !.updated_before = <<t>>]
    IN  /\ readable /\ ~options.use_regex => found.ok
        /\ listed = <<>> => found.ok
        /\ found.ok => found.cases = page(0).cases \o page(1).cases
        /\ found.ok /\ folded.ok => Range(found.cases) \subseteq Range(folded.cases)
        /\ readable /\ filter.has_auth = <<>> /\ found.ok =>
              LET has(b) == ids([filter EXCEPT !.has_auth = <<b>>])
              IN  /\ has(TRUE) \cap has(FALSE) = {}
                  /\ has(TRUE) \cup has(FALSE) = {c.id : c \in Range(found.cases)}
        /\ readable => /\ ids(created) = {c.id : c \in {d \in Range(listed) : d.created_at = t}}
                       /\ ids(updated) = {}
        /\ Range(get_recent_test_cases(listed, 1).cases) \subseteq
              {c \in Range(listed) : \A d \in Range(listed) : d.updated_at <= c.updated_at}
        /\ LET stats == get_test_case_statistics(listed)
           IN  /\ FoldFunction(LAMBDA n, m : n + m, 0, stats.protocols) = stats.total
               /\ \A tag \in DOMAIN stats.tags : stats.tags[tag] \in 1..stats.total

\* What is searched for as a text is found wherever the name or the description has it,
\* although the storage looks at names only.
TextFound(listed, pattern, options) ==
    (\A c \in Range(listed) : c.readable) /\ pattern.valid =>
        Range(search_by_text(listed, pattern,
                             [options EXCEPT !.limit = Len(listed), !.offset = 0]).cases) =
            {c \in Range(listed) : \E word \in {c.name} \cup Range(c.description) :
                                      matches_pattern(word, pattern, options)}

\* The entry of an update names what it changed and one of the types it is of; changing back
\* gives the same entry but for the version.
ChangesRight(old, new) ==
    LET entry == LogEntry(old, new, 1)
        back == LogEntry(new, old, 2)
        kinds == [TagsModified |-> {"tags"}, RequestModified |-> OfRequest,
                  AssertionsModified |-> {"assertions"},
                  VariablesModified |-> {"variable_extractions"},
                  DependenciesModified |-> {"dependencies"},
                  MetadataModified |-> {"name", "description", "protocol", "timeout"}]
    IN  /\ back = [entry EXCEPT !.version = 3]
        /\ entry.fields = {} <=> old = new
        /\ entry.fields # {} => kinds[entry.type] \cap entry.fields # {}
        /\ entry.type = "MetadataModified" => entry.fields \subseteq kinds.MetadataModified
        /\ search_by_change_type(<<<<entry>>, <<>>>>, entry.type) = {1}
=============================================================================
