--------------------------- MODULE TestCaseLinter ---------------------------
(***************************************************************************)
(* TestCaseLinter of src/test_case_linter.rs: fourteen rules, each of      *)
(* which tells its issues of a test case, and the report over test cases.  *)
(* A test case is a record of what the rules ask of it; a text is the set  *)
(* of what it contains, and of the variables it uses.                      *)
(***************************************************************************)
EXTENDS Integers, SequencesExt, FiniteSetsExt

Issue(rule, severity, location) == [rule |-> rule, severity |-> severity, location |-> location]
Issues(rule, severity, location, Holds) ==
    IF Holds THEN <<Issue(rule, severity, location)>> ELSE <<>>
\* One issue for each element of s that is Bad(its index), in order.
EachOf(s, rule, severity, place, Bad(_)) ==
    FlattenSeq([i \in DOMAIN s |-> Issues(rule, severity, <<place, i>>, Bad(i))])

-----------------------------------------------------------------------------
NamingConventionRule(case) ==
    Issues("naming-convention", "Warning", <<"name">>, ~case.name.capital)
    \o Issues("naming-convention", "Warning", <<"name">>, case.name.length < 10)

DescriptionRequiredRule(case) ==
    Issues("description-required", "Warning", <<"description">>, ~case.described)

TagsRequiredRule(case) == Issues("tags-required", "Info", <<"tags">>, ~case.tagged)

AssertionRequiredRule(case) ==
    Issues("assertion-required", "Error", <<"case">>, case.assertions = <<>>)

TimeoutValidationRule(case) ==
    Issues("timeout-validation", "Warning", <<"timeout">>,
           case.timeout # <<>> /\ \E t \in ToSet(case.timeout) : t > 300)
    \o Issues("timeout-validation", "Error", <<"timeout">>,
              case.timeout # <<>> /\ \E t \in ToSet(case.timeout) : t < 1)

UrlValidationRule(case) ==
    Issues("url-validation", "Warning", <<"request">>, case.url.local)
    \o Issues("url-validation", "Error", <<"request">>,
              case.url.start \notin {"http://", "https://", "{{"})

\* The method is compared in upper case.
HttpMethodValidationRule(case) ==
    Issues("http-method-validation", "Error", <<"request">>,
           case.method \notin {"GET", "POST", "PUT", "DELETE", "PATCH", "HEAD", "OPTIONS"})

HeaderValidationRule(case) ==
    LET named(keys) == DOMAIN case.headers \cap keys # {}
    IN  Issues("header-validation", "Warning", <<"request">>,
               case.method \in {"POST", "PUT", "PATCH"}
               /\ ~named({"Content-Type", "content-type"}))
        \o Issues("header-validation", "Info", <<"request">>, ~named({"Accept", "accept"}))

\* The headers are in a map; the issues of two of them are alike.
SecretKeys == {"X-Api-Key", "Token"}
SecurityHeadersRule(case) ==
    LET bad == {k \in DOMAIN case.headers \cap SecretKeys :
                   case.headers[k].start \notin {"{{", "$"}}
    IN  [i \in 1..Cardinality(bad) |-> Issue("security-headers", "Error", <<"request">>)]

PerformanceAssertionRule(case) ==
    Issues("performance-assertion", "Info", <<"case">>,
           \A i \in DOMAIN case.assertions : case.assertions[i].type # "response_time")

VariableNamingRule(case) ==
    FlattenSeq([i \in DOMAIN case.extractions |->
        Issues("variable-naming", "Warning", <<"extraction", i>>, ~case.extractions[i].snake)
        \o Issues("variable-naming", "Warning", <<"extraction", i>>,
                  case.extractions[i].length < 3)])

DuplicateAssertionRule(case) ==
    EachOf(case.assertions, "duplicate-assertion", "Warning", "assertion",
           LAMBDA i : \E j \in 1..(i - 1) :
               /\ case.assertions[j].type = case.assertions[i].type
               /\ case.assertions[j].expected = case.assertions[i].expected)

Used(case) ==
    case.url.uses \cup UNION {case.headers[k].uses : k \in DOMAIN case.headers}
    \cup UNION {b.uses : b \in ToSet(case.body)}
    \cup UNION {case.assertions[i].uses : i \in DOMAIN case.assertions}
UnusedVariableRule(case) ==
    EachOf(case.extractions, "unused-variable", "Info", "extraction",
           LAMBDA i : case.extractions[i].name \notin Used(case))

\* One issue for a body, however many words it holds that tell of a credential.
HardcodedCredentialsRule(case) ==
    Issues("hardcoded-credentials", "Error", <<"request">>, case.url.rest = "user@host")
    \o Issues("hardcoded-credentials", "Error", <<"request">>,
              \E b \in ToSet(case.body) : b.suspicious /\ ~b.variable)

-----------------------------------------------------------------------------
Rules == <<"naming-convention", "description-required", "tags-required", "assertion-required",
           "timeout-validation", "url-validation", "http-method-validation",
           "header-validation", "security-headers", "performance-assertion",
           "variable-naming", "duplicate-assertion", "unused-variable",
           "hardcoded-credentials">>

Validate(case) ==
    <<NamingConventionRule(case), DescriptionRequiredRule(case), TagsRequiredRule(case),
      AssertionRequiredRule(case), TimeoutValidationRule(case), UrlValidationRule(case),
      HttpMethodValidationRule(case), HeaderValidationRule(case), SecurityHeadersRule(case),
      PerformanceAssertionRule(case), VariableNamingRule(case), DuplicateAssertionRule(case),
      UnusedVariableRule(case), HardcodedCredentialsRule(case)>>

Category(rule) ==
    CASE rule \in {"naming-convention", "variable-naming"} -> "Naming"
      [] rule \in {"description-required", "tags-required", "duplicate-assertion",
                   "unused-variable"} -> "Maintainability"
      [] rule \in {"assertion-required", "http-method-validation"} -> "Structure"
      [] rule \in {"timeout-validation", "performance-assertion"} -> "Performance"
      [] rule \in {"url-validation", "header-validation"} -> "BestPractices"
      [] rule \in {"security-headers", "hardcoded-credentials"} -> "Security"

is_rule_enabled(rule, config) ==
    rule \notin config.disabled /\ (config.enabled = {} \/ rule \in config.enabled)

Severities == <<"Info", "Warning", "Error">>
Rank(severity) == SelectInSeq(Severities, LAMBDA s : s = severity)
meets_severity_threshold(severity, config) == Rank(severity) >= Rank(config.threshold)

Penalty(severity) == CASE severity = "Error" -> 10 [] severity = "Warning" -> 5
                       [] severity = "Info" -> 1
calculate_quality_score(issues) ==
    LET left == FoldLeft(LAMBDA score, i : score - Penalty(i.severity), 100, issues)
    IN  IF left > 0 THEN left ELSE 0

lint_test_case(case, config) ==
    LET told == Validate(case)
        asked == [r \in DOMAIN Rules |->
                     IF is_rule_enabled(Rules[r], config) THEN told[r] ELSE <<>>]
        issues == SelectSeq(FlattenSeq(asked),
                            LAMBDA i : meets_severity_threshold(i.severity, config))
    IN  [issues |-> issues, score |-> calculate_quality_score(issues)]

\* The report of lint_test_cases; the average is kept as its sum.
lint_test_cases(cases, config) ==
    LET results == [i \in DOMAIN cases |-> lint_test_case(cases[i], config)]
        issues == FlattenSeq([i \in DOMAIN cases |-> results[i].issues])
        Count(Of(_)) == FoldLeft(LAMBDA counts, i : [counts EXCEPT ![Of(i)] = @ + 1],
                                 [x \in {"Info", "Warning", "Error", "Naming", "Maintainability",
                                         "Structure", "Performance", "BestPractices", "Security"}
                                    |-> 0],
                                 issues)
    IN  [total |-> Len(cases), results |-> results, by_severity |-> Count(LAMBDA i : i.severity),
         by_category |-> Count(LAMBDA i : Category(i.rule)),
         scores |-> FoldLeft(LAMBDA sum, r : sum + r.score, 0, results)]

-----------------------------------------------------------------------------
(***************************************************************************)
(* Properties                                                              *)
(***************************************************************************)
Default == [enabled |-> {}, disabled |-> {}, threshold |-> "Warning"]
Everything == [Default EXCEPT !.threshold = "Info"]

\* A configuration only takes issues away: what it leaves is what all the rules tell, in their
\* order, without what it asks to hide, and hiding never lowers the score.
HidesOnly(case, config) ==
    LET all == lint_test_case(case, Everything)
        left == lint_test_case(case, config)
        hidden(i) ==
            \/ i.rule \in config.disabled
            \/ config.enabled # {} /\ i.rule \notin config.enabled
            \/ config.threshold = "Error" /\ i.severity # "Error"
            \/ config.threshold = "Warning" /\ i.severity = "Info"
    IN  /\ left.issues = SelectSeq(all.issues, LAMBDA i : ~hidden(i))
        /\ left.score >= all.score

\* Every issue is counted once by its severity and once by its category, and the score of a
\* test case is full exactly when nothing is told of it.
CountsRight(cases, config) ==
    LET report == lint_test_cases(cases, config)
        count(by) == MapThenSumSet(LAMBDA x : by[x], DOMAIN by)
        found == FoldLeft(LAMBDA n, r : n + Len(r.issues), 0, report.results)
    IN  /\ count(report.by_severity) = found /\ count(report.by_category) = found
        /\ (report.scores = 100 * report.total) <=> (found = 0)

\* A test case that the default configuration finds nothing wrong with can be run and shows
\* no credential: it has assertions, a method, a protocol or a variable for it, and a
\* credential only where a variable stands for it.
CleanIsSafe(case) ==
    lint_test_case(case, Default).issues = <<>> =>
        /\ case.assertions # <<>> /\ case.method # "FETCH" /\ case.url.start # "ftp://"
        /\ case.url.rest # "user@host" /\ \A b \in ToSet(case.body) : b.suspicious => b.variable
        /\ \A k \in DOMAIN case.headers \cap SecretKeys : case.headers[k].start # "text"

LintRight(case, other, config) ==
    HidesOnly(case, config) /\ CountsRight(<<case, other>>, config) /\ CleanIsSafe(case)
=============================================================================
