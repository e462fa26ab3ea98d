---------------------------- MODULE MCServices ----------------------------
(***************************************************************************)
(* Services of the program that share no state, checked in one run: a      *)
(* behaviour is one of the chosen service, and the others rest.            *)
(***************************************************************************)
EXTENDS Configuration, TestCaseStore, Alerting, Metrics, AuthChain, InteractiveExecution,
        Templates, Workflow, ResultAnalysis, MCInputs

VARIABLE service

-----------------------------------------------------------------------------
Settings(strategy, retry, dir) ==
    [kind |-> "config", strategy |-> strategy, retry |-> retry, dir |-> dir]

\* A file that is sound, one that only sets a directory that cannot be created, and one
\* that can be read but is not valid.
SoundFile == Settings("parallel", 5, "")
MCContents ==
    {Absent, Broken, SoundFile, Settings("", 0, "unusable"), Settings("fast", 3, "")}
MCTexts == Strategies \cup {"", "fast", "reports", "unusable", "unset", "unparsable"}
\* Two sound files that ask for different strategies.
MCRivals == {SoundFile, Settings("distributed", 5, "")}
MCGiven == {Settings("distributed", 2, "reports")}

-----------------------------------------------------------------------------
\* Two rules of one name, which share their state: what raises the alert of one resolves it
\* for the other, so that two loops may both come to resolve or to escalate one alert.
MCRules ==
    {[id |-> "errors", enabled |-> TRUE, channels |-> {},
      condition |-> [kind |-> "ErrorRate", threshold |-> 5],
      escalations |-> <<[delay |-> 0, channels |-> {"mail"}],
                        [delay |-> 0, channels |-> {"mail", "console"}],
                        [delay |-> 1, channels |-> {}]>>],
     [id |-> "errors", enabled |-> TRUE, channels |-> {"console"}, escalations |-> <<>>,
      condition |-> [kind |-> "MetricThreshold", operator |-> "GreaterThan", threshold |-> 3]]}
\* The rules and the clock are looked at when a round begins: they change when one may begin.
RoundsSee ==
    /\ rounds = MaxRounds => UNCHANGED Started
    /\ (\A l \in Loops : loops[l].at = "waiting" => rounds = MaxRounds) => UNCHANGED <<rules, clock>>
    /\ Len(rules') = Cardinality(Range(rules'))
MCSnapshots ==
    {[error_rate |-> e, total_requests |-> 4 - (e \div 5), average |-> 1, p95 |-> 2, p99 |-> 3,
      success_rate |-> 90, usage |-> [Cpu |-> 0, Memory |-> 50]] : e \in {0, 10}}
MCConditions ==
    {r.condition : r \in MCRules}
    \cup [kind : {"ResponseTime"}, percentile : {50, 95, 99}, threshold : {1, 2}]
    \cup [kind : {"ResourceUsage"}, resource : {"Cpu", "Network", "Memory"}, threshold : {10}]
    \cup [kind : {"TestFailureRate"}, threshold : {5, 10}]
    \cup [kind : {"MetricThreshold"}, operator : ComparisonOperator, threshold : {3}]

-----------------------------------------------------------------------------
Basic == [type |-> "basic", username |-> TRUE, password |-> TRUE]
Jwt(algorithm) == [type |-> "jwt", secret |-> TRUE, algorithm |-> algorithm]
OAuth2 == [type |-> "oauth2", client |-> TRUE, url |-> TRUE, grant |-> "password",
           username |-> TRUE, password |-> TRUE]
\* Every dependency relation between three steps, the last of which may be its own, a chain
\* with no step, and chains that list a plugin twice.
ChainStep(name, required, depends_on, own) ==
    [name |-> name, required |-> required, depends_on |-> SetToSeq(depends_on), config |-> own]
MCChains ==
    {[strategy |-> "RetryAll", steps |-> <<>>]} \cup
    {[strategy |-> strategy,
      steps |-> <<ChainStep("oauth2", TRUE, d, OAuth2), ChainStep("basic", TRUE, {}, Basic),
                  ChainStep("oauth2", q, {"basic"}, OAuth2)>>] :
        strategy \in FailureStrategy, q \in BOOLEAN, d \in SUBSET {"basic"}} \cup
    {[strategy |-> strategy,
      steps |-> <<ChainStep("oauth2", q, d1, OAuth2), ChainStep("jwt", ~q, d2, Jwt(algorithm)),
                  ChainStep("basic", TRUE, d3, Basic)>>] :
        strategy \in FailureStrategy, q \in BOOLEAN, algorithm \in {"HS256", "HS384"},
        d1 \in SUBSET {"basic", "jwt"}, d2 \in SUBSET {"basic", "oauth2"},
        d3 \in SUBSET {"basic", "jwt", "oauth2"}}
\* A chain that is not executed.
NoChain == CHOOSE c \in MCChains : c.strategy = "FailFast"

-----------------------------------------------------------------------------
MCCases == {[url |-> "set", assertions |-> 2, extractions |-> FALSE],
            [url |-> "", assertions |-> 0, extractions |-> TRUE]}
MCBatches == {<<s, t>> : s \in {c \in MCCases : c.url = ""}, t \in {c \in MCCases : c.url # ""}}
MCDebugOptions ==
    {[dry_run |-> FALSE, inspect_variables |-> TRUE, breakpoints |-> {1}, step_through |-> FALSE],
     [dry_run |-> TRUE, inspect_variables |-> FALSE, breakpoints |-> {}, step_through |-> TRUE]}

-----------------------------------------------------------------------------
Mine(type, named) ==
    [id |-> "mine", category |-> "Custom", tags |-> {}, named |-> named,
     text |-> <<Ref("a"), Lit("sep"), Ref("b"), Ref("a")>>, timeout |-> <<5>>,
     variables |-> {Required("a", type), Optional("b", "Path")}]
MCTemplateWords == STRING
MCTemplates == {Mine("Number", TRUE), Mine("String", TRUE), Mine("String", FALSE),
                [Mine("Number", TRUE) EXCEPT !.id = "rest-api-get"]}
MCValues == {[text |-> <<Lit("7")>>, fits |-> {"Number", "Json"}, seconds |-> <<7>>],
             [text |-> <<Lit("{"), Quote>>, fits |-> {"Json"}, seconds |-> <<>>],
             [text |-> <<Escape("tab"), Lit("x")>>, fits |-> {}, seconds |-> <<>>],
             [text |-> <<Lit("7"), Control>>, fits |-> {}, seconds |-> <<>>],
             [text |-> <<Lit("https"), Ref("b")>>, fits |-> {"Url", "^https?://"},
              seconds |-> <<>>]}

-----------------------------------------------------------------------------
WorkflowStep(id, request, assertions, extractions, rollback, refs, depends_on) ==
    [id |-> id, request |-> request, assertions |-> assertions, extractions |-> extractions,
     rollback |-> rollback, refs |-> refs, depends_on |-> depends_on]
StatusIs(status) ==
    [type |-> "status_code", path |-> "", expected |-> [kind |-> "Exact", value |-> status]]
HasToken ==
    [type |-> "json_path", path |-> "$.token", expected |-> [kind |-> "NotEmpty", value |-> ""]]
Extraction(name, type, path) == [name |-> name, type |-> type, path |-> path]
\* The second step may fail its assertion or have no response to read; dependencies may
\* be circular or missing.
MCWorkflows ==
    {[rollback_on_failure |-> r, steps |->
        <<WorkflowStep("a", "login", {StatusIs("200")}, {Extraction("t", "JsonPath", "$.token")},
                       "POST", {}, d1),
          WorkflowStep("b", q, {HasToken}, {Extraction("n", "JsonPath", "$.data.length")},
                       "DELETE", {"t"}, d2),
          WorkflowStep("c", "POST", {StatusIs(s)}, {Extraction("s", "StatusCode", "")},
                       "", {"t", "n"}, d3)>>] :
        r \in BOOLEAN, q \in {"DELETE", "GET", "login"}, s \in {"201", "500"},
        d1 \in {<<>>, <<"b">>}, d2 \in {<<>>, <<"c", "a">>, <<"a">>},
        d3 \in {<<>>, <<"a", "b">>, <<"x">>, <<"a">>}}
NoWorkflow == CHOOSE w \in MCWorkflows : ~w.rollback_on_failure

-----------------------------------------------------------------------------
ResultStep(success, message, passes) ==
    [success |-> success, message |-> message, request |-> <<>>, response |-> <<"r">>,
     assertions |-> <<[success |-> passes, expected |-> "array", actual |-> "null"]>>]
MCExecuted ==
    {[name |-> 1, success |-> TRUE, duration |-> 400, steps |-> <<ResultStep(TRUE, <<>>, TRUE)>>],
     [name |-> 2, success |-> FALSE, duration |-> 1,
      steps |-> <<ResultStep(FALSE, <<{"network", "timed out"}>>, FALSE),
                  ResultStep(FALSE, <<>>, FALSE)>>]}
MCAdded == {[name |-> 1, status |-> "Skipped", time |-> 1, duration |-> 1, analysis |-> <<>>]}
MCResultFilters ==
    {[AnyResult EXCEPT !.status = <<"Failed">>],
     [AnyResult EXCEPT !.name = <<{1}>>, !.has_failure_analysis = <<FALSE>>],
     [AnyResult EXCEPT !.time = <<<<2, 2>>>>, !.duration = <<<<1, 3>>>>]}
MCSorts == {[field |-> "Duration", descending |-> FALSE], [field |-> "Status", descending |-> TRUE],
            [field |-> "FailureCount", descending |-> TRUE],
            [field |-> "TestName", descending |-> FALSE]}

-----------------------------------------------------------------------------
\* TLC evaluates what replaces a constant at each use, and what that is defined by once.
TheContents == MCContents
TheTexts == MCTexts
TheGiven == MCGiven
TheRules == MCRules
TheSnapshots == MCSnapshots
TheConditions == MCConditions
TheChains == MCChains
TheCases == MCCases
TheBatches == MCBatches
TheDebugOptions == MCDebugOptions
TheTemplates == MCTemplates
TheValues == MCValues
TheWorkflows == MCWorkflows
TheExecuted == MCExecuted
TheAdded == MCAdded
TheResultFilters == MCResultFilters
TheSorts == MCSorts

-----------------------------------------------------------------------------
MCInit ==
    /\ service \in {"configuration", "test cases", "alerting", "metrics", "authentication",
                    "debugging", "templates", "workflows", "results", "inputs"}
    /\ IF service = "configuration" THEN files \in [Paths -> Contents]
       ELSE files = [p \in Paths |-> Absent] /\ override = "unset"
    /\ IF service = "authentication" THEN chain \in Chains
       ELSE chain = NoChain /\ who = "executor"
    /\ IF service = "workflows" THEN workflow \in Workflows ELSE workflow = NoWorkflow
    /\ ConfigInit /\ StoreInit /\ AlertInit /\ MetricsInit /\ ChainInit /\ DebugInit
    /\ TemplateInit /\ WorkflowInit /\ ResultInit
    /\ override = "unset" \/ \A p \in Paths : files[p] = SoundFile
    /\ InputInit

\* The loops, callers, clients and authors are alike: as long as all are in one place, the
\* first to leave it is the same one (a symmetry set would not do for a liveness property).
First(where) ==
    LET one == CHOOSE x \in DOMAIN where : TRUE
    IN  (\A x \in DOMAIN where : where[x] = where[one]) =>
            \A x \in DOMAIN where \ {one} : where'[x] = where[x]

MCNext ==
    /\ UNCHANGED service
    /\ \/ service = "inputs" /\ InputNext
       \/ service # "inputs" /\ UNCHANGED input
    /\ \/ service = "configuration" /\ ConfigNext
       \/ service # "configuration" /\ UNCHANGED configVars
    /\ \/ service = "test cases" /\ StoreNext /\ First(calls)
       \/ service # "test cases" /\ UNCHANGED storeVars
    /\ \/ service = "alerting" /\ AlertNext /\ First(loops) /\ RoundsSee
       \/ service # "alerting" /\ UNCHANGED alertVars
    /\ \/ service = "metrics" /\ MetricsNext /\ First(recording)
       \/ service # "metrics" /\ UNCHANGED metricsVars
    /\ \/ service = "authentication" /\ ChainNext
       \/ service # "authentication" /\ UNCHANGED chainVars
    /\ \/ service = "debugging" /\ DebugNext /\ First(session)
       \/ service # "debugging" /\ UNCHANGED debugVars
    /\ \/ service = "templates" /\ made.result.outcome = "none" /\ TemplateNext /\ First(creating)
       \/ service # "templates" /\ UNCHANGED templateVars
    /\ \/ service = "workflows" /\ WorkflowNext
       \/ service # "workflows" /\ UNCHANGED workflowVars
    /\ \/ service = "results" /\ ResultNext
       \/ service # "results" /\ UNCHANGED resultVars

\* ConfigFairness, for the behaviours of the configuration.
MCFairness ==
    /\ WF_configVars(service = "configuration" /\ OwnerStep)
    /\ WF_configVars(service = "configuration" /\ TaskStep)

MCSpec ==
    /\ MCInit
    /\ [][MCNext]_<<configVars, storeVars, alertVars, metricsVars, chainVars, debugVars,
                    templateVars, workflowVars, resultVars, service, input>>
    /\ MCFairness

-----------------------------------------------------------------------------
\* The state of the service is well typed.
ServicesTypeOK ==
    CASE service = "configuration" -> ConfigTypeOK
      [] service = "test cases" -> StoreTypeOK
      [] service = "alerting" -> AlertTypeOK
      [] service = "metrics" -> MetricsTypeOK
      [] service = "authentication" -> ChainTypeOK
      [] service = "debugging" -> DebugTypeOK
      [] service = "templates" -> TemplateTypeOK
      [] service = "workflows" -> WorkflowTypeOK
      [] OTHER -> TRUE
=============================================================================
