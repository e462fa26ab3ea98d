------------------------------ MODULE MCInputs ------------------------------
(***************************************************************************)
(* Inputs of the parts of the program that keep no state: readers of data, *)
(* assertions, queries of events and of test cases.  A behaviour chooses   *)
(* one input, for which the answers must be right.                         *)
(***************************************************************************)
EXTENDS Naturals, FiniteSets

LOCAL INSTANCE JsonValues

D == INSTANCE DataSources
A == INSTANCE Assertions
E == INSTANCE EventQueries
T == INSTANCE TestCaseSearch
L == INSTANCE TestCaseLinter
X == INSTANCE ImportExport

VARIABLE input

UpTo(n, S) == UNION {[1..k -> S] : k \in 0..n}
Objects(fields, S) == UNION {[d -> S] : d \in SUBSET fields}

-----------------------------------------------------------------------------
(***************************************************************************)
(* Documents                                                               *)
(***************************************************************************)
\* Characters: a letter, a quote, a delimiter and a blank.
CsvField == UpTo(2, {"a", "q", "d", "b"})

MCScalars == {Null, Str("7"), Str("x"), Str("{}"), Num("1.5"), Num("7"), Bool("true")}
MCObjects == {Obj([k \in {"a"} |-> v]) : v \in {Str("x"), Tagged(Num("7")), Num("2^63")}}
MCItems == MCObjects \cup {Str("x"), Num(".inf"), Arr(<<Str("x")>>), Tagged(Obj([k \in {"a"} |-> Null]))}
MCDocs == MCScalars \cup MCObjects \cup {Arr(<<u, v>>) : u, v \in MCItems}
MCRecordRules == {[k \in {"a"} |-> [kind |-> "Required"]],
                  [k \in {"a", "b"} |-> [kind |-> "OneOf", allowed |-> {"y"}]],
                  [k \in {"b"} |-> [kind |-> "Range", allowed |-> {"7"}]]}

DataInputs ==
    [kind : {"csv"}, fields : UpTo(2, CsvField) \ {<<>>}]
    \cup [kind : {"document"}, path : {<<>>, <<"rows">>},
          doc : MCDocs \cup {Obj([k \in {"rows"} |-> d]) : d \in MCDocs}]
    \cup [kind : {"convert"}, type : D!DataType,
          value : MCScalars \cup MCObjects \cup {Arr(<<>>), Str("[]"), Str("true")}]
    \cup [kind : {"stages"}, record : [{"a", "b"} -> {Str("x"), Str("y"), Null, Num("7")}],
          mappings : Objects({"a", "b"}, {"a", "b", "c"}), rules : MCRecordRules]

-----------------------------------------------------------------------------
(***************************************************************************)
(* Assertions                                                              *)
(***************************************************************************)
MCLeaves == {Num("1"), Num("2"), Str("x")}
MCActual == {Null, Str(""), Str("1"), Str("x"), Num("1"), Num("1.0"), Bool("true")}
            \cup {Arr(s) : s \in UpTo(2, MCLeaves)}
            \cup {Obj(f) : f \in Objects({"a", "b"}, MCLeaves)}
MCPairs == LET some == {Obj([k \in d |-> v]) : d \in {{"a"}, {"a", "b"}}, v \in MCLeaves}
           IN  {Arr(<<u, v>>) : u, v \in some}

XmlText(s) == [name |-> "", ns |-> "", s |-> s, children |-> <<>>]
XmlElement(name, ns, children) == [name |-> name, ns |-> ns, s |-> "", children |-> children]
MCInner == {XmlText("t")} \cup {XmlElement(name, ns, children) :
               name \in {"item", "list"}, ns \in {"", "n"}, children \in {<<>>, <<XmlText("u")>>}}
MCXml == {XmlElement("list", "", children) : children \in UpTo(2, MCInner)}
         \cup {XmlElement("list", "", <<XmlElement("item", "n", children)>>) :
                  children \in UpTo(2, MCInner) \ {<<>>}}
         \cup {XmlElement("list", "", <<XmlText("t"), e, XmlText("u")>>) : e \in MCInner}

MCExpected == [kind : {"Exact"}, value : MCActual, holds : {{}}]
              \cup [kind : {"Contains", "Pattern", "Range"}, value : {Null},
                    holds : SUBSET {"1", "x", "a"}]
              \cup [kind : {"NotEmpty"}, value : {Null}, holds : {{}}]
MCSettings == {[k \in d |-> v] :
    d \in {{}, {"database_type", "queue_type", "cache_type"}, {"query", "queue_name"},
           {"cache_key", "json_path"}, {"xpath_expression", "queue_url"},
           {"schema", "ignore_order", "namespaces"}, {"query", "connection_string"}},
    v \in {Str(""), Str("x"), Str("MySQL"), Str("Redis"), Bool("true"),
           Obj([x \in {"m"} |-> Str("u")]), Obj([x \in {"m", "n"} |-> Str("v")])}}

AssertionInputs ==
    [kind : {"structure"}, a : MCActual \cup MCPairs, e : MCActual \cup MCPairs]
    \cup [kind : {"xml"}, doc : MCXml, name : {"item", "list", "other"}]
    \cup [kind : {"compare"}, a : MCActual, e : MCExpected]
    \cup [kind : {"settings"}, a : MCSettings, e : MCSettings]

-----------------------------------------------------------------------------
(***************************************************************************)
(* Queries                                                                 *)
(***************************************************************************)
\* Times with one digit and with two.
MCEvents == [id : 1..2, time : 9..11, kind : {"error", "test_lifecycle"}, suite : {<<"s">>},
             case : {<<"s", "c">>}]
MCStored == LET some == {e \in MCEvents : e.id = e.time - 8 \/ (e.time = 11 /\ e.id = 1)}
            IN  UpTo(2, MCEvents) \cup [1..3 -> some]
AnyEvent == [types |-> <<>>, sources |-> <<>>, tags |-> <<>>, start |-> <<>>, end |-> <<>>,
             suites |-> <<>>, cases |-> <<>>]
MCEventFilters == [types : {<<>>, <<{"error", "request_execution"}>>}, sources : {<<>>, <<{"test_engine"}>>},
                   tags : {<<>>, <<{"system", "test"}>>}, start : {<<>>, <<1>>},
                   end : {<<>>, <<2>>}, suites : {<<>>, <<{<<"s">>}>>, <<{<<"s", "t">>}>>},
                   cases : {<<>>, <<{<<"s", "t", "c">>}>>}]
EventInputs ==
    [kind : {"stores"}, stored : MCStored, limit : 0..2, start : 9..10, end : 10..11,
     filter : {AnyEvent, [AnyEvent EXCEPT !.types = <<{"error"}>>]}]
    \cup [kind : {"filter"}, filter : MCEventFilters, suite : {<<"s">>, <<"s", "t">>},
          case : {<<>>, <<"s", "t", "c">>, <<"s", "c">>}, time : 1..3]

\* Three test cases, of which the third may be unreadable.
ListedCase(id, name, description, at, readable) ==
    [id |-> id, name |-> name, description |-> description, readable |-> readable,
     tags |-> IF id = 1 THEN {"smoke"} ELSE {"smoke", "slow"}, protocol |-> "http",
     method |-> "GET", url |-> IF id = 2 THEN "a" ELSE "b", auth |-> id = 1,
     assertions |-> id # 2, variables |-> id = 3, version |-> id, created_at |-> at,
     updated_at |-> IF name = 1 THEN at + 1 ELSE at]
MCListed ==
    LET third == {ListedCase(3, 1, <<2>>, 1, readable) : readable \in BOOLEAN}
    IN  {<<>>} \cup {<<c>> : c \in third}
        \cup {<<ListedCase(2, n2, d, 1, TRUE), ListedCase(1, n1, <<>>, at, TRUE), c>> :
                 n1, n2 \in 1..2, d \in {<<>>, <<2>>}, at \in 1..2, c \in third}
MCPatterns == {[valid |-> TRUE, exact |-> {1}, folded |-> {1, 2}],
               [valid |-> FALSE, exact |-> {}, folded |-> {}]}
MCWords == [valid : BOOLEAN, exact : {{"GET", "a"}}, folded : {{"GET", "a", "b"}}]
MCCaseFilters ==
    {T!AnyCase,
     [T!AnyCase EXCEPT !.tags = <<{"smoke", "slow"}>>],
     [T!AnyCase EXCEPT !.tags = <<{"slow"}>>, !.tags_match_all = TRUE],
     [T!AnyCase EXCEPT !.version = <<2>>], [T!AnyCase EXCEPT !.protocol = <<"grpc">>],
     [T!AnyCase EXCEPT !.has_assertions = <<TRUE>>, !.has_variables = <<TRUE>>]}
    \cup {[T!AnyCase EXCEPT !.name_pattern = <<p>>] : p \in MCPatterns}
    \cup {[T!AnyCase EXCEPT !.description_pattern = <<p>>, !.method = <<w>>] :
             p \in MCPatterns, w \in MCWords}
    \cup {[T!AnyCase EXCEPT !.url_pattern = <<w>>] : w \in MCWords}
MCSearchOptions ==
    {[T!DefaultOptions EXCEPT !.case_sensitive = case, !.use_regex = regex, !.limit = 1,
                              !.sort_by = by, !.descending = case] :
        case \in BOOLEAN, regex \in BOOLEAN, by \in {"Name", "UpdatedAt"}}
Unchanged == [k \in T!ChangedFields |-> 0]
CaseInputs ==
    [kind : {"search"}, listed : MCListed, filter : MCCaseFilters, options : MCSearchOptions]
    \cup [kind : {"text"}, listed : MCListed, pattern : MCPatterns, options : MCSearchOptions]
    \cup [kind : {"changes"}, fields : {f \in SUBSET T!ChangedFields : Cardinality(f) <= 2}]

-----------------------------------------------------------------------------
(***************************************************************************)
(* Test cases to lint: one without issues, with up to two changes          *)
(***************************************************************************)
LintUrl(start, rest) == [start |-> start, rest |-> rest, local |-> rest = "user@host",
                         uses |-> IF start = "{{" THEN {"base"} ELSE {}]
LintAssertion(type, expected) == [type |-> type, expected |-> expected, uses |-> {expected}]
MCClean == [name |-> [capital |-> TRUE, length |-> 10], described |-> TRUE, tagged |-> TRUE,
            assertions |-> <<LintAssertion("response_time", "7")>>, timeout |-> <<>>,
            url |-> LintUrl("http://", "host"), method |-> "GET", body |-> <<>>,
            headers |-> [k \in {"Accept"} |-> [start |-> "text", uses |-> {}]],
            extractions |-> <<>>]
MCHeaders == {[k \in keys |-> [start |-> start, uses |-> {"id"}]] :
    keys \in {{}, {"Accept", "Token"}, {"X-Api-Key", "Token", "accept"}, {"content-type"}},
    start \in {"text", "$"}}
MCChanged ==
    {[MCClean EXCEPT !.name = n] : n \in [capital : BOOLEAN, length : {9, 10}]}
    \cup {[MCClean EXCEPT !.described = FALSE], [MCClean EXCEPT !.tagged = FALSE]}
    \cup {[MCClean EXCEPT !.assertions = s] :
             s \in UpTo(2, {LintAssertion("status", "200"), LintAssertion("status", "id")})}
    \cup {[MCClean EXCEPT !.timeout = <<t>>] : t \in {0, 1, 300, 301}}
    \cup {[MCClean EXCEPT !.url = LintUrl(start, rest)] :
             start \in {"ftp://", "{{", "https://"}, rest \in {"host", "user@host", "{{user}}@host"}}
    \cup {[MCClean EXCEPT !.method = m] : m \in {"POST", "FETCH"}}
    \cup {[MCClean EXCEPT !.headers = h] : h \in MCHeaders}
    \cup {[MCClean EXCEPT !.body = <<[suspicious |-> s, variable |-> v, uses |-> {"base"}]>>] :
             s, v \in BOOLEAN}
    \cup {[MCClean EXCEPT !.extractions = s] :
             s \in UpTo(2, {[name |-> "id", snake |-> TRUE, length |-> 2],
                            [name |-> "base", snake |-> FALSE, length |-> 4]})}
\* The changes of both.
Both(c, d) == [f \in DOMAIN MCClean |-> IF c[f] # MCClean[f] THEN c[f] ELSE d[f]]
MCLintConfigs ==
    {[L!Default EXCEPT !.threshold = "Warning"],
     [enabled |-> {"url-validation", "tags-required", "security-headers"},
      disabled |-> {"url-validation"}, threshold |-> "Info"]}
LintInputs == [kind : {"lint"}, c : MCChanged, d : MCChanged, config : MCLintConfigs]

-----------------------------------------------------------------------------
(***************************************************************************)
(* Test cases to export, items of a collection and operations to import    *)
(***************************************************************************)
MCUrl(host, path) == [host |-> host, path |-> path]
MCAuths == {<<>>} \cup {<<[type |-> t, config |-> [k \in d |-> "v"]]>> :
    t \in {"bearer", "basic", "apikey", "oauth2"},
    d \in {{}, {"token", "username", "key"}, {"username", "password"}, {"key", "value", "location"}}}
ExportedCase(n, folder, method, auth) ==
    [name |-> [s |-> <<n>>, marks |-> IF n = "one" THEN <<"slow">> ELSE <<>>],
     description |-> IF n = "one" THEN <<>> ELSE <<n>>,
     tags |-> <<X!Tag(n)>> \o [i \in DOMAIN folder |-> X!Folder(folder[i])],
     request |-> [method |-> method, url |-> MCUrl("host", <<X!Text(n)>>), auth |-> auth,
                  headers |-> [k \in IF n = "one" THEN {"a", "b"} ELSE {} |-> n],
                  body |-> IF n = "one" THEN <<>> ELSE <<n>>]]
MCFolders == {<<>>, <<<<>>>>, <<<<"a">>>>, <<<<"a", "b">>>>, <<<<"b">>, <<"a">>>>}
ExportInputs ==
    [kind : {"export"}, auth : MCAuths, method : {"get", "PATCH"}, first : MCFolders,
     second : MCFolders, third : MCFolders]

MCPair(key, value, disabled) == [key |-> key, value |-> value, disabled |-> disabled]
MCPairsOf == UpTo(2, {MCPair(k, v, d) : k \in {"h", "i"}, v \in {"1", "2"}, d \in BOOLEAN})
MCRaw == {<<>>, <<MCUrl("", <<X!Postman("base"), X!Text("x")>>)>>, <<MCUrl("host", <<X!Text("x")>>)>>}
ItemInputs ==
    [kind : {"item"}, header : MCPairsOf, query : UpTo(1, {MCPair("q", "1", d) : d \in BOOLEAN}),
     raw : MCRaw, path : {<<>>, <<"a">>, <<"a", "b">>}, variables : {{}, {"base"}},
     override : {<<>>, <<"other">>}]
MCItem(header, query, raw) ==
    [X!Item([s |-> <<"one">>, marks |-> <<>>], <<>>) EXCEPT
        !.request = <<[method |-> "get", header |-> header, body |-> <<>>, auth |-> <<>>,
                       url |-> [raw |-> raw, built |-> MCUrl("host", <<X!Text("x")>>), query |-> query]]>>,
        !.event = <<[listen |-> "test", exec |->
            <<[sets |-> "v", source |-> "pm.response.json().x"], [sets |-> "", source |-> ""],
              [sets |-> "w", source |-> "responseJson.x"]>>]>>]

MCParameters == UpTo(2, {[name |-> n, location |-> l, example |-> e] :
    n \in {"id", "q"}, l \in {"query", "path", "header", "cookie"}, e \in {<<>>, <<Str("x")>>, <<Num("7")>>}})
MCSchemas ==
    LET one == {[type |-> t] : t \in {"string", "integer", "number", "bool", "array", "object"}}
        listed == {[type |-> "array", items |-> s] : s \in one}
    IN  one \cup listed
        \cup {[type |-> "object", required |-> {"a"}, properties |-> [k \in {"a"} |-> s]] : s \in one}
        \cup {[type |-> "array", items |-> s] : s \in listed}
MCContent(schema) == [k \in {"application/json"} |-> [example |-> <<>>, schema |-> <<schema>>]]
OperationInputs ==
    [kind : {"operation"}, parameters : MCParameters, content : {MCContent([type |-> "string"])},
     path : {<<X!Text("/x"), X!Hole("id")>>, <<X!Hole("id"), X!Hole("q")>>},
     responses : {{"404", "201", "200"}}, server : {<<>>, <<X!Text("?")>>}]
    \cup [kind : {"operation"}, parameters : {<<>>},
           content : {<<>>} \cup {MCContent(s) : s \in MCSchemas},
           path : {<<X!Text("/x")>>}, responses : {{"404"}, {"2XX", "201"}, {}}, server : {<<>>}]
MCOperation(i) ==
    [id |-> <<"op">>, summary |-> <<>>, description |-> <<>>, tags |-> <<"t">>,
     parameters |-> i.parameters, content |-> i.content, responses |-> i.responses]

ImportInputs == ExportInputs \cup ItemInputs \cup OperationInputs

-----------------------------------------------------------------------------
NoInput == [kind |-> "none"]
InputGroups == <<DataInputs, AssertionInputs, EventInputs, CaseInputs, LintInputs, ImportInputs>>
InputInit == input = NoInput
InputNext ==
    \/ input = NoInput /\ input' \in [kind : {"group"}, of : DOMAIN InputGroups]
    \/ input.kind = "group" /\ input' \in InputGroups[input.of]

\* What is read, compared or asserted about a document is what the document says, what is
\* told of a test case is what the rules find in it, and what is imported is what was
\* exported or specified.
DocumentsRight ==
    CASE input.kind = "csv" -> D!CsvReadBack(input.fields)
      [] input.kind = "document" -> D!FormatsAgree(input.doc, input.path)
      [] input.kind = "convert" -> D!ConversionTrue(input.value, input.type)
      [] input.kind = "stages" -> D!StagesKeepFields(input.record, input.mappings, input.rules)
      [] input.kind = "structure" -> A!StructureRight(input.a, input.e)
      [] input.kind = "xml" -> A!QueriesRight(input.doc, input.name, "list")
      [] input.kind = "compare" -> A!ComparersAgree(input.a, input.e)
      [] input.kind = "settings" -> A!ValidationsRight(input.a, input.e)
      [] input.kind = "lint" ->
            L!LintRight(Both(input.c, input.d), input.d, input.config)
      [] input.kind = "export" ->
            X!ReadBack(<<ExportedCase("one", input.first, input.method, input.auth),
                         ExportedCase("two", input.second, "GET", <<>>),
                         ExportedCase("three", input.third, input.method, <<>>)>>)
      [] input.kind = "item" ->
            X!ItemTrue(MCItem(input.header, input.query, input.raw), input.path, input.variables,
                       [X!Plain EXCEPT !.base_url_override = input.override])
      [] input.kind = "operation" ->
            X!OperationTrue(input.path, "get", MCOperation(input),
                            <<MCUrl("host", input.server)>>, X!Plain)
      [] OTHER -> TRUE

\* What is found among stored events or test cases is what was asked for, however it is
\* stored and paged.
SearchesRight ==
    CASE input.kind = "stores" ->
            E!StoresAgree(input.stored, input.filter, input.limit, input.start, input.end)
      [] input.kind = "filter" ->
            E!FiltersAgree(input.filter, input.suite, input.case, input.time)
      [] input.kind = "search" ->
            T!SearchSound(input.listed, input.filter, input.options, 1)
      [] input.kind = "text" -> T!TextFound(input.listed, input.pattern, input.options)
      [] input.kind = "changes" ->
            T!ChangesRight(Unchanged, [k \in T!ChangedFields |-> IF k \in input.fields THEN 1 ELSE 0])
      [] OTHER -> TRUE
=============================================================================
