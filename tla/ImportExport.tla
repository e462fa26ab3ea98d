---------------------------- MODULE ImportExport ----------------------------
(***************************************************************************)
(* The importers and exporters of src/import_export: Postman collections   *)
(* in both directions, OpenAPI specifications in one.                      *)
(*                                                                         *)
(* A URL is [host, path], the host being "" where the text does not start  *)
(* with a scheme, and the path a sequence of tokens: Hole("x") is {x}, a   *)
(* Dollar before it makes ${x}.  What may be missing is <<>> or <<value>>. *)
(* A name is [s, marks]: its text, and the tags it has in brackets or      *)
(* behind a #.  What a HashMap yields first is a choice, an argument.      *)
(***************************************************************************)
EXTENDS JsonValues

LOCAL A == INSTANCE Assertions

Text(s) == [kind |-> "text", s |-> s]
Hole(s) == [kind |-> "hole", s |-> s]
Dollar == Text("$")
\* {{x}}, the variables of Postman.
Postman(s) == [kind |-> "postman", s |-> s]

Tag(s) == [kind |-> "plain", s |-> s, path |-> <<>>]
Folder(path) == [kind |-> "folder", s |-> "", path |-> path]

Check(type, expected) == [type |-> type, expected |-> expected]
Upper == [m \in {"get", "post"} |-> IF m = "get" THEN "GET" ELSE "POST"]
to_uppercase(method) == IF method \in DOMAIN Upper THEN Upper[method] ELSE method

-----------------------------------------------------------------------------
(***************************************************************************)
(* To Postman                                                              *)
(***************************************************************************)
\* The first tag of a folder counts.
FolderOf(case) ==
    LET folders == SelectSeq(case.tags, LAMBDA t : t.kind = "folder")
    IN  IF folders = <<>> THEN <<>> ELSE <<folders[1].path>>
FoldersOf(cases) == UNION {Range(FolderOf(cases[i])) : i \in DOMAIN cases}

Pair(key, value) == [key |-> key, value |-> value, disabled |-> FALSE]
Pairs(config, keys) ==
    [i \in DOMAIN keys |-> Pair(keys[i], IF keys[i] \in DOMAIN config THEN config[keys[i]] ELSE "")]
PostmanKeys == [bearer |-> <<"token">>, basic |-> <<"username", "password">>,
                apikey |-> <<"key", "value">>]
PostmanAuth(auth) ==
    IF auth.type \in DOMAIN PostmanKeys
    THEN [type |-> auth.type, data |-> Pairs(auth.config, PostmanKeys[auth.type])]
    ELSE [type |-> "noauth", data |-> <<>>]

Item(name, description) ==
    [name |-> name, description |-> description, request |-> <<>>, item |-> <<>>, event |-> <<>>]

\* Tags, assertions, extractions and dependencies stay behind.
convert_test_case_to_postman_item(case) ==
    LET r == case.request
    IN  [Item(case.name, case.description) EXCEPT !.request = <<[
            method |-> r.method,
            header |-> LET keys == SetToSeq(DOMAIN r.headers)
                       IN  [i \in DOMAIN keys |-> Pair(keys[i], r.headers[keys[i]])],
            body |-> [i \in DOMAIN r.body |->
                         [mode |-> "raw", raw |-> <<r.body[i]>>, data |-> <<>>]],
            url |-> [raw |-> <<r.url>>, built |-> r.url, query |-> <<>>],
            auth |-> [i \in DOMAIN r.auth |-> PostmanAuth(r.auth[i])]]>>]

\* What is in no folder comes first, then one folder after the other.
convert_test_cases_to_postman(cases, order) ==
    LET those(folder) == SelectSeq(cases, LAMBDA c : FolderOf(c) = folder)
        items(s) == [i \in DOMAIN s |-> convert_test_case_to_postman_item(s[i])]
    IN  items(those(<<>>))
        \o [i \in DOMAIN order |->
               [Item([s |-> order[i], marks |-> <<>>], <<>>)
                   EXCEPT !.item = <<items(those(<<order[i]>>))>>]]

\* ExportData, of the JSON and YAML exporters.
with_metadata(cases) ==
    [test_cases |-> cases, total_count |-> Len(cases), folders |-> FoldersOf(cases),
     tags |-> UNION {Range(cases[i].tags) : i \in DOMAIN cases}]

-----------------------------------------------------------------------------
(***************************************************************************)
(* From Postman                                                            *)
(***************************************************************************)
Enabled(pairs) == SelectSeq(pairs, LAMBDA p : ~p.disabled)
\* The last of several values of a key; "" for none.
LastOf(pairs, key, default) ==
    LET values == SelectSeq(pairs, LAMBDA p : p.key = key)
    IN  IF values = <<>> THEN default ELSE Last(values).value
Has(pairs, key) == \E i \in DOMAIN pairs : pairs[i].key = key

\* A base URL takes the place of scheme and host, or comes before a URL that has none.
Rebased(url, options) ==
    IF options.base_url_override = <<>> THEN url
    ELSE [url EXCEPT !.host = options.base_url_override[1]]

\* The text in raw wins over the parts.  The variables of the collection change their form.
convert_postman_url(url, variables, options) ==
    LET query == Enabled(url.query)
        source == IF url.raw # <<>> THEN url.raw[1]
                ELSE [url.built EXCEPT !.path = @ \o FlattenSeq([i \in DOMAIN query |->
                         <<Text(IF i = 1 THEN "?" ELSE "&"), Text(query[i].key),
                           Text(query[i].value)>>])]
    IN  [Rebased(source, options) EXCEPT !.path = FlattenSeq([i \in DOMAIN @ |->
            IF @[i].kind = "postman" /\ @[i].s \in variables THEN <<Dollar, Hole(@[i].s)>>
            ELSE <<@[i]>>])]

convert_postman_headers(pairs) ==
    [k \in {Enabled(pairs)[i].key : i \in DOMAIN Enabled(pairs)} |-> LastOf(Enabled(pairs), k, "")]

\* A form becomes one text of the fields that are enabled, all of them or, as JSON, the last
\* one of each key.
convert_postman_body(body) ==
    IF body = <<>> THEN <<>>
    ELSE CASE body[1].mode = "urlencoded" ->
                 [i \in DOMAIN body[1].data |-> Enabled(body[1].data[i])]
           [] body[1].mode = "formdata" ->
                 [i \in DOMAIN body[1].data |-> convert_postman_headers(body[1].data[i])]
           [] OTHER -> body[1].raw

\* A token, or both of two values; an API key is in a header unless it says where.
convert_postman_auth(auth) ==
    IF auth = <<>> THEN <<>>
    ELSE LET type == auth[1].type
             data == auth[1].data
             config(keys) == [k \in keys |-> LastOf(data, k, "")]
         IN  CASE type = "bearer" /\ Has(data, "token") ->
                     <<[type |-> type, config |-> [k \in {"token"} |->
                         data[SelectInSeq(data, LAMBDA p : p.key = "token")].value]]>>
               [] type = "basic" /\ Has(data, "username") /\ Has(data, "password") ->
                     <<[type |-> type, config |-> config({"username", "password"})]>>
               [] type = "apikey" /\ Has(data, "key") /\ Has(data, "value") ->
                     <<[type |-> type, config |->
                         [k \in {"location"} |-> LastOf(data, "in", "header")]
                         @@ config({"key", "value"})]>>
               [] OTHER -> <<>>

Prefixed(s, options) ==
    IF options.tag_prefix = <<>> THEN s ELSE options.tag_prefix[1] \o ":" \o s
extract_tags(name, source, options) ==
    <<Tag(Prefixed(source, options))>> \o [i \in DOMAIN name.marks |-> Tag(name.marks[i])]

generate_default_assertions == <<Check("status_code", "200"), Check("response_time", "5000")>>

\* The path of a value in a test script: of a call, what comes before its first closing
\* parenthesis; responseJson stays as it is written.
PathOf(source) ==
    CASE source = "pm.response.json().x" -> "$.pm.response.json("
      [] source = "responseJson.x" -> source
      [] OTHER -> "$." \o source
extract_variables_from_tests(events) ==
    LET tests == SelectSeq(events, LAMBDA e : e.listen = "test")
        lines == FlattenSeq([i \in DOMAIN tests |-> tests[i].exec])
        sets == SelectSeq(lines, LAMBDA l : l.sets # "")
    IN  [i \in DOMAIN sets |-> [name |-> sets[i].sets, path |-> PathOf(sets[i].source)]]

convert_postman_item_to_test_case(item, variables, options, folder) ==
    LET r == item.request[1]
    IN  [name |-> item.name, description |-> item.description,
         tags |-> extract_tags(item.name, "postman", options)
                  \o (IF folder = <<>> THEN <<>> ELSE <<Folder(folder)>>),
         request |-> [method |-> to_uppercase(r.method), body |-> convert_postman_body(r.body),
                      url |-> convert_postman_url(r.url, variables, options),
                      headers |-> convert_postman_headers(r.header),
                      auth |-> convert_postman_auth(r.auth)],
         assertions |-> IF options.generate_assertions THEN generate_default_assertions ELSE <<>>,
         extractions |-> extract_variables_from_tests(item.event)]

\* Folders may hold folders; an item that holds nothing is passed over.
RECURSIVE process_items_recursively(_, _, _, _)
process_items_recursively(items, variables, options, folder) ==
    FlattenSeq([i \in DOMAIN items |->
        IF items[i].item # <<>>
        THEN process_items_recursively(items[i].item[1], variables, options,
                                       folder \o items[i].name.s)
        ELSE [j \in DOMAIN items[i].request |->
                 convert_postman_item_to_test_case(items[i], variables, options, folder)]])

-----------------------------------------------------------------------------
(***************************************************************************)
(* From OpenAPI                                                            *)
(***************************************************************************)
replace_hole(path, name, value) ==
    FlattenSeq([i \in DOMAIN path |-> IF path[i] = Hole(name) THEN value ELSE <<path[i]>>])

\* An example as JSON writes it, a text in its quotes; or a variable named like the parameter.
ParameterValue(p) ==
    IF p.example = <<>> THEN <<Dollar, Hole(p.name)>>
    ELSE LET s == p.example[1].s
         IN  <<Text(IF p.example[1].kind = "string" THEN "'" \o s \o "'" ELSE s)>>

\* Parameters in the order of the list; those of a cookie are left out.
add_parameter(path, p) ==
    CASE p.location = "query" ->
            path \o <<Text(IF Contains(path, Text("?")) THEN "&" ELSE "?"), Text(p.name)>>
                 \o ParameterValue(p)
      [] p.location = "path" -> replace_hole(path, p.name, ParameterValue(p))
      [] OTHER -> path

\* A schema has the parts it names: example, type, properties and items.
RECURSIVE generate_value_from_schema(_)
generate_value_from_schema(schema) ==
    IF "example" \in DOMAIN schema THEN schema.example
    ELSE IF "type" \notin DOMAIN schema THEN Str("example")
    ELSE CASE schema.type = "string" -> Str("string")
           [] schema.type = "integer" -> Num("42")
           [] schema.type = "number" -> Num("3.14")
           [] schema.type = "bool" -> Bool("true")
           [] schema.type = "array" /\ "items" \in DOMAIN schema ->
                 Arr(<<generate_value_from_schema(schema.items)>>)
           [] schema.type = "array" -> Arr(<<>>)
           [] schema.type = "object" /\ "properties" \in DOMAIN schema ->
                 Obj([k \in DOMAIN schema.properties |->
                         generate_value_from_schema(schema.properties[k])])
           [] schema.type = "object" -> Obj(<<>>)
           [] OTHER -> Str("example")

\* type is the one of the body's content types that the map yields first.  The security of
\* an operation is not looked at: no test case has an auth.  Nor are the parameters of a path.
convert_operation_to_request(path, method, op, url, type, options) ==
    LET header == SelectSeq(op.parameters, LAMBDA p : p.location = "header")
    IN  [method |-> to_uppercase(method), auth |-> <<>>,
         url |-> [url EXCEPT !.path = FoldLeft(add_parameter, @ \o path, op.parameters)],
         headers |-> (IF type = "" THEN <<>> ELSE [k \in {"Content-Type"} |-> <<Text(type)>>])
                     @@ [k \in {header[i].name : i \in DOMAIN header} |->
                            ParameterValue(Last(SelectSeq(header, LAMBDA p : p.name = k)))],
         body |-> IF type = "" \/ ~options.include_examples THEN <<>>
                  ELSE IF op.content[type].example # <<>> THEN op.content[type].example
                  ELSE [i \in DOMAIN op.content[type].schema |->
                           generate_value_from_schema(op.content[type].schema[i])]]

\* code is the one of the responses that stand for success that the map yields first; 2XX
\* stands for 200.
SuccessCodes(responses) == responses \cap {"200", "201", "2XX"}
generate_assertions_from_responses(code) ==
    (IF code = "" THEN <<>> ELSE <<Check("status_code", IF code = "2XX" THEN "200" ELSE code)>>)
    \o <<Check("response_time", "5000")>>

get_base_url(servers, options) ==
    IF options.base_url_override # <<>> THEN [host |-> options.base_url_override[1], path |-> <<>>]
    ELSE IF servers # <<>> THEN servers[1]
    ELSE [host |-> "api.example.com", path |-> <<>>]

get_folder_path(tags, options) ==
    IF tags = <<>> THEN <<>> ELSE <<Folder(options.tag_prefix \o <<tags[1]>>)>>

\* A name is the operation's id, or its summary, or what is called how.
convert_operation_to_test_case(path, method, op, servers, type, code, options) ==
    [name |-> (op.id \o op.summary \o <<method>>)[1],
     description |-> op.description,
     tags |-> <<Tag(Prefixed("openapi", options))>> \o [i \in DOMAIN op.tags |-> Tag(op.tags[i])]
              \o get_folder_path(op.tags, options)
              \o [i \in DOMAIN op.id |-> Tag("operation:" \o op.id[i])],
     request |-> convert_operation_to_request(path, method, op, get_base_url(servers, options),
                                              type, options),
     assertions |-> IF options.generate_assertions THEN generate_assertions_from_responses(code)
                    ELSE <<>>,
     extractions |-> <<>>]

-----------------------------------------------------------------------------
(***************************************************************************)
(* Properties                                                              *)
(***************************************************************************)
Plain == [base_url_override |-> <<>>, tag_prefix |-> <<>>, generate_assertions |-> TRUE,
          include_examples |-> TRUE]
Within(folder, cases) == SelectSeq(cases, LAMBDA c : FolderOf(c) = folder)
\* A folder without a name is none.
FolderKept(folder) == IF folder = <<<<>>>> THEN <<>> ELSE folder

\* An auth keeps what its type asks for, "" where that was missing; where the key of an API
\* goes and the other types of auth are lost.
AuthKept(auth) ==
    IF auth = <<>> \/ auth[1].type \notin DOMAIN PostmanKeys THEN <<>>
    ELSE <<[type |-> auth[1].type,
            config |-> LET keys == Range(PostmanKeys[auth[1].type])
                           config == [k \in keys |->
                               IF k \in DOMAIN auth[1].config THEN auth[1].config[k] ELSE ""]
                       IN  IF auth[1].type = "apikey"
                           THEN config @@ [k \in {"location"} |-> "header"] ELSE config]>>
Kept(case) == [name |-> case.name, description |-> case.description,
               request |-> [case.request EXCEPT !.method = to_uppercase(@), !.auth = AuthKept(@)]]

\* What is exported as a Postman collection and imported again are the same requests in the
\* same folders, in each folder in their order, in whatever order the folders are written;
\* the metadata of the other exports name the same folders.  (exporter.rs:87, postman.rs:141.)
ReadBack(cases) ==
    \A order \in SetToSeqs(FoldersOf(cases)) :
        LET items == convert_test_cases_to_postman(cases, order)
            back == process_items_recursively(items, {}, Plain, <<>>)
            folders == {FolderKept(FolderOf(cases[i])) : i \in DOMAIN cases}
            facts(s) == [i \in DOMAIN s |->
                [name |-> s[i].name, description |-> s[i].description, request |-> s[i].request]]
        IN  /\ Len(back) = Len(cases)
            /\ \A folder \in folders \ {<<>>} :
                  LET those == Within(folder, cases)
                  IN  facts(Within(folder, back)) = [i \in DOMAIN those |-> Kept(those[i])]
            /\ LET outside == {j \in DOMAIN cases : FolderKept(FolderOf(cases[j])) = <<>>}
               IN  Range(facts(Within(<<>>, back))) = {Kept(cases[i]) : i \in outside}
            /\ with_metadata(back).folders = with_metadata(cases).folders \ {<<>>}

\* A request in nested folders becomes one test case, which names the way to it; nothing
\* that is disabled gets into it; a variable of the collection is one of the runner; a base
\* URL replaces the host, never the path; and a form has the same values in both encodings.
\* (postman.rs:202, 294.)
Nest(path, item) ==
    FoldRight(LAMBDA name, inner :
                  [Item([s |-> <<name>>, marks |-> <<>>], <<>>) EXCEPT !.item = <<<<inner>>>>],
              path, item)
ItemTrue(item, path, variables, options) ==
    LET back == process_items_recursively(<<Nest(path, item)>>, variables, options, <<>>)
        r == item.request[1]
        case == back[1]
        disabled == {r.header[i].key : i \in {j \in DOMAIN r.header : r.header[j].disabled}}
        enabled == {r.header[i].key : i \in {j \in DOMAIN r.header : ~r.header[j].disabled}}
        form == r.url.query
        encoded(mode) == convert_postman_body(<<[mode |-> mode, raw |-> <<>>, data |-> <<form>>]>>)
        urlencoded == encoded("urlencoded")
        formdata == encoded("formdata")
        url == case.request.url
    IN  /\ Len(back) = 1
        /\ FolderOf(case) = IF path = <<>> THEN <<>> ELSE <<path>>
        /\ enabled = DOMAIN case.request.headers
        /\ \A k \in disabled \ enabled : k \notin DOMAIN case.request.headers
        /\ \A i \in DOMAIN url.path : url.path[i].kind = "postman" => url.path[i].s \notin variables
        /\ r.url.raw = <<>> => \A i \in DOMAIN form :
              Contains(url.path, Text(form[i].key)) <=>
                  \E j \in DOMAIN form : form[j].key = form[i].key /\ ~form[j].disabled
        /\ options.base_url_override # <<>> =>
              /\ url.host = options.base_url_override[1]
              /\ url.path = convert_postman_url(r.url, variables, Plain).path
        /\ formdata[1] = [k \in {urlencoded[1][i].key : i \in DOMAIN urlencoded[1]} |->
                            LastOf(urlencoded[1], k, "")]

\* A hole is filled in that has no $ before it.
Bare(path) ==
    LET bare == {j \in DOMAIN path : path[j].kind = "hole" /\ (j > 1 => path[j - 1] # Dollar)}
    IN  {path[i] : i \in bare}
Named(parameters, location) ==
    LET those == SelectSeq(parameters, LAMBDA p : p.location = location)
    IN  [i \in DOMAIN those |-> those[i].name]
\* What the validator of schemas and the generator of examples both know.
RECURSIVE Common(_)
Common(schema) ==
    /\ "example" \notin DOMAIN schema /\ "type" \in DOMAIN schema
    /\ schema.type # "integer"
    /\ "items" \in DOMAIN schema => Common(schema.items)
    /\ "properties" \in DOMAIN schema =>
          \A k \in DOMAIN schema.properties : Common(schema.properties[k])

\* The request of an operation leaves no hole of its path open but those it does not declare;
\* its query has the parameters in their order, one ? before them; a $ is before a hole only,
\* if no two parameters share a name; the body an operation's schema makes is one the
\* assertion on that schema accepts, integers apart, which it does not know; and no status
\* is asserted that the operation does not answer.  (openapi.rs:145.)
OperationTrue(path, method, op, servers, options) ==
    \A type \in IF DOMAIN op.content = {} THEN {""} ELSE DOMAIN op.content,
      code \in IF SuccessCodes(op.responses) = {} THEN {""} ELSE SuccessCodes(op.responses) :
        LET case == convert_operation_to_test_case(path, method, op, servers, type, code, options)
            url == case.request.url.path
            given == get_base_url(servers, options).path \o path
            queries == Named(op.parameters, "query")
            inPath == Range(Named(op.parameters, "path"))
            isMark(t) == t \in {Text("?"), Text("&")}
            marks == SelectSeq(url, isMark)
            place(n) == CHOOSE j \in DOMAIN url :
                isMark(url[j]) /\ Len(SelectSeq(SubSeq(url, 1, j), isMark)) = n
            schema == IF type = "" THEN <<>> ELSE op.content[type].schema
            statuses == SelectSeq(case.assertions, LAMBDA c : c.type = "status_code")
        IN  /\ Bare(url) = {h \in Bare(given) : h.s \notin inPath}
            /\ marks = SelectSeq(given, isMark) \o [i \in DOMAIN queries |->
                  Text(IF i = 1 /\ ~Contains(given, Text("?")) THEN "?" ELSE "&")]
            /\ [i \in DOMAIN queries |-> url[place(i + Len(marks) - Len(queries)) + 1].s] = queries
            /\ IsInjective([i \in DOMAIN op.parameters |-> op.parameters[i].name]) =>
                  \A i \in DOMAIN url : url[i] = Dollar => url[i + 1].kind = "hole"
            /\ case.request.body # <<>> /\ op.content[type].example = <<>> /\ Common(schema[1]) =>
                  A!validate_against_schema(case.request.body[1], schema[1])
            /\ (schema # <<>> /\ schema[1] = [type |-> "integer"] /\ case.request.body # <<>>
                   /\ op.content[type].example = <<>>)
                  => ~A!validate_against_schema(case.request.body[1], schema[1])
            /\ statuses # <<>> =>
                  /\ Len(statuses) = 1 /\ options.generate_assertions
                  /\ statuses[1].expected \in op.responses \/ "2XX" \in op.responses
=============================================================================
