----------------------------- MODULE Assertions -----------------------------
(***************************************************************************)
(* The assertions on responses of src/json_assertions.rs and               *)
(* src/xml_assertions.rs, and the validations of other systems of          *)
(* src/cross_system_validations.rs, whose queries the code simulates.      *)
(*                                                                         *)
(* What is expected is [kind, value, holds]: the value of Exact, or the    *)
(* texts and numbers that a Contains, Pattern or Range is true of.  A body *)
(* that cannot be parsed is None.                                          *)
(***************************************************************************)
EXTENDS JsonValues

Result(success, actual) == [success |-> success, actual |-> actual]

-----------------------------------------------------------------------------
(***************************************************************************)
(* Queries                                                                 *)
(***************************************************************************)
\* The values a path leads to; "*" goes to every item.
Step(found, part) ==
    IF part = "*" THEN FlattenSeq([i \in DOMAIN found |-> found[i].items])
    ELSE SelectSeq([i \in DOMAIN found |-> get(found[i], part)], LAMBDA v : v # None)
path_query(value, path) == FoldLeft(Step, <<value>>, path)

\* One result stands for itself, any other number of them is an array.
execute_jsonpath(value, path) ==
    LET found == path_query(value, path)
    IN  IF "invalid" \in Range(path) THEN None
        ELSE IF Len(found) = 1 THEN found[1] ELSE Arr(found)

\* The first child of an element, if it is a text.
text(node) ==
    IF node.children # <<>> /\ node.children[1].name = "" THEN <<node.children[1].s>> ELSE <<>>

\* The elements of a name, a parent before its children.
RECURSIVE find_elements_by_name_for_nodes(_, _)
find_elements_by_name_for_nodes(node, name) ==
    (IF node.name = name THEN <<node>> ELSE <<>>)
    \o FlattenSeq([i \in DOMAIN node.children |->
                    find_elements_by_name_for_nodes(node.children[i], name)])

find_elements_by_name(doc, name) ==
    LET found == find_elements_by_name_for_nodes(doc, name)
    IN  FlattenSeq([i \in DOMAIN found |-> text(found[i])])

\* Broken variant: the root is not counted.
count_elements_by_name_below(doc, name) ==
    LET below == [i \in DOMAIN doc.children |->
                    find_elements_by_name_for_nodes(doc.children[i], name)]
    IN  ToString(Len(FlattenSeq(below)))

count_elements_by_name(doc, name) == ToString(Len(find_elements_by_name_for_nodes(doc, name)))

\* The texts of an element, without what lies between them, or else its name.
TextsIn(node) == SelectSeq(node.children, LAMBDA c : c.name = "")
get_element_text_content(node) ==
    LET joined == FoldLeft(LAMBDA before, c : before \o c.s, "", TextsIn(node))
    IN  IF joined = "" THEN "<" \o node.name \o ">" ELSE joined

\* Elements by the name and the namespace; an element in none has "".
find_namespaced_elements(doc, name, uri) ==
    LET found == SelectSeq(find_elements_by_name_for_nodes(doc, name), LAMBDA n : n.ns = uri)
    IN  FlattenSeq([i \in DOMAIN found |-> text(found[i])])

Strings(texts) == Arr([i \in DOMAIN texts |-> Str(texts[i])])
OneOrMore(texts) == CASE texts = <<>> -> Null
                      [] Len(texts) = 1 -> Str(texts[1])
                      [] OTHER -> Strings(texts)

\* Only a query for elements takes a path apart, and it looks for its last name anywhere.
execute_simple_xpath(doc, query) ==
    LET name == IF Len(query.path) = 1 THEN query.path[1] ELSE "a path"
        found == find_elements_by_name_for_nodes(doc, Last(query.path))
    IN  CASE query.shape = "text" -> OneOrMore(find_elements_by_name(doc, name))
          [] query.shape = "elements" ->
                Strings([i \in DOMAIN found |-> get_element_text_content(found[i])])
          [] query.shape = "count" -> Num(count_elements_by_name(doc, name))
          [] OTHER -> None

execute_single_namespace_xpath(doc, query, namespaces) ==
    IF query.shape = "text" /\ query.prefix \in DOMAIN namespaces
    THEN OneOrMore(find_namespaced_elements(doc, query.name, namespaces[query.prefix]))
    ELSE None

\* A union is an array, and its parts that fail are left out.
execute_namespace_xpath(doc, queries, namespaces) ==
    LET result(i) == execute_single_namespace_xpath(doc, queries[i], namespaces)
        texts(v) == CASE v.kind = "string" -> <<v>> [] v.kind = "array" -> v.items [] OTHER -> <<>>
    IN  IF Len(queries) = 1 THEN result(1)
        ELSE Arr(FlattenSeq([i \in DOMAIN queries |-> texts(result(i))]))

-----------------------------------------------------------------------------
(***************************************************************************)
(* Comparisons                                                             *)
(***************************************************************************)
is_empty(v) == \/ v = Null \/ v = Str("")
               \/ v.kind = "array" /\ v.items = <<>>
               \/ v.kind = "object" /\ DOMAIN v.fields = {}

\* JsonPathAssertion
compare_values(actual, expected) ==
    CASE expected.kind = "Exact" -> actual = expected.value
      [] expected.kind \in {"Contains", "Pattern"} ->
            actual.kind = "string" /\ actual.s \in expected.holds
      [] expected.kind = "NotEmpty" -> ~is_empty(actual)
      [] expected.kind = "Range" -> actual.kind = "number" /\ actual.s \in expected.holds

\* XPathAssertion: numbers that are equal are the same number, and texts are parsed for ranges.
as_f64(v) == IF v.s = "1.0" THEN "1" ELSE v.s
compare_xpath(actual, expected) ==
    CASE expected.kind = "Exact" /\ actual.kind = "number" /\ expected.value.kind = "number" ->
            as_f64(actual) = as_f64(expected.value)
      [] expected.kind = "Range" ->
            actual.kind \in {"number", "string"} /\ actual.s \in expected.holds
      [] OTHER -> compare_values(actual, expected)

\* What the others do not support is false.
compare_namespaced(actual, expected) ==
    expected.kind \in {"Exact", "Contains", "NotEmpty"} /\ compare_values(actual, expected)
compare_database_result(actual, expected) ==
    expected.kind \in {"Exact", "Range", "NotEmpty"} /\ compare_values(actual, expected)
compare_queue_state(actual, expected) ==
    \/ expected.kind = "Exact" /\ compare_values(actual, expected)
    \/ expected.kind = "NotEmpty" /\ actual.kind \in {"object", "array"} /\ ~is_empty(actual)

\* A cache value contains what its JSON contains.
RECURSIVE texts_of(_)
texts_of(v) == {v.s} \cup DOMAIN v.fields
               \cup UNION {texts_of(v.fields[k]) : k \in DOMAIN v.fields}
               \cup UNION {texts_of(v.items[i]) : i \in DOMAIN v.items}
compare_cache_value(actual, expected) ==
    CASE expected.kind = "Contains" -> texts_of(actual) \cap expected.holds # {}
      [] OTHER -> expected.kind \in {"Exact", "NotEmpty"} /\ compare_values(actual, expected)

-----------------------------------------------------------------------------
(***************************************************************************)
(* Schemas and structures                                                  *)
(***************************************************************************)
\* A schema has the parts it names: type, required, properties and items.
RECURSIVE validate_against_schema(_, _)
validate_against_schema(data, schema) ==
    /\ "type" \in DOMAIN schema => data.kind = schema.type
    /\ data.kind = "object" =>
          /\ "required" \in DOMAIN schema => schema.required \subseteq DOMAIN data.fields
          /\ "properties" \in DOMAIN schema =>
                \A k \in DOMAIN schema.properties \cap DOMAIN data.fields :
                    validate_against_schema(data.fields[k], schema.properties[k])
    /\ data.kind = "array" /\ "items" \in DOMAIN schema =>
          \A i \in DOMAIN data.items : validate_against_schema(data.items[i], schema.items)

\* Without an order every expected item must be found, perhaps the same one twice.
RECURSIVE deep_compare(_, _, _, _)
deep_compare(actual, expected, ignore_order, ignore_extra) ==
    LET same(a, e) == deep_compare(a, e, ignore_order, ignore_extra)
    IN  CASE actual.kind = "object" /\ expected.kind = "object" ->
                /\ \A k \in DOMAIN expected.fields :
                      k \in DOMAIN actual.fields /\ same(actual.fields[k], expected.fields[k])
                /\ ignore_extra \/ DOMAIN actual.fields \subseteq DOMAIN expected.fields
          [] actual.kind = "array" /\ expected.kind = "array" ->
                /\ Len(actual.items) = Len(expected.items)
                /\ IF ignore_order
                   THEN \A i \in DOMAIN expected.items :
                            \E j \in DOMAIN actual.items : same(actual.items[j], expected.items[i])
                   ELSE \A i \in DOMAIN expected.items : same(actual.items[i], expected.items[i])
          [] OTHER -> actual = expected

-----------------------------------------------------------------------------
(***************************************************************************)
(* The assertions                                                          *)
(***************************************************************************)
execute_json_path(body, path, expected) ==
    LET found == execute_jsonpath(body, path)
    IN  IF None \in {body, found} THEN Result(FALSE, body)
        ELSE Result(compare_values(found, expected), found)
execute_json_schema(body, schema) ==
    Result(body # None /\ schema # None /\ validate_against_schema(body, schema),
           IF schema = None THEN None ELSE body)
execute_json_structure(body, expected, ignore_order, ignore_extra) ==
    Result(/\ body # None /\ expected.kind = "Exact"
           /\ deep_compare(body, expected.value, ignore_order, ignore_extra), body)

execute_xpath(doc, query, expected) ==
    LET found == IF doc = None THEN None ELSE execute_simple_xpath(doc, query)
    IN  Result(found # None /\ compare_xpath(found, expected), found)
\* Any document that can be parsed is taken to be valid.
execute_xml_schema(doc, schema) ==
    Result(doc # None /\ schema # None, IF schema = None THEN None ELSE doc)
execute_namespace(doc, queries, namespaces, expected) ==
    LET found == IF doc = None THEN None ELSE execute_namespace_xpath(doc, queries, namespaces)
    IN  Result(found # None /\ compare_namespaced(found, expected), found)

\* The simulated systems.
execute_database_query(database, query) ==
    CASE query = "select count" ->
            Num(CASE database = "PostgreSQL" -> "5" [] database = "MySQL" -> "3" [] OTHER -> "2")
      [] query = "select" /\ database = "PostgreSQL" ->
            Arr(<<Obj([id |-> Num("1"), name |-> Str("Test User")])>>)
      [] OTHER -> Bool("true")
check_queue_state(queue, name, url) ==
    CASE queue = "RabbitMQ" ->
            Obj([queue_name |-> Str(name), message_count |-> Num("3"),
                 consumer_count |-> Num("1"), status |-> Str("running")])
      [] queue = "Redis" -> Obj([key |-> Str(name), length |-> Num("5"), type |-> Str("list")])
      [] queue = "AmazonSQS" ->
            Obj([queue_url |-> Str(url), approximate_number_of_messages |-> Num("2"),
                 visibility_timeout |-> Num("30")])
      [] queue = "ApacheKafka" ->
            Obj([topic |-> Str(name), partition_count |-> Num("3"), replication_factor |-> Num("2")])
check_cache_value(cache, key) ==
    CASE cache = "Redis" /\ key = "user" ->
            Obj([id |-> Num("123"), name |-> Str("John Doe"), cached_at |-> Str("noon")])
      [] cache = "Redis" /\ key = "count" -> Num("42")
      [] cache = "Redis" -> Str("cached_value")
      [] cache = "Memcached" -> Str("memcached_value")
      [] cache = "InMemory" ->
            Obj([key |-> Str(key), value |-> Str("in_memory_value"), ttl |-> Num("300")])

execute_database(database, query, expected) ==
    LET found == execute_database_query(database, query)
    IN  Result(compare_database_result(found, expected), found)
execute_queue(queue, name, url, expected) ==
    LET found == check_queue_state(queue, name, url)
    IN  Result(compare_queue_state(found, expected), found)
execute_cache(cache, key, expected) ==
    LET found == check_cache_value(cache, key)
    IN  Result(compare_cache_value(found, expected), found)

-----------------------------------------------------------------------------
(***************************************************************************)
(* Settings: what is no text is passed over; a name that is unknown stands *)
(* for the first type, not for the one there was.  A validation that lacks *)
(* something is refused, and keeps what it was given.  A timeout, which    *)
(* none of the simulated calls takes, is left out.                         *)
(***************************************************************************)
Setting(settings, k, old) ==
    IF k \in DOMAIN settings /\ settings[k].kind = "string" THEN settings[k].s ELSE old
TypeSetting(settings, k, known, first, old) ==
    IF k \notin DOMAIN settings \/ settings[k].kind # "string" THEN old
    ELSE IF settings[k].s \in known THEN settings[k].s ELSE first

Initialized(p, complete) ==
    [plugin |-> p, outcome |-> IF complete THEN "ok" ELSE "InitializationFailed"]

initialize_json_path(p, settings) ==
    LET new == [p EXCEPT !.json_path = Setting(settings, "json_path", @)]
    IN  Initialized(new, new.json_path # "")
initialize_json_schema(p, settings) ==
    LET new == [p EXCEPT !.schema = IF "schema" \in DOMAIN settings THEN settings.schema ELSE @]
    IN  Initialized(new, new.schema # None)
initialize_json_structure(p, settings) ==
    LET flag(k, old) == IF k \in DOMAIN settings THEN settings[k] = Bool("true") ELSE old
    IN  Initialized([ignore_order |-> flag("ignore_order", p.ignore_order),
                     ignore_extra_fields |-> flag("ignore_extra_fields", p.ignore_extra_fields)],
                    TRUE)
initialize_xpath(p, settings) ==
    LET new == [p EXCEPT !.xpath_expression = Setting(settings, "xpath_expression", @)]
    IN  Initialized(new, new.xpath_expression # "")
\* A schema that is empty is one.
initialize_xml_schema(p, settings) ==
    LET given == "schema" \in DOMAIN settings /\ settings.schema.kind = "string"
        new == [p EXCEPT !.schema_content = IF given THEN settings.schema ELSE @]
    IN  Initialized(new, new.schema_content # None)
\* Namespaces are added to the ones there are.
initialize_namespace(p, settings) ==
    LET given == IF "namespaces" \in DOMAIN settings /\ settings.namespaces.kind = "object"
                 THEN settings.namespaces.fields ELSE <<>>
        uris == [x \in {y \in DOMAIN given : given[y].kind = "string"} |-> given[x].s]
    IN  [initialize_xpath(p, settings) EXCEPT !.plugin.namespaces = uris @@ @]
initialize_database(p, settings) ==
    LET new == [connection_string |-> Setting(settings, "connection_string", p.connection_string),
                query |-> Setting(settings, "query", p.query),
                database_type |-> TypeSetting(settings, "database_type",
                    {"PostgreSQL", "MySQL", "SQLite"}, "PostgreSQL", p.database_type)]
    IN  Initialized(new, new.connection_string # "" /\ new.query # "")
initialize_queue(p, settings) ==
    LET new == [queue_url |-> Setting(settings, "queue_url", p.queue_url),
                queue_name |-> Setting(settings, "queue_name", p.queue_name),
                queue_type |-> TypeSetting(settings, "queue_type",
                    {"RabbitMQ", "Redis", "AmazonSQS", "ApacheKafka"}, "RabbitMQ", p.queue_type)]
    IN  Initialized(new, new.queue_name # "")
initialize_cache(p, settings) ==
    LET new == [cache_key |-> Setting(settings, "cache_key", p.cache_key),
                cache_type |-> TypeSetting(settings, "cache_type",
                    {"Redis", "Memcached", "InMemory"}, "Redis", p.cache_type)]
    IN  Initialized(new, new.cache_key # "")

-----------------------------------------------------------------------------
(***************************************************************************)
(* What they promise                                                       *)
(***************************************************************************)
\* The schema that asks for the fields and the kinds of a value.
RECURSIVE SchemaOf(_)
SchemaOf(v) ==
    IF v.kind = "object"
    THEN [type |-> "object", required |-> DOMAIN v.fields,
          properties |-> [k \in DOMAIN v.fields |-> SchemaOf(v.fields[k])]]
    ELSE [type |-> v.kind]

\* A structure that is compared strictly is equal; each thing that is ignored lets more pass;
\* whatever is ignored, the schema of what is expected is met; and an order that is ignored
\* may stand for a permutation only if no two of the expected items are equal: [1, 2] passes
\* for [1, 1].
StructureRight(a, e) ==
    LET passes(order, extra) == deep_compare(a, e, order, extra)
        exact == [kind |-> "Exact", value |-> e, holds |-> {}]
    IN  /\ passes(FALSE, FALSE) <=> a = e
        /\ \A order, extra \in BOOLEAN :
              /\ passes(FALSE, FALSE) => passes(order, extra)
              /\ passes(order, extra) => passes(TRUE, TRUE)
              /\ passes(order, extra) => execute_json_schema(a, SchemaOf(e)).success
              /\ execute_json_structure(a, exact, order, extra) = Result(passes(order, extra), a)
        /\ passes(TRUE, FALSE) /\ a.kind = "array" /\ e.kind = "array" =>
              (IsInjective(e.items) => Range(a.items) = Range(e.items))
        /\ compare_values(a, exact) = execute_json_path(a, <<>>, exact).success

\* The three queries for a name agree: as many elements as are counted, among them all the
\* texts unless an element has several, of which one query yields the first and the other
\* all; a path is its last name to one and nothing to the others, whatever lies between;
\* no namespace finds what the plain query does not; and the parts of a union that fail
\* take nothing from the other ones.
QueriesRight(doc, name, above) ==
    LET query(shape, path) == execute_simple_xpath(doc, [shape |-> shape, path |-> path])
        elements == query("elements", <<name>>)
        named == find_elements_by_name_for_nodes(doc, name)
        one == query("text", <<name>>)
        texts == IF one.kind = "string" THEN <<one>> ELSE one.items
        ns(uri) == [shape |-> "text", prefix |-> uri, name |-> name]
        found(queries) == execute_namespace_xpath(doc, queries, [x \in {"", "n"} |-> x])
        exists == [kind |-> "NotEmpty", value |-> Null, holds |-> {}]
    IN  /\ query("count", <<name>>) = Num(ToString(Len(elements.items)))
        /\ Len(texts) <= Len(elements.items)
        /\ (\A i \in DOMAIN named : Len(TextsIn(named[i])) <= 1) =>
              Range(texts) \subseteq Range(elements.items)
        /\ query("elements", <<above, name>>) = elements
        /\ query("text", <<above, name>>) = Null
        /\ LET union == found(<<ns(""), ns("n"), ns("unknown")>>)
           IN  /\ Range(union.items) = Range(texts)
               /\ Len(union.items) = Len(texts)
        /\ found(<<ns("unknown")>>) = None
        /\ execute_xml_schema(doc, Str(name)) = execute_xml_schema(doc, Str(above))
        /\ execute_xpath(doc, [shape |-> "elements", path |-> <<name>>], exists).success
              <=> elements.items # <<>>
        /\ execute_namespace(doc, <<ns("")>>, [x \in {""} |-> x], exists).success
              => execute_xpath(doc, [shape |-> "text", path |-> <<name>>], exists).success

\* One expectation means the same to all that support it, with these exceptions: XPath takes
\* 1 and 1.0 for equal and reads texts as numbers; a queue is empty unless it is an object or
\* an array; a cache value contains what its fields contain.
ComparersAgree(actual, expected) ==
    LET same == compare_values(actual, expected)
    IN  /\ compare_xpath(actual, expected) # same =>
              \/ expected.kind = "Exact" /\ actual.kind = "number"
              \/ expected.kind = "Range" /\ actual.kind = "string"
        /\ compare_namespaced(actual, expected) => same
        /\ compare_database_result(actual, expected) => same
        /\ compare_queue_state(actual, expected) => same
        /\ expected.kind # "Contains" => (compare_cache_value(actual, expected) => same)
        /\ expected.kind = "Contains" => (same => compare_cache_value(actual, expected))
        /\ expected.kind = "Exact" =>
              /\ same => compare_xpath(actual, expected)
              /\ \A verdict \in {compare_namespaced(actual, expected),
                                  compare_database_result(actual, expected),
                                  compare_queue_state(actual, expected),
                                  compare_cache_value(actual, expected)} : verdict = same

\* Settings that are given in two calls do what they do in one call that has both, where
\* those of the second are taken if they are of a kind that is read: whether the validation
\* is refused, and what it is then, does not depend on how often it was refused before.
\* Namespaces add up; and what a validation reads of a system is never empty.
ValidationsRight(first, second) ==
    LET db0 == [connection_string |-> "", query |-> "", database_type |-> "PostgreSQL"]
        q0 == [queue_url |-> "", queue_name |-> "", queue_type |-> "RabbitMQ"]
        c0 == [cache_key |-> "", cache_type |-> "Redis"]
        x0 == [xpath_expression |-> "", namespaces |-> [x \in {"n"} |-> "uri"]]
        s0 == [ignore_order |-> FALSE, ignore_extra_fields |-> FALSE]
        Both(read) == [k \in read |-> second[k]] @@ first
        AsInOne(initialize(_, _), p, read) ==
            initialize(initialize(p, first).plugin, second) = initialize(p, Both(read))
        texts == {k \in DOMAIN second : second[k].kind = "string"}
        once == initialize_namespace(x0, first)
        twice == initialize_namespace(once.plugin, second)
        alone == initialize_namespace([x0 EXCEPT !.namespaces = <<>>], second)
        exists == [kind |-> "NotEmpty", value |-> Null, holds |-> {}]
        db == initialize_database(db0, first).plugin
        q == initialize_queue(q0, first).plugin
        c == initialize_cache(c0, first).plugin
    IN  /\ AsInOne(initialize_database, db0, texts)
        /\ AsInOne(initialize_queue, q0, texts)
        /\ AsInOne(initialize_cache, c0, texts)
        /\ AsInOne(initialize_json_path, [json_path |-> ""], texts)
        /\ AsInOne(initialize_xpath, [xpath_expression |-> ""], texts)
        /\ AsInOne(initialize_json_schema, [schema |-> None], DOMAIN second)
        /\ AsInOne(initialize_json_structure, s0, DOMAIN second)
        /\ AsInOne(initialize_xml_schema, [schema_content |-> None], texts)
        /\ twice.plugin.namespaces = alone.plugin.namespaces @@ once.plugin.namespaces
        /\ twice.outcome = initialize_xpath(x0, Both(texts)).outcome
        /\ execute_database(db.database_type, db.query, exists).success
        /\ execute_queue(q.queue_type, q.queue_name, q.queue_url, exists).success
        /\ execute_cache(c.cache_type, c.cache_key, exists).success
=============================================================================
