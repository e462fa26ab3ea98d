---------------------------- MODULE DataSources ----------------------------
(***************************************************************************)
(* The readers and the transformation pipeline of src/data_source.rs.      *)
(*                                                                         *)
(* A line of CSV is a sequence of characters: "q" is the quotation mark,   *)
(* "d" the delimiter, "b" a blank, any other one stands for itself.  What  *)
(* a HashMap yields first is a choice, so some results are sets.           *)
(***************************************************************************)
EXTENDS JsonValues

-----------------------------------------------------------------------------
(***************************************************************************)
(* CSV: the line of headers and the lines of data are split differently    *)
(***************************************************************************)
Split0 == [fields |-> <<>>, current |-> <<>>, in_quotes |-> FALSE, escaped |-> FALSE]
\* A field loses the blanks at its ends, quoted ones too.
Trim(field) ==
    LET kept == {i \in DOMAIN field : field[i] # "b"}
    IN  IF kept = {} THEN <<>> ELSE SubSeq(field, Min(kept), Max(kept))
EndField(st) == [st EXCEPT !.fields = Append(@, Trim(st.current)), !.current = <<>>]

\* A quotation mark toggles, but two inside a quotation are one character.
csv_char(st, line, i) ==
    CASE st.escaped -> [st EXCEPT !.escaped = FALSE]
      [] line[i] = "q" /\ ~st.escaped ->
            IF st.in_quotes /\ i < Len(line) /\ line[i + 1] = "q"
            THEN [st EXCEPT !.current = Append(@, "q"), !.escaped = TRUE]
            ELSE [st EXCEPT !.in_quotes = ~@]
      [] line[i] = "d" /\ ~st.in_quotes /\ ~st.escaped -> EndField(st)
      [] OTHER -> [st EXCEPT !.current = Append(@, line[i])]

parse_csv_line(line) ==
    EndField(FoldLeft(LAMBDA st, i : csv_char(st, line, i), Split0, [i \in DOMAIN line |-> i])).fields

\* Data lines are split at every delimiter, quoted or not.
split_at_delimiters(line) ==
    EndField(FoldLeft(LAMBDA st, c : IF c = "d" THEN EndField(st)
                                     ELSE [st EXCEPT !.current = Append(@, c)], Split0, line)).fields

\* One field per header, empty where the line is short; what is left over is dropped, and of
\* columns with equal headers all but the last.  Without headers a field has its place.
parse_csv_record(line, headers) ==
    LET fields == split_at_delimiters(line)
        value(i) == IF i \in DOMAIN fields THEN fields[i] ELSE <<>>
    IN  IF headers = <<>> THEN fields
        ELSE [h \in Range(headers) |-> value(Max({i \in DOMAIN headers : headers[i] = h}))]

read_csv(lines, has_headers) ==
    IF lines = <<>> THEN <<>>
    ELSE LET headers == IF has_headers THEN parse_csv_line(Head(lines)) ELSE <<>>
             rows == IF has_headers THEN Tail(lines) ELSE lines
         IN  [i \in DOMAIN rows |-> parse_csv_record(rows[i], headers)]

-----------------------------------------------------------------------------
(***************************************************************************)
(* JSON and YAML: a document becomes records, each a map of fields         *)
(***************************************************************************)
Follow(value, path) == FoldLeft(get, value, path)
OneField(value) == [k \in {"value"} |-> value]
Objects(items) == SelectSeq(items, LAMBDA v : v.kind = "object")

\* Of an array only the objects become records; a JSONPath spreads an array first, so
\* there other items become records of one field.
JsonRecords(item) ==
    CASE item.kind = "object" -> <<item.fields>>
      [] item.kind = "array" -> LET found == Objects(item.items)
                                IN  [i \in DOMAIN found |-> found[i].fields]
      [] OTHER -> <<OneField(item)>>

extract_records_from_json(data, json_path, array_path) ==
    LET found == Follow(data, IF json_path # <<>> THEN json_path ELSE array_path)
        items == IF json_path # <<>> /\ found.kind = "array" THEN found.items ELSE <<found>>
    IN  IF found = None THEN [outcome |-> "ParseError", records |-> <<>>]
        ELSE [outcome |-> "ok", records |-> FlattenSeq([i \in DOMAIN items |-> JsonRecords(items[i])])]

\* An integer beyond i64 becomes a float, and what is no number in JSON an error.
YamlNumber(value) ==
    CASE value.s = "2^63" -> Num("2^63 as f64") [] value.s = ".inf" -> None [] OTHER -> value

\* An error inside a value is the error of the value.
RECURSIVE yaml_to_json_value(_)
yaml_to_json_value(value) ==
    LET items == [i \in DOMAIN value.items |-> yaml_to_json_value(value.items[i])]
        fields == [k \in DOMAIN value.fields |-> yaml_to_json_value(value.fields[k])]
    IN  CASE value.kind = "tagged" -> items[1]
          [] value.kind = "number" -> YamlNumber(value)
          [] None \in Range(items) \cup Range(fields) -> None
          [] value.kind = "array" -> Arr(items)
          [] value.kind = "object" -> Obj(fields)
          [] OTHER -> value

\* A tagged mapping is no mapping: it becomes the one field of a record.
YamlRecord(item) ==
    LET value == yaml_to_json_value(item)
    IN  IF item.kind = "object" /\ value # None THEN value.fields ELSE OneField(value)

\* The error of one document is the error of the file, and so is that of one of its values.
extract_records_from_yaml(docs, array_path) ==
    LET found == [i \in DOMAIN docs |-> Follow(docs[i], array_path)]
        items == FlattenSeq([i \in DOMAIN docs |->
                    IF found[i].kind = "array" THEN found[i].items ELSE <<found[i]>>])
        records == [i \in DOMAIN items |-> YamlRecord(items[i])]
    IN  IF None \in Range(found) \/ OneField(None) \in Range(records)
        THEN [outcome |-> "ParseError", records |-> <<>>]
        ELSE [outcome |-> "ok", records |-> records]

-----------------------------------------------------------------------------
(***************************************************************************)
(* The database                                                            *)
(***************************************************************************)
\* Only PostgreSQL is read.
\* A column that is no text is read as null.
read_row(row) == [c \in DOMAIN row |-> IF row[c].kind = "string" THEN row[c] ELSE Null]
read_database(pool, rows) ==
    CASE pool = "none" -> [outcome |-> "ConnectionError", records |-> <<>>]
      [] pool = "PostgreSQL" -> [outcome |-> "ok", records |-> [i \in DOMAIN rows |-> read_row(rows[i])]]
      [] OTHER -> [outcome |-> "ConfigError", records |-> <<>>]

-----------------------------------------------------------------------------
(***************************************************************************)
(* Transformations of a record; the pipeline stops at the first error      *)
(***************************************************************************)
\* What a text is as JSON.
FromText(s) ==
    CASE s \in {"7", "1.5"} -> Num(s)
      [] s \in {"true", "false"} -> Bool(s)
      [] s = "[]" -> Arr(<<>>)
      [] s = "{}" -> Obj(<<>>)
      [] s = "null" -> Null
      [] OTHER -> None

DataType == {"String", "Integer", "Float", "Boolean", "Array", "Object"}
\* A text that is to be an object may be any JSON.
convert_value(value, type) ==
    LET read == IF value.kind = "string" THEN FromText(value.s) ELSE value
        fits == CASE type = "String" -> TRUE
                  [] type = "Integer" -> read = Num("7")
                  [] type = "Float" -> read.kind = "number"
                  [] type = "Boolean" -> read.kind = "bool"
                  [] type = "Array" -> read.kind = "array"
                  [] type = "Object" -> read.kind = "object" \/ (value.kind = "string" /\ read # None)
    IN  IF ~fits THEN None ELSE IF type = "String" THEN Str(value.s) ELSE read

\* Fields that the map sends to one name overwrite each other in the order of a HashMap.
field_mapping(record, mappings) ==
    LET name(k) == IF k \in DOMAIN mappings THEN mappings[k] ELSE k
        names == {name(k) : k \in DOMAIN record}
    IN  {r \in [names -> Range(record)] :
            \A n \in names : \E k \in DOMAIN record : name(k) = n /\ r[n] = record[k]}

\* An exact substitution that applies stops the patterns of its field.
value_substitution(record, exact, patterns) ==
    [k \in DOMAIN record |->
        IF record[k].kind # "string" THEN record[k]
        ELSE IF k \in DOMAIN exact /\ record[k].s \in DOMAIN exact[k] THEN Str(exact[k][record[k].s])
        ELSE IF k \in DOMAIN patterns
        THEN Str(FoldLeft(LAMBDA s, p : IF s \in p.matches THEN p.to ELSE s, record[k].s, patterns[k]))
        ELSE record[k]]

\* One field that cannot be converted fails all records.
type_conversion(record, conversions) ==
    LET converted(k) == IF k \in DOMAIN conversions THEN convert_value(record[k], conversions[k])
                        ELSE record[k]
    IN  IF \E k \in DOMAIN record : converted(k) = None THEN <<>>
        ELSE <<[k \in DOMAIN record |-> converted(k)]>>

\* include_fields wins over exclude_fields; <<>> is no list.
field_filter(record, include, exclude) ==
    LET kept == {k \in DOMAIN record : IF include # <<>> THEN k \in Range(include)
                                       ELSE k \notin Range(exclude)}
    IN  [k \in kept |-> record[k]]

\* Rules only look at fields that are there, and at values of the kind they are about.
validate_value(value, rule) ==
    CASE rule.kind = "Required" -> value # Null
      [] rule.kind = "OneOf" -> value.kind = "string" => value.s \in rule.allowed
      [] rule.kind = "Range" -> value.kind = "number" => value.s \in rule.allowed
value_validation(record, rules) ==
    \A k \in DOMAIN rules \cap DOMAIN record : validate_value(record[k], rules[k])

-----------------------------------------------------------------------------
(***************************************************************************)
(* What the readers and the stages promise                                 *)
(***************************************************************************)
\* How a program writes a field: in quotation marks, its own ones doubled.
Quoted(field) == <<"q">> \o FlattenSeq([i \in DOMAIN field |->
                    IF field[i] = "q" THEN <<"q", "q">> ELSE <<field[i]>>]) \o <<"q">>
Written(fields) == FlattenSeq([i \in DOMAIN fields |->
                    (IF i = 1 THEN <<>> ELSE <<"d">>) \o Quoted(fields[i])])
Plain(fields) == FlattenSeq([i \in DOMAIN fields |->
                    (IF i = 1 THEN <<>> ELSE <<"d">>) \o fields[i]])

\* The headers are what was written, whatever is in them, but for blanks at their ends.
\* Data lines are read back only when they are written plainly, without delimiters in
\* their fields: each header then has the field below it, and no field is lost unless two
\* columns have one header.
CsvReadBack(fields) ==
    LET trimmed == [i \in DOMAIN fields |-> Trim(fields[i])]
        record == read_csv(<<Written(fields), Plain(Reverse(fields))>>, TRUE)[1]
        below(h) == {trimmed[Len(fields) + 1 - i] : i \in {j \in DOMAIN fields : trimmed[j] = h}}
    IN  /\ parse_csv_line(Written(fields)) = trimmed
        /\ (\A i \in DOMAIN fields : "d" \notin Range(fields[i])) =>
              /\ DOMAIN record = Range(trimmed)
              /\ \A h \in DOMAIN record : record[h] \in below(h)
              /\ IsInjective(trimmed) => Range(record) = Range(trimmed)

\* A document as a program writes it in JSON, where there are no tags.
RECURSIVE InJson(_)
InJson(doc) ==
    CASE doc.kind = "tagged" -> InJson(doc.items[1])
      [] doc.kind = "array" -> Arr([i \in DOMAIN doc.items |-> InJson(doc.items[i])])
      [] doc.kind = "object" -> Obj([k \in DOMAIN doc.fields |-> InJson(doc.fields[k])])
      [] OTHER -> doc
\* JSON cannot write every number, and YAML rounds some: no other value differs.
RECURSIVE Numbers(_)
Numbers(doc) == (IF doc.kind = "number" THEN {doc.s} ELSE {})
                \cup UNION {Numbers(doc.items[i]) : i \in DOMAIN doc.items}
                \cup UNION {Numbers(doc.fields[k]) : k \in DOMAIN doc.fields}

\* The same document gives the same records as JSON and as YAML, tags inside the records or
\* not, with two exceptions: large integers, and the items of an array that are no objects,
\* which JSON drops unless a JSONPath has spread the array, and YAML keeps.
FormatsAgree(doc, path) ==
    LET data == InJson(doc)
        json == extract_records_from_json(data, <<>>, path)
        yaml == extract_records_from_yaml(<<doc>>, path)
        spread == extract_records_from_json(data, path, <<>>)
        found == Follow(doc, path)
        flat == \A i \in DOMAIN found.items : found.items[i].kind \notin {"array", "tagged"}
        exact == "2^63" \notin Numbers(found)
    IN  IF ".inf" \in Numbers(found) THEN yaml.outcome = "ParseError"
        ELSE /\ json.outcome = yaml.outcome
             /\ path # <<>> /\ exact /\ (found.kind = "array" => flat) => spread = yaml
             /\ exact /\ found.kind = "array" /\ Objects(found.items) = found.items => json = yaml
             /\ Len(json.records) <= Len(yaml.records)

Kind(type) == CASE type = "String" -> "string" [] type = "Boolean" -> "bool"
                [] type = "Array" -> "array" [] type = "Object" -> "object"
                [] OTHER -> "number"
\* What was converted is of the type that was asked for, with the one exception of Object;
\* and converting again changes nothing.
ConversionTrue(value, type) ==
    LET result == convert_value(value, type)
    IN  result # None =>
            /\ type # "Object" \/ value.kind # "string" => result.kind = Kind(type)
            /\ result.kind = Kind(type) => convert_value(result, type) = result

\* Mappings to different names keep every value, and values that are swapped twice are the
\* old ones; whatever is filtered or read from a database, the other fields keep their
\* values; a record without a field still passes the rules about it, Required too.
StagesKeepFields(record, mappings, rules) ==
    LET name(k) == IF k \in DOMAIN mappings THEN mappings[k] ELSE k
    IN  /\ (\A j, k \in DOMAIN record : j # k => name(j) # name(k)) =>
              Cardinality(field_mapping(record, mappings)) = 1
        /\ \A r \in field_mapping(record, mappings) : Range(r) \subseteq Range(record)
        /\ \A k \in DOMAIN record :
              LET kept == field_filter(record, <<k>>, <<k>>)
              IN  kept = [j \in {k} |-> record[k]]
        /\ \A k \in DOMAIN record :
              value_validation(record, rules)
              => value_validation(field_filter(record, <<k>>, <<>>), rules)
        /\ LET swap == [k \in DOMAIN record |-> [s \in {"x", "y"} |-> IF s = "x" THEN "y" ELSE "x"]]
               once == value_substitution(record, swap, <<>>)
               none == value_substitution(record, <<>>, [k \in DOMAIN record |-> <<>>])
           IN  value_substitution(once, swap, <<>>) = record /\ none = record
        /\ LET read == read_database("PostgreSQL", <<record>>).records
           IN  Len(read) = 1 /\ \A k \in DOMAIN record : read[1][k] \in {record[k], Null}
        /\ type_conversion(record, [k \in DOMAIN record |-> "String"]) # <<>>
=============================================================================
