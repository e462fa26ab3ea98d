------------------------------ MODULE JsonValues ------------------------------
(***************************************************************************)
(* JSON and YAML values, one record for all kinds.  A text or a number is  *)
(* a name in s: what it contains and how large it is, those who look at it *)
(* say.  None stands for no value, or an error.                            *)
(***************************************************************************)
EXTENDS Naturals, SequencesExt

Value(kind, s, items, fields) == [kind |-> kind, s |-> s, items |-> items, fields |-> fields]
Null == Value("null", "null", <<>>, <<>>)
Str(s) == Value("string", s, <<>>, <<>>)
Num(s) == Value("number", s, <<>>, <<>>)
Bool(s) == Value("bool", s, <<>>, <<>>)
Arr(items) == Value("array", "[]", items, <<>>)
Obj(fields) == Value("object", "{}", <<>>, fields)
\* A YAML value with a tag.
Tagged(value) == Value("tagged", "", <<value>>, <<>>)
None == Value("none", "", <<>>, <<>>)

get(value, part) ==
    IF value.kind = "object" /\ part \in DOMAIN value.fields THEN value.fields[part] ELSE None
=============================================================================
