----------------------------- MODULE Templates -----------------------------
(***************************************************************************)
(* TestCaseTemplateManager of src/template_manager.rs over the files of    *)
(* src/template_storage.rs.                                                *)
(*                                                                         *)
(* The text of a template is a sequence of pieces: literal text, or a      *)
(* reference to a variable.  A value is put into it as it is, while it is  *)
(* JSON, so that other pieces get there: an escape sequence, which is read *)
(* back as what it stands for; a control character, which no JSON string   *)
(* may hold; a quotation mark or a lone backslash, which ends or prolongs  *)
(* the string.  A value has a text, the types and patterns it passes for,  *)
(* and the number of seconds it is when it is a whole number.              *)
(***************************************************************************)
EXTENDS Naturals, SequencesExt

CONSTANTS Authors,        \* tasks that create templates
          Templates,      \* templates they may create
          Words,          \* literal texts and names of variables
          Values,         \* values that may be given to a variable
          MaxGiven        \* bound on the variables that are given a value

VARIABLES template_files, \* of each id: a template, or NoFile, EmptyFile or GarbledFile
          creating,       \* of each author: the template between the check and the save
          landing,        \* templates saved whose text is not in the file yet
          raced_ids,      \* history: ids that two authors created at once
          made            \* the last answer of create_from_template

templateVars == <<template_files, creating, landing, raced_ids, made>>

Lit(s) == [kind |-> "text", s |-> s]
Ref(v) == [kind |-> "ref", s |-> v]
Escape(s) == [kind |-> "escape", s |-> s]
Control == [kind |-> "control", s |-> ""]
Quote == [kind |-> "quote", s |-> ""]
VariableType == {"String", "Number", "Boolean", "Url", "Email", "Json", "Header", "Path", "Query"}
Pieces == [kind : {"text", "ref", "escape", "control", "quote"}, s : Words]
Refs(text) == {text[i].s : i \in {j \in DOMAIN text : text[j].kind = "ref"}}
VariableNames(template) == {v.name : v \in template.variables}

NoTemplate == [id |-> "", category |-> "", tags |-> {}, text |-> <<>>, variables |-> {},
               timeout |-> <<>>, named |-> FALSE]
NoFile == [NoTemplate EXCEPT !.id = "no file"]
EmptyFile == [NoTemplate EXCEPT !.id = "empty"]
GarbledFile == [NoTemplate EXCEPT !.id = "garbled"]
TemplateIds == {t.id : t \in Templates}

BuiltInWords ==
    {"base_url", "endpoint", "request_body", "expected_id", "auth_server", "client_id",
     "client_secret", "scope", "protected_endpoint", "jwt_token", "required_fields",
     "expected_value", "extraction_path", "max_response_time", "access_token",
     "headers", "json", "1000"}

\* A template has an id.  Its own text is escaped when it becomes JSON, and read back whole.
ASSUME TemplateAssumption ==
    /\ \A t \in Templates :
          /\ DOMAIN t = DOMAIN NoTemplate
          /\ t.id \notin {"", "no file", "empty", "garbled"}
          /\ t.text \in Seq(Pieces) /\ \A p \in Range(t.text) : p.kind \in {"text", "ref"}
          /\ IsFiniteSet(t.variables)
          /\ \A v \in t.variables : v.name \in Words /\ v.type \in VariableType
    /\ BuiltInWords \subseteq Words
    /\ \A value \in Values : value.text \in Seq(Pieces)
    /\ MaxGiven \in Nat

-----------------------------------------------------------------------------
(***************************************************************************)
(* The templates and fragments that are built in                           *)
(***************************************************************************)
Required(name, type) == [name |-> name, type |-> type, required |-> TRUE, pattern |-> type]
Optional(name, type) == [Required(name, type) EXCEPT !.required = FALSE]
Pattern(variable, pattern) == [variable EXCEPT !.pattern = pattern]
Place == {Pattern(Required("base_url", "Url"), "^https?://"), Required("endpoint", "Path")}
BuiltIn(id, category, tags, text, variables) ==
    [id |-> id, category |-> category, tags |-> tags, text |-> text, variables |-> variables,
     timeout |-> <<30>>, named |-> TRUE]

create_rest_get_template ==
    BuiltIn("rest-api-get", "RestApi", {"rest", "get"}, <<Ref("base_url"), Ref("endpoint")>>, Place)

create_rest_post_template ==
    BuiltIn("rest-api-post", "RestApi", {"rest", "post"},
            <<Ref("base_url"), Ref("endpoint"), Ref("request_body"), Ref("expected_id")>>,
            Place \cup {Required("request_body", "Json"), Optional("expected_id", "String")})

create_oauth_template ==
    BuiltIn("oauth2-auth", "Authentication", {"oauth2", "authentication"},
            <<Ref("auth_server"), Ref("client_id"), Ref("client_secret"), Ref("scope")>>,
            {Pattern(Required("auth_server", "Url"), "^https?://"), Required("client_id", "String"),
             Required("client_secret", "String"), Optional("scope", "String")})

create_jwt_template ==
    BuiltIn("jwt-auth", "Authentication", {"jwt", "authentication"},
            <<Ref("base_url"), Ref("protected_endpoint"), Ref("jwt_token"), Ref("jwt_token")>>,
            {Pattern(Required("base_url", "Url"), "^https?://"),
             Required("protected_endpoint", "Path"), Pattern(Required("jwt_token", "String"), "jwt")})

create_validation_template ==
    BuiltIn("data-validation", "DataValidation", {"validation", "schema"},
            <<Ref("base_url"), Ref("endpoint"), Ref("required_fields"), Ref("expected_value"),
              Ref("extraction_path")>>,
            Place \cup {Required("required_fields", "String"), Optional("expected_value", "String"),
                        Optional("extraction_path", "String")})

\* Its timeout is set when a test case is made of it.
create_performance_template ==
    [BuiltIn("performance-test", "Performance", {"performance", "load"},
             <<Ref("base_url"), Ref("endpoint"), Ref("max_response_time")>>,
             Place \cup {Pattern(Required("max_response_time", "Number"), "digits")})
        EXCEPT !.timeout = <<>>]

register_builtin_templates ==
    {create_rest_get_template, create_rest_post_template, create_oauth_template,
     create_jwt_template, create_validation_template, create_performance_template}

Fragment(content, text, variables) == [content |-> content, text |-> text, variables |-> variables]
register_builtin_fragments ==
    {Fragment("Headers", <<Lit("headers")>>, {}), Fragment("Assertions", <<Lit("json")>>, {}),
     Fragment("Assertions", <<Lit("1000")>>,
              {Pattern(Required("max_response_time", "Number"), "digits")}),
     Fragment("Auth", <<Ref("access_token")>>, {Required("access_token", "String")})}

\* A request replaces the text; the rest is put beside it.  Variables are added, those that
\* the template has already too.
apply_fragment_to_template(template, fragment) ==
    [template EXCEPT !.text = IF fragment.content = "Request" THEN fragment.text
                              ELSE @ \o fragment.text,
                     !.variables = @ \cup fragment.variables]

-----------------------------------------------------------------------------
(***************************************************************************)
(* From a template to a test case                                          *)
(***************************************************************************)
\* Strings, headers, paths and queries pass for any value; a pattern that is set must match.
validate_variable_value(variable, value) ==
    /\ variable.type \in {"Number", "Boolean", "Url", "Email", "Json"} => variable.type \in value.fits
    /\ variable.pattern # variable.type => variable.pattern \in value.fits

\* Broken variant: only the first reference is replaced.
replace_first(text, v, value) ==
    LET at == SelectInSeq(text, LAMBDA p : p = Ref(v))
    IN  IF at = 0 THEN text ELSE SubSeq(text, 1, at - 1) \o value \o SubSeq(text, at + 1, Len(text))
replace(text, v, value) ==
    FlattenSeq([i \in DOMAIN text |-> IF text[i] = Ref(v) THEN value ELSE <<text[i]>>])

\* The variables are replaced one after the other, in the order the HashMap yields them.
replace_turns(text, order, given) ==
    LET turns[n \in 0..Len(order)] ==
            IF n = 0 THEN text ELSE replace(turns[n - 1], order[n], given[order[n]].text)
    IN  turns

\* What serde_json may read of the JSON with the values in it: a string that a value ended
\* or prolonged leaves something else, or nothing that can be read.
AsRead(text) == [i \in DOMAIN text |-> IF text[i].kind = "escape" THEN Lit(text[i].s) ELSE text[i]]
Result(outcome, text, timeout) == [outcome |-> outcome, text |-> text, timeout |-> timeout]
from_str(text, timeout) ==
    LET Holds(kind) == \E p \in Range(text) : p.kind = kind
        refused == Result("SerializationError", <<>>, <<>>)
    IN  CASE Holds("quote") -> {refused, Result("something else", <<>>, timeout)}
          [] ~Holds("quote") /\ Holds("control") -> {refused}
          [] OTHER -> {Result("ok", AsRead(text), timeout)}

\* A max_response_time that is a whole number becomes the timeout, declared or not.
timeout_of(template, given) ==
    IF "max_response_time" \in DOMAIN given /\ given["max_response_time"].seconds # <<>>
    THEN given["max_response_time"].seconds ELSE template.timeout

substitute_variables(template, order, given) ==
    from_str(replace_turns(template.text, order, given)[Len(order)], timeout_of(template, given))

Instantiate(template, order, given) ==
    IF \/ \E v \in template.variables : v.required /\ v.name \notin DOMAIN given
       \/ \E v \in template.variables :
             v.name \in DOMAIN given /\ ~validate_variable_value(v, given[v.name])
    THEN {Result("ValidationError", <<>>, <<>>)}
    ELSE substitute_variables(template, order, given)

\* A file whose text is not there, or is mixed, cannot be read.
load_template(id) ==
    IF template_files[id] \in {NoFile, EmptyFile, GarbledFile} THEN NoTemplate ELSE template_files[id]

\* Built-in templates hide those of the files.
get_template(id) ==
    IF \E t \in register_builtin_templates : t.id = id
    THEN CHOOSE t \in register_builtin_templates : t.id = id
    ELSE load_template(id)

template_matches_filter(template, filter) ==
    /\ filter.category = "" \/ template.category = filter.category
    /\ filter.tags = {} \/ filter.tags \cap template.tags # {}

\* Files that cannot be read are passed over.
list_templates(filter) ==
    {t \in register_builtin_templates \cup {load_template(id) : id \in TemplateIds} :
        t # NoTemplate /\ template_matches_filter(t, filter)}

\* Bound: one test case is made.
create_from_template(id, given) ==
    /\ made.result.outcome = "none" /\ get_template(id) # NoTemplate
    /\ \E order \in SetToSeqs(DOMAIN given) :
          \E result \in Instantiate(get_template(id), order, given) :
              made' = [template |-> get_template(id), given |-> given, result |-> result]
    /\ UNCHANGED <<template_files, creating, landing, raced_ids>>

-----------------------------------------------------------------------------
(***************************************************************************)
(* Creation: a check, then the file is made, then its text gets there      *)
(***************************************************************************)
\* The default values are checked as given values are.
validate_template(template) == template.named
template_exists(id) == template_files[id] # NoFile

create_template(a, template) ==
    /\ creating[a] = NoTemplate
    /\ validate_template(template) /\ ~template_exists(template.id)
    /\ creating' = [creating EXCEPT ![a] = template]
    /\ raced_ids' = IF \E b \in Authors : creating[b].id = template.id
                    THEN raced_ids \cup {template.id} ELSE raced_ids
    /\ UNCHANGED <<template_files, landing, made>>

save_template(a) ==
    /\ creating[a] # NoTemplate
    /\ template_files' = [template_files EXCEPT ![creating[a].id] = EmptyFile]
    /\ landing' = landing \cup {creating[a]}
    /\ creating' = [creating EXCEPT ![a] = NoTemplate]
    /\ UNCHANGED <<raced_ids, made>>

\* Two texts that reach one file may leave a mixture.
land_template(template) ==
    /\ template \in landing
    /\ \/ template_files' = [template_files EXCEPT ![template.id] = template]
       \/ /\ template_files[template.id] # EmptyFile
          /\ template_files' = [template_files EXCEPT ![template.id] = GarbledFile]
    /\ landing' = landing \ {template}
    /\ UNCHANGED <<creating, raced_ids, made>>

TemplateInit ==
    /\ template_files = [id \in TemplateIds |-> NoFile]
    /\ creating = [a \in Authors |-> NoTemplate]
    /\ landing = {} /\ raced_ids = {}
    /\ made = [template |-> NoTemplate, given |-> <<>>,
                result |-> Result("none", <<>>, <<>>)]

\* The variables of the template, and one that it may not declare.
Givens(template) ==
    UNION {[names -> Values] : names \in
             {n \in SUBSET (VariableNames(template) \cup {"max_response_time"}) :
                 Cardinality(n) <= MaxGiven}}
TemplateNext ==
    \/ \E a \in Authors : save_template(a) \/ (\E t \in Templates : create_template(a, t))
    \/ \E t \in landing : land_template(t)
    \/ \E id \in TemplateIds : \E given \in Givens(get_template(id)) : create_from_template(id, given)

TemplateSpec == TemplateInit /\ [][TemplateNext]_templateVars

-----------------------------------------------------------------------------
TemplateTypeOK ==
    /\ \A id \in TemplateIds : template_files[id] \in Templates \cup {NoFile, EmptyFile, GarbledFile}
    /\ landing \subseteq Templates /\ raced_ids \subseteq TemplateIds
    /\ made.result.outcome # "none" => \A v \in made.template.variables : v.type \in VariableType

\* When no value holds a reference, a template is refused exactly when a required value is
\* missing or a value is of the wrong type.  Otherwise what is made of it is the replacement
\* of all its variables at once, whatever the order of the map, read back as JSON, unless a
\* value holds a control character or a quotation mark: then it is something else or nothing.
\* The timeout is the template's but for a max_response_time that is a whole number.
InstantiationTrue ==
    LET given == made.given
        simple == \A v \in DOMAIN given : \A p \in Range(given[v].text) : p.kind # "ref"
        all == FlattenSeq([i \in DOMAIN made.template.text |->
                  LET p == made.template.text[i]
                  IN  IF p.kind = "ref" /\ p.s \in DOMAIN given THEN given[p.s].text ELSE <<p>>])
        accepted == /\ \A v \in made.template.variables : v.required => v.name \in DOMAIN given
                    /\ \A v \in made.template.variables :
                          v.name \in DOMAIN given => validate_variable_value(v, given[v.name])
    IN  simple /\ made.result.outcome # "none" =>
            /\ made.result.outcome = "ValidationError" <=> ~accepted
            /\ made.result.outcome = "ok" <=>
                  accepted /\ \A p \in Range(all) : p.kind \notin {"control", "quote"}
            /\ made.result.outcome = "ok" =>
                  made.result.text = AsRead(all) /\ made.result.timeout = timeout_of(made.template, given)

\* A reference that is left in a test case is to an optional variable that was not given, or
\* was brought in by a value: defaults are never used.
LeftReferences ==
    made.result.outcome = "ok" =>
        \A r \in Refs(made.result.text) \cap VariableNames(made.template) :
            \/ r \notin DOMAIN made.given
            \/ \E v \in DOMAIN made.given : r \in Refs(made.given[v].text)

\* A template whose creation nobody raced is never lost, mixed up or replaced: it is in the
\* file or on its way there.
CreatedIsKept ==
    \A id \in TemplateIds \ raced_ids :
        /\ template_files[id] # GarbledFile
        /\ template_files[id] = EmptyFile => \E t \in landing : t.id = id
        /\ \A t, u \in landing : t.id = id /\ u.id = id => t = u
        /\ template_files[id] \notin {NoFile, EmptyFile} => \A t \in landing : t.id # id

\* Once there is a file, what the list shows is what an id yields, but for files that a
\* built-in template hides.
ListedIsServed ==
    (\E id \in TemplateIds : template_exists(id)) =>
        \A t \in list_templates([category |-> "", tags |-> {}]) :
            get_template(t.id) = t \/ \E b \in register_builtin_templates : b.id = t.id /\ b # t

\* A fragment leaves no undeclared reference in a template that had none.
FragmentsDeclare ==
    LET Declares(t) == Refs(t.text) \subseteq VariableNames(t)
    IN  made.result.outcome # "none" /\ Declares(made.template) =>
            \A f \in register_builtin_fragments :
                Declares(apply_fragment_to_template(made.template, f))

TemplatesSound ==
    InstantiationTrue /\ LeftReferences /\ CreatedIsKept /\ ListedIsServed /\ FragmentsDeclare
=============================================================================
