-------------------------- MODULE Requests_proofs ---------------------------
(***************************************************************************)
(* Proofs about what requests are made from and in which order they go     *)
(* out: templates, the depth-first search through what steps depend on,    *)
(* the workflows and authentication chains that run in its order, and the  *)
(* configuration in force.                                                 *)
(***************************************************************************)
EXTENDS Configuration, Templates, Workflow, AuthChain, DataLemmas, FiniteSetTheorems

-----------------------------------------------------------------------------
(***************************************************************************)
(* Templates: what is put into a text                                      *)
(***************************************************************************)
PieceTexts == Seq(Pieces)

\* What one turn of the replacement puts for a piece, and what all turns together put.
PutOne(v, value) == [p \in Pieces |-> IF p = Ref(v) THEN value ELSE <<p>>]
PutAll(names, given) ==
    [p \in Pieces |-> IF p.kind = "ref" /\ p.s \in names THEN given[p.s].text ELSE <<p>>]

\* A reference is known by its name.
LEMMA PieceFacts ==
    ASSUME NEW v, NEW p \in Pieces
    PROVE  /\ p = Ref(v) <=> p.kind = "ref" /\ p.s = v
           /\ v \in Words => Ref(v) \in Pieces
           /\ <<p>> \in PieceTexts /\ Range(<<p>>) = {p}
<1>1. p = [kind |-> p.kind, s |-> p.s]
  BY DEF Pieces
<1>2. Ref(v).kind = "ref" /\ Ref(v).s = v
  BY DEF Ref
<1>3. p = Ref(v) <=> p.kind = "ref" /\ p.s = v
  BY <1>1, <1>2 DEF Ref
<1>4. v \in Words => Ref(v) \in Pieces
  BY DEF Ref, Pieces
<1>5. <<p>> \in PieceTexts /\ Range(<<p>>) = {p}
  BY DEF PieceTexts, Range
<1>6. QED
  BY <1>3, <1>4, <1>5

\* The two maps are maps of pieces to texts.
LEMMA PutTyped ==
    /\ \A v, value : value \in PieceTexts => PutOne(v, value) \in [Pieces -> PieceTexts]
    /\ \A names, given : (\A v \in names : given[v].text \in PieceTexts)
                            => PutAll(names, given) \in [Pieces -> PieceTexts]
<1>1. ASSUME NEW v, NEW value \in PieceTexts
      PROVE  PutOne(v, value) \in [Pieces -> PieceTexts]
  <2>1. \A p \in Pieces : <<p>> \in PieceTexts
    BY PieceFacts
  <2>2. QED
    BY <2>1 DEF PutOne
<1>2. ASSUME NEW names, NEW given, \A v \in names : given[v].text \in PieceTexts
      PROVE  PutAll(names, given) \in [Pieces -> PieceTexts]
  <2>1. \A p \in Pieces : <<p>> \in PieceTexts
    BY PieceFacts
  <2>2. QED
    BY <1>2, <2>1 DEF PutAll
<1>3. QED
  BY <1>1, <1>2

\* One replacement.
LEMMA ReplacePuts ==
    ASSUME NEW text \in PieceTexts, NEW v, NEW value \in PieceTexts
    PROVE  /\ replace(text, v, value) = PutInto(text, PutOne(v, value))
           /\ replace(text, v, value) \in PieceTexts
<1>1. \A i \in DOMAIN text : text[i] \in Pieces
  BY LenProperties, ElementOfSeq DEF PieceTexts
<1>2. \A i \in DOMAIN text : PutOne(v, value)[text[i]]
                              = IF text[i] = Ref(v) THEN value ELSE <<text[i]>>
  BY <1>1 DEF PutOne
<1>3. Parts(text, PutOne(v, value))
        = [i \in DOMAIN text |-> IF text[i] = Ref(v) THEN value ELSE <<text[i]>>]
  BY <1>2 DEF Parts
<1>4. replace(text, v, value) = PutInto(text, PutOne(v, value))
  BY <1>3 DEF replace, PutInto
<1>5. PutInto(text, PutOne(v, value)) \in PieceTexts
  BY PutAppend, PutTyped DEF PieceTexts
<1>6. QED
  BY <1>4, <1>5

\* Each turn replaces one variable in what the turn before it left.
LEMMA TurnsReplace ==
    ASSUME NEW text \in PieceTexts, NEW names, NEW order \in Seq(names),
           NEW N \in Nat, N = Len(order),
           NEW given, \A v \in names : given[v].text \in PieceTexts
    PROVE  /\ replace_turns(text, order, given)[0] = text
           /\ \A n \in 1..N :
                 /\ order[n] \in names
                 /\ replace_turns(text, order, given)[n]
                      = replace(replace_turns(text, order, given)[n - 1], order[n],
                                given[order[n]].text)
<1> DEFINE A == PieceTexts
           turn(n, t) == replace(t, order[n], given[order[n]].text)
           step == [n \in 1..N |-> [t \in A |-> turn(n, t)]]
           Turns(t) == t = [n \in 0..N |-> IF n = 0 THEN text ELSE turn(n, t[n - 1])]
<1>0. \A n \in 1..N : order[n] \in names
  BY ElementOfSeq
<1>1. \A n \in 1..N, t \in A : turn(n, t) \in A
  <2> HIDE DEF A
  <2>1. SUFFICES ASSUME NEW n \in 1..N, NEW t \in A PROVE turn(n, t) \in A
    OBVIOUS
  <2>2. given[order[n]].text \in PieceTexts
    BY <1>0
  <2>3. QED
    BY <2>2, ReplacePuts DEF A
<1> HIDE DEF turn
<1>2. step \in [1..N -> [A -> A]]
  <2> HIDE DEF A
  <2> QED
    BY <1>1
<1>4. PICK g : Iterates(g, A, text, N, step)
  <2>1. text \in A
    OBVIOUS
  <2> HIDE DEF A, step
  <2> QED
    BY <1>2, <2>1, Iteration
<1>5. ASSUME NEW n \in 1..N
      PROVE  g[n] = turn(n, g[n - 1])
  <2> HIDE DEF A
  <2>1. n - 1 \in 0..N /\ g[n - 1] \in A
    BY <1>4 DEF Iterates
  <2>2. step[n][g[n - 1]] = turn(n, g[n - 1])
    BY <2>1
  <2> HIDE DEF step
  <2>3. QED
    BY <1>4, <2>2 DEF Iterates
<1>6. Turns(g)
  <2> HIDE DEF A, step
  <2> QED
    BY <1>4, <1>5 DEF Iterates
<1>7. replace_turns(text, order, given) = CHOOSE t : Turns(t)
  BY DEF replace_turns, turn
<1>8. Turns(replace_turns(text, order, given))
  <2> HIDE DEF Turns
  <2> QED
    BY <1>6, <1>7
<1>9. PICK t : t = replace_turns(text, order, given)
  OBVIOUS
<1>10. t = [n \in 0..N |-> IF n = 0 THEN text ELSE turn(n, t[n - 1])]
  BY <1>8, <1>9
<1>11. t[0] = text /\ \A n \in 1..N : t[n] = turn(n, t[n - 1])
  BY <1>10
<1>12. QED
  BY <1>0, <1>9, <1>11 DEF turn

\* A value without a reference stays what it is whatever is put for one.
Simple(value) == \A p \in Range(value) : p.kind # "ref"

\* One more turn puts one more variable into the text.
LEMMA OneMoreTurn ==
    ASSUME NEW text \in PieceTexts, NEW given, NEW names, NEW v \in names, NEW before \in SUBSET names,
           \A w \in names : given[w].text \in PieceTexts /\ Simple(given[w].text)
    PROVE  replace(PutInto(text, PutAll(before, given)), v, given[v].text)
             = PutInto(text, PutAll(before \cup {v}, given))
<1> DEFINE first == PutAll(before, given)
           one == PutOne(v, given[v].text)
           both == PutAll(before \cup {v}, given)
<1>1. first \in [Pieces -> PieceTexts] /\ one \in [Pieces -> PieceTexts] /\ both \in [Pieces -> PieceTexts]
  BY PutTyped
<1>2. ASSUME NEW p \in Range(text)
      PROVE  PutInto(first[p], one) = both[p]
  <2>1. p \in Pieces
    BY RangeFacts DEF PieceTexts
  <2>2. CASE p.kind = "ref" /\ p.s \in before
    <3>1. first[p] = given[p.s].text /\ both[p] = given[p.s].text
      BY <2>1, <2>2 DEF PutAll
    <3>2. given[p.s].text \in PieceTexts /\ Simple(given[p.s].text)
      BY <2>2
    <3>3. \A q \in Range(given[p.s].text) : one[q] = <<q>>
      <4>1. SUFFICES ASSUME NEW q \in Range(given[p.s].text) PROVE one[q] = <<q>>
        OBVIOUS
      <4>2. q \in Pieces
        BY <3>2, RangeFacts DEF PieceTexts
      <4>3. q.kind # "ref"
        BY <3>2 DEF Simple
      <4>4. q # Ref(v)
        BY <4>3 DEF Ref
      <4>5. QED
        BY <4>2, <4>4 DEF PutOne
    <3> HIDE DEF one, first, both
    <3>4. PutInto(given[p.s].text, one) = given[p.s].text
      BY <1>1, <3>2, <3>3, PutNothing DEF PieceTexts
    <3>5. QED
      BY <3>1, <3>4
  <2>3. CASE ~(p.kind = "ref" /\ p.s \in before)
    <3>1. first[p] = <<p>>
      BY <2>1, <2>3 DEF PutAll
    <3>2. one[p] = both[p]
      <4>1. p = Ref(v) <=> p.kind = "ref" /\ p.s = v
        BY <2>1, PieceFacts
      <4>2. QED
        BY <2>1, <2>3, <4>1 DEF PutAll, PutOne
    <3> HIDE DEF one, first, both
    <3>3. PutInto(<<p>>, one) = one[p]
      BY <1>1, <2>1, PutPieces DEF PieceTexts
    <3>4. QED
      BY <3>1, <3>2, <3>3
  <2>4. QED
    BY <2>2, <2>3
<1>3. PutInto(PutInto(text, first), one) = PutInto(text, both)
  <2> HIDE DEF first, one, both
  <2> QED
    BY <1>1, <1>2, PutTwice DEF PieceTexts
<1>4. PutInto(text, first) \in PieceTexts
  <2> HIDE DEF first, one, both
  <2> QED
    BY <1>1, PutAppend DEF PieceTexts
<1>5. replace(PutInto(text, first), v, given[v].text) = PutInto(PutInto(text, first), one)
  <2>1. given[v].text \in PieceTexts
    OBVIOUS
  <2> HIDE DEF first
  <2>2. QED
    BY <1>4, <2>1, ReplacePuts
<1>6. QED
  BY <1>3, <1>5

\* Whatever the order, all values are before in at once, if none holds a reference.
LEMMA AllAtOnce ==
    ASSUME NEW text \in PieceTexts, NEW names, NEW order \in Seq(names), Range(order) = names,
           NEW N \in Nat, N = Len(order), NEW given,
           \A v \in names : given[v].text \in PieceTexts /\ Simple(given[v].text)
    PROVE  replace_turns(text, order, given)[N] = PutInto(text, PutAll(names, given))
<1> DEFINE t == replace_turns(text, order, given)
           done(n) == {order[i] : i \in 1..n}
           P == {n \in 0..N : t[n] = PutInto(text, PutAll(done(n), given))}
<1>1. /\ t[0] = text
      /\ \A n \in 1..N : order[n] \in names /\ t[n] = replace(t[n - 1], order[n], given[order[n]].text)
  <2>1. \A v \in names : given[v].text \in PieceTexts
    OBVIOUS
  <2>2. QED
    BY <2>1, TurnsReplace
<1> HIDE DEF t
<1>2. 0 \in P
  <2>1. done(0) = {}
    OBVIOUS
  <2>2. PutAll({}, given) \in [Pieces -> PieceTexts]
    BY PutTyped
  <2>3. \A p \in Range(text) : PutAll({}, given)[p] = <<p>>
    <3>1. \A p \in Range(text) : p \in Pieces
      BY RangeFacts DEF PieceTexts
    <3>2. QED
      BY <3>1 DEF PutAll
  <2>4. PutInto(text, PutAll({}, given)) = text
    BY <2>2, <2>3, PutNothing DEF PieceTexts
  <2>5. t[0] = PutInto(text, PutAll(done(0), given))
    <3>1. t[0] = text
      BY <1>1
    <3> HIDE DEF done
    <3>2. QED
      BY <2>1, <2>4, <3>1
  <2>6. 0 \in 0..N
    OBVIOUS
  <2> HIDE DEF done
  <2>7. QED
    BY <2>5, <2>6
<1>3. ASSUME NEW n \in 1..N, n - 1 \in P
      PROVE  n \in P
  <2>1. done(n) = done(n - 1) \cup {order[n]}
    <3>1. \A i \in 1..n : i \in 1..(n - 1) \/ i = n
      OBVIOUS
    <3>2. n \in 1..n /\ \A i \in 1..(n - 1) : i \in 1..n
      OBVIOUS
    <3>3. QED
      BY <3>1, <3>2
  <2>2. done(n - 1) \subseteq names
    <3>1. \A i \in 1..(n - 1) : i \in 1..N
      OBVIOUS
    <3>2. QED
      BY <1>1, <3>1
  <2>3. order[n] \in names
    BY <1>1
  <2>4. t[n - 1] = PutInto(text, PutAll(done(n - 1), given))
    BY <1>3
  <2>5. t[n] = replace(t[n - 1], order[n], given[order[n]].text)
    BY <1>1
  <2> HIDE DEF done
  <2>6. PICK e \in SUBSET names, v \in names : e = done(n - 1) /\ v = order[n]
    BY <2>2, <2>3
  <2>7. replace(PutInto(text, PutAll(e, given)), v, given[v].text)
          = PutInto(text, PutAll(e \cup {v}, given))
    BY ZenonT(60), OneMoreTurn
  <2>8. t[n] = PutInto(text, PutAll(done(n), given))
    BY <2>1, <2>4, <2>5, <2>6, <2>7
  <2>9. n \in 0..N
    OBVIOUS
  <2>10. QED
    BY <2>8, <2>9
<1>4. 0..N \subseteq P
  <2> HIDE DEF P
  <2> QED
    BY <1>2, <1>3, SetInduction
<1>5. done(N) = names
  BY RangeFacts
<1>6. t[N] = PutInto(text, PutAll(done(N), given))
  <2>1. N \in 0..N
    OBVIOUS
  <2>2. N \in P
    <3> HIDE DEF P
    <3> QED
      BY <1>4, <2>1
  <2>3. QED
    BY <2>2
<1>7. QED
  BY <1>5, <1>6 DEF t

\* A reference that is in the text after all turns is to no variable that was replaced, or
\* some value holds it.
LEMMA WhatIsLeft ==
    ASSUME NEW text \in PieceTexts, NEW names, NEW order \in Seq(names), Range(order) = names,
           NEW N \in Nat, N = Len(order),
           NEW given, \A v \in names : given[v].text \in PieceTexts
    PROVE  /\ replace_turns(text, order, given)[N] \in PieceTexts
           /\ \A p \in Range(replace_turns(text, order, given)[N]) :
                 \/ p \in Range(text) /\ \A v \in names : p # Ref(v)
                 \/ \E v \in names : p \in Range(given[v].text)
<1> DEFINE t == replace_turns(text, order, given)
           Left(n) == \A p \in Range(t[n]) :
                         \/ p \in Range(text) /\ \A i \in 1..n : p # Ref(order[i])
                         \/ \E v \in names : p \in Range(given[v].text)
           P == {n \in 0..N : t[n] \in PieceTexts /\ Left(n)}
<1>1. /\ t[0] = text
      /\ \A n \in 1..N : order[n] \in names /\ t[n] = replace(t[n - 1], order[n], given[order[n]].text)
  BY TurnsReplace
<1> HIDE DEF t
<1>2. 0 \in P
  <2>1. Left(0)
    BY <1>1
  <2>2. t[0] \in PieceTexts
    BY <1>1
  <2>3. 0 \in 0..N
    OBVIOUS
  <2> HIDE DEF Left
  <2>4. QED
    BY <2>1, <2>2, <2>3
<1>3. ASSUME NEW n \in 1..N, n - 1 \in P
      PROVE  n \in P
  <2>0. t[n - 1] \in PieceTexts /\ Left(n - 1)
    BY <1>3
  <2>1. PICK v \in names : v = order[n]
    BY <1>1
  <2>2. given[v].text \in PieceTexts
    OBVIOUS
  <2>3. t[n] = PutInto(t[n - 1], PutOne(v, given[v].text)) /\ t[n] \in PieceTexts
    <3> HIDE DEF Left, P
    <3>1. t[n] = replace(t[n - 1], v, given[v].text)
      BY <1>1, <2>1
    <3>2. QED
      BY <2>0, <2>2, <3>1, ReplacePuts
  <2>4. ASSUME NEW p \in Range(t[n])
        PROVE  p \in Range(given[v].text) \/ (p \in Range(t[n - 1]) /\ p # Ref(v))
    <3> HIDE DEF Left, P
    <3>1. PutOne(v, given[v].text) \in [Pieces -> PieceTexts]
      BY <2>2, PutTyped
    <3>2. PICK q \in Range(t[n - 1]) : p \in Range(PutOne(v, given[v].text)[q])
      BY <2>0, <2>3, <3>1, PutPieces DEF PieceTexts
    <3>3. q \in Pieces
      BY <2>0, RangeFacts DEF PieceTexts
    <3>4. CASE q = Ref(v)
      BY <3>2, <3>3, <3>4 DEF PutOne
    <3>5. CASE q # Ref(v)
      <4>1. PutOne(v, given[v].text)[q] = <<q>>
        BY <3>3, <3>5 DEF PutOne
      <4>2. p \in Range(<<q>>)
        BY <3>2, <4>1
      <4>3. p = q
        BY <3>3, <4>2, PieceFacts
      <4>4. QED
        BY <3>5, <4>3
    <3>6. QED
      BY <3>4, <3>5
  <2>5. Left(n)
    <3>1. SUFFICES ASSUME NEW p \in Range(t[n]), \A w \in names : p \notin Range(given[w].text)
                   PROVE  p \in Range(text) /\ \A i \in 1..n : p # Ref(order[i])
      OBVIOUS
    <3>2. p \in Range(t[n - 1]) /\ p # Ref(v)
      BY <2>4, <3>1
    <3>3. p \in Range(text) /\ \A i \in 1..(n - 1) : p # Ref(order[i])
      BY <2>0, <3>1, <3>2
    <3>4. \A i \in 1..n : i \in 1..(n - 1) \/ i = n
      OBVIOUS
    <3> HIDE DEF Left, P
    <3>5. QED
      BY <2>1, <3>2, <3>3, <3>4
  <2>6. n \in 0..N
    OBVIOUS
  <2> HIDE DEF Left
  <2>7. QED
    BY <2>3, <2>5, <2>6
<1>4. 0..N \subseteq P
  <2> HIDE DEF P
  <2> QED
    BY <1>2, <1>3, SetInduction
<1>5. N \in P
  <2> HIDE DEF P
  <2> QED
    BY <1>4
<1>6. t[N] \in PieceTexts /\ Left(N)
  BY <1>5
<1>7. \A v \in names : \E i \in 1..N : v = order[i]
  BY RangeFacts
<1>8. QED
  <2> HIDE DEF P
  <2> QED
    BY <1>6, <1>7 DEF t

\* The names a text refers to.
LEMMA RefsAre ==
    ASSUME NEW text \in PieceTexts
    PROVE  \A r : r \in Refs(text) <=> \E p \in Range(text) : p.kind = "ref" /\ p.s = r
<1>1. \A p \in Range(text) : \E i \in DOMAIN text : p = text[i]
  BY DEF Range
<1>2. \A i \in DOMAIN text : text[i] \in Range(text)
  BY DEF Range
<1>3. Refs(text) = {text[i].s : i \in {j \in DOMAIN text : text[j].kind = "ref"}}
  BY DEF Refs
<1>4. QED
  BY <1>1, <1>2, <1>3

-----------------------------------------------------------------------------
(***************************************************************************)
(* Templates: the templates and what is made of them                       *)
(***************************************************************************)
AllTemplates == Templates \cup register_builtin_templates

\* A text with references and literal text, and variables with a name and a type.
WellFormed(t) ==
    /\ {"text", "variables"} \subseteq DOMAIN t
    /\ t.text \in PieceTexts /\ \A p \in Range(t.text) : p.kind \in {"text", "ref"}
    /\ IsFiniteSet(t.variables)
    /\ \A v \in t.variables : v.name \in Words /\ v.type \in VariableType

\* What is declared of a variable.
VariableOK(v) == v.name \in Words /\ v.type \in VariableType

\* The types of the variables that are built in.
LEMMA TypesAre == {"String", "Number", "Url", "Json", "Path"} \subseteq VariableType
BY DEF VariableType

\* The words of the built-in templates and fragments.
LEMMA NamesAre ==
    /\ "base_url" \in Words /\ "endpoint" \in Words /\ "request_body" \in Words
    /\ "expected_id" \in Words /\ "auth_server" \in Words /\ "client_id" \in Words
    /\ "client_secret" \in Words /\ "scope" \in Words /\ "protected_endpoint" \in Words
    /\ "jwt_token" \in Words /\ "required_fields" \in Words /\ "expected_value" \in Words
    /\ "extraction_path" \in Words /\ "max_response_time" \in Words /\ "access_token" \in Words
    /\ "headers" \in Words /\ "json" \in Words /\ "1000" \in Words
BY TemplateAssumption DEF BuiltInWords

\* The three ways to declare one.
LEMMA VariablesAre ==
    /\ \A name \in Words, type \in VariableType :
          VariableOK(Required(name, type)) /\ VariableOK(Optional(name, type))
    /\ \A pattern : \A name \in Words, type \in VariableType :
          VariableOK(Pattern(Required(name, type), pattern))
<1>1. \A name \in Words, type \in VariableType :
         VariableOK(Required(name, type)) /\ VariableOK(Optional(name, type))
  BY DEF VariableOK, Required, Optional
<1>2. \A pattern : \A name \in Words, type \in VariableType :
         VariableOK(Pattern(Required(name, type), pattern))
  BY DEF VariableOK, Required, Pattern
<1>3. QED
  BY <1>1, <1>2

\* A text that is made of references.
References == {Ref(name) : name \in Words}
LEMMA ReferencesAre ==
    ASSUME NEW text, text \in Seq(References)
    PROVE  text \in PieceTexts /\ \A p \in Range(text) : p.kind \in {"text", "ref"}
<1>1. \A p \in References : p \in Pieces /\ p.kind = "ref"
  BY DEF Ref, Pieces, References
<1>2. text \in Seq(Pieces)
  BY <1>1, ElementOfSeq
<1>3. Range(text) \subseteq References
  BY RangeFacts
<1>4. QED
  BY <1>1, <1>2, <1>3 DEF PieceTexts

\* A set that is written down is finite.
LEMMA FewAreFinite ==
    /\ \A a : IsFiniteSet({a})
    /\ \A a, b : IsFiniteSet({a, b})
    /\ \A a, b, c : IsFiniteSet({a, b, c})
    /\ \A a, b, c, d : IsFiniteSet({a, b, c, d})
<1>1. \A a : IsFiniteSet({a})
  BY FS_Singleton
<1>2. \A S, T : IsFiniteSet(S) /\ IsFiniteSet(T) => IsFiniteSet(S \cup T)
  BY FS_Union
<1>3. ASSUME NEW a, NEW b
      PROVE  IsFiniteSet({a, b})
  <2>1. IsFiniteSet({a} \cup {b})
    BY <1>1, <1>2
  <2>2. {a, b} = {a} \cup {b}
    OBVIOUS
  <2>3. QED
    BY <2>1, <2>2
<1>4. ASSUME NEW a, NEW b, NEW c
      PROVE  IsFiniteSet({a, b, c})
  <2>1. IsFiniteSet({a, b} \cup {c})
    BY <1>1, <1>2, <1>3
  <2>2. {a, b, c} = {a, b} \cup {c}
    OBVIOUS
  <2>3. QED
    BY <2>1, <2>2
<1>5. ASSUME NEW a, NEW b, NEW c, NEW d
      PROVE  IsFiniteSet({a, b, c, d})
  <2>1. IsFiniteSet({a, b} \cup {c, d})
    BY <1>2, <1>3
  <2>2. {a, b, c, d} = {a, b} \cup {c, d}
    OBVIOUS
  <2>3. QED
    BY <2>1, <2>2
<1>6. QED
  BY <1>1, <1>3, <1>4, <1>5

\* A tuple of references is a list of them.
LEMMA TuplesAre ==
    ASSUME NEW R
    PROVE  /\ \A a, b \in R : <<a, b>> \in Seq(R)
           /\ \A a, b, c \in R : <<a, b, c>> \in Seq(R)
           /\ \A a, b, c, d \in R : <<a, b, c, d>> \in Seq(R)
           /\ \A a, b, c, d, e \in R : <<a, b, c, d, e>> \in Seq(R)
<1>1. \A a, b \in R : <<a, b>> \in Seq(R)
  OBVIOUS
<1>2. \A a, b, c \in R : <<a, b, c>> \in Seq(R)
  OBVIOUS
<1>3. \A a, b, c, d \in R : <<a, b, c, d>> \in Seq(R)
  OBVIOUS
<1>4. \A a, b, c, d, e \in R : <<a, b, c, d, e>> \in Seq(R)
  OBVIOUS
<1>5. QED
  BY <1>1, <1>2, <1>3, <1>4

\* What is given to BuiltIn is what the template has.
LEMMA BuiltInIs ==
    ASSUME NEW id, NEW category, NEW tags, NEW text, NEW those,
           text \in Seq(References), IsFiniteSet(those),
           \A v \in those : VariableOK(v)
    PROVE  /\ WellFormed(BuiltIn(id, category, tags, text, those))
           /\ BuiltIn(id, category, tags, text, those).id = id
           /\ "id" \in DOMAIN BuiltIn(id, category, tags, text, those)
<1>1. /\ BuiltIn(id, category, tags, text, those).id = id
      /\ BuiltIn(id, category, tags, text, those).text = text
      /\ BuiltIn(id, category, tags, text, those).variables = those
      /\ {"id", "text", "variables"} \subseteq DOMAIN BuiltIn(id, category, tags, text, those)
  BY DEF BuiltIn
<1>2. QED
  BY <1>1, ReferencesAre DEF WellFormed, VariableOK

\* The two variables of a place are declared well.
LEMMA PlaceIs == IsFiniteSet(Place) /\ \A v \in Place : VariableOK(v)
<1>1. VariableOK(Pattern(Required("base_url", "Url"), "^https?://"))
  BY VariablesAre, TypesAre, NamesAre
<1>2. VariableOK(Required("endpoint", "Path"))
  BY VariablesAre, TypesAre, NamesAre
<1>3. QED
  BY <1>1, <1>2, FewAreFinite DEF Place

\* The built-in templates are well formed; these are their ids.
LEMMA BuiltInsAre ==
    /\ WellFormed(create_rest_get_template) /\ create_rest_get_template.id = "rest-api-get"
    /\ WellFormed(create_rest_post_template) /\ create_rest_post_template.id = "rest-api-post"
    /\ WellFormed(create_oauth_template) /\ create_oauth_template.id = "oauth2-auth"
    /\ WellFormed(create_jwt_template) /\ create_jwt_template.id = "jwt-auth"
    /\ WellFormed(create_validation_template)
    /\ create_validation_template.id = "data-validation"
    /\ WellFormed(create_performance_template)
    /\ create_performance_template.id = "performance-test"
<1>0. \A name \in Words : Ref(name) \in References
  BY DEF References
<1>1. WellFormed(create_rest_get_template) /\ create_rest_get_template.id = "rest-api-get"
  <2> DEFINE text == <<Ref("base_url"), Ref("endpoint")>>
             all == Place
  <2>1. text \in Seq(References)
    BY <1>0, NamesAre, TuplesAre
  <2>2. IsFiniteSet(all) /\ \A v \in all : VariableOK(v)
    BY PlaceIs
  <2>3. create_rest_get_template
           = BuiltIn("rest-api-get", "RestApi", {"rest", "get"}, text, all)
    BY DEF create_rest_get_template
  <2> HIDE DEF text, all
  <2>4. QED
    BY <2>1, <2>2, <2>3, BuiltInIs
<1>2. WellFormed(create_rest_post_template) /\ create_rest_post_template.id = "rest-api-post"
  <2> DEFINE text == <<Ref("base_url"), Ref("endpoint"), Ref("request_body"), Ref("expected_id")>>
             more == {Required("request_body", "Json"), Optional("expected_id", "String")}
             all == Place \cup more
  <2>1. text \in Seq(References)
    BY <1>0, NamesAre, TuplesAre
  <2>2. \A v \in more : VariableOK(v)
    <3>1. VariableOK(Required("request_body", "Json"))
      BY VariablesAre, TypesAre, NamesAre
    <3>2. VariableOK(Optional("expected_id", "String"))
      BY VariablesAre, TypesAre, NamesAre
    <3>3. QED
      BY <3>1, <3>2
  <2>3. IsFiniteSet(more)
    BY FewAreFinite
  <2>4. IsFiniteSet(all) /\ \A v \in all : VariableOK(v)
    <3> HIDE DEF more
    <3> QED
      BY <2>2, <2>3, PlaceIs, FS_Union
  <2>5. create_rest_post_template
           = BuiltIn("rest-api-post", "RestApi", {"rest", "post"}, text, all)
    BY DEF create_rest_post_template
  <2> HIDE DEF text, all
  <2>6. QED
    BY <2>1, <2>4, <2>5, BuiltInIs
<1>3. WellFormed(create_oauth_template) /\ create_oauth_template.id = "oauth2-auth"
  <2> DEFINE text == <<Ref("auth_server"), Ref("client_id"), Ref("client_secret"), Ref("scope")>>
             more == {Pattern(Required("auth_server", "Url"), "^https?://"),
                      Required("client_id", "String"), Required("client_secret", "String"),
                      Optional("scope", "String")}
             all == more
  <2>1. text \in Seq(References)
    BY <1>0, NamesAre, TuplesAre
  <2>2. \A v \in more : VariableOK(v)
    <3>1. VariableOK(Pattern(Required("auth_server", "Url"), "^https?://"))
      BY VariablesAre, TypesAre, NamesAre
    <3>2. VariableOK(Required("client_id", "String"))
      BY VariablesAre, TypesAre, NamesAre
    <3>3. VariableOK(Required("client_secret", "String"))
      BY VariablesAre, TypesAre, NamesAre
    <3>4. VariableOK(Optional("scope", "String"))
      BY VariablesAre, TypesAre, NamesAre
    <3>5. QED
      BY <3>1, <3>2, <3>3, <3>4
  <2>3. IsFiniteSet(more)
    BY FewAreFinite
  <2>4. IsFiniteSet(all) /\ \A v \in all : VariableOK(v)
    <3> HIDE DEF more
    <3> QED
      BY <2>2, <2>3
  <2>5. create_oauth_template
           = BuiltIn("oauth2-auth", "Authentication", {"oauth2", "authentication"}, text, all)
    BY DEF create_oauth_template
  <2> HIDE DEF text, all
  <2>6. QED
    BY <2>1, <2>4, <2>5, BuiltInIs
<1>4. WellFormed(create_jwt_template) /\ create_jwt_template.id = "jwt-auth"
  <2> DEFINE text == <<Ref("base_url"), Ref("protected_endpoint"), Ref("jwt_token"),
                       Ref("jwt_token")>>
             more == {Pattern(Required("base_url", "Url"), "^https?://"),
                      Required("protected_endpoint", "Path"),
                      Pattern(Required("jwt_token", "String"), "jwt")}
             all == more
  <2>1. text \in Seq(References)
    BY <1>0, NamesAre, TuplesAre
  <2>2. \A v \in more : VariableOK(v)
    <3>1. VariableOK(Pattern(Required("base_url", "Url"), "^https?://"))
      BY VariablesAre, TypesAre, NamesAre
    <3>2. VariableOK(Required("protected_endpoint", "Path"))
      BY VariablesAre, TypesAre, NamesAre
    <3>3. VariableOK(Pattern(Required("jwt_token", "String"), "jwt"))
      BY VariablesAre, TypesAre, NamesAre
    <3>4. QED
      BY <3>1, <3>2, <3>3
  <2>3. IsFiniteSet(more)
    BY FewAreFinite
  <2>4. IsFiniteSet(all) /\ \A v \in all : VariableOK(v)
    <3> HIDE DEF more
    <3> QED
      BY <2>2, <2>3
  <2>5. create_jwt_template
           = BuiltIn("jwt-auth", "Authentication", {"jwt", "authentication"}, text, all)
    BY DEF create_jwt_template
  <2> HIDE DEF text, all
  <2>6. QED
    BY <2>1, <2>4, <2>5, BuiltInIs
<1>5. WellFormed(create_validation_template) /\ create_validation_template.id = "data-validation"
  <2> DEFINE text == <<Ref("base_url"), Ref("endpoint"), Ref("required_fields"),
                       Ref("expected_value"), Ref("extraction_path")>>
             more == {Required("required_fields", "String"),
                      Optional("expected_value", "String"), Optional("extraction_path", "String")}
             all == Place \cup more
  <2>1. text \in Seq(References)
    BY <1>0, NamesAre, TuplesAre
  <2>2. \A v \in more : VariableOK(v)
    <3>1. VariableOK(Required("required_fields", "String"))
      BY VariablesAre, TypesAre, NamesAre
    <3>2. VariableOK(Optional("expected_value", "String"))
      BY VariablesAre, TypesAre, NamesAre
    <3>3. VariableOK(Optional("extraction_path", "String"))
      BY VariablesAre, TypesAre, NamesAre
    <3>4. QED
      BY <3>1, <3>2, <3>3
  <2>3. IsFiniteSet(more)
    BY FewAreFinite
  <2>4. IsFiniteSet(all) /\ \A v \in all : VariableOK(v)
    <3> HIDE DEF more
    <3> QED
      BY <2>2, <2>3, PlaceIs, FS_Union
  <2>5. create_validation_template
           = BuiltIn("data-validation", "DataValidation", {"validation", "schema"}, text, all)
    BY DEF create_validation_template
  <2> HIDE DEF text, all
  <2>6. QED
    BY <2>1, <2>4, <2>5, BuiltInIs
<1>6. WellFormed(create_performance_template) /\ create_performance_template.id = "performance-test"
  <2> DEFINE text == <<Ref("base_url"), Ref("endpoint"), Ref("max_response_time")>>
             more == {Pattern(Required("max_response_time", "Number"), "digits")}
             all == Place \cup more
  <2>1. text \in Seq(References)
    BY <1>0, NamesAre, TuplesAre
  <2>2. \A v \in more : VariableOK(v)
    <3>1. VariableOK(Pattern(Required("max_response_time", "Number"), "digits"))
      BY VariablesAre, TypesAre, NamesAre
    <3>2. QED
      BY <3>1
  <2>3. IsFiniteSet(more)
    BY FewAreFinite
  <2>4. IsFiniteSet(all) /\ \A v \in all : VariableOK(v)
    <3> HIDE DEF more
    <3> QED
      BY <2>2, <2>3, PlaceIs, FS_Union
  <2>5. PICK b : b = BuiltIn("performance-test", "Performance", {"performance", "load"}, text, all)
    OBVIOUS
  <2>6. create_performance_template = [b EXCEPT !.timeout = <<>>]
    BY <2>5 DEF create_performance_template
  <2> HIDE DEF text, all
  <2>7. WellFormed(b) /\ b.id = "performance-test" /\ "id" \in DOMAIN b
    BY <2>1, <2>4, <2>5, BuiltInIs
  <2>8. /\ DOMAIN create_performance_template = DOMAIN b
        /\ \A field \in {"id", "text", "variables"} : create_performance_template[field] = b[field]
    BY <2>6, <2>7 DEF WellFormed
  <2>9. QED
    BY <2>7, <2>8 DEF WellFormed
<1>7. QED
  BY <1>1, <1>2, <1>3, <1>4, <1>5, <1>6

\* Every template is well formed; no two built-in ones have one id.
LEMMA TemplatesAre ==
    /\ \A t \in AllTemplates : WellFormed(t)
    /\ \A t, u \in register_builtin_templates : t.id = u.id => t = u
    /\ \A t \in register_builtin_templates : t.id # ""
<1>1. \A t \in Templates : WellFormed(t)
  <2>1. {"text", "variables"} \subseteq DOMAIN NoTemplate
    BY DEF NoTemplate
  <2>2. QED
    BY <2>1, TemplateAssumption DEF WellFormed, PieceTexts
<1>2. QED
  BY <1>1, BuiltInsAre DEF register_builtin_templates, AllTemplates

-----------------------------------------------------------------------------
(***************************************************************************)
(* Templates: the inductive invariant                                      *)
(***************************************************************************)
Sentinels == {NoFile, EmptyFile, GarbledFile}

FileTypes ==
    /\ template_files \in [TemplateIds -> Templates \cup Sentinels]
    /\ \A id \in TemplateIds : template_files[id] \in Templates => template_files[id].id = id
    /\ creating \in [Authors -> Templates \cup {NoTemplate}]
    /\ landing \subseteq Templates /\ raced_ids \subseteq TemplateIds

\* Without a race a template is in one place: with its author, on its way, or in the file.
Alone(id) ==
    /\ template_files[id] # GarbledFile
    /\ template_files[id] = EmptyFile => \E t \in landing : t.id = id
    /\ \A t, u \in landing : t.id = id /\ u.id = id => t = u
    /\ template_files[id] # EmptyFile => \A t \in landing : t.id # id
    /\ \A a, b \in Authors : creating[a].id = id /\ creating[b].id = id => a = b
    /\ \A a \in Authors : creating[a].id = id => template_files[id] = NoFile

\* What was made was made of a template, in some order of the values given.
MadeOf ==
    made.result.outcome # "none" =>
        /\ made.template \in AllTemplates
        /\ made.given \in Givens(made.template)
        /\ \E order \in SetToSeqs(DOMAIN made.given) :
              made.result \in Instantiate(made.template, order, made.given)

TemplateInv == FileTypes /\ (\A id \in TemplateIds \ raced_ids : Alone(id)) /\ MadeOf

\* No template is one of the answers a file gives without one.
LEMMA NoSentinel ==
    /\ NoFile \notin Templates /\ EmptyFile \notin Templates /\ GarbledFile \notin Templates
    /\ NoTemplate \notin Templates /\ NoTemplate.id \notin TemplateIds
    /\ NoFile # EmptyFile /\ NoFile # GarbledFile /\ EmptyFile # GarbledFile
    /\ \A t \in Templates : t.id \in TemplateIds
<1>1. /\ NoFile.id = "no file" /\ EmptyFile.id = "empty" /\ GarbledFile.id = "garbled"
      /\ NoTemplate.id = ""
  BY DEF NoFile, EmptyFile, GarbledFile, NoTemplate
<1>2. \A t \in Templates :
         t.id # "" /\ t.id # "no file" /\ t.id # "empty" /\ t.id # "garbled"
  BY TemplateAssumption
<1>3. /\ NoFile # EmptyFile /\ NoFile # GarbledFile /\ EmptyFile # GarbledFile
  BY <1>1
<1>4. QED
  BY <1>1, <1>2, <1>3 DEF TemplateIds

\* What an id yields is a template or nothing.
LEMMA GetYields ==
    ASSUME FileTypes, NEW id \in TemplateIds
    PROVE  get_template(id) \in AllTemplates \cup {NoTemplate}
<1>1. CASE \E t \in register_builtin_templates : t.id = id
  BY <1>1 DEF get_template, AllTemplates
<1>2. CASE ~\E t \in register_builtin_templates : t.id = id
  <2>1. template_files[id] \in Templates \cup Sentinels
    BY DEF FileTypes
  <2>2. QED
    BY <1>2, <2>1 DEF get_template, load_template, AllTemplates, Sentinels
<1>3. QED
  BY <1>1, <1>2

\* The initial states are good.
LEMMA TemplatesStart == TemplateInit => TemplateInv
<1> SUFFICES ASSUME TemplateInit PROVE TemplateInv
  OBVIOUS
<1>1. FileTypes
  BY NoSentinel DEF TemplateInit, FileTypes, Sentinels
<1>2. ASSUME NEW id \in TemplateIds PROVE Alone(id)
  BY <1>2, NoSentinel DEF TemplateInit, Alone
<1>3. MadeOf
  BY DEF TemplateInit, MadeOf, Result
<1>4. QED
  BY <1>1, <1>2, <1>3 DEF TemplateInv

\* A creation that passes its checks keeps the invariant.
LEMMA CreateKeeps ==
    ASSUME TemplateInv, NEW a \in Authors, NEW t \in Templates, create_template(a, t)
    PROVE  TemplateInv'
<1>1. /\ creating[a] = NoTemplate /\ template_files[t.id] = NoFile
      /\ creating' = [creating EXCEPT ![a] = t]
      /\ raced_ids' = IF \E b \in Authors : creating[b].id = t.id
                      THEN raced_ids \cup {t.id} ELSE raced_ids
      /\ template_files' = template_files /\ landing' = landing /\ made' = made
  BY DEF create_template, template_exists
<1>2. FileTypes'
  BY <1>1, NoSentinel DEF TemplateInv, FileTypes, Sentinels
<1>3. ASSUME NEW id \in TemplateIds, id \notin raced_ids'
      PROVE  Alone(id)'
  <2>1. id \notin raced_ids /\ Alone(id)
    BY <1>1, <1>3 DEF TemplateInv
  <2>2. creating \in [Authors -> Templates \cup {NoTemplate}]
    BY DEF TemplateInv, FileTypes
  <2>3. CASE id = t.id
    <3>1. \A b \in Authors : creating[b].id # t.id
      BY <1>1, <1>3, <2>3
    <3>2. QED
      BY <1>1, <2>1, <2>2, <2>3, <3>1, NoSentinel DEF Alone
  <2>4. CASE id # t.id
    BY <1>1, <2>1, <2>2, <2>4, NoSentinel DEF Alone
  <2>5. QED
    BY <2>3, <2>4
<1>4. MadeOf'
  BY <1>1 DEF TemplateInv, MadeOf
<1>5. QED
  BY <1>2, <1>3, <1>4 DEF TemplateInv

\* A save keeps the invariant.
LEMMA SaveKeeps ==
    ASSUME TemplateInv, NEW a \in Authors, save_template(a)
    PROVE  TemplateInv'
<1>1. /\ creating[a] # NoTemplate
      /\ template_files' = [template_files EXCEPT ![creating[a].id] = EmptyFile]
      /\ landing' = landing \cup {creating[a]}
      /\ creating' = [creating EXCEPT ![a] = NoTemplate]
      /\ raced_ids' = raced_ids /\ made' = made
  BY DEF save_template
<1>2. /\ creating \in [Authors -> Templates \cup {NoTemplate}]
      /\ template_files \in [TemplateIds -> Templates \cup Sentinels]
  BY DEF TemplateInv, FileTypes
<1>3. creating[a] \in Templates /\ creating[a].id \in TemplateIds
  BY <1>1, <1>2, NoSentinel
<1>4. FileTypes'
  BY <1>1, <1>2, <1>3, NoSentinel DEF TemplateInv, FileTypes, Sentinels
<1>5. ASSUME NEW id \in TemplateIds, id \notin raced_ids'
      PROVE  Alone(id)'
  <2>1. Alone(id)
    BY <1>1, <1>5 DEF TemplateInv
  <2>2. CASE id = creating[a].id
    <3>1. template_files[id] = NoFile
      BY <2>1, <2>2 DEF Alone
    <3>2. \A t \in landing : t.id # id
      BY <2>1, <3>1, NoSentinel DEF Alone
    <3>3. template_files'[id] = EmptyFile
      BY <1>1, <1>2, <2>2
    <3>4. \A b \in Authors : creating'[b].id # id
      BY <1>1, <1>2, <2>1, <2>2, NoSentinel DEF Alone
    <3>5. \A t \in landing' : t.id = id => t = creating[a]
      BY <1>1, <3>2
    <3>6. creating[a] \in landing'
      BY <1>1
    <3>7. QED
      BY <2>2, <3>3, <3>4, <3>5, <3>6, NoSentinel DEF Alone
  <2>3. CASE id # creating[a].id
    <3>1. template_files'[id] = template_files[id]
      BY <1>1, <1>2, <2>3
    <3>2. \A b \in Authors : creating'[b].id = id => creating[b].id = id
      BY <1>1, <1>2, NoSentinel
    <3>3. \A t \in landing' : t.id = id => t \in landing
      BY <1>1, <2>3
    <3>4. landing \subseteq landing'
      BY <1>1
    <3>5. QED
      BY <2>1, <3>1, <3>2, <3>3, <3>4 DEF Alone
  <2>4. QED
    BY <2>2, <2>3
<1>6. MadeOf'
  BY <1>1 DEF TemplateInv, MadeOf
<1>7. QED
  BY <1>4, <1>5, <1>6 DEF TemplateInv

\* A text that reaches its file keeps the invariant.
LEMMA LandKeeps ==
    ASSUME TemplateInv, NEW t \in landing, land_template(t)
    PROVE  TemplateInv'
<1>1. /\ \/ template_files' = [template_files EXCEPT ![t.id] = t]
         \/ /\ template_files[t.id] # EmptyFile
            /\ template_files' = [template_files EXCEPT ![t.id] = GarbledFile]
      /\ landing' = landing \ {t}
      /\ creating' = creating /\ raced_ids' = raced_ids /\ made' = made
  BY DEF land_template
<1>2. /\ t \in Templates /\ t.id \in TemplateIds
      /\ template_files \in [TemplateIds -> Templates \cup Sentinels]
      /\ creating \in [Authors -> Templates \cup {NoTemplate}]
  BY NoSentinel DEF TemplateInv, FileTypes
<1>3. FileTypes'
  <2>1. CASE template_files' = [template_files EXCEPT ![t.id] = t]
    BY <1>1, <1>2, <2>1, NoSentinel DEF TemplateInv, FileTypes
  <2>2. CASE template_files' = [template_files EXCEPT ![t.id] = GarbledFile]
    BY <1>1, <1>2, <2>2, NoSentinel DEF TemplateInv, FileTypes, Sentinels
  <2>3. QED
    BY <1>1, <2>1, <2>2
<1>4. ASSUME NEW id \in TemplateIds, id \notin raced_ids'
      PROVE  Alone(id)'
  <2>1. Alone(id)
    BY <1>1, <1>4 DEF TemplateInv
  <2>2. CASE id = t.id
    <3>1. template_files[id] = EmptyFile
      BY <2>1, <2>2 DEF Alone
    <3>2. template_files'[id] = t
      BY <1>1, <1>2, <2>2, <3>1
    <3>3. \A u \in landing' : u.id # id
      BY <1>1, <2>1, <2>2 DEF Alone
    <3>4. \A b \in Authors : creating'[b].id # id
      BY <1>1, <2>1, <3>1, NoSentinel DEF Alone
    <3>5. QED
      BY <1>2, <3>2, <3>3, <3>4, NoSentinel DEF Alone
  <2>3. CASE id # t.id
    <3>1. template_files'[id] = template_files[id]
      BY <1>1, <1>2, <2>3
    <3>2. \A u \in landing : u.id = id => u \in landing'
      BY <1>1, <2>3
    <3>3. QED
      BY <1>1, <2>1, <3>1, <3>2 DEF Alone
  <2>4. QED
    BY <2>2, <2>3
<1>5. MadeOf'
  BY <1>1 DEF TemplateInv, MadeOf
<1>6. QED
  BY <1>3, <1>4, <1>5 DEF TemplateInv

\* Making a test case of a template keeps the invariant.
LEMMA MakeKeeps ==
    ASSUME TemplateInv, NEW id \in TemplateIds, NEW given \in Givens(get_template(id)),
           create_from_template(id, given)
    PROVE  TemplateInv'
<1>order. PICK order \in SetToSeqs(DOMAIN given) :
             \E result \in Instantiate(get_template(id), order, given) :
                made' = [template |-> get_template(id), given |-> given, result |-> result]
  BY DEF create_from_template
<1>1. PICK result \in Instantiate(get_template(id), order, given) :
            made' = [template |-> get_template(id), given |-> given, result |-> result]
  BY <1>order
<1>2. /\ get_template(id) # NoTemplate
      /\ template_files' = template_files /\ creating' = creating /\ landing' = landing
      /\ raced_ids' = raced_ids
  BY DEF create_from_template
<1>3. FileTypes' /\ \A i \in TemplateIds \ raced_ids' : Alone(i)'
  BY <1>2 DEF TemplateInv, FileTypes, Alone
<1>4. get_template(id) \in AllTemplates
  BY <1>2, GetYields DEF TemplateInv
<1>5. /\ made'.template = get_template(id) /\ made'.given = given
      /\ made'.result \in Instantiate(get_template(id), order, given)
  BY <1>1
<1>6. MadeOf'
  BY <1>4, <1>5 DEF MadeOf
<1>7. QED
  BY <1>3, <1>6 DEF TemplateInv

\* The invariant is inductive.
THEOREM TemplatesInvariant == TemplateSpec => []TemplateInv
<1>1. ASSUME TemplateInv, [TemplateNext]_templateVars
      PROVE  TemplateInv'
  <2>1. CASE UNCHANGED templateVars
    BY <1>1, <2>1 DEF templateVars, TemplateInv, FileTypes, Alone, MadeOf
  <2>2. CASE TemplateNext
    BY <1>1, <2>2, CreateKeeps, SaveKeeps, LandKeeps, MakeKeeps DEF TemplateNext
  <2>3. QED
    BY <1>1, <2>1, <2>2
<1>2. QED
  BY <1>1, TemplatesStart, PTL DEF TemplateSpec

-----------------------------------------------------------------------------
(***************************************************************************)
(* Templates: what the invariant says                                      *)
(***************************************************************************)
\* The values given to a template have texts, for finitely many variables.
LEMMA GivenIs ==
    ASSUME NEW t \in AllTemplates, NEW given \in Givens(t)
    PROVE  /\ IsFiniteSet(DOMAIN given)
           /\ \A v \in DOMAIN given : given[v].text \in PieceTexts
<1>1. PICK names \in SUBSET (VariableNames(t) \cup {"max_response_time"}) :
            given \in [names -> Values]
  BY DEF Givens
<1>2. IsFiniteSet(VariableNames(t))
  <2>1. IsFiniteSet(t.variables)
    BY TemplatesAre DEF WellFormed
  <2>2. [v \in t.variables |-> v.name] \in Surjection(t.variables, VariableNames(t))
    BY DEF VariableNames, Surjection
  <2>3. QED
    BY <2>1, <2>2, FS_Surjection
<1>3. IsFiniteSet(names)
  <2>1. IsFiniteSet(VariableNames(t) \cup {"max_response_time"})
    BY <1>2, FS_AddElement
  <2>2. QED
    BY <2>1, FS_Subset
<1>4. \A v \in names : given[v] \in Values
  BY <1>1
<1>5. QED
  BY <1>1, <1>3, <1>4, TemplateAssumption DEF PieceTexts

\* What an instantiation comes to.
Missing(t, given) == \E v \in t.variables : v.required /\ v.name \notin DOMAIN given
Wrong(t, given) ==
    \E v \in t.variables : v.name \in DOMAIN given /\ ~validate_variable_value(v, given[v.name])

\* What a result is made of.
LEMMA ResultIs ==
    \A came, text, timeout :
        /\ Result(came, text, timeout).outcome = came
        /\ Result(came, text, timeout).text = text
        /\ Result(came, text, timeout).timeout = timeout
BY DEF Result

\* An instantiation is refused, or is what all turns leave as it is read back.
LEMMA InstantiateIs ==
    ASSUME NEW t, NEW order, NEW given, NEW result \in Instantiate(t, order, given)
    PROVE  /\ Missing(t, given) \/ Wrong(t, given) =>
                 result = Result("ValidationError", <<>>, <<>>)
           /\ ~Missing(t, given) /\ ~Wrong(t, given) =>
                 result \in substitute_variables(t, order, given)
<1>1. CASE Missing(t, given) \/ Wrong(t, given)
  <2>1. Instantiate(t, order, given) = {Result("ValidationError", <<>>, <<>>)}
    BY <1>1 DEF Instantiate, Missing, Wrong
  <2>2. QED
    BY <1>1, <2>1
<1>2. CASE ~Missing(t, given) /\ ~Wrong(t, given)
  <2>1. Instantiate(t, order, given) = substitute_variables(t, order, given)
    BY <1>2 DEF Instantiate, Missing, Wrong
  <2>2. QED
    BY <1>2, <2>1
<1>3. QED
  BY <1>1, <1>2

\* What may be read of a text is the text, unless a piece of it is no part of a string.
LEMMA ReadIs ==
    ASSUME NEW text, NEW timeout, NEW result \in from_str(text, timeout)
    PROVE  /\ result.outcome \in {"ok", "SerializationError", "something else"}
           /\ result.outcome = "ok" <=> \A p \in Range(text) : p.kind \notin {"control", "quote"}
           /\ result.outcome = "ok" => result.text = AsRead(text) /\ result.timeout = timeout
<1>1. CASE \E p \in Range(text) : p.kind = "quote"
  <2>1. result \in {Result("SerializationError", <<>>, <<>>), Result("something else", <<>>, timeout)}
    BY <1>1 DEF from_str
  <2>2. CASE result = Result("SerializationError", <<>>, <<>>)
    <3>1. result.outcome = "SerializationError"
      BY <2>2, ResultIs
    <3>2. QED
      BY <1>1, <3>1
  <2>3. CASE result = Result("something else", <<>>, timeout)
    <3>1. result.outcome = "something else"
      BY <2>3, ResultIs
    <3>2. QED
      BY <1>1, <3>1
  <2>4. QED
    BY <2>1, <2>2, <2>3
<1>2. CASE (~\E p \in Range(text) : p.kind = "quote") /\ \E p \in Range(text) : p.kind = "control"
  <2>1. result = Result("SerializationError", <<>>, <<>>)
    BY <1>2 DEF from_str
  <2>2. result.outcome = "SerializationError"
    BY <2>1, ResultIs
  <2>3. QED
    BY <1>2, <2>2
<1>3. CASE \A p \in Range(text) : p.kind \notin {"control", "quote"}
  <2>1. result = Result("ok", AsRead(text), timeout)
    BY <1>3 DEF from_str
  <2>2. result.outcome = "ok" /\ result.text = AsRead(text) /\ result.timeout = timeout
    BY <2>1, ResultIs
  <2>3. QED
    BY <1>3, <2>2
<1>4. QED
  BY <1>1, <1>2, <1>3

\* Putting all values in at once, as the property writes it.
LEMMA PutAllIs ==
    ASSUME NEW text \in PieceTexts, NEW given
    PROVE  FlattenSeq([i \in DOMAIN text |->
              LET p == text[i]
              IN  IF p.kind = "ref" /\ p.s \in DOMAIN given THEN given[p.s].text ELSE <<p>>])
             = PutInto(text, PutAll(DOMAIN given, given))
<1>1. \A i \in DOMAIN text : text[i] \in Pieces
  BY LenProperties, ElementOfSeq DEF PieceTexts
<1>2. Parts(text, PutAll(DOMAIN given, given))
        = [i \in DOMAIN text |->
              LET p == text[i]
              IN  IF p.kind = "ref" /\ p.s \in DOMAIN given THEN given[p.s].text ELSE <<p>>]
  BY <1>1 DEF Parts, PutAll
<1>3. QED
  BY <1>2 DEF PutInto

\* The replacement of the variables one after the other is their replacement at once.
LEMMA OnceIsEnough ==
    ASSUME NEW t \in AllTemplates, NEW given \in Givens(t), NEW order \in SetToSeqs(DOMAIN given),
           \A v \in DOMAIN given : Simple(given[v].text)
    PROVE  replace_turns(t.text, order, given)[Len(order)]
             = PutInto(t.text, PutAll(DOMAIN given, given))
<1>1. /\ IsFiniteSet(DOMAIN given) /\ \A v \in DOMAIN given : given[v].text \in PieceTexts
  BY GivenIs
<1>2. order \in Seq(DOMAIN given) /\ Range(order) = DOMAIN given
  BY <1>1, Arranged
<1>3. t.text \in PieceTexts
  BY TemplatesAre DEF WellFormed
<1>4. PICK N \in Nat : N = Len(order)
  BY <1>2, LenProperties
<1>5. QED
  BY <1>1, <1>2, <1>3, <1>4, AllAtOnce

\* InstantiationTrue follows.
LEMMA MadeIsTrue == TemplateInv => InstantiationTrue
<1> SUFFICES ASSUME TemplateInv, made.result.outcome # "none",
                    \A v \in DOMAIN made.given : \A p \in Range(made.given[v].text) : p.kind # "ref"
             PROVE  InstantiationTrue
  BY DEF InstantiationTrue
<1>1. PICK t \in AllTemplates, given \in Givens(made.template) :
            t = made.template /\ given = made.given
  BY DEF TemplateInv, MadeOf
<1>order. PICK order \in SetToSeqs(DOMAIN given) : made.result \in Instantiate(t, order, given)
  BY <1>1 DEF TemplateInv, MadeOf
<1>2. PICK result \in Instantiate(t, order, given) : result = made.result
  BY <1>order
<1>3. \A v \in DOMAIN given : Simple(given[v].text)
  BY <1>1 DEF Simple
<1> DEFINE all == FlattenSeq([i \in DOMAIN t.text |->
              LET p == t.text[i]
              IN  IF p.kind = "ref" /\ p.s \in DOMAIN given THEN given[p.s].text ELSE <<p>>])
           Right == /\ result.outcome = "ValidationError" <=> Missing(t, given) \/ Wrong(t, given)
                    /\ result.outcome = "ok" <=>
                          /\ ~Missing(t, given) /\ ~Wrong(t, given)
                          /\ \A p \in Range(all) : p.kind \notin {"control", "quote"}
                    /\ result.outcome = "ok" =>
                          result.text = AsRead(all) /\ result.timeout = timeout_of(t, given)
<1>6. Right
  <2>1. CASE Missing(t, given) \/ Wrong(t, given)
    <3>1. result.outcome = "ValidationError"
      BY <1>2, <2>1, InstantiateIs, ResultIs
    <3>2. QED
      BY <2>1, <3>1
  <2>2. CASE ~Missing(t, given) /\ ~Wrong(t, given)
    <3>1. result \in substitute_variables(t, order, given)
      BY <1>2, <2>2, InstantiateIs
    <3>2. t.text \in PieceTexts
      BY TemplatesAre DEF WellFormed
    <3>3. replace_turns(t.text, order, given)[Len(order)]
            = PutInto(t.text, PutAll(DOMAIN given, given))
      BY <1>1, <1>3, OnceIsEnough
    <3>4. replace_turns(t.text, order, given)[Len(order)] = all
      BY <3>2, <3>3, PutAllIs
    <3> HIDE DEF all
    <3>5. result \in from_str(all, timeout_of(t, given))
      BY <3>1, <3>4 DEF substitute_variables
    <3>6. QED
      BY <2>2, <3>5, ReadIs
  <2>3. QED
    BY <2>1, <2>2
<1>7. QED
  BY <1>1, <1>2, <1>6 DEF InstantiationTrue, Missing, Wrong

\* A reference in what is read was there before: nothing is read as one that was none.
LEMMA ReadRefs ==
    ASSUME NEW text \in PieceTexts, NEW r \in Refs(AsRead(text))
    PROVE  r \in Refs(text)
<1>1. DOMAIN AsRead(text) = DOMAIN text
  BY DEF AsRead
<1>2. PICK i \in DOMAIN text : AsRead(text)[i].kind = "ref" /\ AsRead(text)[i].s = r
  BY <1>1 DEF Refs
<1>3. text[i].kind # "escape"
  BY <1>2 DEF AsRead, Lit
<1>4. QED
  BY <1>2, <1>3 DEF AsRead, Refs

\* LeftReferences follows.
LEMMA LeftAreOptional == TemplateInv => LeftReferences
<1> SUFFICES ASSUME TemplateInv, made.result.outcome = "ok",
                    NEW r \in Refs(made.result.text) \cap VariableNames(made.template),
                    r \in DOMAIN made.given
             PROVE  \E v \in DOMAIN made.given : r \in Refs(made.given[v].text)
  BY DEF LeftReferences
<1>1. PICK t \in AllTemplates, given \in Givens(made.template) :
            t = made.template /\ given = made.given
  BY DEF TemplateInv, MadeOf
<1>order. PICK order \in SetToSeqs(DOMAIN given) : made.result \in Instantiate(t, order, given)
  BY <1>1 DEF TemplateInv, MadeOf
<1>2. PICK out \in Instantiate(t, order, given) : out = made.result
  BY <1>order
<1>3. /\ IsFiniteSet(DOMAIN given) /\ \A v \in DOMAIN given : given[v].text \in PieceTexts
  BY <1>1, GivenIs
<1>4. order \in Seq(DOMAIN given) /\ Range(order) = DOMAIN given
  BY <1>3, Arranged
<1>5. t.text \in PieceTexts
  BY TemplatesAre DEF WellFormed
<1>6. PICK N \in Nat : N = Len(order)
  BY <1>4, LenProperties
<1>7. PICK result : result = replace_turns(t.text, order, given)[N]
  OBVIOUS
<1>8. out \in from_str(result, timeout_of(t, given))
  <2>1. out.outcome # "ValidationError"
    BY <1>2
  <2>2. out \in substitute_variables(t, order, given)
    BY <2>1, InstantiateIs, ResultIs
  <2>3. QED
    BY <1>6, <1>7, <2>2 DEF substitute_variables
<1>9. made.result.text = AsRead(result)
  BY <1>2, <1>8, ReadIs
<1>10. /\ result \in PieceTexts
       /\ \A p \in Range(result) : \/ p \in Range(t.text) /\ \A v \in DOMAIN given : p # Ref(v)
                                   \/ \E v \in DOMAIN given : p \in Range(given[v].text)
  BY <1>3, <1>4, <1>5, <1>6, <1>7, WhatIsLeft
<1>11. PICK p \in Range(result) : p.kind = "ref" /\ p.s = r
  BY <1>9, <1>10, ReadRefs, RefsAre
<1>12. p \in Pieces
  BY <1>10, RangeFacts DEF PieceTexts
<1>13. p = Ref(r)
  BY <1>11, <1>12, PieceFacts
<1>14. PICK v \in DOMAIN given : p \in Range(given[v].text)
  BY <1>1, <1>10, <1>13
<1>15. r \in Refs(given[v].text)
  BY <1>3, <1>11, <1>14, RefsAre
<1>16. QED
  BY <1>1, <1>15

\* CreatedIsKept follows.
LEMMA CreatedAreKept == TemplateInv => CreatedIsKept
BY DEF TemplateInv, Alone, CreatedIsKept

\* ListedIsServed follows.
LEMMA ListedAreServed == TemplateInv => ListedIsServed
<1> SUFFICES ASSUME TemplateInv,
                    NEW t \in list_templates([category |-> "", tags |-> {}])
             PROVE  get_template(t.id) = t
                       \/ \E b \in register_builtin_templates : b.id = t.id /\ b # t
  BY DEF ListedIsServed
<1>1. \/ t \in register_builtin_templates
      \/ \E id \in TemplateIds : t = load_template(id) /\ t # NoTemplate
  BY DEF list_templates
<1>2. CASE \E b \in register_builtin_templates : b.id = t.id
  <2>1. PICK b \in register_builtin_templates : b = get_template(t.id) /\ b.id = t.id
    BY <1>2 DEF get_template
  <2>2. QED
    BY <2>1
<1>3. CASE ~\E b \in register_builtin_templates : b.id = t.id
  <2>1. PICK id \in TemplateIds : t = load_template(id) /\ t # NoTemplate
    BY <1>1, <1>3
  <2>2. template_files[id] = t /\ t \in Templates /\ t.id = id
    BY <2>1 DEF load_template, TemplateInv, FileTypes, Sentinels
  <2>3. get_template(t.id) = t
    BY <1>3, <2>1, <2>2 DEF get_template
  <2>4. QED
    BY <2>3
<1>4. QED
  BY <1>2, <1>3

\* A text of one piece.
LEMMA OnePiece ==
    ASSUME NEW name \in Words
    PROVE  /\ <<Lit(name)>> \in PieceTexts /\ Refs(<<Lit(name)>>) = {}
           /\ <<Ref(name)>> \in PieceTexts /\ Refs(<<Ref(name)>>) = {name}
<1>1. Lit(name) \in Pieces /\ Lit(name).kind = "text"
  BY DEF Lit, Pieces
<1>2. Ref(name) \in Pieces /\ Ref(name).kind = "ref" /\ Ref(name).s = name
  BY DEF Ref, Pieces
<1>3. <<Lit(name)>> \in PieceTexts /\ Range(<<Lit(name)>>) = {Lit(name)}
  BY <1>1, PieceFacts
<1>4. <<Ref(name)>> \in PieceTexts /\ Range(<<Ref(name)>>) = {Ref(name)}
  BY <1>2, PieceFacts
<1>5. Refs(<<Lit(name)>>) = {}
  BY <1>1, <1>3, RefsAre
<1>6. Refs(<<Ref(name)>>) = {name}
  BY <1>2, <1>4, RefsAre
<1>7. QED
  BY <1>3, <1>4, <1>5, <1>6

\* What is known of a fragment.
FragmentOK(f) ==
    /\ f.content # "Request" /\ f.text \in PieceTexts
    /\ \A r \in Refs(f.text) : \E v \in f.variables : v.name = r

\* The built-in fragments declare what they refer to; none replaces a request.
LEMMA FragmentsAre == \A f \in register_builtin_fragments : FragmentOK(f)
<1>1. \A content, name, those :
         content # "Request" /\ name \in Words
            => FragmentOK(Fragment(content, <<Lit(name)>>, those))
  <2>1. SUFFICES ASSUME NEW content, NEW name \in Words, NEW those, content # "Request"
                 PROVE  FragmentOK(Fragment(content, <<Lit(name)>>, those))
    OBVIOUS
  <2>2. <<Lit(name)>> \in PieceTexts /\ Refs(<<Lit(name)>>) = {}
    BY OnePiece
  <2>3. QED
    BY <2>1, <2>2 DEF FragmentOK, Fragment
<1>2. FragmentOK(Fragment("Auth", <<Ref("access_token")>>, {Required("access_token", "String")}))
  <2>1. <<Ref("access_token")>> \in PieceTexts /\ Refs(<<Ref("access_token")>>) = {"access_token"}
    BY OnePiece, NamesAre
  <2>2. Required("access_token", "String").name = "access_token"
    BY DEF Required
  <2>3. QED
    BY <2>1, <2>2 DEF FragmentOK, Fragment
<1>3. FragmentOK(Fragment("Headers", <<Lit("headers")>>, {}))
  BY <1>1, NamesAre
<1>4. FragmentOK(Fragment("Assertions", <<Lit("json")>>, {}))
  BY <1>1, NamesAre
<1>5. FragmentOK(Fragment("Assertions", <<Lit("1000")>>,
                          {Pattern(Required("max_response_time", "Number"), "digits")}))
  BY <1>1, NamesAre
<1>6. QED
  BY <1>2, <1>3, <1>4, <1>5 DEF register_builtin_fragments

\* FragmentsDeclare follows.
LEMMA FragmentsAreDeclared == TemplateInv => FragmentsDeclare
<1> SUFFICES ASSUME TemplateInv, made.result.outcome # "none",
                    Refs(made.template.text) \subseteq VariableNames(made.template),
                    NEW f \in register_builtin_fragments
             PROVE  LET u == apply_fragment_to_template(made.template, f)
                    IN  Refs(u.text) \subseteq VariableNames(u)
  BY DEF FragmentsDeclare
<1>1. PICK t \in AllTemplates : t = made.template
  BY DEF TemplateInv, MadeOf
<1> DEFINE u == apply_fragment_to_template(t, f)
<1>2. f.content # "Request" /\ f.text \in PieceTexts
      /\ \A r \in Refs(f.text) : \E v \in f.variables : v.name = r
  BY FragmentsAre DEF FragmentOK
<1>3. t.text \in PieceTexts /\ {"text", "variables"} \subseteq DOMAIN t
  BY TemplatesAre DEF WellFormed
<1>4. u.text = t.text \o f.text /\ u.variables = t.variables \cup f.variables
  BY <1>2, <1>3 DEF apply_fragment_to_template
<1> HIDE DEF u
<1>5. \A r \in Refs(u.text) : r \in Refs(t.text) \/ r \in Refs(f.text)
  <2>1. t.text \o f.text \in PieceTexts
        /\ Range(t.text \o f.text) = Range(t.text) \cup Range(f.text)
    BY <1>2, <1>3, RangeConcat DEF PieceTexts
  <2>2. QED
    BY <1>2, <1>3, <1>4, <2>1, RefsAre
<1>6. \A r \in Refs(u.text) : r \in {v.name : v \in u.variables}
  BY <1>1, <1>2, <1>4, <1>5 DEF VariableNames
<1>7. QED
  BY <1>1, <1>6 DEF VariableNames, u

\* What is made of a template is its text with the values in place, whatever the order; what
\* is left out is optional; a template nobody raced is kept; what is listed is served; and
\* fragments declare what they refer to.
THEOREM TemplatesAreSound == TemplateSpec => []TemplatesSound
<1>1. TemplateInv => TemplatesSound
  BY MadeIsTrue, LeftAreOptional, CreatedAreKept, ListedAreServed, FragmentsAreDeclared
     DEF TemplatesSound
<1>2. QED
  BY <1>1, TemplatesInvariant, PTL

\* Files hold templates or remains of them, and what is made is of a typed template.
THEOREM TemplateTypeCorrect == TemplateSpec => []TemplateTypeOK
<1>1. TemplateInv => TemplateTypeOK
  <2> SUFFICES ASSUME TemplateInv PROVE TemplateTypeOK
    OBVIOUS
  <2>1. FileTypes /\ MadeOf
    BY DEF TemplateInv
  <2>2. made.result.outcome # "none" => WellFormed(made.template)
    BY <2>1, TemplatesAre DEF MadeOf
  <2>3. QED
    BY <2>1, <2>2 DEF FileTypes, Sentinels, WellFormed, TemplateTypeOK
<1>2. QED
  BY <1>1, TemplatesInvariant, PTL

-----------------------------------------------------------------------------
(***************************************************************************)
(* The search                                                              *)
(***************************************************************************)
\* No step twice, and every step after all it depends on.
Ordered(needs, order) ==
    /\ order \in Seq(DOMAIN needs) /\ IsInjective(order)
    /\ \A i \in DOMAIN order : \A d \in Range(needs[order[i]]) :
          \E j \in 1..(i - 1) : order[j] = d

Apart(stack, order) == Range(stack) \cap Range(order) = {}

\* Each of the steps being visited is needed by the one before it, and id by the last.
Leads(needs, stack, id) ==
    /\ stack \in Seq(DOMAIN needs) /\ IsInjective(stack)
    /\ \A k \in 1..(Len(stack) - 1) : stack[k + 1] \in Range(needs[stack[k]])
    /\ IF stack = <<>> THEN id \in DOMAIN needs ELSE id \in Range(needs[stack[Len(stack)]])

Unsound(needs) == Circular(needs) \/ Dangling(needs)

\* What a call may start from, and what it then finds.
Startable(needs, stack, found) ==
    found \in Founds(needs) /\ (found.ok => Ordered(needs, found.order) /\ Apart(stack, found.order))

Finds(needs, stack, ids, found, result) ==
    /\ Startable(needs, stack, result)
    /\ result.ok => found.ok /\ Range(found.order) \cup ids \subseteq Range(result.order)
    /\ ~result.ok => ~found.ok \/ Unsound(needs)

\* Steps that depend on each other are circular.
LEMMA StackCircular ==
    ASSUME NEW needs, IsFiniteSet(DOMAIN needs), NEW stack, NEW id,
           Leads(needs, stack, id), id \in Range(stack)
    PROVE  Circular(needs)
<1>1. PICK L \in Nat : L = Len(stack) /\ DOMAIN stack = 1..L
  BY LenProperties DEF Leads
<1>2. PICK i \in 1..L : stack[i] = id
  BY <1>1 DEF Range
<1>3. PICK N \in Nat : N = Cardinality(DOMAIN needs)
  BY FS_CardinalityType
<1>4. L <= N
  <2>1. Range(stack) \in SUBSET DOMAIN needs /\ Cardinality(Range(stack)) = L
    BY <1>1, RangeFacts, RangeCounted DEF Leads
  <2>2. QED
    BY <1>3, <2>1, FS_Subset
<1> DEFINE n == L - i + 1
           path == [k \in 0..n |-> IF k = n THEN id ELSE stack[i + k]]
<1>5. n \in 1..N
  BY <1>4
<1>6. \A k \in 0..n : k # n => i + k \in 1..L
  OBVIOUS
<1>7. \A k \in 1..L : stack[k] \in DOMAIN needs
  BY <1>1, ElementOfSeq DEF Leads
<1>8. id \in DOMAIN needs
  BY <1>2, <1>7
<1>9. path \in [0..n -> DOMAIN needs]
  BY <1>6, <1>7, <1>8
<1>10. path[0] = id /\ path[n] = id
  BY <1>2, <1>5
<1>11. ASSUME NEW k \in 1..n
       PROVE  path[k] \in Range(needs[path[k - 1]])
  <2>1. stack # <<>>
    BY <1>1
  <2>2. k - 1 \in 0..n /\ k - 1 # n /\ path[k - 1] = stack[i + k - 1]
    OBVIOUS
  <2>3. CASE k = n
    <3>1. path[k] = id /\ i + k - 1 = L
      BY <2>3
    <3>2. QED
      BY <1>1, <2>1, <2>2, <3>1 DEF Leads
  <2>4. CASE k # n
    <3>1. path[k] = stack[i + k] /\ i + k - 1 \in 1..(L - 1) /\ i + k = (i + k - 1) + 1
      BY <2>4
    <3>2. stack[(i + k - 1) + 1] \in Range(needs[stack[i + k - 1]])
      BY <1>1, <3>1 DEF Leads
    <3>3. QED
      BY <2>2, <3>1, <3>2
  <2>5. QED
    BY <2>3, <2>4
<1> HIDE DEF n, path
<1>12. path[0] = path[n]
  BY <1>10
<1>13. QED
  BY <1>3, <1>5, <1>9, <1>11, <1>12 DEF Circular

\* A name that no step has is one too many.
LEMMA StackDangling ==
    ASSUME NEW needs, NEW stack, NEW id, Leads(needs, stack, id), id \notin DOMAIN needs
    PROVE  Dangling(needs)
<1>1. stack # <<>>
  BY DEF Leads
<1>2. stack[Len(stack)] \in DOMAIN needs
  <2>1. Len(stack) \in Nat /\ DOMAIN stack = 1..Len(stack) /\ Len(stack) # 0
    BY <1>1, LenProperties, EmptySeq DEF Leads
  <2>2. Len(stack) \in 1..Len(stack)
    BY <2>1
  <2>3. QED
    BY <2>2, ElementOfSeq DEF Leads
<1>3. QED
  BY <1>1, <1>2 DEF Leads, Dangling

\* t yields what is found after each of the calls.
CallsInTurn(t, needs, visit, stack, ids, found) ==
    /\ t \in [0..Len(ids) -> Founds(needs)] /\ t[0] = found
    /\ \A n \in 1..Len(ids) : t[n] = visit[Call(stack, ids[n], t[n - 1])]

\* The calls are made one after the other.
LEMMA CallTurns ==
    ASSUME NEW needs, NEW visit \in [Calls(needs) -> Founds(needs)],
           NEW stack \in Seq(DOMAIN needs), NEW ids \in Seq(Names(needs)),
           NEW found \in Founds(needs)
    PROVE  \E t : /\ CallsInTurn(t, needs, visit, stack, ids, found)
                  /\ call_each(visit, stack, ids, found) = t[Len(ids)]
<1>1. PICK N \in Nat : N = Len(ids)
  BY LenProperties
<1> DEFINE A == Founds(needs)
           turn(k, f) == visit[Call(stack, ids[k], f)]
<1> DEFINE step == [k \in 1..N |-> [f \in A |-> turn(k, f)]]
           Turns(t) == t = [k \in 0..N |-> IF k = 0 THEN found ELSE turn(k, t[k - 1])]
<1>2. \A k \in 1..N : ids[k] \in Names(needs)
  BY <1>1, ElementOfSeq
<1>3. \A k \in 1..N, f \in A : turn(k, f) \in A
  <2>1. \A k \in 1..N, f \in A : Call(stack, ids[k], f) \in Calls(needs)
    BY <1>2 DEF Call, Calls
  <2>2. QED
    BY <2>1
<1> HIDE DEF turn
<1>5. step \in [1..N -> [A -> A]]
  <2> HIDE DEF A
  <2> QED
    BY <1>3
<1>6. PICK g : Iterates(g, A, found, N, step)
  <2>1. found \in A
    OBVIOUS
  <2> HIDE DEF A, step
  <2> QED
    BY <1>5, <2>1, Iteration
<1>7. ASSUME NEW n \in 1..N
      PROVE  g[n] = turn(n, g[n - 1])
  <2> HIDE DEF A
  <2>1. n - 1 \in 0..N /\ g[n - 1] \in A
    BY <1>6 DEF Iterates
  <2>2. step[n][g[n - 1]] = turn(n, g[n - 1])
    BY <2>1
  <2> HIDE DEF step
  <2>3. QED
    BY <1>6, <2>2 DEF Iterates
<1>8. Turns(g)
  <2> HIDE DEF A, step
  <2> QED
    BY <1>6, <1>7 DEF Iterates
<1>9. PICK t : Turns(t) /\ call_each(visit, stack, ids, found) = t[N]
  <2>1. call_each(visit, stack, ids, found) = (CHOOSE t : Turns(t))[N]
    BY <1>1 DEF call_each, turn
  <2> HIDE DEF Turns
  <2> QED
    BY <1>8, <2>1
<1>10. t = [k \in 0..N |-> IF k = 0 THEN found ELSE turn(k, t[k - 1])]
  BY <1>9
<1>11. t[0] = found /\ \A n \in 1..N : t[n] = turn(n, t[n - 1])
  <2> HIDE DEF A, step, Turns
  <2> QED
    BY <1>10
<1> DEFINE P == {n \in 0..N : t[n] \in A}
<1>12. 0..N \subseteq P
  <2>1. 0 \in P
    BY <1>11
  <2>2. ASSUME NEW n \in 1..N, n - 1 \in P
        PROVE  n \in P
    <3> HIDE DEF A
    <3>1. t[n - 1] \in A
      BY <2>2
    <3>2. t[n] \in A
      BY <1>3, <1>11, <3>1
    <3>3. n \in 0..N
      OBVIOUS
    <3>4. QED
      BY <3>2, <3>3
  <2> HIDE DEF P
  <2>3. QED
    BY <2>1, <2>2, SetInduction
<1>13. t \in [0..N -> A]
  <2> HIDE DEF A
  <2>1. \A n \in 0..N : t[n] \in A
    BY <1>12
  <2>2. QED
    BY <1>10, <2>1
<1>14. QED
  BY <1>1, <1>9, <1>11, <1>13 DEF turn, CallsInTurn

\* One call for each of some names: each is found, or no order is.
LEMMA EachCalled ==
    ASSUME NEW needs, NEW visit \in [Calls(needs) -> Founds(needs)],
           NEW stack \in Seq(DOMAIN needs), NEW ids \in Seq(Names(needs)), NEW found,
           Startable(needs, stack, found),
           \A id \in Range(ids), f \in Founds(needs) :
              Startable(needs, stack, f)
                 => Finds(needs, stack, {id}, f, visit[Call(stack, id, f)])
    PROVE  Finds(needs, stack, Range(ids), found, call_each(visit, stack, ids, found))
<1>1. PICK N \in Nat : N = Len(ids) /\ DOMAIN ids = 1..N
  BY LenProperties
<1>2. \A k \in 1..N : ids[k] \in Range(ids)
  BY <1>1, RangeFacts
<1>3. found \in Founds(needs)
  BY DEF Startable
<1>9. PICK t : /\ CallsInTurn(t, needs, visit, stack, ids, found)
               /\ call_each(visit, stack, ids, found) = t[Len(ids)]
  BY <1>3, CallTurns
<1>10. /\ t[0] = found /\ call_each(visit, stack, ids, found) = t[N]
       /\ \A n \in 1..N : t[n] = visit[Call(stack, ids[n], t[n - 1])]
  BY <1>1, <1>9 DEF CallsInTurn
<1>4. \A k \in 1..N, f \in Founds(needs) :
         Startable(needs, stack, f)
            => Finds(needs, stack, {ids[k]}, f, visit[Call(stack, ids[k], f)])
  BY <1>2
<1> DEFINE done(n) == {ids[k] : k \in 1..n}
           P == {n \in 0..N : Finds(needs, stack, done(n), found, t[n])}
<1>11. 0 \in P
  <2>1. done(0) = {}
    OBVIOUS
  <2>2. Finds(needs, stack, {}, found, found)
    BY DEF Finds
  <2>3. 0 \in 0..N
    OBVIOUS
  <2>4. QED
    BY <1>10, <2>1, <2>2, <2>3
<1>12. ASSUME NEW n \in 1..N, n - 1 \in P
       PROVE  n \in P
  <2>1. PICK f : f = t[n - 1]
    OBVIOUS
  <2>2. Finds(needs, stack, done(n - 1), found, f)
    BY <1>12, <2>1
  <2>3. f \in Founds(needs) /\ Startable(needs, stack, f)
    BY <2>2 DEF Finds, Startable
  <2>4. Finds(needs, stack, {ids[n]}, f, t[n])
    BY <1>4, <1>10, <2>1, <2>3
  <2>5. done(n) = done(n - 1) \cup {ids[n]}
    <3>1. \A i \in 1..n : i \in 1..(n - 1) \/ i = n
      OBVIOUS
    <3>2. n \in 1..n /\ \A i \in 1..(n - 1) : i \in 1..n
      OBVIOUS
    <3>3. QED
      BY <3>1, <3>2
  <2>6. n \in 0..N
    OBVIOUS
  <2> HIDE DEF done
  <2>7. Finds(needs, stack, done(n), found, t[n])
    BY <2>2, <2>4, <2>5 DEF Finds
  <2>8. QED
    BY <2>6, <2>7
<1>13. 0..N \subseteq P
  <2> HIDE DEF P
  <2> QED
    BY <1>11, <1>12, SetInduction
<1>14. done(N) = Range(ids)
  BY <1>1, RangeFacts
<1>15. Finds(needs, stack, done(N), found, t[N])
  <2>1. N \in P
    <3>1. N \in 0..N
      OBVIOUS
    <3> HIDE DEF P
    <3>2. QED
      BY <1>13, <3>1
  <2> HIDE DEF done
  <2>2. QED
    BY <2>1
<1>16. QED
  BY <1>10, <1>14, <1>15

\* A graph whose steps list names.
Graph(needs) ==
    IsFiniteSet(DOMAIN needs) /\ \A id \in DOMAIN needs : needs[id] \in Seq(Names(needs))

\* A visit finds an order or none.
LEMMA VisitTyped ==
    ASSUME NEW needs, Graph(needs), NEW deeper \in [Calls(needs) -> Founds(needs)],
           NEW call \in Calls(needs)
    PROVE  visit_step(needs, deeper, call) \in Founds(needs)
<1> DEFINE stack == Append(call.stack, call.id)
           before == call_each(deeper, stack, needs[call.id], call.found)
<1>1. Refused \in Founds(needs) /\ call.found \in Founds(needs) /\ call.stack \in Seq(DOMAIN needs)
  BY EmptySeq DEF Refused, Founds, Calls
<1>2. ASSUME call.id \in DOMAIN needs, before.ok
      PROVE  [ok |-> TRUE, order |-> Append(before.order, call.id)] \in Founds(needs)
  <2>1. PICK ids \in Seq(Names(needs)) : ids = needs[call.id]
    BY <1>2 DEF Graph
  <2>2. PICK visiting \in Seq(DOMAIN needs) : visiting = stack
    BY <1>1, <1>2, RangeAppend
  <2>3. PICK found \in Founds(needs) : found = call.found
    BY <1>1
  <2>10. before = call_each(deeper, visiting, ids, found)
    BY <2>1, <2>2, <2>3
  <2> HIDE DEF stack, before
  <2>11. PICK t : /\ CallsInTurn(t, needs, deeper, visiting, ids, found)
                  /\ call_each(deeper, visiting, ids, found) = t[Len(ids)]
    BY CallTurns
  <2>12. before \in Founds(needs)
    <3>1. Len(ids) \in 0..Len(ids)
      BY LenProperties
    <3>2. QED
      BY <2>10, <2>11, <3>1 DEF CallsInTurn
  <2> HIDE DEF before
  <2>5. before.order \in Seq(DOMAIN needs)
    BY <2>12 DEF Founds
  <2>6. Append(before.order, call.id) \in Seq(DOMAIN needs)
    BY <1>2, <2>5, RangeAppend
  <2>7. QED
    BY <2>6 DEF Founds
<1>3. QED
  BY <1>1, <1>2 DEF visit_step

\* Each level of calls visits with the level below it.
LEMMA VisitsUnfold ==
    ASSUME NEW needs, Graph(needs), NEW N \in Nat, N = Cardinality(DOMAIN needs)
    PROVE  /\ visits(needs) \in [0..N -> [Calls(needs) -> Founds(needs)]]
           /\ \A call \in Calls(needs) :
                 /\ visits(needs)[0][call] = Refused
                 /\ \A n \in 1..N : visits(needs)[n][call]
                                        = visit_step(needs, visits(needs)[n - 1], call)
<1> DEFINE C == Calls(needs)
           A == [C -> Founds(needs)]
           start == [call \in C |-> Refused]
           one(v) == [call \in C |-> visit_step(needs, v, call)]
           step == [n \in 1..N |-> [v \in A |-> one(v)]]
           Visits(t) == t = [n \in 0..N |-> [call \in C |->
                                IF n = 0 THEN Refused ELSE visit_step(needs, t[n - 1], call)]]
<1>1. start \in A
  BY EmptySeq DEF Refused, Founds
<1>2. \A v \in A : one(v) \in A
  BY VisitTyped
<1>3. step \in [1..N -> [A -> A]]
  <2> HIDE DEF A, one
  <2> QED
    BY <1>2
<1>4. PICK g : Iterates(g, A, start, N, step)
  <2> HIDE DEF A, start, step
  <2> QED
    BY <1>1, <1>3, Iteration
<1>5. g[0] = start /\ \A n \in 1..N : g[n] = one(g[n - 1])
  <2> HIDE DEF A, one, start
  <2>1. \A n \in 1..N : g[n - 1] \in A
    BY <1>4 DEF Iterates
  <2>2. \A n \in 1..N : step[n][g[n - 1]] = one(g[n - 1])
    BY <2>1
  <2> HIDE DEF step
  <2>3. QED
    BY <1>4, <2>2 DEF Iterates
<1>6. g \in [0..N -> A]
  BY <1>4 DEF Iterates
<1>7. Visits(g)
  <2> DEFINE level(n) == [call \in C |->
                              IF n = 0 THEN Refused ELSE visit_step(needs, g[n - 1], call)]
  <2>1. \A n \in 0..N : g[n] = level(n)
    <3>1. g[0] = level(0)
      BY <1>5
    <3>2. ASSUME NEW n \in 1..N PROVE g[n] = level(n)
      BY <1>5
    <3> HIDE DEF level
    <3>3. QED
      BY <3>1, <3>2
  <2> HIDE DEF A, level
  <2>2. g = [n \in 0..N |-> level(n)]
    BY <1>6, <2>1
  <2>3. QED
    BY <2>2 DEF level
<1>8. visits(needs) = CHOOSE t : Visits(t)
  BY DEF visits
<1>9. Visits(visits(needs))
  <2> HIDE DEF Visits
  <2> QED
    BY <1>7, <1>8
<1>10. PICK t : t = visits(needs)
  OBVIOUS
<1>11. t = [n \in 0..N |-> [call \in C |->
                IF n = 0 THEN Refused ELSE visit_step(needs, t[n - 1], call)]]
  BY <1>9, <1>10
<1>12. t[0] = start /\ \A n \in 1..N : t[n] = one(t[n - 1])
  BY <1>11
<1> DEFINE P == {n \in 0..N : t[n] \in A}
<1>13. 0..N \subseteq P
  <2> HIDE DEF A, one, start
  <2>1. 0 \in P
    BY <1>1, <1>12
  <2>2. ASSUME NEW n \in 1..N, n - 1 \in P
        PROVE  n \in P
    BY <1>2, <1>12, <2>2
  <2> HIDE DEF P
  <2>3. QED
    BY <2>1, <2>2, SetInduction
<1>14. t \in [0..N -> A]
  <2> HIDE DEF A
  <2>1. \A n \in 0..N : t[n] \in A
    BY <1>13
  <2>2. QED
    BY <1>11, <2>1
<1>15. \A call \in C : t[0][call] = Refused
  BY <1>12
<1>16. \A call \in C, n \in 1..N : t[n][call] = visit_step(needs, t[n - 1], call)
  BY <1>12
<1>17. QED
  BY <1>10, <1>14, <1>15, <1>16

\* All calls with so many steps being visited do that.
AllFind(needs, visit, depth) ==
    \A call \in Calls(needs) :
        /\ Leads(needs, call.stack, call.id) /\ Startable(needs, call.stack, call.found)
        /\ Len(call.stack) = depth
        => Finds(needs, call.stack, {call.id}, call.found, visit[call])

\* A call that starts from an order finds one with the step, or none can be had.
LEMMA VisitSound ==
    ASSUME NEW needs, Graph(needs), NEW deeper \in [Calls(needs) -> Founds(needs)],
           NEW call \in Calls(needs), Leads(needs, call.stack, call.id),
           Startable(needs, call.stack, call.found),
           AllFind(needs, deeper, Len(call.stack) + 1)
    PROVE  Finds(needs, call.stack, {call.id}, call.found, visit_step(needs, deeper, call))
<1>1. PICK stack \in Seq(DOMAIN needs), id \in Names(needs), found \in Founds(needs) :
            call = Call(stack, id, found)
  BY DEF Calls, Call
<1>2. call.stack = stack /\ call.id = id /\ call.found = found
  BY <1>1 DEF Call
<1>3. Leads(needs, stack, id) /\ Startable(needs, stack, found)
  BY <1>2
<1>4. Finds(needs, stack, {id}, found, Refused) <=> ~found.ok \/ Unsound(needs)
  BY EmptySeq DEF Refused, Finds, Startable, Founds
<1> DEFINE result == visit_step(needs, deeper, call)
<1>5. CASE ~found.ok \/ id \in Range(stack)
  <2>1. result = Refused
    BY <1>2, <1>5 DEF visit_step
  <2>2. ~found.ok \/ Unsound(needs)
    BY <1>3, <1>5, StackCircular DEF Graph, Unsound
  <2>3. QED
    BY <1>2, <1>4, <2>1, <2>2
<1>6. CASE found.ok /\ id \notin Range(stack) /\ id \in Range(found.order)
  <2>1. result = found
    BY <1>2, <1>6 DEF visit_step
  <2>2. Finds(needs, stack, {id}, found, found)
    BY <1>3, <1>6 DEF Finds
  <2>3. QED
    BY <1>2, <2>1, <2>2
<1>7. CASE /\ found.ok /\ id \notin Range(stack) /\ id \notin Range(found.order)
           /\ id \notin DOMAIN needs
  <2>1. result = Refused
    BY <1>2, <1>7 DEF visit_step
  <2>2. Unsound(needs)
    BY <1>3, <1>7, StackDangling DEF Unsound
  <2>3. QED
    BY <1>2, <1>4, <2>1, <2>2
<1>8. CASE /\ found.ok /\ id \notin Range(stack) /\ id \notin Range(found.order)
           /\ id \in DOMAIN needs
  <2>1. PICK ids \in Seq(Names(needs)) : ids = needs[id]
    BY <1>8 DEF Graph
  <2>2. PICK visiting : visiting = Append(stack, id)
    OBVIOUS
  <2>3. PICK L \in Nat : L = Len(stack) /\ DOMAIN stack = 1..L
    BY LenProperties
  <2>4. /\ visiting \in Seq(DOMAIN needs) /\ Len(visiting) = L + 1 /\ visiting[L + 1] = id
        /\ \A i \in 1..L : visiting[i] = stack[i]
        /\ Range(visiting) = Range(stack) \cup {id} /\ IsInjective(visiting)
    <3>1. IsInjective(stack)
      BY <1>3 DEF Leads
    <3>2. IsInjective(Append(stack, id))
      BY <1>8, <3>1, OnceAppend
    <3>3. QED
      BY <1>8, <2>2, <2>3, <3>2, RangeAppend
  <2>5. \A d \in Range(ids) : Leads(needs, visiting, d)
    <3>1. visiting # <<>> /\ Range(needs[visiting[Len(visiting)]]) = Range(ids)
      BY <2>1, <2>4
    <3>2. ASSUME NEW k \in 1..(Len(visiting) - 1)
          PROVE  visiting[k + 1] \in Range(needs[visiting[k]])
      <4>1. CASE k = L
        <5>1. visiting[k + 1] = id /\ visiting[k] = stack[L] /\ stack # <<>>
          BY <2>3, <2>4, <4>1
        <5>2. QED
          BY <1>3, <2>3, <4>1, <5>1 DEF Leads
      <4>2. CASE k # L
        <5>1. k \in 1..(L - 1) /\ visiting[k + 1] = stack[k + 1] /\ visiting[k] = stack[k]
          BY <2>4, <4>2
        <5>2. QED
          BY <1>3, <2>3, <5>1 DEF Leads
      <4>3. QED
        BY <4>1, <4>2
    <3>3. QED
      BY <2>4, <3>1, <3>2 DEF Leads
  <2>6. Startable(needs, visiting, found)
    BY <1>3, <1>8, <2>4 DEF Startable, Apart
  <2>7. ASSUME NEW d \in Range(ids), NEW f \in Founds(needs), Startable(needs, visiting, f)
        PROVE  Finds(needs, visiting, {d}, f, deeper[Call(visiting, d, f)])
    <3>1. PICK next : next = Call(visiting, d, f)
      OBVIOUS
    <3>2. next.stack = visiting /\ next.id = d /\ next.found = f
      BY <3>1 DEF Call
    <3>3. d \in Names(needs)
      BY <2>1, RangeFacts
    <3>4. next \in Calls(needs)
      BY <2>4, <3>1, <3>3 DEF Calls, Call
    <3>5. Leads(needs, next.stack, next.id) /\ Startable(needs, next.stack, next.found)
      BY <2>5, <2>7, <3>2
    <3>6. Len(next.stack) = Len(call.stack) + 1
      BY <1>2, <2>3, <2>4, <3>2
    <3>7. QED
      BY <3>1, <3>2, <3>4, <3>5, <3>6 DEF AllFind
  <2>8. PICK before : before = call_each(deeper, visiting, ids, found)
    OBVIOUS
  <2>9. Finds(needs, visiting, Range(ids), found, before)
    <3>1. visiting \in Seq(DOMAIN needs)
      BY <2>4
    <3>2. QED
      BY <2>6, <2>7, <2>8, <3>1, EachCalled
  <2>10. result = IF before.ok THEN [ok |-> TRUE, order |-> Append(before.order, id)] ELSE Refused
    BY <1>2, <1>8, <2>1, <2>2, <2>8 DEF visit_step
  <2>11. CASE ~before.ok
    <3>1. Unsound(needs)
      BY <1>8, <2>9, <2>11 DEF Finds
    <3>2. QED
      BY <1>2, <1>4, <2>10, <2>11, <3>1
  <2>12. CASE before.ok
    <3>1. PICK order : order = before.order
      OBVIOUS
    <3>2. /\ Ordered(needs, order) /\ Apart(visiting, order)
          /\ Range(found.order) \cup Range(ids) \subseteq Range(order)
      BY <2>9, <2>12, <3>1 DEF Finds, Startable
    <3>3. PICK m \in Nat : m = Len(order) /\ DOMAIN order = 1..m /\ order \in Seq(DOMAIN needs)
      BY <3>2, LenProperties DEF Ordered
    <3>4. PICK all : all = Append(order, id)
      OBVIOUS
    <3>5. id \notin Range(order)
      BY <2>4, <3>2 DEF Apart
    <3>6. /\ all \in Seq(DOMAIN needs) /\ Len(all) = m + 1 /\ DOMAIN all = 1..(m + 1)
          /\ all[m + 1] = id /\ \A i \in 1..m : all[i] = order[i]
          /\ Range(all) = Range(order) \cup {id}
      BY <1>8, <3>3, <3>4, RangeAppend, LenProperties
    <3>7. IsInjective(all)
      BY <1>8, <3>2, <3>3, <3>4, <3>5, OnceAppend DEF Ordered
    <3>8. ASSUME NEW i \in DOMAIN all, NEW d \in Range(needs[all[i]])
          PROVE  \E j \in 1..(i - 1) : all[j] = d
      <4>1. CASE i = m + 1
        <5>1. d \in Range(order)
          BY <2>1, <3>2, <3>6, <4>1
        <5>2. PICK j \in 1..m : order[j] = d
          BY <3>3, <5>1 DEF Range
        <5>3. QED
          BY <3>6, <4>1, <5>2
      <4>2. CASE i # m + 1
        <5>1. i \in 1..m /\ all[i] = order[i]
          BY <3>6, <4>2
        <5>2. PICK j \in 1..(i - 1) : order[j] = d
          BY <3>2, <3>3, <5>1 DEF Ordered
        <5>3. j \in 1..m
          BY <5>1
        <5>4. QED
          BY <3>6, <5>2, <5>3
      <4>3. QED
        BY <4>1, <4>2
    <3>9. Ordered(needs, all)
      BY <3>6, <3>7, <3>8 DEF Ordered
    <3>10. Apart(stack, all)
      BY <1>8, <2>4, <3>2, <3>6 DEF Apart
    <3>11. result = [ok |-> TRUE, order |-> all]
      BY <2>10, <2>12, <3>1, <3>4
    <3>12. result \in Founds(needs) /\ result.ok /\ result.order = all
      BY <3>6, <3>11 DEF Founds
    <3> HIDE DEF result
    <3>13. Finds(needs, stack, {id}, found, result)
      BY <1>8, <3>2, <3>6, <3>9, <3>10, <3>12 DEF Finds, Startable
    <3>14. QED
      BY <1>2, <3>13 DEF result
  <2>13. QED
    BY <2>11, <2>12
<1>9. QED
  BY <1>5, <1>6, <1>7, <1>8

\* Every step is found, in an order, or none can be had.
LEMMA ResolveSound ==
    ASSUME NEW needs, Graph(needs), NEW ids \in Seq(DOMAIN needs)
    PROVE  /\ resolve(needs, ids) \in Founds(needs)
           /\ resolve(needs, ids).ok =>
                /\ Ordered(needs, resolve(needs, ids).order)
                /\ Range(ids) \subseteq Range(resolve(needs, ids).order)
           /\ ~resolve(needs, ids).ok => Circular(needs) \/ Dangling(needs)
<1>1. PICK N \in Nat : N = Cardinality(DOMAIN needs)
  BY FS_CardinalityType DEF Graph
<1>2. PICK visit \in [0..N -> [Calls(needs) -> Founds(needs)]] :
            /\ visit = visits(needs)
            /\ \A call \in Calls(needs) :
                  /\ visit[0][call] = Refused
                  /\ \A n \in 1..N : visit[n][call] = visit_step(needs, visit[n - 1], call)
  BY <1>1, VisitsUnfold
<1> DEFINE Searched(n) == AllFind(needs, visit[n], N - n)
           P == {n \in 0..N : Searched(n)}
<1>3. 0 \in P
  <2>1. ASSUME NEW call \in Calls(needs), Leads(needs, call.stack, call.id),
               Startable(needs, call.stack, call.found), Len(call.stack) = N
        PROVE  Finds(needs, call.stack, {call.id}, call.found, visit[0][call])
    <3>1. PICK stack, id : stack = call.stack /\ id = call.id
      OBVIOUS
    <3>2. Leads(needs, stack, id) /\ Len(stack) = N
      BY <2>1, <3>1
    <3>3. Range(stack) = DOMAIN needs
      <4>1. Range(stack) \in SUBSET DOMAIN needs /\ Cardinality(Range(stack)) = N
        BY <3>2, RangeFacts, RangeCounted DEF Leads
      <4>2. QED
        BY <1>1, <4>1, FS_Subset DEF Graph
    <3>4. Unsound(needs)
      <4>1. CASE id \in DOMAIN needs
        BY <3>2, <3>3, <4>1, StackCircular DEF Graph, Unsound
      <4>2. CASE id \notin DOMAIN needs
        BY <3>2, <4>2, StackDangling DEF Unsound
      <4>3. QED
        BY <4>1, <4>2
    <3>5. visit[0][call] = Refused
      BY <1>2
    <3>6. QED
      BY <3>4, <3>5, EmptySeq DEF Refused, Finds, Startable, Founds
  <2>2. 0 \in 0..N /\ N - 0 = N
    OBVIOUS
  <2>3. AllFind(needs, visit[0], N)
    BY <2>1 DEF AllFind
  <2>4. QED
    BY <2>2, <2>3
<1>4. ASSUME NEW n \in 1..N, n - 1 \in P
      PROVE  n \in P
  <2>1. AllFind(needs, visit[n - 1], N - (n - 1))
    BY <1>4
  <2>2. PICK deeper \in [Calls(needs) -> Founds(needs)] : deeper = visit[n - 1]
    BY <1>2
  <2>3. PICK depth \in Nat : depth = N - n /\ depth + 1 = N - (n - 1)
    OBVIOUS
  <2>4. AllFind(needs, deeper, depth + 1)
    BY <2>1, <2>2, <2>3
  <2>5. ASSUME NEW call \in Calls(needs), Leads(needs, call.stack, call.id),
               Startable(needs, call.stack, call.found), Len(call.stack) = depth
        PROVE  Finds(needs, call.stack, {call.id}, call.found, visit[n][call])
    <3> HIDE DEF Searched, P
    <3>1. AllFind(needs, deeper, Len(call.stack) + 1)
      BY <2>4, <2>5
    <3>2. Finds(needs, call.stack, {call.id}, call.found, visit_step(needs, deeper, call))
      BY <2>5, <3>1, VisitSound
    <3>3. visit[n][call] = visit_step(needs, deeper, call)
      BY <1>2, <2>2
    <3>4. QED
      BY <3>2, <3>3
  <2>6. AllFind(needs, visit[n], depth)
    <3> HIDE DEF P
    <3>1. QED
      BY <2>5 DEF AllFind
  <2>7. n \in 0..N
    OBVIOUS
  <2>8. QED
    BY <2>3, <2>6, <2>7
<1>5. AllFind(needs, visit[N], 0)
  <2>1. 0..N \subseteq P
    <3> HIDE DEF P
    <3> QED
      BY <1>3, <1>4, SetInduction
  <2>2. N \in 0..N /\ N - N = 0
    OBVIOUS
  <2>3. QED
    BY <2>1, <2>2
<1>6. PICK last \in [Calls(needs) -> Founds(needs)] : last = visit[N]
  BY <1>2
<1>7. <<>> \in Seq(DOMAIN needs) /\ Range(<<>>) = {} /\ Len(<<>>) = 0 /\ IsInjective(<<>>)
  <2>1. <<>> \in Seq(DOMAIN needs) /\ Len(<<>>) = 0
    BY EmptySeq
  <2>2. Range(<<>>) = {}
    BY <2>1, RangeFacts
  <2>3. DOMAIN <<>> = {}
    BY <2>1, LenProperties
  <2>4. QED
    BY <2>1, <2>2, <2>3 DEF IsInjective
<1>8. Startable(needs, <<>>, Begun)
  BY <1>7 DEF Begun, Startable, Founds, Ordered, Apart
<1>9. ids \in Seq(Names(needs))
  BY SeqMonotonic DEF Names
<1>10. ASSUME NEW id \in Range(ids), NEW f \in Founds(needs), Startable(needs, <<>>, f)
       PROVE  Finds(needs, <<>>, {id}, f, last[Call(<<>>, id, f)])
  <2>1. PICK call : call = Call(<<>>, id, f)
    OBVIOUS
  <2>2. call.stack = <<>> /\ call.id = id /\ call.found = f
    BY <2>1 DEF Call
  <2>3. id \in DOMAIN needs
    BY RangeFacts
  <2>4. call \in Calls(needs)
    BY <1>7, <2>1, <2>3 DEF Calls, Call, Names
  <2>5. Leads(needs, <<>>, id)
    BY <1>7, <2>3 DEF Leads
  <2>6. Len(call.stack) = 0
    BY <1>7, <2>2
  <2>7. QED
    BY <1>5, <1>6, <1>10, <2>1, <2>2, <2>4, <2>5, <2>6 DEF AllFind
<1>11. PICK empty \in Seq(DOMAIN needs), begun \in Founds(needs) : empty = <<>> /\ begun = Begun
  BY <1>7, <1>8 DEF Startable
<1>12. PICK result : result = call_each(last, empty, ids, begun)
  OBVIOUS
<1>13. Finds(needs, empty, Range(ids), begun, result)
  <2>1. QED
    BY <1>8, <1>9, <1>10, <1>11, <1>12, EachCalled
<1>14. resolve(needs, ids) = result
  BY <1>1, <1>2, <1>6, <1>11, <1>12 DEF resolve
<1>15. begun.ok
  BY <1>11 DEF Begun
<1>16. QED
  BY <1>13, <1>14, <1>15 DEF Finds, Startable, Unsound

-----------------------------------------------------------------------------
(***************************************************************************)
(* Workflows: the inductive invariant                                      *)
(***************************************************************************)
Steps == workflow.steps
IdsHere == Ids_of(Steps)
Needed == Dependencies(Steps)
Resolved == resolve_execution_order(Steps)
Lefts == UNION {SUBSET s.refs : s \in Range(Steps)}
IdsRequested(n) == [i \in 1..n |-> requested[i].id]

WorkflowTyped ==
    /\ workflow \in Workflows
    /\ execution_order \in Seq(IdsHere) /\ rest \in Seq(IdsHere)
    /\ undone \in Seq(IdsHere) /\ earlier \in Seq(IdsHere)
    /\ requested \in Seq([id : IdsHere, left : Lefts])
    /\ phase \in {"idle", "executing", "rolling back", "ok", "error"}

\* The steps that were requested are the first ones of the order; when the run goes on, the
\* others are the rest.
Planned ==
    /\ requested # <<>> => Resolved.ok
    /\ Len(requested) <= Len(Resolved.order)
    /\ \A i \in 1..Len(requested) : requested[i].id = Resolved.order[i]
Ahead ==
    /\ Resolved.ok /\ Len(requested) + Len(rest) = Len(Resolved.order)
    /\ \A i \in 1..Len(rest) : rest[i] = Resolved.order[Len(requested) + i]

\* What the dependencies of a step extract was replaced, and what the steps of the run have
\* extracted is there.
Replaced ==
    \A i \in 1..Len(requested) :
        \A d \in Range(Needed[requested[i].id]) :
            \A e \in find_step(Steps, d).extractions : e.name \notin requested[i].left
Known ==
    \A i \in 1..Len(requested) :
        \A e \in find_step(Steps, requested[i].id).extractions : e.name \in DOMAIN variables

Grown ==
    \E n \in {Len(requested), Len(requested) - 1} :
        n \in Nat /\ execution_order = earlier \o IdsRequested(n)

\* The rest is the first steps of the state, the last one first, and with them all that can
\* be undone is.
ToUndo == Undoable(Steps, execution_order)
Backwards ==
    /\ workflow.rollback_on_failure /\ requested # <<>>
    /\ Len(rest) <= Len(execution_order)
    /\ \A i \in 1..Len(rest) : rest[i] = execution_order[Len(rest) + 1 - i]
    /\ undone \o ToUndo[Len(rest)] = ToUndo[Len(execution_order)]

WorkflowInv ==
    /\ WorkflowTyped /\ Planned /\ Replaced
    /\ phase # "idle" => Grown
    /\ phase = "executing" =>
          Ahead /\ Known /\ undone = <<>> /\ execution_order = earlier \o IdsRequested(Len(requested))
    /\ phase = "rolling back" => Backwards
    /\ phase = "ok" => undone = <<>> /\ IdsHere = {requested[i].id : i \in 1..Len(requested)}
    /\ phase = "error" =>
          IF requested = <<>> THEN ~Resolved.ok
          ELSE undone = IF workflow.rollback_on_failure
                        THEN ToUndo[Len(execution_order)] ELSE <<>>

\* The first step with a name is one of the steps.
LEMMA StepFound ==
    ASSUME NEW S, NEW steps \in Seq(S), NEW id \in Ids_of(steps)
    PROVE  find_step(steps, id) \in Range(steps) /\ find_step(steps, id).id = id
<1>1. PICK N \in Nat : N = Len(steps) /\ DOMAIN steps = 1..N
  BY LenProperties
<1> DEFINE T == {i \in 1..N : steps[i].id = id}
<1>2. T \subseteq Nat /\ T # {}
  BY <1>1 DEF Ids_of
<1>3. PICK least \in T : \A n \in T : least <= n
  <2> HIDE DEF T
  <2> QED
    BY <1>2, LeastNatural
<1>4. least \in DOMAIN steps /\ steps[least].id = id /\ \A j \in 1..(least - 1) : steps[j].id # id
  BY <1>1, <1>3
<1> HIDE DEF T
<1>5. PICK i \in DOMAIN steps : find_step(steps, id) = steps[i] /\ steps[i].id = id
  BY <1>4 DEF find_step
<1>6. QED
  BY <1>5 DEF Range

\* The steps of a workflow and what they depend on can be searched.
LEMMA WorkflowGraph ==
    ASSUME NEW w \in Workflows
    PROVE  /\ Graph(Dependencies(w.steps)) /\ DOMAIN Dependencies(w.steps) = Ids_of(w.steps)
           /\ [i \in DOMAIN w.steps |-> w.steps[i].id] \in Seq(Ids_of(w.steps))
           /\ Range([i \in DOMAIN w.steps |-> w.steps[i].id]) = Ids_of(w.steps)
<1>1. PICK steps : steps = w.steps /\ steps \in Seq(Range(steps))
  BY WorkflowAssumption
<1>2. PICK N \in Nat : N = Len(steps) /\ DOMAIN steps = 1..N
  BY <1>1, LenProperties
<1> DEFINE ids == [i \in 1..N |-> steps[i].id]
           needs == Dependencies(steps)
<1>3. DOMAIN needs = Ids_of(steps)
  BY DEF Dependencies
<1>4. ids \in Seq(Ids_of(steps)) /\ Range(ids) = Ids_of(steps)
  BY <1>2 DEF Ids_of, Range
<1>5. IsFiniteSet(DOMAIN needs)
  <2> HIDE DEF ids, needs
  <2> QED
    BY <1>3, <1>4, RangeCounted
<1>6. ASSUME NEW id \in DOMAIN needs
      PROVE  needs[id] \in Seq(Names(needs))
  <2>1. find_step(steps, id) \in Range(steps)
    BY <1>1, <1>3, StepFound
  <2>2. PICK list : list = needs[id] /\ list \in Seq(Range(list))
    BY <1>1, <1>3, <2>1, WorkflowAssumption DEF Dependencies
  <2>3. Range(list) \subseteq Names(needs)
    BY <2>2 DEF Names
  <2> HIDE DEF needs
  <2>4. QED
    BY <2>2, <2>3, SeqMonotonic
<1>7. Graph(needs)
  BY <1>5, <1>6 DEF Graph
<1>8. [i \in DOMAIN w.steps |-> w.steps[i].id] = ids
  BY <1>1, <1>2
<1>9. QED
  BY <1>1, <1>3, <1>4, <1>7, <1>8

\* The order has every step once, after all it depends on; or there is none.
LEMMA WorkflowResolved ==
    ASSUME NEW w \in Workflows
    PROVE  LET resolved == resolve_execution_order(w.steps)
               needs == Dependencies(w.steps)
           IN  /\ resolved.order \in Seq(Ids_of(w.steps))
               /\ resolved.ok => /\ Ordered(needs, resolved.order)
                                 /\ Range(resolved.order) = Ids_of(w.steps)
               /\ ~resolved.ok => Circular(needs) \/ Dangling(needs)
<1>1. PICK needs : needs = Dependencies(w.steps)
  OBVIOUS
<1>2. PICK ids : ids = [i \in DOMAIN w.steps |-> w.steps[i].id]
  OBVIOUS
<1>3. /\ Graph(needs) /\ DOMAIN needs = Ids_of(w.steps)
      /\ ids \in Seq(DOMAIN needs) /\ Range(ids) = Ids_of(w.steps)
  BY <1>1, <1>2, WorkflowGraph
<1>4. PICK resolved : resolved = resolve(needs, ids)
  OBVIOUS
<1>5. /\ resolved \in Founds(needs)
      /\ resolved.ok => Ordered(needs, resolved.order) /\ Range(ids) \subseteq Range(resolved.order)
      /\ ~resolved.ok => Circular(needs) \/ Dangling(needs)
  BY <1>3, <1>4, ResolveSound
<1>6. resolved.order \in Seq(DOMAIN needs)
  BY <1>5 DEF Founds
<1>7. Range(resolved.order) \subseteq DOMAIN needs
  BY <1>6, RangeFacts
<1>8. resolve_execution_order(w.steps) = resolved
  BY <1>1, <1>2, <1>4 DEF resolve_execution_order
<1>9. QED
  BY <1>1, <1>3, <1>5, <1>6, <1>7, <1>8

\* What can be undone of the first n steps.
LEMMA UndoableUnfold ==
    ASSUME NEW steps, NEW S, NEW order \in Seq(S), NEW N \in Nat, N = Len(order)
    PROVE  /\ Undoable(steps, order) \in [0..N -> Seq(S)]
           /\ Undoable(steps, order)[0] = <<>>
           /\ \A n \in 1..N :
                 Undoable(steps, order)[n]
                   = IF find_step(steps, order[n]).rollback = "" THEN Undoable(steps, order)[n - 1]
                     ELSE <<order[n]>> \o Undoable(steps, order)[n - 1]
<1> DEFINE A == Seq(S)
           stays(n) == find_step(steps, order[n]).rollback = ""
           turn(n, u) == IF stays(n) THEN u ELSE <<order[n]>> \o u
           step == [n \in 1..N |-> [u \in A |-> turn(n, u)]]
           Undos(u) == u = [n \in 0..N |-> IF n = 0 THEN <<>> ELSE turn(n, u[n - 1])]
<1>1. \A n \in 1..N : order[n] \in S
  BY ElementOfSeq
<1> HIDE DEF stays
<1>2. \A n \in 1..N, u \in A : turn(n, u) \in A
  <2>1. SUFFICES ASSUME NEW n \in 1..N, NEW u \in A PROVE turn(n, u) \in A
    OBVIOUS
  <2>2. <<order[n]>> \in Seq(S)
    BY <1>1
  <2>3. <<order[n]>> \o u \in Seq(S)
    BY <2>2, ConcatProperties
  <2>4. QED
    BY <2>3
<1>3. <<>> \in A
  BY EmptySeq
<1> HIDE DEF turn, A
<1>4. step \in [1..N -> [A -> A]]
  BY <1>2
<1>5. PICK g : Iterates(g, A, <<>>, N, step)
  <2> HIDE DEF step
  <2> QED
    BY <1>3, <1>4, Iteration
<1>6. ASSUME NEW n \in 1..N
      PROVE  g[n] = turn(n, g[n - 1])
  <2>1. n - 1 \in 0..N /\ g[n - 1] \in A
    BY <1>5 DEF Iterates
  <2>2. step[n][g[n - 1]] = turn(n, g[n - 1])
    BY <2>1
  <2> HIDE DEF step
  <2>3. QED
    BY <1>5, <2>2 DEF Iterates
<1> HIDE DEF step
<1>7. Undos(g)
  BY <1>5, <1>6 DEF Iterates
<1>8. Undoable(steps, order) = CHOOSE u : Undos(u)
  BY DEF Undoable, turn, stays
<1>9. Undos(Undoable(steps, order))
  <2> HIDE DEF Undos
  <2> QED
    BY <1>7, <1>8
<1>10. PICK u : u = Undoable(steps, order)
  OBVIOUS
<1>11. u = [n \in 0..N |-> IF n = 0 THEN <<>> ELSE turn(n, u[n - 1])]
  BY <1>9, <1>10
<1>12. u[0] = <<>> /\ \A n \in 1..N : u[n] = turn(n, u[n - 1])
  BY <1>11
<1> DEFINE P == {n \in 0..N : u[n] \in A}
<1>13. 0..N \subseteq P
  <2>1. 0 \in P
    BY <1>3, <1>12
  <2>2. ASSUME NEW n \in 1..N, n - 1 \in P
        PROVE  n \in P
    BY <1>2, <1>12, <2>2
  <2> HIDE DEF P
  <2>3. QED
    BY <2>1, <2>2, SetInduction
<1>14. u \in [0..N -> A]
  BY <1>11, <1>13
<1>15. QED
  BY <1>10, <1>12, <1>14 DEF turn, stays, A

-----------------------------------------------------------------------------
(***************************************************************************)
(* Workflows: every action preserves the invariant                         *)
(***************************************************************************)
\* What is so of the order of the workflow.
LEMMA OrderHere ==
    ASSUME WorkflowTyped
    PROVE  /\ Resolved.order \in Seq(IdsHere)
           /\ Resolved.ok => Ordered(Needed, Resolved.order) /\ Range(Resolved.order) = IdsHere
           /\ ~Resolved.ok => Circular(Needed) \/ Dangling(Needed)
           /\ \A id \in IdsHere : /\ find_step(Steps, id) \in Range(Steps)
                                  /\ find_step(Steps, id).id = id
                                  /\ Needed[id] = find_step(Steps, id).depends_on
<1>1. workflow \in Workflows
  BY DEF WorkflowTyped
<1>2. Steps \in Seq(Range(Steps))
  BY <1>1, WorkflowAssumption DEF Steps
<1>3. \A id \in IdsHere : find_step(Steps, id) \in Range(Steps) /\ find_step(Steps, id).id = id
  BY <1>2, StepFound DEF IdsHere
<1>4. QED
  BY <1>1, <1>3, WorkflowResolved DEF Resolved, Needed, IdsHere, Steps, Dependencies

\* A run that begins, or is refused.
LEMMA WorkflowExecute ==
    ASSUME WorkflowInv, execute_workflow
    PROVE  WorkflowInv'
<1>1. /\ workflow' = workflow /\ execution_order' = execution_order
      /\ requested' = <<>> /\ undone' = <<>> /\ earlier' = execution_order
      /\ IF Resolved.ok THEN phase' = "executing" /\ rest' = Resolved.order
         ELSE phase' = "error" /\ rest' = <<>>
  BY DEF execute_workflow, Resolved, Steps
<1>2. Resolved' = Resolved /\ IdsHere' = IdsHere /\ Lefts' = Lefts
  BY <1>1 DEF Resolved, IdsHere, Lefts, Steps
<1>3. PICK order : order = Resolved.order /\ order \in Seq(IdsHere)
  BY OrderHere DEF WorkflowInv
<1>4. PICK L \in Nat : L = Len(order)
  BY <1>3, LenProperties
<1>5. <<>> \in Seq(IdsHere) /\ <<>> \in Seq([id : IdsHere, left : Lefts]) /\ Len(<<>>) = 0
  BY EmptySeq
<1>6. WorkflowTyped'
  BY <1>1, <1>2, <1>3, <1>5 DEF WorkflowInv, WorkflowTyped
<1>7. Planned' /\ Replaced'
  BY <1>1, <1>2, <1>3, <1>4, <1>5 DEF Planned, Replaced
<1>8. execution_order' = earlier' \o IdsRequested(0)'
  <2>1. IdsRequested(0)' = <<>>
    BY DEF IdsRequested
  <2>2. QED
    BY <1>1, <2>1, ConcatEmptySeq DEF WorkflowInv, WorkflowTyped
<1>9. Grown'
  BY <1>1, <1>5, <1>8 DEF Grown
<1>10. Resolved.ok => Ahead' /\ Known'
  BY <1>1, <1>2, <1>3, <1>4, <1>5 DEF Ahead, Known
<1>11. QED
  BY <1>1, <1>2, <1>5, <1>6, <1>7, <1>8, <1>9, <1>10 DEF WorkflowInv

\* The steps of the state that are to be undone.
LEMMA WorkflowRollsBack ==
    ASSUME NEW order, RollBack(order), WorkflowTyped', workflow' = workflow,
           execution_order' = order, undone' = <<>>, requested' # <<>>
    PROVE  /\ phase' \in {"rolling back", "error"}
           /\ phase' = "rolling back" => Backwards'
           /\ phase' = "error" =>
                 undone' = IF workflow'.rollback_on_failure
                           THEN (ToUndo[Len(execution_order)])' ELSE <<>>
<1>1. CASE workflow.rollback_on_failure
  <2>1. rest' = Reverse(order) /\ phase' = "rolling back"
    BY <1>1 DEF RollBack
  <2>2. order \in Seq(IdsHere')
    BY DEF WorkflowTyped
  <2>3. PICK N \in Nat : N = Len(order)
    BY <2>2, LenProperties
  <2>4. Len(rest') = N /\ \A i \in 1..N : rest'[i] = order[N + 1 - i]
    BY <2>1, <2>2, <2>3, ReverseFacts
  <2>5. PICK undos : undos = Undoable(Steps', order)
    OBVIOUS
  <2>6. undos[N] \in Seq(IdsHere')
    <3>1. undos \in [0..N -> Seq(IdsHere')]
      BY <2>2, <2>3, <2>5, UndoableUnfold
    <3>2. N \in 0..N
      OBVIOUS
    <3>3. QED
      BY <3>1, <3>2
  <2>7. <<>> \o undos[N] = undos[N]
    BY <2>6, ConcatEmptySeq
  <2>8. Backwards'
    BY <1>1, <2>3, <2>4, <2>5, <2>7 DEF Backwards, ToUndo
  <2>9. QED
    BY <2>1, <2>8
<1>2. CASE ~workflow.rollback_on_failure
  BY <1>2 DEF RollBack
<1>3. QED
  BY <1>1, <1>2

\* One more request.
LEMMA WorkflowRequests ==
    ASSUME WorkflowInv, phase = "executing", rest # <<>>,
           NEW step, step = find_step(Steps, Head(rest)),
           requested' = Append(requested, Requested(step.id, step.refs)),
           workflow' = workflow
    PROVE  /\ requested' \in Seq([id : IdsHere, left : Lefts]) /\ Len(requested) \in Nat
           /\ Len(requested') = Len(requested) + 1 /\ requested' # <<>>
           /\ \A i \in 1..Len(requested) : requested'[i] = requested[i]
           /\ requested'[Len(requested) + 1].id = step.id
           /\ step.id = Head(rest) /\ Head(rest) \in IdsHere
           /\ Planned' /\ Replaced'
<1> DEFINE m == Len(requested)
           head == Head(rest)
           request == Requested(step.id, step.refs)
           order == Resolved.order
<1>1. WorkflowTyped /\ Planned /\ Ahead /\ Known /\ Replaced
  BY DEF WorkflowInv
<1>2. head = rest[1] /\ head \in IdsHere /\ Len(rest) \in Nat /\ Len(rest) >= 1
  BY <1>1, RangeTail, LenProperties DEF WorkflowTyped
<1>3. step \in Range(Steps) /\ step.id = head /\ Needed[head] = step.depends_on
  BY <1>1, <1>2, OrderHere
<1>4. request \in [id : IdsHere, left : Lefts] /\ request.id = head
      /\ request.left \cap DOMAIN variables = {}
  BY <1>2, <1>3 DEF Requested, Lefts
<1>5. /\ m \in Nat /\ requested' \in Seq([id : IdsHere, left : Lefts]) /\ Len(requested') = m + 1
      /\ \A i \in 1..m : requested'[i] = requested[i]
      /\ requested'[m + 1] = request
  <2>1. PICK S : S = [id : IdsHere, left : Lefts]
    OBVIOUS
  <2>2. requested \in Seq(S) /\ request \in S
    BY <1>1, <1>4, <2>1 DEF WorkflowTyped
  <2>3. requested' = Append(requested, request)
    OBVIOUS
  <2> HIDE DEF request
  <2>4. /\ m \in Nat /\ requested' \in Seq(S) /\ Len(requested') = m + 1
        /\ \A i \in 1..m : requested'[i] = requested[i]
        /\ requested'[m + 1] = request
    BY <2>2, <2>3, RangeAppend, LenProperties
  <2>5. QED
    BY <2>1, <2>4
<1>6. Resolved' = Resolved /\ Needed' = Needed /\ Steps' = Steps
  BY DEF Resolved, Needed, Steps
<1>7. order \in Seq(IdsHere) /\ Len(order) \in Nat /\ Ordered(Needed, order)
  BY <1>1, OrderHere, LenProperties DEF Ahead
<1>8. m + 1 <= Len(order) /\ order[m + 1] = head
  <2>1. 1 \in 1..Len(rest)
    BY <1>2
  <2>2. QED
    BY <1>1, <1>2, <1>5, <1>7, <2>1 DEF Ahead
<1>9. Planned'
  <2>1. \A i \in 1..(m + 1) : requested'[i].id = order[i]
    <3>1. \A i \in 1..m : requested'[i].id = order[i]
      BY <1>1, <1>5 DEF Planned
    <3>2. requested'[m + 1].id = order[m + 1]
      BY <1>4, <1>5, <1>8
    <3>3. \A i \in 1..(m + 1) : i \in 1..m \/ i = m + 1
      BY <1>5
    <3> HIDE DEF m, order, request
    <3>4. QED
      BY <3>1, <3>2, <3>3
  <2>2. QED
    BY <1>1, <1>5, <1>6, <1>8, <2>1 DEF Planned, Ahead
<1>10. ASSUME NEW d \in Range(Needed[head]), NEW e \in find_step(Steps, d).extractions
       PROVE  e.name \notin request.left
  <2>1. m + 1 \in DOMAIN order
    BY <1>5, <1>7, <1>8, LenProperties
  <2>2. PICK j \in 1..((m + 1) - 1) : order[j] = d
    BY <1>7, <1>8, <2>1 DEF Ordered
  <2>3. j \in 1..m
    BY <1>5
  <2>4. requested[j].id = d
    BY <1>1, <2>2, <2>3 DEF Planned
  <2>5. e.name \in DOMAIN variables
    BY <1>1, <2>3, <2>4 DEF Known
  <2>6. QED
    BY <1>4, <2>5
<1>11. Replaced'
  <2>1. ASSUME NEW i \in 1..(m + 1), NEW d \in Range(Needed[requested'[i].id]),
               NEW e \in find_step(Steps, d).extractions
        PROVE  e.name \notin requested'[i].left
    <3>1. CASE i = m + 1
      BY <1>4, <1>5, <1>10, <3>1
    <3>2. CASE i # m + 1
      <4>1. i \in 1..m
        BY <1>5, <3>2
      <4>2. QED
        BY <1>1, <1>5, <4>1 DEF Replaced
    <3>3. QED
      BY <3>1, <3>2
  <2>2. QED
    BY <1>5, <1>6, <2>1 DEF Replaced
<1>12. requested' # <<>>
  BY <1>5, EmptySeq
<1>13. QED
  BY <1>2, <1>3, <1>4, <1>5, <1>9, <1>11, <1>12

\* The first of the steps that were requested are still those.
LEMMA SameRequested ==
    ASSUME NEW n \in Nat, \A i \in 1..n : requested'[i] = requested[i]
    PROVE  IdsRequested(n)' = IdsRequested(n)
BY DEF IdsRequested

\* One more of them.
LEMMA MoreRequested ==
    ASSUME NEW S, NEW n \in Nat, \A i \in 1..(n + 1) : requested'[i].id \in S,
           \A i \in 1..n : requested'[i] = requested[i]
    PROVE  /\ IdsRequested(n) \in Seq(S)
           /\ IdsRequested(n + 1)' = Append(IdsRequested(n), requested'[n + 1].id)
<1> DEFINE ids == IdsRequested(n)
           more == [i \in 1..(n + 1) |-> requested'[i].id]
           id == requested'[n + 1].id
<1>1. ids \in Seq(S) /\ Len(ids) = n /\ \A i \in 1..n : ids[i] = requested'[i].id
  BY DEF IdsRequested
<1>2. more \in Seq(S) /\ Len(more) = n + 1 /\ \A i \in 1..(n + 1) : more[i] = requested'[i].id
  BY DEF IdsRequested
<1>3. id \in S
  OBVIOUS
<1> HIDE DEF ids, more
<1>4. /\ Append(ids, id) \in Seq(S) /\ Len(Append(ids, id)) = n + 1
      /\ \A i \in 1..n : Append(ids, id)[i] = ids[i] /\ Append(ids, id)[n + 1] = id
  BY <1>1, <1>3, RangeAppend
<1>5. PICK all : all = Append(ids, id)
  OBVIOUS
<1>6. all = more
  <2>1. \A i \in 1..(n + 1) : all[i] = more[i]
    <3>1. \A i \in 1..(n + 1) : i \in 1..n \/ i = n + 1
      OBVIOUS
    <3>2. \A i \in 1..n : all[i] = more[i]
      BY <1>1, <1>2, <1>4, <1>5
    <3>3. all[n + 1] = more[n + 1]
      <4>1. all[n + 1] = id
        BY <1>1, <1>3, <1>5, RangeAppend
      <4>2. QED
        BY <1>2, <4>1
    <3>4. QED
      BY <3>1, <3>2, <3>3
  <2>2. QED
    BY <1>2, <1>4, <1>5, <2>1, SeqEqual
<1>7. IdsRequested(n + 1)' = more
  BY DEF IdsRequested, more
<1>8. QED
  BY <1>1, <1>5, <1>6, <1>7 DEF ids

\* A step that is executed, or whose response cannot be read.
LEMMA WorkflowStep ==
    ASSUME WorkflowInv, execute_step
    PROVE  WorkflowInv'
<1> DEFINE head == Head(rest)
<1>0. PICK m \in Nat : m = Len(requested)
  BY LenProperties DEF WorkflowInv, WorkflowTyped
<1>1. /\ phase = "executing" /\ rest # <<>>
      /\ workflow' = workflow /\ earlier' = earlier /\ undone' = undone
  BY DEF execute_step
<1>2. PICK step, found :
        /\ step = find_step(Steps, head)
        /\ found = [x \in {e.name : e \in step.extractions} |->
                       Extracted(simulate_request_execution(step.request),
                                 CHOOSE e \in step.extractions : e.name = x)]
        /\ requested' = Append(requested, Requested(step.id, step.refs))
        /\ \/ /\ RollBack(execution_order) /\ UNCHANGED <<execution_order, variables>>
           \/ /\ execution_order' = Append(execution_order, step.id)
              /\ variables' = Learned(found)
              /\ \/ rest' = Tail(rest) /\ UNCHANGED phase
                 \/ RollBack(execution_order')
  BY DEF execute_step, Steps
<1>3. /\ WorkflowTyped /\ Planned /\ Ahead /\ Known /\ undone = <<>>
      /\ execution_order = earlier \o IdsRequested(m)
  BY <1>0, <1>1 DEF WorkflowInv
<1>4. PICK id \in IdsHere : id = step.id /\ id = head
  BY <1>1, <1>2, WorkflowRequests
<1>5. /\ requested' \in Seq([id : IdsHere, left : Lefts])
      /\ Len(requested') = m + 1 /\ requested' # <<>>
      /\ \A i \in 1..m : requested'[i] = requested[i]
      /\ requested'[m + 1].id = id
      /\ Planned' /\ Replaced'
  BY <1>0, <1>1, <1>2, <1>4, WorkflowRequests
<1>6. /\ Resolved' = Resolved /\ Needed' = Needed /\ Steps' = Steps
      /\ IdsHere' = IdsHere /\ Lefts' = Lefts
  BY <1>1 DEF Resolved, Needed, Steps, IdsHere, Lefts
<1>7. /\ Len(rest) \in Nat /\ Len(rest) >= 1 /\ Tail(rest) \in Seq(IdsHere)
      /\ Len(Tail(rest)) = Len(rest) - 1
      /\ \A i \in 1..(Len(rest) - 1) : Tail(rest)[i] = rest[i + 1]
  BY <1>1, <1>3, RangeTail, LenProperties DEF WorkflowTyped
<1>8. Len(requested') - 1 = m
  BY <1>5
<1>9. ASSUME rest' \in Seq(IdsHere), execution_order' \in Seq(IdsHere), 
             phase' \in {"executing", "rolling back", "error"}
      PROVE  WorkflowTyped'
  BY <1>1, <1>3, <1>5, <1>6, <1>9 DEF WorkflowTyped
<1>10. ASSUME NEW order \in Seq(IdsHere), RollBack(order)
       PROVE  rest' \in Seq(IdsHere) /\ phase' \in {"rolling back", "error"}
  <2>1. Reverse(order) \in Seq(IdsHere) /\ <<>> \in Seq(IdsHere)
    BY ReverseFacts, EmptySeq, LenProperties
  <2>2. QED
    BY <1>10, <2>1 DEF RollBack
<1>11. CASE RollBack(execution_order) /\ UNCHANGED <<execution_order, variables>>
  <2>1. execution_order \in Seq(IdsHere)
    BY <1>3 DEF WorkflowTyped
  <2>2. WorkflowTyped' /\ phase' \in {"rolling back", "error"}
    BY <1>9, <1>10, <1>11, <2>1
  <2>3. IdsRequested(m)' = IdsRequested(m)
    BY <1>5, SameRequested
  <2>4. Grown'
    BY <1>0, <1>1, <1>3, <1>5, <1>8, <1>11, <2>3 DEF Grown
  <2>5. /\ phase' = "rolling back" => Backwards'
        /\ phase' = "error" =>
              undone' = IF workflow'.rollback_on_failure
                        THEN (ToUndo[Len(execution_order)])' ELSE <<>>
    BY <1>1, <1>3, <1>5, <1>11, <2>2, WorkflowRollsBack
  <2>6. QED
    BY <1>5, <2>2, <2>4, <2>5 DEF WorkflowInv
<1>12. CASE /\ execution_order' = Append(execution_order, step.id)
            /\ variables' = Learned(found)
            /\ \/ rest' = Tail(rest) /\ UNCHANGED phase
               \/ RollBack(execution_order')
  <2>1. execution_order' \in Seq(IdsHere)
    BY <1>3, <1>4, <1>12, RangeAppend DEF WorkflowTyped
  <2>2. WorkflowTyped'
    BY <1>1, <1>7, <1>9, <1>10, <1>12, <2>1
  <2>3. \A i \in 1..(m + 1) : requested'[i].id \in IdsHere
    <3>1. \A i \in 1..Len(requested') : requested'[i] \in [id : IdsHere, left : Lefts]
      BY <1>5, ElementOfSeq
    <3>2. QED
      BY <1>5, <3>1
  <2>4. IdsRequested(m) \in Seq(IdsHere) /\ IdsRequested(m + 1)' = Append(IdsRequested(m), id)
    BY <1>5, <2>3, MoreRequested
  <2>5. execution_order' = earlier' \o IdsRequested(Len(requested))'
    <3>1. PICK before \in Seq(IdsHere), ids \in Seq(IdsHere) :
             before = earlier /\ ids = IdsRequested(m)
      BY <1>3, <2>4 DEF WorkflowTyped
    <3>2. Append(before \o ids, id) = before \o Append(ids, id)
      <4>1. before \o ids \in Seq(IdsHere) /\ <<id>> \in Seq(IdsHere)
        BY ConcatProperties
      <4>2. Append(before \o ids, id) = (before \o ids) \o <<id>>
        BY <4>1, AppendIsConcat
      <4>3. Append(ids, id) = ids \o <<id>>
        BY AppendIsConcat
      <4>4. QED
        BY <4>1, <4>2, <4>3, ConcatAssociative
    <3>3. QED
      BY <1>1, <1>3, <1>4, <1>5, <1>12, <2>4, <3>1, <3>2
  <2>6. Grown'
    <3>1. Len(requested)' \in Nat
      BY <1>5
    <3>2. QED
      BY <2>5, <3>1 DEF Grown
  <2>7. Known'
    <3>1. DOMAIN variables \subseteq DOMAIN variables' /\ DOMAIN found \subseteq DOMAIN variables'
      BY <1>12 DEF Learned
    <3>2. DOMAIN found = {e.name : e \in step.extractions}
      BY <1>2
    <3>3. ASSUME NEW i \in 1..(m + 1), NEW e \in find_step(Steps, requested'[i].id).extractions
          PROVE  e.name \in DOMAIN variables'
      <4>1. CASE i = m + 1
        BY <1>2, <1>4, <1>5, <3>1, <3>2, <4>1
      <4>2. CASE i # m + 1
        <5>1. i \in 1..m
          BY <1>5, <4>2
        <5>2. QED
          BY <1>0, <1>3, <1>5, <3>1, <5>1 DEF Known
      <4>3. QED
        BY <4>1, <4>2
    <3>4. QED
      BY <1>5, <1>6, <3>3 DEF Known
  <2>8. CASE rest' = Tail(rest) /\ UNCHANGED phase
    <3>1. Ahead'
      <4>1. \A i \in 1..(Len(rest) - 1) : Tail(rest)[i] = Resolved.order[m + 1 + i]
        <5>1. \A i \in 1..(Len(rest) - 1) : i + 1 \in 1..Len(rest) /\ m + (i + 1) = m + 1 + i
          BY <1>7
        <5>2. QED
          BY <1>0, <1>3, <1>7, <5>1 DEF Ahead
      <4>2. PICK more : more = rest' /\ Len(more) = Len(rest) - 1
                        /\ \A i \in 1..(Len(rest) - 1) : more[i] = Resolved.order[m + 1 + i]
        BY <1>7, <2>8, <4>1
      <4>3. m + Len(rest) = Len(Resolved.order)
        BY <1>0, <1>3 DEF Ahead
      <4>4. Len(requested') + Len(more) = Len(Resolved.order)
        <5>1. PICK k \in Nat : k = Len(rest)
          BY <1>7
        <5>2. Len(requested') + Len(more) = (m + 1) + (k - 1)
          BY <1>5, <4>2, <5>1
        <5>3. QED
          BY <4>3, <5>1, <5>2
      <4>5. \A i \in 1..Len(more) : more[i] = Resolved.order[Len(requested') + i]
        BY <1>5, <1>7, <4>2
      <4>6. QED
        BY <1>3, <1>6, <4>2, <4>4, <4>5 DEF Ahead
    <3>2. QED
      BY <1>1, <1>3, <1>5, <2>2, <2>5, <2>6, <2>7, <2>8, <3>1 DEF WorkflowInv
  <2>9. CASE RollBack(execution_order')
    <3>1. /\ phase' \in {"rolling back", "error"}
          /\ phase' = "rolling back" => Backwards'
          /\ phase' = "error" =>
                undone' = IF workflow'.rollback_on_failure
                          THEN (ToUndo[Len(execution_order)])' ELSE <<>>
      <4>1. PICK order : order = execution_order'
        OBVIOUS
      <4>2. RollBack(order)
        BY <2>9, <4>1
      <4>3. QED
        BY <1>1, <1>3, <1>5, <2>2, <4>1, <4>2, WorkflowRollsBack
    <3>2. QED
      BY <1>5, <2>2, <2>6, <3>1 DEF WorkflowInv
  <2>10. QED
    BY <1>12, <2>8, <2>9
<1>13. QED
  BY <1>2, <1>11, <1>12

\* A step that is undone, or that cannot be.
LEMMA WorkflowUndo ==
    ASSUME WorkflowInv, rollback_step
    PROVE  WorkflowInv'
<1>1. PICK step, id :
        /\ phase = "rolling back" /\ rest # <<>>
        /\ id = Head(rest) /\ step = find_step(Steps, id)
        /\ undone' = IF step.rollback = "" THEN undone ELSE Append(undone, step.id)
        /\ rest' = Tail(rest)
        /\ UNCHANGED <<workflow, execution_order, variables, phase, runs, earlier, requested>>
  BY DEF rollback_step, Steps
<1>2. WorkflowTyped /\ Planned /\ Replaced /\ Grown /\ Backwards
  BY <1>1 DEF WorkflowInv
<1>3. /\ Resolved' = Resolved /\ Needed' = Needed /\ Steps' = Steps
      /\ IdsHere' = IdsHere /\ Lefts' = Lefts /\ ToUndo' = ToUndo
  BY <1>1 DEF Resolved, Needed, Steps, IdsHere, Lefts, ToUndo
<1>0. PICK k \in Nat : k = Len(rest)
  BY <1>2, LenProperties DEF WorkflowTyped
<1>4. /\ k = Len(rest) /\ k >= 1 /\ id = rest[1] /\ id \in IdsHere
      /\ rest' \in Seq(IdsHere) /\ Len(rest') = k - 1
      /\ \A i \in 1..(k - 1) : rest'[i] = rest[i + 1]
  BY <1>0, <1>1, <1>2, RangeTail DEF WorkflowTyped
<1>5. step.id = id
  BY <1>1, <1>2, <1>4, OrderHere
<1>6. undone' \in Seq(IdsHere)
  BY <1>1, <1>2, <1>4, <1>5, RangeAppend DEF WorkflowTyped
<1>7. WorkflowTyped' /\ Planned' /\ Replaced' /\ Grown'
  <2>1. WorkflowTyped'
    BY <1>1, <1>2, <1>3, <1>4, <1>6 DEF WorkflowTyped
  <2>2. Planned' /\ Replaced'
    BY <1>1, <1>2, <1>3 DEF Planned, Replaced
  <2>3. Grown'
    <3>1. \A n : IdsRequested(n)' = IdsRequested(n)
      BY <1>1 DEF IdsRequested
    <3>2. QED
      BY <1>1, <1>2, <3>1 DEF Grown
  <2>4. QED
    BY <2>1, <2>2, <2>3
<1>8. PICK N \in Nat : N = Len(execution_order)
  BY <1>2, LenProperties DEF WorkflowTyped
<1>9. k <= N /\ execution_order[k] = id /\ k \in 1..N
  <2>1. 1 \in 1..k /\ k + 1 - 1 = k
    BY <1>4
  <2>2. QED
    BY <1>2, <1>4, <1>8, <2>1 DEF Backwards
<1>10. undone' \o ToUndo[k - 1] = ToUndo[N]
  <2>1. PICK undos : undos = ToUndo
    OBVIOUS
  <2>2. /\ undos \in [0..N -> Seq(IdsHere)]
        /\ undos[k] = IF step.rollback = "" THEN undos[k - 1] ELSE <<id>> \o undos[k - 1]
    <3>1. execution_order \in Seq(IdsHere)
      BY <1>2 DEF WorkflowTyped
    <3>0. PICK steps, S : steps = Steps /\ S = IdsHere
      OBVIOUS
    <3>2. PICK order \in Seq(S) : steps = Steps /\ S = IdsHere /\ order = execution_order
      BY <3>0, <3>1
    <3>3. N = Len(order)
      BY <1>8, <3>2
    <3>4. Undoable(steps, order) \in [0..N -> Seq(S)]
      BY <3>3, UndoableUnfold
    <3>5. Undoable(steps, order)[k]
            = IF find_step(steps, order[k]).rollback = "" THEN Undoable(steps, order)[k - 1]
              ELSE <<order[k]>> \o Undoable(steps, order)[k - 1]
      BY <1>9, <3>3, UndoableUnfold
    <3>6. undos = Undoable(steps, order) /\ order[k] = id
      BY <1>9, <2>1, <3>2 DEF ToUndo
    <3>7. QED
      BY <1>1, <3>2, <3>4, <3>5, <3>6
  <2>3. undone \o undos[k] = undos[N]
    BY <1>2, <1>4, <1>8, <2>1 DEF Backwards
  <2>4. CASE step.rollback = ""
    BY <1>1, <2>1, <2>2, <2>3, <2>4
  <2>5. CASE step.rollback # ""
    <3>1. PICK last, some, one \in Seq(IdsHere) :
             last = undos[k - 1] /\ some = undone /\ one = <<id>>
      <4>1. k - 1 \in 0..N
        BY <1>9
      <4>2. <<id>> \in Seq(IdsHere)
        BY <1>4
      <4>3. QED
        BY <1>2, <2>2, <4>1, <4>2 DEF WorkflowTyped
    <3>2. undone' = some \o one
      BY <1>1, <1>4, <1>5, <2>5, <3>1, AppendIsConcat
    <3>3. (some \o one) \o last = some \o (one \o last)
      BY ConcatAssociative
    <3>4. QED
      BY <2>1, <2>2, <2>3, <2>5, <3>1, <3>2, <3>3
  <2>6. QED
    BY <2>4, <2>5
<1>11. Backwards'
  <2>1. \A i \in 1..(k - 1) : rest'[i] = execution_order[(k - 1) + 1 - i]
    <3>1. \A i \in 1..(k - 1) : i + 1 \in 1..k /\ k + 1 - (i + 1) = (k - 1) + 1 - i
      OBVIOUS
    <3>2. QED
      BY <1>2, <1>4, <3>1 DEF Backwards
  <2>2. /\ workflow'.rollback_on_failure /\ requested' # <<>> /\ execution_order' = execution_order
    BY <1>1, <1>2 DEF Backwards
  <2>3. undone' \o ToUndo'[Len(rest')] = ToUndo'[Len(execution_order')]
    BY <1>3, <1>4, <1>8, <1>10, <2>2
  <2>4. Len(rest') <= Len(execution_order')
    BY <1>4, <1>8, <1>9, <2>2
  <2>5. QED
    BY <1>4, <2>1, <2>2, <2>3, <2>4 DEF Backwards
<1>12. QED
  BY <1>1, <1>7, <1>11 DEF WorkflowInv

\* The end of a run or of its rollback.
LEMMA WorkflowFinish ==
    ASSUME WorkflowInv, finish
    PROVE  WorkflowInv'
<1>1. /\ phase \in {"executing", "rolling back"} /\ rest = <<>>
      /\ phase' = IF phase = "executing" THEN "ok" ELSE "error"
      /\ UNCHANGED <<workflow, execution_order, variables, rest, runs, earlier, requested, undone>>
  BY DEF finish
<1>2. /\ Resolved' = Resolved /\ Needed' = Needed /\ Steps' = Steps
      /\ IdsHere' = IdsHere /\ Lefts' = Lefts /\ ToUndo' = ToUndo
  BY <1>1 DEF Resolved, Needed, Steps, IdsHere, Lefts, ToUndo
<1>3. WorkflowTyped /\ Planned /\ Replaced /\ Grown
  BY <1>1 DEF WorkflowInv
<1>4. WorkflowTyped' /\ Planned' /\ Replaced' /\ Grown'
  <2>1. WorkflowTyped'
    BY <1>1, <1>2, <1>3 DEF WorkflowTyped
  <2>2. Planned' /\ Replaced'
    BY <1>1, <1>2, <1>3 DEF Planned, Replaced
  <2>3. Grown'
    <3>1. \A n : IdsRequested(n)' = IdsRequested(n)
      BY <1>1 DEF IdsRequested
    <3>2. QED
      BY <1>1, <1>3, <3>1 DEF Grown
  <2>4. QED
    BY <2>1, <2>2, <2>3
<1>5. Len(rest) = 0
  BY <1>1, EmptySeq
<1>6. CASE phase = "executing"
  <2>1. Ahead /\ undone = <<>>
    BY <1>6 DEF WorkflowInv
  <2>2. PICK L \in Nat : L = Len(requested)
    BY <1>3, LenProperties DEF WorkflowTyped
  <2>6. L = Len(Resolved.order)
    BY <1>5, <2>1, <2>2 DEF Ahead
  <2>3. IdsHere = {Resolved.order[i] : i \in 1..L}
    BY <1>3, <2>1, <2>6, OrderHere, RangeFacts DEF Ahead
  <2>4. {Resolved.order[i] : i \in 1..L} = {requested[i].id : i \in 1..L}
    BY <1>3, <2>2 DEF Planned
  <2>5. QED
    BY <1>1, <1>2, <1>4, <1>6, <2>1, <2>2, <2>3, <2>4 DEF WorkflowInv
<1>7. CASE phase = "rolling back"
  <2>1. Backwards
    BY <1>7 DEF WorkflowInv
  <2>2. undone \o <<>> = undone
    BY <1>3, ConcatEmptySeq DEF WorkflowTyped
  <2>3. ToUndo[0] = <<>>
    <3>1. execution_order \in Seq(IdsHere) /\ Len(execution_order) \in Nat
      BY <1>3, LenProperties DEF WorkflowTyped
    <3>2. QED
      BY <3>1, UndoableUnfold DEF ToUndo
  <2>4. undone = ToUndo[Len(execution_order)]
    BY <1>5, <2>1, <2>2, <2>3 DEF Backwards
  <2>5. QED
    BY <1>1, <1>2, <1>4, <1>7, <2>1, <2>4 DEF WorkflowInv, Backwards
<1>8. QED
  BY <1>1, <1>6, <1>7

\* Nothing happens.
LEMMA WorkflowRests ==
    ASSUME WorkflowInv, UNCHANGED workflowVars
    PROVE  WorkflowInv'
<1>1. UNCHANGED <<workflow, execution_order, variables, rest, phase, runs, earlier, requested, undone>>
  BY DEF workflowVars
<1>2. /\ Resolved' = Resolved /\ Needed' = Needed /\ Steps' = Steps
      /\ IdsHere' = IdsHere /\ Lefts' = Lefts /\ ToUndo' = ToUndo
  BY <1>1 DEF Resolved, Needed, Steps, IdsHere, Lefts, ToUndo
<1>3. \A n : IdsRequested(n)' = IdsRequested(n)
  BY <1>1 DEF IdsRequested
<1>4. WorkflowTyped' = WorkflowTyped
  BY <1>1, <1>2 DEF WorkflowTyped
<1>5. Planned' = Planned /\ Replaced' = Replaced /\ Known' = Known /\ Ahead' = Ahead
  BY <1>1, <1>2 DEF Planned, Replaced, Known, Ahead
<1>6. Grown' = Grown /\ IdsRequested(Len(requested))' = IdsRequested(Len(requested))
  BY <1>1, <1>3 DEF Grown
<1>7. Backwards' = Backwards
  BY <1>1, <1>2 DEF Backwards
<1>8. QED
  BY <1>1, <1>2, <1>4, <1>5, <1>6, <1>7 DEF WorkflowInv

\* The inductive invariant of workflows.
THEOREM WorkflowInvariant == WorkflowSpec => []WorkflowInv
<1>1. WorkflowInit => WorkflowInv
  <2> SUFFICES ASSUME WorkflowInit PROVE WorkflowInv
    OBVIOUS
  <2>1. <<>> \in Seq(IdsHere) /\ <<>> \in Seq([id : IdsHere, left : Lefts]) /\ Len(<<>>) = 0
    BY EmptySeq
  <2>2. WorkflowTyped
    BY <2>1 DEF WorkflowInit, WorkflowTyped
  <2>3. Len(Resolved.order) \in Nat
    BY <2>2, OrderHere, LenProperties
  <2>4. QED
    BY <2>1, <2>2, <2>3 DEF WorkflowInit, WorkflowInv, Planned, Replaced
<1>2. WorkflowInv /\ [WorkflowNext]_workflowVars => WorkflowInv'
  <2> SUFFICES ASSUME WorkflowInv, [WorkflowNext]_workflowVars PROVE WorkflowInv'
    OBVIOUS
  <2>1. CASE UNCHANGED workflowVars
    BY <2>1, WorkflowRests
  <2>2. QED
    BY <2>1, WorkflowExecute, WorkflowStep, WorkflowUndo, WorkflowFinish DEF WorkflowNext
<1>3. QED
  BY <1>1, <1>2, PTL DEF WorkflowSpec

\* What a run requests, undoes and leaves, whatever the steps depend on.
THEOREM WorkflowsAreSound == WorkflowSpec => []WorkflowSound
<1>1. WorkflowInv => WorkflowSound
  <2> SUFFICES ASSUME WorkflowInv PROVE WorkflowSound
    OBVIOUS
  <2>1. WorkflowTyped /\ Planned /\ Replaced
    BY DEF WorkflowInv
  <2>2. DOMAIN requested = 1..Len(requested) /\ Len(requested) \in Nat
    BY <2>1, LenProperties DEF WorkflowTyped
  <2>3. StepsInDependencyOrder
    <3>1. ASSUME NEW i \in DOMAIN requested
          PROVE  /\ \A j \in 1..(i - 1) : requested[j].id # requested[i].id
                 /\ \A d \in Range(Needed[requested[i].id]) :
                       \E j \in 1..(i - 1) : requested[j].id = d
      <4>1. PICK order : order = Resolved.order /\ Ordered(Needed, order)
                         /\ DOMAIN order = 1..Len(order) /\ Len(order) \in Nat
        <5>1. requested # <<>>
          BY <2>1, <2>2, EmptySeq
        <5>2. QED
          BY <2>1, <5>1, OrderHere, LenProperties DEF Planned
      <4>2. i \in DOMAIN order /\ requested[i].id = order[i]
            /\ \A j \in 1..(i - 1) : j \in DOMAIN order /\ requested[j].id = order[j] /\ j # i
        BY <2>1, <2>2, <4>1 DEF Planned
      <4>3. order[i] = requested[i].id /\ i \in Nat
        BY <4>1, <4>2
      <4>4. \A j \in 1..(i - 1) : order[j] # order[i]
        BY <4>1, <4>2 DEF Ordered, IsInjective
      <4>5. \A d \in Range(Needed[order[i]]) : \E j \in 1..(i - 1) : order[j] = d
        BY <4>1, <4>2 DEF Ordered
      <4>6. QED
        BY <4>2, <4>3, <4>4, <4>5
    <3>2. \A i \in DOMAIN requested : requested[i].id \in IdsHere
      <4>1. \A i \in 1..Len(requested) : requested[i] \in [id : IdsHere, left : Lefts]
        BY <2>1, ElementOfSeq DEF WorkflowTyped
      <4>2. QED
        BY <2>2, <4>1
    <3>3. \A i \in DOMAIN requested :
             Needed[requested[i].id] = find_step(workflow.steps, requested[i].id).depends_on
      BY <2>1, <3>2, OrderHere DEF Steps
    <3>4. QED
      BY <2>1, <2>2, <3>1, <3>3 DEF StepsInDependencyOrder, Replaced, Steps
  <2>4. UndoneInReverse
    BY <2>2 DEF UndoneInReverse, WorkflowInv, Grown, IdsRequested, ToUndo, IdsHere, Steps
  <2>5. NothingOnCycles
    BY <2>1, OrderHere DEF NothingOnCycles, WorkflowInv, Needed, Steps
  <2>6. QED
    BY <2>3, <2>4, <2>5 DEF WorkflowSound
<1>2. QED
  BY <1>1, WorkflowInvariant, PTL

\* A workflow orders and runs its own steps only.
THEOREM WorkflowTypeCorrect == WorkflowSpec => []WorkflowTypeOK
<1>1. WorkflowInv => WorkflowTypeOK
  <2> SUFFICES ASSUME WorkflowInv PROVE WorkflowTypeOK
    OBVIOUS
  <2>1. WorkflowTyped
    BY DEF WorkflowInv
  <2>2. \A list \in Seq(IdsHere) : Range(list) \subseteq IdsHere
    BY RangeFacts
  <2>3. Range(execution_order) \subseteq IdsHere /\ Range(rest) \subseteq IdsHere
    BY <2>1, <2>2 DEF WorkflowTyped
  <2>4. phase \in {"idle", "executing", "rolling back", "ok", "error"}
    BY <2>1 DEF WorkflowTyped
  <2>5. QED
    BY <2>3, <2>4 DEF WorkflowTypeOK, IdsHere, Steps
<1>2. QED
  BY <1>1, WorkflowInvariant, PTL

-----------------------------------------------------------------------------
(***************************************************************************)
(* Chains: the inductive invariant                                         *)
(***************************************************************************)
StepsHere == Range(StepNames(chain))
StepsAt == DOMAIN chain.steps

ChainTyped ==
    /\ chain \in Chains /\ who \in {"manager", "executor"}
    /\ outcome \in {"idle", "running", "again", "ok", "error"}
    /\ todo \in Seq(StepsAt) /\ IsInjective(todo)
    /\ who = "executor" => \A i \in Range(todo) : i = PlaceOf(chain, chain.steps[i].name)
    /\ failed \in Seq(StepsHere) /\ ran \in Seq(StepsAt) /\ held \in SUBSET StepsHere
    /\ attempt \in Nat /\ tries \in Nat /\ requests \in [StepsAt -> Nat]

\* How often an attempt may ask for a step, and what earlier attempts may have asked.
Quantum == IF who = "executor" THEN MaxAttempts ELSE 1
Spent == attempt * Quantum

Counted ==
    /\ outcome = "idle" =>
          held = {} /\ failed = <<>> /\ attempt = 0 /\ \A n \in StepsAt : requests[n] = 0
    /\ outcome # "running" => tries = 0 /\ todo = <<>>
    /\ outcome \in {"running", "again"} => attempt + 1 <= MaxAttempts
    /\ outcome = "running" =>
          /\ tries + 1 <= Quantum
          /\ \A n \in StepsAt :
                requests[n] <= IF n \notin Range(todo) THEN Spent + Quantum
                               ELSE IF n = Head(todo) THEN Spent + tries ELSE Spent
    /\ outcome = "again" => \A n \in StepsAt : requests[n] <= Spent
    /\ outcome \in {"ok", "error"} =>
          attempt <= MaxAttempts /\ \A n \in StepsAt : requests[n] <= MaxAttempts * Quantum

\* A step is still to be tried, or it has an answer.
Pending == {chain.steps[i].name : i \in Range(todo)}
Answered ==
    /\ StepsHere = held \cup Range(failed) \cup Pending
    /\ who = "executor" =>
          held \cap Range(failed) = {} /\ (held \cup Range(failed)) \cap Pending = {}

ChainInv ==
    /\ ChainTyped /\ Counted /\ TokensRest /\ ContinuesOnError
    /\ outcome \in {"running", "ok"} => Answered
    /\ outcome \in {"running", "again"} /\ who = "executor" => validate_chain_config(chain)

-----------------------------------------------------------------------------
\* The names of a chain, and the first step of each.
LEMMA StepOfName ==
    ASSUME NEW c \in Chains
    PROVE  /\ c.steps \in Seq(Range(c.steps)) /\ StepNames(c) \in Seq(Range(StepNames(c)))
           /\ Range(StepNames(c)) = {c.steps[i].name : i \in DOMAIN c.steps}
           /\ \A i \in DOMAIN c.steps :
                 c.steps[i] \in Range(c.steps) /\ c.steps[i].name \in Range(StepNames(c))
           /\ \A x \in Range(StepNames(c)) :
                 /\ PlaceOf(c, x) \in DOMAIN c.steps /\ c.steps[PlaceOf(c, x)].name = x
                 /\ StepOf(c, x) \in Range(c.steps) /\ StepOf(c, x).name = x
<1>1. PICK steps : steps = c.steps /\ steps \in Seq(Range(steps))
  BY ChainAssumption
<1>2. PICK N \in Nat : N = Len(steps) /\ DOMAIN steps = 1..N
  BY <1>1, LenProperties
<1>3. PICK names : names = [i \in 1..N |-> steps[i].name]
  OBVIOUS
<1>4. StepNames(c) = names /\ DOMAIN names = 1..N
  BY <1>1, <1>2, <1>3 DEF StepNames
<1>5. names \in Seq(Range(names)) /\ Range(names) = {steps[i].name : i \in 1..N}
  BY <1>3 DEF Range
<1>6. \A i \in 1..N : steps[i] \in Range(steps) /\ steps[i].name \in Range(names)
  BY <1>2, <1>5 DEF Range
<1>7. ASSUME NEW x \in Range(names)
      PROVE  /\ PlaceOf(c, x) \in 1..N /\ steps[PlaceOf(c, x)].name = x
             /\ StepOf(c, x) \in Range(steps) /\ StepOf(c, x).name = x
  <2> DEFINE T == {i \in 1..N : steps[i].name = x}
  <2>1. T \subseteq Nat /\ T # {}
    BY <1>5
  <2>2. PICK least \in T : \A n \in T : least <= n
    <3> HIDE DEF T
    <3> QED
      BY <2>1, LeastNatural
  <2>3. /\ least \in DOMAIN steps /\ steps[least].name = x
        /\ \A j \in DOMAIN steps : steps[j].name = x => least <= j
    BY <1>2, <2>2
  <2> HIDE DEF T
  <2>4. PlaceOf(c, x) \in DOMAIN steps /\ steps[PlaceOf(c, x)].name = x
    BY <1>1, <2>3 DEF PlaceOf
  <2>5. QED
    BY <1>1, <1>2, <1>6, <2>4 DEF StepOf
<1>8. QED
  BY <1>1, <1>2, <1>4, <1>5, <1>6, <1>7

\* The list with nothing in it.
LEMMA NothingListed ==
    ASSUME NEW S
    PROVE  <<>> \in Seq(S) /\ IsInjective(<<>>) /\ Range(<<>>) = {}
<1>1. <<>> \in Seq(S) /\ DOMAIN <<>> = {}
  BY EmptySeq
<1>2. IsInjective(<<>>)
  BY <1>1 DEF IsInjective
<1>3. Range(<<>>) = {}
  BY <1>1 DEF Range
<1>4. QED
  BY <1>1, <1>2, <1>3

\* An attempt tries a step of every name, and each step once.
LEMMA EveryStepTried ==
    ASSUME chain \in Chains, who = "executor" => validate_chain_config(chain)
    PROVE  /\ StepsTried(chain) \in Seq(StepsAt) /\ IsInjective(StepsTried(chain))
           /\ {chain.steps[i].name : i \in Range(StepsTried(chain))} = StepsHere
           /\ who = "executor" => \A i \in Range(StepsTried(chain)) :
                                     i = PlaceOf(chain, chain.steps[i].name)
<1>1. PICK names : /\ names = StepNames(chain) /\ names \in Seq(StepsHere)
                   /\ Range(names) = StepsHere
  BY StepOfName DEF StepsHere
<1>0. PICK steps : steps = chain.steps /\ steps \in Seq(Range(steps)) /\ StepsAt = DOMAIN steps
  BY StepOfName DEF StepsAt
<1>2. CASE who # "executor"
  <2>1. PICK N \in Nat : DOMAIN steps = 1..N
    BY <1>0, LenProperties
  <2>2. StepsTried(chain) = [i \in 1..N |-> i]
    BY <1>0, <1>2, <2>1 DEF StepsTried
  <2>3. PICK tried : tried = [i \in 1..N |-> i]
    OBVIOUS
  <2>4. tried \in Seq(1..N) /\ IsInjective(tried) /\ Range(tried) = 1..N
    BY <2>3 DEF IsInjective, Range
  <2>5. {steps[i].name : i \in 1..N} = StepsHere
    BY <1>0, <2>1, StepOfName DEF StepsHere
  <2>6. QED
    BY <1>0, <1>2, <2>1, <2>2, <2>3, <2>4, <2>5
<1>3. CASE who = "executor"
  <2>1. PICK needs : needs = Needs(chain)
    OBVIOUS
  <2>2. DOMAIN needs = StepsHere /\ IsFiniteSet(DOMAIN needs)
    BY <1>1, <2>1, RangeCounted DEF Needs, StepsHere
  <2>3. \A x \in StepsHere : /\ needs[x] = StepOf(chain, x).depends_on
                             /\ StepOf(chain, x) \in Range(chain.steps)
    BY <2>1, StepOfName DEF Needs, StepsHere
  <2>4. \A x \in StepsHere : needs[x] \in Seq(Range(needs[x])) /\ Range(needs[x]) \subseteq StepsHere
    BY <1>3, <2>3, ChainAssumption DEF validate_chain_config, StepsHere
  <2>5. ASSUME NEW x \in DOMAIN needs
        PROVE  needs[x] \in Seq(Names(needs))
    <3>1. PICK list : list = needs[x] /\ list \in Seq(Range(list))
      BY <2>2, <2>4
    <3>2. Range(list) \subseteq Names(needs)
      BY <3>1 DEF Names
    <3>3. QED
      BY <3>1, <3>2, SeqMonotonic
  <2>6. Graph(needs)
    BY <2>2, <2>5 DEF Graph
  <2>7. ~Circular(needs) /\ ~Dangling(needs)
    BY <1>3, <2>1, <2>2, <2>4 DEF validate_chain_config, has_circular_dependencies, Dangling
  <2>8. names \in Seq(DOMAIN needs)
    BY <1>1, <2>2
  <2>9. PICK order : order = resolve(needs, names).order
    OBVIOUS
  <2>10. Ordered(needs, order) /\ Range(names) \subseteq Range(order)
    BY <2>6, <2>7, <2>8, <2>9, ResolveSound
  <2>11. order \in Seq(StepsHere) /\ IsInjective(order) /\ Range(order) = StepsHere
    <3>1. order \in Seq(StepsHere) /\ IsInjective(order)
      BY <2>2, <2>10 DEF Ordered
    <3>2. Range(order) \subseteq StepsHere
      BY <3>1, RangeFacts
    <3>3. QED
      BY <1>1, <2>10, <3>1, <3>2
  <2>12. PICK N \in Nat : N = Len(order)
    BY <2>11, LenProperties
  <2>13. PICK back : /\ back = Reverse(order) /\ back \in Seq(StepsHere) /\ IsInjective(back)
                     /\ Range(back) = StepsHere /\ DOMAIN back = 1..N
    BY <2>11, <2>12, ReverseFacts, LenProperties
  <2>14. calculate_execution_order(chain) = back
    BY <1>1, <2>1, <2>9, <2>13 DEF calculate_execution_order
  <2>15. PICK tried : tried = [k \in 1..N |-> PlaceOf(chain, back[k])]
    OBVIOUS
  <2>16. StepsTried(chain) = tried
    BY <1>3, <2>13, <2>14, <2>15 DEF StepsTried
  <2>17. \A x \in StepsHere : PlaceOf(chain, x) \in StepsAt /\ steps[PlaceOf(chain, x)].name = x
    BY <1>0, StepOfName DEF StepsHere, StepsAt
  <2>18. \A k \in 1..N : /\ back[k] \in StepsHere /\ tried[k] \in StepsAt
                         /\ tried[k] = PlaceOf(chain, back[k]) /\ steps[tried[k]].name = back[k]
    BY <2>13, <2>15, <2>17
  <2>19. tried \in Seq(StepsAt) /\ DOMAIN tried = 1..N
    <3>1. tried \in [1..N -> StepsAt]
      BY <2>15, <2>18
    <3>2. QED
      BY <2>15, <3>1
  <2>20. IsInjective(tried)
    BY <2>13, <2>18, <2>19 DEF IsInjective
  <2>21. {steps[i].name : i \in Range(tried)} = StepsHere
    BY <2>13, <2>18, <2>19 DEF Range
  <2>22. \A i \in Range(tried) : i = PlaceOf(chain, steps[i].name)
    BY <2>18, <2>19 DEF Range
  <2>23. QED
    BY <1>0, <2>16, <2>19, <2>20, <2>21, <2>22
<1>4. QED
  BY <1>2, <1>3

\* More of something is not less.
LEMMA TimesMore ==
    ASSUME NEW a \in Nat, NEW b \in Nat, NEW q \in Nat, a <= b
    PROVE  a * q \in Nat /\ a * q <= b * q
<1>1. PICK d \in Nat : b = a + d
  <2>1. b - a \in Nat /\ b = a + (b - a)
    OBVIOUS
  <2>2. QED
    BY <2>1
<1>2. b * q = a * q + d * q /\ d * q \in Nat /\ a * q \in Nat
  BY <1>1
<1>3. QED
  BY <1>2

\* One more attempt may ask as often again.
LEMMA OneMoreAttempt ==
    ASSUME NEW a \in Nat, NEW q \in Nat, NEW most \in Nat, a + 1 <= most
    PROVE  a * q \in Nat /\ (a + 1) * q = a * q + q /\ a * q + q <= most * q
<1>1. a * q \in Nat /\ (a + 1) * q = a * q + q
  OBVIOUS
<1>2. (a + 1) * q <= most * q
  BY TimesMore
<1>3. QED
  BY <1>1, <1>2

-----------------------------------------------------------------------------
(***************************************************************************)
(* Chains: every action preserves the invariant                            *)
(***************************************************************************)
\* The step that is tried next.
LEMMA StepTried ==
    ASSUME ChainTyped, todo # <<>>, Counts, chain' = chain
    PROVE  /\ Step.name \in StepsHere /\ Head(todo) \in StepsAt /\ Head(todo) \in Range(todo)
           /\ Tail(todo) \in Seq(StepsAt) /\ IsInjective(Tail(todo))
           /\ Head(todo) \notin Range(Tail(todo))
           /\ Range(todo) = {Head(todo)} \cup Range(Tail(todo))
           /\ Len(todo) = 1 => Tail(todo) = <<>>
           /\ requests' \in [StepsAt -> Nat] /\ ran' \in Seq(StepsAt)
           /\ \A n \in StepsAt :
                 requests'[n] <= IF n = Head(todo) THEN requests[n] + 1 ELSE requests[n]
<1>1. PICK list \in Seq(StepsAt) : list = todo /\ list # <<>> /\ IsInjective(list)
  BY DEF ChainTyped
<1>2. /\ Head(list) \in StepsAt /\ Tail(list) \in Seq(StepsAt) /\ IsInjective(Tail(list))
      /\ Head(list) \notin Range(Tail(list)) /\ Range(list) = {Head(list)} \cup Range(Tail(list))
  BY <1>1, OnceTail
<1>3. Len(Tail(list)) = Len(list) - 1
  BY <1>1, RangeTail
<1>4. Len(list) = 1 => Tail(list) = <<>>
  <2>1. PICK others \in Seq(StepsAt) : others = Tail(list) /\ Len(others) = Len(list) - 1
    BY <1>2, <1>3
  <2>2. Len(list) = 1 => Len(others) = 0
    BY <2>1
  <2>3. QED
    BY <2>1, <2>2, EmptySeq
<1>5. PICK place : place = Head(todo) /\ place \in StepsAt
  BY <1>1, <1>2
<1>6. Step.name \in StepsHere
  BY <1>5, StepOfName DEF Step, ChainTyped, StepsHere, StepsAt
<1>7. requests' \in [StepsAt -> Nat] /\ \A n \in StepsAt :
         requests'[n] <= IF n = place THEN requests[n] + 1 ELSE requests[n]
  <2>1. CASE Asks
    <3>1. requests' = [requests EXCEPT ![place] = @ + 1]
      BY <1>5, <2>1 DEF Counts
    <3>2. QED
      BY <1>5, <3>1 DEF ChainTyped
  <2>2. CASE ~Asks
    <3>1. requests' = requests
      BY <2>2 DEF Counts
    <3>2. QED
      BY <3>1 DEF ChainTyped
  <2>3. QED
    BY <2>1, <2>2
<1>8. ran' \in Seq(StepsAt)
  BY <1>5, RangeAppend DEF Counts, ChainTyped
<1>9. QED
  BY <1>1, <1>2, <1>4, <1>5, <1>6, <1>7, <1>8

\* What was spent when the step that is tried has its answer.
LEMMA StepSpent ==
    ASSUME ChainInv, outcome = "running", todo # <<>>, Counts, chain' = chain
    PROVE  /\ Quantum \in Nat /\ Spent \in Nat
           /\ Spent + Quantum <= MaxAttempts * Quantum
           /\ (attempt + 1) * Quantum = Spent + Quantum
           /\ \A n \in StepsAt :
                 requests'[n] <= IF n \in Range(Tail(todo)) THEN Spent ELSE Spent + Quantum
           /\ requests'[Head(todo)] <= Spent + tries + 1
<1>1. ChainTyped /\ Counted
  BY DEF ChainInv
<1>2. /\ Head(todo) \in StepsAt /\ Head(todo) \in Range(todo)
      /\ Head(todo) \notin Range(Tail(todo))
      /\ Range(todo) = {Head(todo)} \cup Range(Tail(todo))
      /\ requests' \in [StepsAt -> Nat]
      /\ \A n \in StepsAt :
            requests'[n] <= IF n = Head(todo) THEN requests[n] + 1 ELSE requests[n]
  BY <1>1, StepTried
<1>3. Quantum \in Nat /\ MaxAttempts \in Nat
  BY ChainAssumption DEF Quantum
<1>4. attempt \in Nat /\ tries \in Nat /\ attempt + 1 <= MaxAttempts /\ requests \in [StepsAt -> Nat]
  BY <1>1 DEF ChainTyped, Counted
<1>5. /\ Spent \in Nat /\ Spent + Quantum <= MaxAttempts * Quantum
      /\ (attempt + 1) * Quantum = Spent + Quantum
  BY <1>3, <1>4, OneMoreAttempt DEF Spent
<1>6. /\ tries + 1 <= Quantum
      /\ \A n \in StepsAt :
            requests[n] <= IF n \notin Range(todo) THEN Spent + Quantum
                           ELSE IF n = Head(todo) THEN Spent + tries ELSE Spent
  BY <1>1 DEF Counted
<1>7. PICK spent \in Nat, quantum \in Nat : spent = Spent /\ quantum = Quantum
  BY <1>3, <1>5
<1>8. ASSUME NEW n \in StepsAt
      PROVE  /\ requests'[n] <= IF n \in Range(Tail(todo)) THEN spent ELSE spent + quantum
             /\ n = Head(todo) => requests'[n] <= spent + tries + 1
  <2>1. requests[n] \in Nat /\ requests'[n] \in Nat
    BY <1>2, <1>4
  <2>2. CASE n = Head(todo)
    BY <1>2, <1>4, <1>6, <1>7, <2>1, <2>2
  <2>3. CASE n # Head(todo)
    BY <1>2, <1>4, <1>6, <1>7, <2>1, <2>3
  <2>4. QED
    BY <2>2, <2>3
<1>9. QED
  BY <1>2, <1>3, <1>5, <1>7, <1>8

\* Whoever names a token names those it rests on.
LEMMA TokensStay ==
    ASSUME TokensRest, chain' = chain, held' = held
    PROVE  TokensRest'
BY DEF TokensRest

\* A chain begins or is refused.
LEMMA ChainExecutes ==
    ASSUME ChainInv, execute_chain
    PROVE  ChainInv'
<1>1. /\ outcome = "idle"
      /\ outcome' = IF (who = "executor" /\ ~validate_chain_config(chain)) \/ MaxAttempts = 0
                    THEN "error" ELSE IF chain.steps = <<>> THEN "ok" ELSE "running"
      /\ todo' = IF outcome' = "running" THEN StepsTried(chain) ELSE <<>>
      /\ UNCHANGED <<chain, who, attempt, tries, held, failed, ran, requests>>
  BY DEF execute_chain
<1>2. ChainTyped /\ Counted /\ MaxAttempts \in Nat /\ Quantum \in Nat
  BY ChainAssumption DEF ChainInv, Quantum
<1>3. /\ held = {} /\ failed = <<>> /\ attempt = 0 /\ tries = 0 /\ todo = <<>>
      /\ \A n \in StepsAt : requests[n] = 0
  BY <1>1, <1>2 DEF Counted
<1>4. StepsHere' = StepsHere /\ StepsAt' = StepsAt /\ Quantum' = Quantum /\ Spent' = Spent
  BY <1>1 DEF StepsHere, StepsAt, Quantum, Spent
<1>5. /\ outcome' = "running" =>
            /\ todo' = StepsTried(chain) /\ MaxAttempts # 0
            /\ who = "executor" => validate_chain_config(chain)
      /\ outcome' = "ok" => chain.steps = <<>>
      /\ outcome' # "running" => todo' = <<>>
      /\ outcome' \in {"running", "ok", "error"}
  BY <1>1
<1>6. <<>> \in Seq(StepsAt) /\ IsInjective(<<>>) /\ Range(<<>>) = {}
  BY NothingListed
<1>7. /\ todo' \in Seq(StepsAt) /\ IsInjective(todo')
      /\ outcome' = "running" => {chain.steps[i].name : i \in Range(todo')} = StepsHere
      /\ who = "executor" => \A i \in Range(todo') : i = PlaceOf(chain, chain.steps[i].name)
  BY <1>2, <1>5, <1>6, EveryStepTried DEF ChainTyped
<1>8. ChainTyped'
  BY <1>1, <1>2, <1>4, <1>5, <1>7 DEF ChainTyped
<1>9. Counted'
  <2>1. Spent = 0 /\ 0 <= MaxAttempts * Quantum
    BY <1>2, <1>3 DEF Spent
  <2>2. outcome' = "running" => tries' + 1 <= Quantum /\ attempt' + 1 <= MaxAttempts
    BY <1>1, <1>2, <1>3, <1>5 DEF Quantum
  <2>3. \A n \in StepsAt : requests'[n] = 0
    BY <1>1, <1>3
  <2>4. 0 <= Spent' + Quantum' /\ 0 <= Spent' + tries' /\ 0 <= Spent' /\ attempt' <= MaxAttempts
    BY <1>1, <1>2, <1>3, <1>4, <2>1
  <2>5. QED
    BY <1>1, <1>3, <1>4, <1>5, <2>1, <2>2, <2>3, <2>4 DEF Counted
<1>10. outcome' = "ok" => StepsHere = {}
  <2>1. ASSUME chain.steps = <<>>
        PROVE  StepsHere = {}
    <3>1. StepNames(chain) = [i \in DOMAIN <<>> |-> chain.steps[i].name] /\ DOMAIN <<>> = {}
      BY <2>1, <1>6, LenProperties DEF StepNames
    <3>2. DOMAIN StepNames(chain) = {}
      BY <3>1
    <3>3. QED
      BY <3>2 DEF StepsHere, Range
  <2>2. QED
    BY <1>5, <2>1
<1>11. outcome' \in {"running", "ok"} => Answered'
  <2>1. Pending' = {chain.steps[i].name : i \in Range(todo')}
    BY <1>1 DEF Pending
  <2>2. outcome' = "ok" => Pending' = {}
    BY <1>5, <1>6, <2>1
  <2>3. QED
    BY <1>1, <1>3, <1>4, <1>5, <1>6, <1>7, <1>10, <2>1, <2>2 DEF Answered
<1>12. TokensRest' /\ ContinuesOnError'
  BY <1>1, <1>2, TokensStay DEF ChainInv, ContinuesOnError
<1>13. QED
  BY <1>1, <1>5, <1>8, <1>9, <1>11, <1>12 DEF ChainInv

\* A step has its answer, and the chain goes on with the next one.
LEMMA ChainProceeds ==
    ASSUME ChainInv, outcome = "running", todo # <<>>, Counts, Proceeds,
           UNCHANGED <<chain, who>>, TokensRest',
           \/ held' = held \cup {Step.name} /\ failed' = failed
           \/ held' = held /\ failed' = Append(failed, Step.name)
    PROVE  ChainInv'
<1>1. /\ todo' = Tail(todo) /\ tries' = 0 /\ attempt' = attempt
      /\ outcome' = IF Len(todo) = 1 THEN "ok" ELSE "running"
      /\ chain' = chain /\ who' = who
  BY DEF Proceeds
<1>2. ChainTyped /\ Counted /\ Answered /\ MaxAttempts \in Nat
  BY ChainAssumption DEF ChainInv
<1>3. StepsHere' = StepsHere /\ StepsAt' = StepsAt /\ Quantum' = Quantum /\ Spent' = Spent
  BY <1>1 DEF StepsHere, StepsAt, Quantum, Spent
<1>4. PICK name \in StepsHere, place \in StepsAt :
        /\ name = Step.name /\ place = Head(todo) /\ place \in Range(todo)
        /\ place \notin Range(Tail(todo)) /\ Range(todo) = {place} \cup Range(Tail(todo))
        /\ Tail(todo) \in Seq(StepsAt) /\ IsInjective(Tail(todo))
        /\ Len(todo) = 1 => Tail(todo) = <<>>
        /\ requests' \in [StepsAt -> Nat] /\ ran' \in Seq(StepsAt)
  BY <1>1, <1>2, StepTried
<1>5. failed \in Seq(StepsHere) /\ held \subseteq StepsHere
  BY <1>2 DEF ChainTyped
<1>6. /\ failed' \in Seq(StepsHere) /\ held' \subseteq StepsHere
      /\ \/ held' = held \cup {name} /\ Range(failed') = Range(failed)
         \/ held' = held /\ Range(failed') = Range(failed) \cup {name}
  <2>1. CASE held' = held \cup {Step.name} /\ failed' = failed
    BY <1>4, <1>5, <2>1
  <2>2. CASE held' = held /\ failed' = Append(failed, Step.name)
    <3>1. held' = held /\ failed' = Append(failed, name)
      BY <1>4, <2>2
    <3>2. Append(failed, name) \in Seq(StepsHere)
      BY <1>4, <1>5
    <3>3. Range(Append(failed, name)) = Range(failed) \cup {name}
      BY <1>4, <1>5, RangeAppend
    <3>4. QED
      BY <1>5, <3>1, <3>2, <3>3
  <2>3. QED
    BY <2>1, <2>2
<1>7. outcome' \in {"ok", "running"}
  BY <1>1
<1>8. ChainTyped'
  BY <1>1, <1>2, <1>3, <1>4, <1>6, <1>7 DEF ChainTyped
<1>9. Counted'
  <2>1. PICK spent \in Nat, quantum \in Nat :
           /\ spent = Spent /\ quantum = Quantum /\ spent + quantum <= MaxAttempts * quantum
           /\ \A n \in StepsAt :
                 requests'[n] <= IF n \in Range(Tail(todo)) THEN spent ELSE spent + quantum
    BY <1>1, StepSpent
  <2>2. attempt + 1 <= MaxAttempts /\ 1 <= quantum /\ attempt \in Nat
    BY <1>2, <2>1 DEF Counted, ChainTyped
  <2>3. ASSUME NEW n \in StepsAt
        PROVE  /\ requests'[n] <= IF n \notin Range(todo') THEN Spent' + Quantum'
                                  ELSE IF n = Head(todo') THEN Spent' + tries' ELSE Spent'
               /\ requests'[n] <= MaxAttempts * Quantum'
    <3>1. requests'[n] \in Nat /\ MaxAttempts * quantum \in Nat
      BY <1>2, <1>4
    <3>2. requests'[n] <= IF n \in Range(todo') THEN spent ELSE spent + quantum
      BY <1>1, <2>1
    <3>3. Spent' = spent /\ Quantum' = quantum
      BY <1>3, <2>1
    <3>4. requests'[n] <= spent + quantum
      BY <2>1, <3>1, <3>2
    <3>5. requests'[n] <= MaxAttempts * quantum
      BY <2>1, <3>1, <3>4
    <3>6. QED
      BY <1>1, <3>1, <3>2, <3>3, <3>5
  <2>4. tries' + 1 <= Quantum' /\ attempt' + 1 <= MaxAttempts /\ attempt' <= MaxAttempts
    BY <1>1, <1>2, <1>3, <2>1, <2>2
  <2>5. QED
    BY <1>1, <1>3, <1>4, <1>7, <2>3, <2>4 DEF Counted
<1>10. Answered'
  <2>1. /\ Pending = {name} \cup Pending'
        /\ Pending' = {chain.steps[i].name : i \in Range(Tail(todo))}
    BY <1>1, <1>4 DEF Pending, Step
  <2>2. who = "executor" => name \notin Pending'
    <3>1. ASSUME who = "executor", NEW i \in Range(Tail(todo))
          PROVE  chain.steps[i].name # name
      <4>1. i = PlaceOf(chain, chain.steps[i].name) /\ place = PlaceOf(chain, chain.steps[place].name)
        BY <1>2, <1>4, <3>1 DEF ChainTyped
      <4>2. chain.steps[place].name = name /\ i # place
        BY <1>4 DEF Step
      <4>3. QED
        BY <4>1, <4>2
    <3>2. QED
      BY <2>1, <3>1
  <2>3. QED
    BY <1>1, <1>2, <1>3, <1>6, <2>1, <2>2 DEF Answered
<1>11. ContinuesOnError'
  BY <1>7 DEF ContinuesOnError
<1>12. outcome' \in {"running", "again"} /\ who' = "executor" => validate_chain_config(chain)'
  BY <1>1 DEF ChainInv
<1>13. QED
  BY <1>7, <1>8, <1>9, <1>10, <1>11, <1>12 DEF ChainInv

\* A step that succeeds rests on tokens that are held.
LEMMA ChainSucceeds ==
    ASSUME ChainInv, step_succeeds
    PROVE  ChainInv'
<1>1. /\ outcome = "running" /\ todo # <<>> /\ Counts /\ Proceeds
      /\ held' = held \cup {Step.name} /\ failed' = failed /\ UNCHANGED <<chain, who>>
  BY DEF step_succeeds
<1>2. Range(Step.depends_on) \subseteq held
  BY DEF step_succeeds, execute_single_step, Asks
<1>3. Head(todo) \in DOMAIN chain.steps /\ Step = chain.steps[Head(todo)]
  BY <1>1, StepTried DEF Step, ChainInv, StepsAt
<1>4. TokensRest'
  BY <1>1, <1>2, <1>3 DEF ChainInv, TokensRest
<1>5. QED
  BY <1>1, <1>4, ChainProceeds

\* A step that fails, and the chain goes on.
LEMMA ChainFailsOn ==
    ASSUME ChainInv, step_fails_on
    PROVE  ChainInv'
<1>1. /\ outcome = "running" /\ todo # <<>> /\ Counts /\ Proceeds
      /\ held' = held /\ failed' = Append(failed, Step.name) /\ UNCHANGED <<chain, who>>
  BY DEF step_fails_on
<1>2. TokensRest'
  BY <1>1, TokensStay DEF ChainInv
<1>3. QED
  BY <1>1, <1>2, ChainProceeds

\* A step is tried again.
LEMMA ChainRetries ==
    ASSUME ChainInv, execute_step_with_retry
    PROVE  ChainInv'
<1>1. /\ outcome = "running" /\ todo # <<>> /\ who = "executor" /\ Counts
      /\ tries < MaxAttempts - 1 /\ tries' = tries + 1
      /\ UNCHANGED <<chain, who, todo, attempt, held, failed, outcome>>
  BY DEF execute_step_with_retry, may_retry
<1>2. ChainTyped /\ Counted /\ Answered /\ MaxAttempts \in Nat
  BY <1>1, ChainAssumption DEF ChainInv
<1>3. /\ StepsHere' = StepsHere /\ StepsAt' = StepsAt /\ Quantum' = Quantum
      /\ Spent' = Spent /\ Quantum = MaxAttempts
  BY <1>1 DEF StepsHere, StepsAt, Quantum, Spent
<1>4. requests' \in [StepsAt -> Nat] /\ ran' \in Seq(StepsAt) /\ tries \in Nat
  BY <1>1, <1>2, StepTried DEF ChainTyped
<1>5. ChainTyped'
  BY <1>1, <1>2, <1>3, <1>4 DEF ChainTyped
<1>6. Counted'
  <2>1. PICK spent \in Nat, quantum \in Nat :
           /\ spent = Spent /\ quantum = Quantum
           /\ \A n \in StepsAt :
                 requests'[n] <= IF n \in Range(Tail(todo)) THEN spent ELSE spent + quantum
           /\ requests'[Head(todo)] <= spent + tries + 1
    BY <1>1, StepSpent
  <2>2. Range(todo) = {Head(todo)} \cup Range(Tail(todo))
    BY <1>1, <1>2, StepTried
  <2>3. ASSUME NEW n \in StepsAt
        PROVE  requests'[n] <= IF n \notin Range(todo') THEN Spent' + Quantum'
                               ELSE IF n = Head(todo') THEN Spent' + tries' ELSE Spent'
    <3>1. requests'[n] \in Nat
      BY <1>4
    <3>2. spent + tries + 1 = spent + (tries + 1)
      BY <1>4
    <3>3. QED
      BY <1>1, <1>3, <2>1, <2>2, <3>1, <3>2
  <2>4. tries' + 1 <= Quantum' /\ attempt' + 1 <= MaxAttempts
    BY <1>1, <1>2, <1>3, <1>4 DEF Counted
  <2>5. QED
    BY <1>1, <1>3, <2>3, <2>4 DEF Counted
<1>7. Answered'
  BY <1>1, <1>2, <1>3 DEF Answered, Pending
<1>8. TokensRest' /\ ContinuesOnError'
  BY <1>1, TokensStay DEF ChainInv, ContinuesOnError
<1>9. QED
  BY <1>1, <1>5, <1>6, <1>7, <1>8 DEF ChainInv

\* A step stops the attempt.
LEMMA ChainStops ==
    ASSUME ChainInv, step_stops_chain
    PROVE  ChainInv'
<1>1. /\ outcome = "running" /\ todo # <<>> /\ Stops /\ Counts
      /\ \/ attempt < MaxAttempts - 1 /\ outcome' = "again" /\ attempt' = attempt + 1
         \/ outcome' = "error" /\ attempt' = attempt
      /\ failed' = Append(failed, Step.name) /\ todo' = <<>> /\ tries' = 0
      /\ UNCHANGED <<chain, who, held>>
  BY DEF step_stops_chain, may_retry
<1>2. ChainTyped /\ Counted /\ MaxAttempts \in Nat
  BY ChainAssumption DEF ChainInv
<1>3. StepsHere' = StepsHere /\ StepsAt' = StepsAt /\ Quantum' = Quantum
  BY <1>1 DEF StepsHere, StepsAt, Quantum
<1>4. /\ requests' \in [StepsAt -> Nat] /\ ran' \in Seq(StepsAt)
      /\ Step.name \in StepsHere /\ attempt \in Nat
  BY <1>1, <1>2, StepTried DEF ChainTyped
<1>5. failed' \in Seq(StepsHere)
  BY <1>1, <1>2, <1>4, RangeAppend DEF ChainTyped
<1>6. <<>> \in Seq(StepsAt) /\ IsInjective(<<>>) /\ Range(<<>>) = {}
  BY NothingListed
<1>7. ChainTyped'
  BY <1>1, <1>2, <1>3, <1>4, <1>5, <1>6 DEF ChainTyped
<1>8. Counted'
  <2>1. PICK spent \in Nat, quantum \in Nat :
           /\ spent = Spent /\ quantum = Quantum /\ spent + quantum <= MaxAttempts * quantum
           /\ (attempt + 1) * quantum = spent + quantum
           /\ \A n \in StepsAt :
                 requests'[n] <= IF n \in Range(Tail(todo)) THEN spent ELSE spent + quantum
    BY <1>1, StepSpent
  <2>2. ASSUME NEW n \in StepsAt
        PROVE  requests'[n] <= spent + quantum /\ requests'[n] <= MaxAttempts * quantum
    <3>1. requests'[n] \in Nat /\ MaxAttempts * quantum \in Nat
      BY <1>2, <1>4
    <3>2. requests'[n] <= spent + quantum
      BY <2>1, <3>1
    <3>3. QED
      BY <2>1, <3>1, <3>2
  <2>3. attempt + 1 <= MaxAttempts
    BY <1>1, <1>2 DEF Counted
  <2>4. CASE outcome' = "again"
    <3>1. attempt' = attempt + 1 /\ attempt' + 1 <= MaxAttempts
      BY <1>1, <1>2, <1>4, <2>4
    <3>2. Spent' = spent + quantum
      BY <1>3, <2>1, <3>1 DEF Spent
    <3>3. QED
      BY <1>1, <1>3, <2>2, <2>4, <3>1, <3>2 DEF Counted
  <2>5. CASE outcome' = "error"
    <3>1. attempt' <= MaxAttempts
      BY <1>1, <1>2, <1>4, <2>3, <2>5
    <3>2. QED
      BY <1>1, <1>3, <2>1, <2>2, <2>5, <3>1 DEF Counted
  <2>6. QED
    BY <1>1, <2>4, <2>5
<1>9. TokensRest'
  BY <1>1, TokensStay DEF ChainInv
<1>10. ContinuesOnError'
  BY <1>1 DEF ContinuesOnError, Stops
<1>11. outcome' \in {"again", "error"}
  BY <1>1
<1>12. QED
  BY <1>1, <1>7, <1>8, <1>9, <1>10, <1>11 DEF ChainInv

\* Another attempt.
LEMMA ChainAgain ==
    ASSUME ChainInv, next_attempt
    PROVE  ChainInv'
<1>1. /\ outcome = "again" /\ outcome' = "running" /\ todo' = StepsTried(chain) /\ ran' = <<>>
      /\ IF who = "executor" THEN held' = {} /\ failed' = <<>> ELSE UNCHANGED <<held, failed>>
      /\ UNCHANGED <<chain, who, attempt, tries, requests>>
  BY DEF next_attempt
<1>2. ChainTyped /\ Counted /\ MaxAttempts \in Nat /\ Quantum \in Nat
  BY ChainAssumption DEF ChainInv, Quantum
<1>3. StepsHere' = StepsHere /\ StepsAt' = StepsAt /\ Quantum' = Quantum /\ Spent' = Spent
  BY <1>1 DEF StepsHere, StepsAt, Quantum, Spent
<1>4. /\ todo' \in Seq(StepsAt) /\ IsInjective(todo')
      /\ {chain.steps[i].name : i \in Range(todo')} = StepsHere
      /\ who = "executor" => \A i \in Range(todo') : i = PlaceOf(chain, chain.steps[i].name)
      /\ who = "executor" => validate_chain_config(chain)
  BY <1>1, <1>2, EveryStepTried DEF ChainTyped, ChainInv
<1>5. <<>> \in Seq(StepsHere) /\ <<>> \in Seq(StepsAt) /\ Range(<<>>) = {}
  BY EmptySeq, RangeFacts
<1>6. /\ failed' \in Seq(StepsHere) /\ held' \in SUBSET StepsHere
      /\ who = "executor" => held' = {} /\ Range(failed') = {}
  BY <1>1, <1>2, <1>5 DEF ChainTyped
<1>7. ChainTyped'
  BY <1>1, <1>2, <1>3, <1>4, <1>5, <1>6 DEF ChainTyped
<1>8. Counted'
  <2>1. PICK spent \in Nat : spent = Spent
    <3>1. attempt \in Nat
      BY <1>2 DEF ChainTyped
    <3>2. QED
      BY <1>2, <3>1 DEF Spent
  <2>2. tries = 0 /\ attempt + 1 <= MaxAttempts /\ \A n \in StepsAt : requests[n] <= spent
    BY <1>1, <1>2, <2>1 DEF Counted
  <2>3. 1 <= Quantum
    BY <1>2, <2>2 DEF Quantum, ChainTyped
  <2>4. \A n \in StepsAt : /\ requests'[n] <= Spent' + tries' /\ requests'[n] <= Spent'
                          /\ requests'[n] <= Spent' + Quantum'
    <3>1. \A n \in StepsAt : requests'[n] \in Nat /\ requests'[n] <= spent
      BY <1>1, <1>2, <2>2 DEF ChainTyped
    <3>2. QED
      BY <1>1, <1>2, <1>3, <2>1, <2>2, <3>1
  <2>5. QED
    BY <1>1, <1>2, <1>3, <1>4, <2>2, <2>3, <2>4 DEF Counted
<1>9. Answered'
  <2>1. Range(failed') \subseteq StepsHere
    BY <1>6, RangeFacts
  <2>2. QED
    BY <1>1, <1>3, <1>4, <1>6, <2>1 DEF Answered, Pending
<1>10. TokensRest'
  BY <1>1 DEF ChainInv, TokensRest
<1>11. ContinuesOnError'
  BY <1>1 DEF ContinuesOnError
<1>12. QED
  BY <1>1, <1>4, <1>7, <1>8, <1>9, <1>10, <1>11 DEF ChainInv

\* The inductive invariant of chains.
THEOREM ChainInvariant == ChainSpec => []ChainInv
<1>1. ChainInit => ChainInv
  <2> SUFFICES ASSUME ChainInit PROVE ChainInv
    OBVIOUS
  <2>1. /\ chain \in Chains /\ who \in {"manager", "executor"}
        /\ todo = <<>> /\ attempt = 0 /\ tries = 0 /\ held = {} /\ failed = <<>> /\ ran = <<>>
        /\ requests = [i \in StepsAt |-> 0] /\ outcome = "idle"
    BY DEF ChainInit, StepsAt
  <2>2. /\ <<>> \in Seq(StepsHere) /\ <<>> \in Seq(StepsAt) /\ IsInjective(<<>>)
        /\ Range(<<>>) = {}
    BY NothingListed
  <2>3. ChainTyped
    BY <2>1, <2>2 DEF ChainTyped
  <2>4. QED
    BY <2>1, <2>3 DEF ChainInv, Counted, TokensRest, ContinuesOnError
<1>2. ChainInv /\ [ChainNext]_chainVars => ChainInv'
  <2> SUFFICES ASSUME ChainInv, [ChainNext]_chainVars PROVE ChainInv'
    OBVIOUS
  <2>1. CASE UNCHANGED chainVars
    BY <2>1 DEF chainVars, ChainInv, ChainTyped, Counted, TokensRest, ContinuesOnError, Answered,
                Pending, StepsHere, StepsAt, Spent, Quantum
  <2>2. QED
    BY <2>1, ChainExecutes, ChainAgain, ChainSucceeds, ChainRetries, ChainFailsOn, ChainStops
       DEF ChainNext
<1>3. QED
  BY <1>1, <1>2, PTL DEF ChainSpec

\* A configuration that is accepted is not refused by the request.
LEMMA WorksWhenAccepted ==
    ASSUME NEW own \in ConfigTypes, validate_config(own),
           own.type = "jwt" => own.algorithm \in {"HS256", "RS256"}
    PROVE  authenticate(own, "200") = "ok"
<1>1. CASE own.type = "basic"
  BY <1>1 DEF authenticate
<1>2. CASE own.type = "jwt"
  BY <1>2 DEF authenticate, create_mock_jwt
<1>3. CASE own.type = "oauth2"
  <2>1. validate_oauth2_config(own)
    BY <1>3 DEF validate_config
  <2>2. request_token(own, "200") = "ok"
    BY <2>1 DEF validate_oauth2_config, request_token
  <2>3. QED
    BY <1>3, <2>2 DEF authenticate
<1>4. QED
  BY <1>1, <1>2, <1>3 DEF ConfigTypes

\* What a chain ends with, whatever its steps, its strategy and the answers.
THEOREM ChainsAreSound == ChainSpec => []ChainSound
<1>1. ChainInv => ChainSound
  <2> SUFFICES ASSUME ChainInv PROVE ChainSound
    OBVIOUS
  <2>1. ChainTyped /\ Counted /\ TokensRest /\ ContinuesOnError /\ MaxAttempts \in Nat
    BY ChainAssumption DEF ChainInv
  <2>2. EveryStepAnswered
    <3>1. outcome = "ok" => Answered /\ todo = <<>>
      BY <2>1 DEF ChainInv, Counted
    <3>2. Range(<<>>) = {}
      BY EmptySeq, RangeFacts
    <3>3. QED
      BY <3>1, <3>2 DEF EveryStepAnswered, Answered, Pending, StepsHere
  <2>3. RequestsBounded
    <3>1. PICK quantum \in Nat : quantum = Quantum
      BY <2>1 DEF Quantum
    <3>2. ASSUME NEW n \in StepsAt
          PROVE  requests[n] <= MaxAttempts * quantum
      <4>1. requests[n] \in Nat /\ attempt \in Nat /\ tries \in Nat /\ MaxAttempts * quantum \in Nat
        BY <2>1, <3>1 DEF ChainTyped
      <4>2. CASE outcome = "idle"
        BY <2>1, <4>1, <4>2 DEF Counted
      <4>3. CASE outcome \in {"running", "again"}
        <5>1. attempt + 1 <= MaxAttempts
          BY <2>1, <4>3 DEF Counted
        <5>2. PICK spent \in Nat : spent = Spent /\ spent + quantum <= MaxAttempts * quantum
          BY <2>1, <3>1, <4>1, <5>1, OneMoreAttempt DEF Spent
        <5>3. requests[n] <= spent + quantum
          BY <2>1, <3>1, <4>1, <4>3, <5>2 DEF Counted
        <5>4. QED
          BY <4>1, <5>2, <5>3
      <4>4. CASE outcome \in {"ok", "error"}
        BY <2>1, <3>1, <4>4 DEF Counted
      <4>5. QED
        BY <2>1, <4>2, <4>3, <4>4 DEF ChainTyped
    <3>3. MaxAttempts * quantum = IF who = "executor" THEN MaxAttempts * MaxAttempts ELSE MaxAttempts
      BY <2>1, <3>1 DEF Quantum
    <3>4. QED
      BY <2>1, <3>2, <3>3 DEF RequestsBounded, ChainTyped
  <2>4. AcceptedWorks
    <3>1. ASSUME NEW i \in DOMAIN chain.steps
          PROVE  chain.steps[i].config \in ConfigTypes
      <4>1. chain.steps[i] \in Range(chain.steps)
        BY DEF Range
      <4>2. QED
        BY <2>1, <4>1, ChainAssumption DEF ChainTyped
    <3>2. QED
      BY <3>1, WorksWhenAccepted DEF AcceptedWorks
  <2>5. QED
    BY <2>1, <2>2, <2>3, <2>4 DEF ChainSound
<1>2. QED
  BY <1>1, ChainInvariant, PTL

\* The result of a chain names its steps only, and attempts are bounded.
THEOREM ChainTypeCorrect == ChainSpec => []ChainTypeOK
<1>1. ChainInv => ChainTypeOK
  <2> SUFFICES ASSUME ChainInv PROVE ChainTypeOK
    OBVIOUS
  <2>1. ChainTyped /\ Counted /\ MaxAttempts \in Nat
    BY ChainAssumption DEF ChainInv
  <2>2. /\ \A list \in Seq(StepsHere) : Range(list) \subseteq StepsHere
        /\ \A list \in Seq(StepsAt) : Range(list) \subseteq StepsAt
    BY RangeFacts
  <2>3. attempt <= MaxAttempts
    BY <2>1 DEF ChainTyped, Counted
  <2>4. QED
    BY <2>1, <2>2, <2>3 DEF ChainTyped, ChainTypeOK, StepsHere, StepsAt
<1>2. QED
  BY <1>1, ChainInvariant, PTL

-----------------------------------------------------------------------------
(***************************************************************************)
(* Configuration: its types, and that only valid configurations are ever   *)
(* in force, remembered or kept for a rollback.                            *)
(***************************************************************************)
Valid == {c \in Configs : validate_configuration_static(c)}

Loads == [op : {"load", "reload"}, rest : Seq(Paths), merged : Configs, backup : Valid]

HotLoads == [op : {"reload"}, rest : Seq(Paths), merged : Configs, backup : Valid]

\* What an operation or a reload carries along from one step to the next.
OwnerOK ==
    \/ owner = Resting
    \/ owner \in [op : {"snapshot"}, backup : Valid]
    \/ owner \in [op : {"push"}, backup : Valid, taken : Valid]
    \/ owner \in Loads

TaskOK ==
    \/ task = Resting
    \/ task \in [op : {"push"}, backup : Valid]
    \/ task \in HotLoads

ConfigInv ==
    /\ files \in [Paths -> Contents]
    /\ paths \in Seq(Paths) /\ watched \in Seq(Paths) /\ precedences \in Seq(Precedences)
    /\ config \in Valid
    /\ history \in Seq(Valid) /\ Len(history) <= MaxBackups
    /\ OwnerOK /\ TaskOK
    /\ modified \in Nat
    /\ override \in Overrides
    /\ reported \in BOOLEAN /\ raced \in BOOLEAN /\ chosen \in BOOLEAN

-----------------------------------------------------------------------------
\* The default configuration passes the validation of the hot reload.
LEMMA DefaultValid == default_configuration \in Valid
  <1>1. default_configuration \in Configs
    BY ConfigAssumption DEF default_configuration, Configs, Strategies
  <1>2. default_configuration.strategy \in Strategies /\ default_configuration.retry > 0
    BY DEF default_configuration, Strategies
  <1> QED BY <1>1, <1>2 DEF Valid, validate_configuration_static

\* What an owner's operation puts in force passed its own, stronger validation.
LEMMA StrongerValidation ==
  ASSUME NEW c \in Configs, validate_configuration(c)
  PROVE  c \in Valid
  BY DEF validate_configuration, Valid

\* Both merges of configurations give one.
LEMMA MergeTypes ==
  ASSUME NEW base \in Configs, NEW over \in Configs
  PROVE  /\ merge_configurations(base, over) \in Configs
         /\ merge_configurations_static(base, over) \in Configs
  BY DEF merge_configurations, merge_configurations_static, Configs

\* The environment changes single settings of a configuration.
LEMMA OverrideTypes ==
  ASSUME NEW c \in Configs, override \in Overrides
  PROVE  apply_environment_overrides(c) \in Configs
  BY ConfigAssumption DEF apply_environment_overrides, Configs

\* What can be read of a file is a configuration.
LEMMA FilesTyped ==
  ASSUME files \in [Paths -> Contents], NEW p \in Paths,
         files[p] # Broken, files[p] # Absent
  PROVE  files[p] \in Configs
  BY ConfigAssumption

\* The files are read in some order of the paths.
LEMMA ReadingOrderTypes ==
  ASSUME NEW ps \in Seq(Paths)
  PROVE  reading_order(ps) \in Seq(Paths)
  BY DEF reading_order, Reverse

\* The history stays within its limit.
LEMMA RememberTypes ==
  ASSUME history \in Seq(Valid), Len(history) <= MaxBackups, NEW c \in Valid
  PROVE  Remember(c) \in Seq(Valid) /\ Len(Remember(c)) <= MaxBackups
  <1> DEFINE longer == Append(history, c)
  <1>1. longer \in Seq(Valid) /\ Len(longer) = Len(history) + 1
    BY AppendProperties
  <1>2. Len(history) \in Nat /\ MaxBackups \in Nat \ {0}
    BY LenProperties, ConfigAssumption
  <1>3. CASE Len(longer) > MaxBackups
    <2>1. longer # <<>>
      BY <1>1, <1>2, EmptySeq
    <2>2. Tail(longer) \in Seq(Valid) /\ Len(Tail(longer)) = Len(longer) - 1
      <3> HIDE DEF longer
      <3> QED BY <1>1, <2>1, HeadTailProperties
    <2>3. Remember(c) = Tail(longer)
      BY <1>3 DEF Remember
    <2> QED BY <1>1, <1>2, <2>2, <2>3
  <1>4. CASE ~(Len(longer) > MaxBackups)
    <2>1. Remember(c) = longer
      BY <1>4 DEF Remember
    <2> QED BY <1>1, <1>2, <1>4, <2>1
  <1> QED BY <1>3, <1>4

-----------------------------------------------------------------------------
\* The invariant holds of a manager that was just made.
LEMMA InitInv ==
  ConfigInit => ConfigInv
  <1> SUFFICES ASSUME ConfigInit PROVE ConfigInv
    OBVIOUS
  <1>1. <<>> \in Seq(Paths) /\ <<>> \in Seq(Precedences) /\ <<>> \in Seq(Valid) /\ Len(<<>>) = 0
    BY EmptySeq
  <1>2. OwnerOK /\ TaskOK
    BY DEF ConfigInit, OwnerOK, TaskOK
  <1>3. paths \in Seq(Paths) /\ watched \in Seq(Paths) /\ precedences \in Seq(Precedences)
        /\ config \in Valid
    BY <1>1, DefaultValid DEF ConfigInit
  <1>4. history \in Seq(Valid) /\ Len(history) <= MaxBackups
    <2>1. MaxBackups \in Nat
      BY ConfigAssumption
    <2>2. Len(history) = 0
      BY <1>1 DEF ConfigInit
    <2>3. history \in Seq(Valid)
      BY <1>1 DEF ConfigInit
    <2> QED BY <2>1, <2>2, <2>3
  <1>5. reported \in BOOLEAN /\ raced \in BOOLEAN /\ chosen \in BOOLEAN
    BY DEF ConfigInit
  <1> QED BY <1>2, <1>3, <1>4, <1>5 DEF ConfigInit, ConfigInv

\* The operations that start a load or a reload, and those of a single step.
LEMMA OwnerBegins ==
  ASSUME ConfigInv,
         \/ \E p \in Paths, precedence \in Precedences : add_config_path(p, precedence)
         \/ load_configuration \/ reload_configuration
         \/ rollback_to_last_valid
         \/ \E c \in Given : put_in_force(c)
         \/ enable_hot_reload
  PROVE  ConfigInv'
  <1> USE DEF ConfigInv
  <1>1. (raced \/ task # Resting) \in BOOLEAN
    OBVIOUS
  <1>2. ASSUME NEW p \in Paths, NEW precedence \in Precedences, add_config_path(p, precedence)
        PROVE  ConfigInv'
    <2>1. <<p>> \o paths \in Seq(Paths) /\ <<precedence>> \o precedences \in Seq(Precedences)
      BY ConcatProperties
    <2> QED BY <1>2, <2>1 DEF add_config_path, Begin, ownerUnchanged, OwnerOK, TaskOK
  <1>3. CASE load_configuration
    <2>1. owner' \in Loads
      BY <1>3, ReadingOrderTypes, DefaultValid
         DEF load_configuration, Reading, Loads, Valid
    <2> QED BY <1>3, <2>1 DEF load_configuration, Begin, ownerUnchanged, OwnerOK, TaskOK
  <1>4. CASE reload_configuration
    BY <1>4 DEF reload_configuration, Begin, ownerUnchanged, OwnerOK, TaskOK
  <1>5. CASE rollback_to_last_valid
    <2>1. history[Len(history)] \in Valid
      BY <1>5, EmptySeq, LenProperties DEF rollback_to_last_valid
    <2> QED BY <1>5, <2>1
            DEF rollback_to_last_valid, Begin, ownerUnchanged, OwnerOK, TaskOK
  <1>6. ASSUME NEW c \in Given, put_in_force(c) PROVE ConfigInv'
    <2>1. c \in Valid
      BY <1>6, ConfigAssumption, StrongerValidation DEF put_in_force
    <2> QED BY <1>6, <2>1 DEF put_in_force, Begin, ownerUnchanged, OwnerOK, TaskOK
  <1>7. CASE enable_hot_reload
    BY <1>7 DEF enable_hot_reload, Begin, OwnerOK, TaskOK
  <1> QED BY <1>2, <1>3, <1>4, <1>5, <1>6, <1>7

\* An error puts the backup in force, which is valid.
LEMMA FailTypes ==
  ASSUME OwnerOK, config \in Valid, owner.op \in {"load", "reload"}, fail
  PROVE  config' \in Valid /\ OwnerOK'
  BY DEF fail, OwnerOK, Loads, Resting

\* The steps of the owner keep the invariant.
LEMMA OwnerSteps ==
  ASSUME ConfigInv, OwnerStep
  PROVE  ConfigInv'
  <1> USE DEF ConfigInv
  <1>1. CASE create_snapshot
    <2>1. CASE owner.op = "snapshot"
      <3>1. owner \in [op : {"snapshot"}, backup : Valid]
        BY <2>1 DEF OwnerOK, Loads, Resting
      <3> QED BY <1>1, <2>1, <3>1 DEF create_snapshot, ownerUnchanged, OwnerOK, TaskOK
    <2>2. CASE owner.op = "push"
      <3>1. owner.backup \in Valid /\ owner.taken \in Valid
        BY <2>2 DEF OwnerOK, Loads, Resting
      <3>2. history' \in Seq(Valid) /\ Len(history') <= MaxBackups
        BY <1>1, <2>2, <3>1, RememberTypes DEF create_snapshot
      <3>3. owner' \in Loads
        BY <1>1, <2>2, <3>1, ReadingOrderTypes, DefaultValid
           DEF create_snapshot, Reading, Loads, Valid
      <3> QED BY <1>1, <3>2, <3>3 DEF create_snapshot, ownerUnchanged, OwnerOK, TaskOK
    <2> QED BY <1>1, <2>1, <2>2 DEF create_snapshot
  <1>2. CASE load_config_file
    <2> DEFINE file == files[Head(owner.rest)]
    <2>1. owner \in Loads
      BY <1>2 DEF load_config_file, OwnerOK, Resting
    <2>2. CASE file = Broken
      <3>1. config' \in Valid /\ OwnerOK'
        BY <1>2, <2>2, FailTypes DEF load_config_file
      <3> QED BY <1>2, <3>1 DEF load_config_file, ownerUnchanged, TaskOK
    <2>3. CASE file # Broken
      <3>1. Head(owner.rest) \in Paths /\ Tail(owner.rest) \in Seq(Paths)
        BY <1>2, <2>1, HeadTailProperties DEF load_config_file, Loads
      <3>2. (IF file = Absent THEN owner.merged ELSE merge_configurations(owner.merged, file))
               \in Configs
        BY <2>1, <2>3, <3>1, FilesTyped, MergeTypes DEF Loads
      <3>3. owner' \in Loads
        BY <1>2, <2>1, <2>3, <3>1, <3>2 DEF load_config_file, Loads
      <3> QED BY <1>2, <2>3, <3>3 DEF load_config_file, ownerUnchanged, OwnerOK, TaskOK
    <2> QED BY <2>2, <2>3
  <1>3. CASE load_finish
    <2> DEFINE new == apply_environment_overrides(owner.merged)
    <2>1. owner \in Loads
      BY <1>3 DEF load_finish, OwnerOK, Resting
    <2>2. CASE override # "unparsable" /\ validate_configuration(new)
      <3>1. new \in Valid
        BY <2>1, <2>2, OverrideTypes, StrongerValidation DEF Loads
      <3> QED BY <1>3, <2>2, <3>1 DEF load_finish, ownerUnchanged, OwnerOK, TaskOK
    <2>3. CASE ~(override # "unparsable" /\ validate_configuration(new))
      <3>1. config' \in Valid /\ OwnerOK'
        BY <1>3, <2>3, FailTypes DEF load_finish
      <3> QED BY <1>3, <2>3, <3>1 DEF load_finish, ownerUnchanged, TaskOK
    <2> QED BY <2>2, <2>3
  <1> QED BY <1>1, <1>2, <1>3 DEF OwnerStep

LEMMA TaskSteps ==
  ASSUME ConfigInv, TaskStep
  PROVE  ConfigInv'
  <1> USE DEF ConfigInv
  <1>1. CASE hot_reload
    <2>1. task' \in HotLoads
      BY <1>1, ReadingOrderTypes, DefaultValid DEF hot_reload, HotLoads, Valid
    <2> QED BY <1>1, <2>1 DEF hot_reload, taskUnchanged, OwnerOK, TaskOK
  <1>2. CASE load_config_file_static
    <2> DEFINE file == files[Head(task.rest)]
    <2>1. task \in HotLoads
      BY <1>2 DEF load_config_file_static, TaskOK, Resting
    <2>2. CASE file = Broken
      BY <1>2, <2>1, <2>2
         DEF load_config_file_static, hot_fail, taskUnchanged, OwnerOK, TaskOK, HotLoads
    <2>3. CASE file # Broken
      <3>1. Head(task.rest) \in Paths /\ Tail(task.rest) \in Seq(Paths)
        BY <1>2, <2>1, HeadTailProperties DEF load_config_file_static, HotLoads
      <3>2. (IF file = Absent THEN task.merged
             ELSE merge_configurations_static(task.merged, file)) \in Configs
        BY <2>1, <2>3, <3>1, FilesTyped, MergeTypes DEF HotLoads
      <3>3. task' \in HotLoads
        BY <1>2, <2>1, <2>3, <3>1, <3>2 DEF load_config_file_static, HotLoads
      <3> QED BY <1>2, <2>3, <3>3 DEF load_config_file_static, taskUnchanged, OwnerOK, TaskOK
    <2> QED BY <2>2, <2>3
  <1>3. CASE reload_configuration_internal
    <2> DEFINE new == apply_environment_overrides(task.merged)
    <2>1. task \in HotLoads
      BY <1>3 DEF reload_configuration_internal, TaskOK, Resting
    <2>2. CASE override # "unparsable" /\ validate_configuration_static(new)
      <3>1. new \in Valid
        BY <2>1, <2>2, OverrideTypes DEF HotLoads, Valid
      <3>2. config' \in Valid /\ chosen' \in BOOLEAN
        BY <1>3, <2>2, <3>1 DEF reload_configuration_internal
      <3>3. task' \in [op : {"push"}, backup : Valid]
        BY <1>3, <2>1, <2>2 DEF reload_configuration_internal, HotLoads
      <3> QED BY <1>3, <3>2, <3>3
              DEF reload_configuration_internal, taskUnchanged, OwnerOK, TaskOK
    <2>3. CASE ~(override # "unparsable" /\ validate_configuration_static(new))
      BY <1>3, <2>1, <2>3
         DEF reload_configuration_internal, hot_fail, taskUnchanged, OwnerOK, TaskOK, HotLoads
    <2> QED BY <2>2, <2>3
  <1>4. CASE hot_snapshot
    <2>1. task.backup \in Valid
      BY <1>4 DEF hot_snapshot, TaskOK, HotLoads, Resting
    <2>2. history' \in Seq(Valid) /\ Len(history') <= MaxBackups
      BY <1>4, <2>1, RememberTypes DEF hot_snapshot
    <2> QED BY <1>4, <2>2 DEF hot_snapshot, taskUnchanged, OwnerOK, TaskOK
  <1> QED BY <1>1, <1>2, <1>3, <1>4 DEF TaskStep

\* A change of a file keeps the invariant: it changes nothing that was read before.
LEMMA FileChanges ==
  ASSUME ConfigInv, NEW p \in Paths, modify_file(p)
  PROVE  ConfigInv'
  <1> USE DEF ConfigInv
  <1>1. files' \in [Paths -> Contents]
    BY DEF modify_file
  <1>2. modified' \in Nat /\ reported' \in BOOLEAN
    BY DEF modify_file
  <1> QED BY <1>1, <1>2 DEF modify_file, OwnerOK, TaskOK

\* Every step keeps the invariant.
LEMMA NextInv ==
  ASSUME ConfigInv, [ConfigNext]_configVars
  PROVE  ConfigInv'
  <1>1. CASE ConfigNext
    BY <1>1, OwnerBegins, OwnerSteps, TaskSteps, FileChanges DEF ConfigNext
  <1>2. CASE UNCHANGED configVars
    BY <1>2 DEF configVars, ConfigInv, OwnerOK, TaskOK
  <1> QED BY <1>1, <1>2

\* The configuration manager keeps its invariant.
THEOREM ConfigurationInvariant == ConfigSpec => []ConfigInv
  BY InitInv, NextInv, PTL DEF ConfigSpec

\* The types, and that at most MaxBackups snapshots are kept.
THEOREM ConfigurationTypeCorrect == ConfigSpec => []ConfigTypeOK
  <1>1. ConfigInv => ConfigTypeOK
    <2> SUFFICES ASSUME ConfigInv PROVE ConfigTypeOK
      OBVIOUS
    <2>1. history \in Seq(Configs)
      BY DEF ConfigInv, Valid
    <2>2. owner.op \in {"idle", "snapshot", "push", "load", "reload"}
      BY DEF ConfigInv, OwnerOK, Loads, Resting
    <2>3. task.op \in {"idle", "reload", "push"}
      BY DEF ConfigInv, TaskOK, HotLoads, Resting
    <2> QED BY <2>1, <2>2, <2>3 DEF ConfigInv, ConfigTypeOK, Valid
  <1> QED BY <1>1, ConfigurationInvariant, PTL

\* No configuration that was not validated is ever in force, in the history, or kept by
\* the owner or by the task of the hot reload for the case of an error: for any files,
\* any number of them, any modifications and any interleaving of the two.
THEOREM OnlyValidInForce == ConfigSpec => []AlwaysValid
  <1>1. ConfigInv => AlwaysValid
    <2> SUFFICES ASSUME ConfigInv PROVE AlwaysValid
      OBVIOUS
    <2>1. \A i \in DOMAIN history : history[i] \in Valid
      BY LenProperties DEF ConfigInv
    <2> QED
      BY <2>1 DEF ConfigInv, AlwaysValid, Usable, Valid, validate_configuration_static, OwnerOK, TaskOK,
                  Loads, HotLoads
  <1> QED BY <1>1, ConfigurationInvariant, PTL

=============================================================================
