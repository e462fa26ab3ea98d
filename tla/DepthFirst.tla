----------------------------- MODULE DepthFirst -----------------------------
(***************************************************************************)
(* Steps in the order of their dependencies, depth first: visit_step of    *)
(* src/workflow_validation.rs and topological_sort of                      *)
(* src/auth_chain_executor.rs, which are the same search for steps whose   *)
(* dependencies are all there, as validate_chain_config makes sure for the *)
(* latter.  needs yields the names of the steps that a step depends on.    *)
(***************************************************************************)
EXTENDS Naturals, SequencesExt

Names(needs) == DOMAIN needs \cup UNION {Range(needs[id]) : id \in DOMAIN needs}

\* What was found: the order, or that there is none.
Refused == [ok |-> FALSE, order |-> <<>>]
Begun == [ok |-> TRUE, order |-> <<>>]
Founds(needs) == [ok : BOOLEAN, order : Seq(DOMAIN needs)]

\* A call: the steps being visited, the outermost first, the one to visit, what was found.
Calls(needs) == [stack : Seq(DOMAIN needs), id : Names(needs), found : Founds(needs)]
Call(stack, id, found) == [stack |-> stack, id |-> id, found |-> found]

\* One call for each of some names; each starts from what the one before it found.
call_each(visit, stack, ids, found) ==
    LET turns[k \in 0..Len(ids)] ==
            IF k = 0 THEN found ELSE visit[Call(stack, ids[k], turns[k - 1])]
    IN  turns[Len(ids)]

\* A step that is visited comes after all it depends on; deeper says what such visits find.
visit_step(needs, deeper, call) ==
    IF ~call.found.ok \/ call.id \in Range(call.stack) THEN Refused
    ELSE IF call.id \in Range(call.found.order) THEN call.found
    ELSE IF call.id \notin DOMAIN needs THEN Refused
    ELSE LET before == call_each(deeper, Append(call.stack, call.id), needs[call.id], call.found)
         IN  IF before.ok THEN [ok |-> TRUE, order |-> Append(before.order, call.id)]
             ELSE Refused

\* What the calls find that leave n steps not being visited; the stack of a call names no
\* step twice, so that no call is left when n is zero.
visits(needs) ==
    LET visit[n \in 0..Cardinality(DOMAIN needs)] ==
            [call \in Calls(needs) |->
                IF n = 0 THEN Refused ELSE visit_step(needs, visit[n - 1], call)]
    IN  visit

\* Every step is visited in turn.
resolve(needs, ids) ==
    call_each(visits(needs)[Cardinality(DOMAIN needs)], <<>>, ids, Begun)

\* Some step depends on itself, through others or not.
Circular(needs) ==
    \E n \in 1..Cardinality(DOMAIN needs) : \E path \in [0..n -> DOMAIN needs] :
        path[0] = path[n] /\ \A k \in 1..n : path[k] \in Range(needs[path[k - 1]])

\* Some step depends on one that is not there.
Dangling(needs) == \E id \in DOMAIN needs : ~(Range(needs[id]) \subseteq DOMAIN needs)
=============================================================================
