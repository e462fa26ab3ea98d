-------------------------- MODULE MCPluginManager --------------------------
(***************************************************************************)
(* Bounds for model-checking PluginManager: three files that depend on one *)
(* another; a change of the first removes it or closes a circle.           *)
(***************************************************************************)
EXTENDS PluginManager

CONSTANTS p1, p2, p3

Library(deps) == [kind |-> "library", deps |-> deps]

MCFirst == (p1 :> Library(<<>>)) @@ (p2 :> Library(<<p1>>)) @@ (p3 :> Library(<<p1, p2>>))

MCFiles == [n \in Plugins |-> IF n = p1 THEN {[kind |-> "absent", deps |-> <<>>],
                                             Library(<<>>), Library(<<p2>>)}
                             ELSE IF n = p2 THEN {MCFirst[n], Library(<<p1, p1>>)} ELSE {MCFirst[n]}]
MCFirstFiles == {MCFirst}
=============================================================================
