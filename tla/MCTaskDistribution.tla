------------------------ MODULE MCTaskDistribution ------------------------
(***************************************************************************)
(* Bounds for model-checking TaskDistribution.                             *)
(***************************************************************************)
EXTENDS TaskDistribution

MCMaxConcurrent == [n \in Nodes |-> 1]
=============================================================================
