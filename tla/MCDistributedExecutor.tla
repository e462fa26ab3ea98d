----------------------- MODULE MCDistributedExecutor -----------------------
(***************************************************************************)
(* Bounds for model-checking DistributedExecutor.                          *)
(***************************************************************************)
EXTENDS DistributedExecutor

MCMaxConcurrent == [n \in Nodes |-> 1]
=============================================================================
