----------------------- MODULE MCExecutionStrategies -----------------------
(***************************************************************************)
(* Bounds for model-checking ExecutionStrategies: every dependency         *)
(* relation between three tests, cycles and a missing test included.       *)
(***************************************************************************)
EXTENDS ExecutionStrategies

CONSTANTS t1, t2, t3

MCOrders == {<<t1, t2, t3>>, <<t1, t2>>}
MCSuites == [order : MCOrders, deps : {d \in [Tests -> SUBSET Tests] : Cardinality(d[t1]) <= 1}]
=============================================================================
