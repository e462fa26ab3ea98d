------------------------ MODULE MCEventTransactions ------------------------
(***************************************************************************)
(* Bounds for model-checking EventTransactions.  No subscription: a        *)
(* receiver only reads what module EventBus shows it to read.              *)
(***************************************************************************)
EXTENDS EventTransactions

MCEvents == Transactions \X (1..MaxEvents) \X {"event", "rollback"}
=============================================================================
