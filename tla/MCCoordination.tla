--------------------------- MODULE MCCoordination ---------------------------
(***************************************************************************)
(* Two managers that share no state, checked in one run: the tasks of the  *)
(* distributed execution, and the transactions of events.  A behaviour is  *)
(* one of the chosen manager, and the other rests.                         *)
(***************************************************************************)
EXTENDS MCTaskDistribution, MCEventTransactions

VARIABLE manager

-----------------------------------------------------------------------------
MCInit ==
    /\ manager \in {"tasks", "transactions"}
    /\ Init /\ TxInit

MCNext ==
    /\ UNCHANGED manager
    /\ \/ manager = "tasks" /\ Next
       \/ manager # "tasks" /\ UNCHANGED vars
    /\ \/ manager = "transactions" /\ TxNext
       \/ manager # "transactions" /\ UNCHANGED allVars

\* Fairness and TxFairness, each for the behaviours of its manager.
MCFairness ==
    /\ \A d \in Distributors : /\ WF_vars(manager = "tasks" /\ distribute_read(d))
                               /\ WF_vars(manager = "tasks" /\ distribute_assign(d))
    /\ \A c \in Publishers : /\ WF_allVars(manager = "transactions" /\ Continue(c))
                             /\ SF_allVars(manager = "transactions" /\ Abandon(c))

MCSpec == MCInit /\ [][MCNext]_<<vars, allVars, manager>> /\ MCFairness
=============================================================================
