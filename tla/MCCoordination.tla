--------------------------- MODULE MCCoordination ---------------------------
(* The protocol of a helper and the client of the store it runs over. They   *)
(* share no state: a behaviour is about one of them.                         *)
EXTENDS HelperProtocol, ActionsCache

CONSTANT Layers  \* which of them: a set of "protocol" and "client"

VARIABLE layer

MCInit == Init /\ ActionsInit /\ layer \in Layers

MCNext ==
  /\ UNCHANGED layer
  /\ \/ layer = "protocol" /\ Next /\ UNCHANGED actionsVars
     \/ layer = "client" /\ ActionsNext /\ UNCHANGED vars

MCSpec == MCInit /\ [][MCNext]_<<layer, vars, actionsVars>>

\* For the protocol alone, whose fairness this is.
MCFairSpec == MCSpec /\ Fairness
=============================================================================
