------------------------------ MODULE BusViews ------------------------------
(***************************************************************************)
(* What the program tells apart in a list of slaves (models.SlaveInfo):    *)
(*   topo  the identities the list is about, in bus order: what            *)
(*         MasterStateMachine._topology extracts from it;                  *)
(*   al    the AL states of the list, as the phase rules read them: "low"  *)
(*         when some slave is in INIT or PRE-OP, otherwise "op" when some  *)
(*         slave is in OP, otherwise "safe";                               *)
(*   err   whether the last read of some slave failed (state_error).       *)
(* The empty list is NoSlaves.                                             *)
(***************************************************************************)
CONSTANTS Topologies,  \* the non-empty buses a scan may find
          NoTopology   \* the topology of the empty list

ASSUME TopologyAssumption == NoTopology \notin Topologies

AlStates == {"low", "safe", "op"}

SlaveLists == [topo : Topologies, al : AlStates, err : BOOLEAN]

NoSlaves == [topo |-> NoTopology, al |-> "none", err |-> FALSE]

Views == SlaveLists \cup {NoSlaves}

\* A read that failed keeps the list and marks it.
Unread(v) == IF v = NoSlaves THEN v ELSE [v EXCEPT !.err = TRUE]
=============================================================================
