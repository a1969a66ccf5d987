------------------------- MODULE MCJobOrchestrator -------------------------
(***************************************************************************)
(* Instances of JobOrchestrator for TLC: every call asks for the same      *)
(* target key, through the same lane.                                      *)
(***************************************************************************)
EXTENDS JobOrchestrator, TLC

CONSTANTS KeyA, LaneI

OneKey  == [j \in Jobs |-> KeyA]
OneLane == [j \in Jobs |-> LaneI]

NoAdmin  == {}
AllAdmin == {"pause", "drain", "stop"}

Symmetry == Permutations(Jobs)
=============================================================================
