-------------------------- MODULE MCProfileMirror --------------------------
(***************************************************************************)
(* Instances of ProfileMirror for TLC: one pod with everything on it.      *)
(***************************************************************************)
EXTENDS ProfileMirror, TLC

CONSTANTS H

AllAtHome == [a \in Admins \cup Resolves |-> H]

Symmetry == Permutations(Contents) \cup Permutations(Admins)
=============================================================================
