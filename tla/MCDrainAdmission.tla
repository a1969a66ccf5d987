-------------------------- MODULE MCDrainAdmission --------------------------
(***************************************************************************)
(* Instances of DrainAdmission for TLC: the preStop hook and SIGTERM race; *)
(* one client and one job hang.                                            *)
(***************************************************************************)
EXTENDS DrainAdmission

CONSTANTS Prestop, Term, R1, R2, J1, J2

BothTriggers == {Prestop, Term}
OneStuckEach == {R2, J2}
=============================================================================
