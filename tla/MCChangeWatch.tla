--------------------------- MODULE MCChangeWatch ---------------------------
(***************************************************************************)
(* Instances of ChangeWatch for TLC: one or two files, two contents.       *)
(***************************************************************************)
EXTENDS ChangeWatch

CONSTANTS A, B

AllHaveA == [f \in Files |-> A]
=============================================================================
