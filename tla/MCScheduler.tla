---------------------------- MODULE MCScheduler ----------------------------
(***************************************************************************)
(* Instances of Scheduler for TLC: two replicas, two repositories without  *)
(* jitter.                                                                 *)
(***************************************************************************)
EXTENDS Scheduler

CONSTANTS A, B

TwoRepos == <<A, B>>
NoJitter == [x \in {A, B} |-> 0]
=============================================================================
