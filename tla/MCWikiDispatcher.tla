-------------------------- MODULE MCWikiDispatcher --------------------------
(***************************************************************************)
(* Instances of WikiDispatcher for TLC: events of one repository, each     *)
(* with a commit and a PR of its own.                                      *)
(***************************************************************************)
EXTENDS WikiDispatcher

CONSTANTS R, Push, Merge, Reject, Refresh

OwnSha == [e \in Events |-> e]
OwnPr  == [e \in Events |-> e]
OneRepo == [e \in Events |-> R]
Once == [e \in Events |-> 1]
Twice == [e \in Events |-> 2]
Names == [e \in Events |-> CASE e = Push -> "push" [] e = Merge -> "merge"
                              [] e = Reject -> "reject" [] e = Refresh -> "refresh"]
=============================================================================
