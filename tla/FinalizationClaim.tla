-------------------------- MODULE FinalizationClaim --------------------------
(***************************************************************************)
(* What claimFinalization promises, without the machinery that keeps the   *)
(* promise: a job is ended only by the hand of whoever holds its claim, a  *)
(* claim is taken by one at a time, it outlives its holder, and only the   *)
(* reaper gives one back.  The one exception is an Enqueue whose job no    *)
(* worker has been offered yet: at shutdown it ends the job unclaimed.     *)
(***************************************************************************)
CONSTANT Jobs

VARIABLES
    row,       \* what the store holds of each job
    claimed,   \* jobs whose terminal write is taken
    holder     \* who is carrying it out

vars == <<row, claimed, holder>>

Rows == {"absent", "created", "queued", "ended"}
Finalizers == {"run", "cancel", "reaper"}

Init ==
    /\ row = [j \in Jobs |-> "absent"]
    /\ claimed = {}
    /\ holder = [j \in Jobs |-> "nobody"]

RowTo(j, r) == row' = [row EXCEPT ![j] = r]
HolderTo(j, h) == holder' = [holder EXCEPT ![j] = h]

\* Enqueue: the row is created, perhaps by a Create that reported an error, ...
Create(j) ==
    /\ row[j] = "absent"
    /\ RowTo(j, "created") \/ RowTo(j, "queued")
    /\ UNCHANGED <<claimed, holder>>
\* ... and its id goes to a lane, or the call gives the job up.
Offer(j) ==
    /\ row[j] = "created"
    /\ RowTo(j, "queued") \/ RowTo(j, "ended")
    /\ UNCHANGED <<claimed, holder>>

Take(j, f) ==
    /\ j \notin claimed
    /\ claimed' = claimed \cup {j}
    /\ HolderTo(j, f)
    /\ UNCHANGED row

\* The holder's write, unless the row has ended.
End(j) ==
    /\ holder[j] # "nobody" /\ row[j] \in {"created", "queued"}
    /\ RowTo(j, "ended")
    /\ UNCHANGED <<claimed, holder>>

\* The holder is through; the claim stays.
Finish(j) ==
    /\ holder[j] # "nobody"
    /\ HolderTo(j, "nobody")
    /\ UNCHANGED <<row, claimed>>

\* releaseFinalization: the reaper's write failed, or only seemed to.
Release(j) ==
    /\ holder[j] = "reaper"
    /\ claimed' = claimed \ {j}
    /\ HolderTo(j, "nobody")
    /\ UNCHANGED row \/ (row[j] # "absent" /\ RowTo(j, "ended"))

\* The process dies: claims are in memory, rows are not.
Reset ==
    /\ claimed' = {}
    /\ holder' = [j \in Jobs |-> "nobody"]
    /\ row' = [j \in Jobs |-> IF row[j] = "created" THEN "queued" ELSE row[j]]

Next ==
    \/ \E j \in Jobs :
         \/ Create(j) \/ Offer(j) \/ End(j) \/ Finish(j) \/ Release(j)
         \/ \E f \in Finalizers : Take(j, f)
    \/ Reset

Spec == Init /\ [][Next]_vars
=============================================================================
