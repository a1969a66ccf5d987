---------------------------- MODULE DrainPromise ----------------------------
(***************************************************************************)
(* What a graceful drain promises, without gates, counters, polls and      *)
(* sleeping waiters: work begins only before the drain has closed the      *)
(* server, the drain is clean only at a moment at which nothing at all is  *)
(* at work, and only a drain that timed out abandons work, which it        *)
(* otherwise leaves to end in its own time. Excepted is what an operator   *)
(* lets in behind the drain: it may begin at any time, is not waited for   *)
(* and may be cut off.                                                     *)
(***************************************************************************)
CONSTANTS
    Work,
    Resumable   \* the work an operator can let in: jobs

VARIABLES
    phase,      \* how far the drain has come
    working,    \* requests and jobs that were let in and have not ended
    abandoned,  \* those the shutdown ended
    late        \* those an operator let in behind the drain

vars == <<phase, working, abandoned, late>>

Init == phase = "open" /\ working = {} /\ abandoned = {} /\ late = {}

Enter(w) ==
    /\ phase = "open" /\ w \notin working
    /\ working' = working \cup {w}
    /\ UNCHANGED <<phase, abandoned, late>>

EnterLate(w) ==
    /\ phase # "stopped" /\ w \in Resumable \ working
    /\ working' = working \cup {w} /\ late' = late \cup {w}
    /\ UNCHANGED <<phase, abandoned>>

Leave(w) ==
    /\ w \in working
    /\ working' = working \ {w}
    /\ UNCHANGED <<phase, abandoned, late>>

Close ==
    /\ phase = "open" /\ phase' = "closed"
    /\ UNCHANGED <<working, abandoned, late>>

\* One moment, though the code counts jobs and requests one after the other.
Clean ==
    /\ phase = "closed" /\ working \subseteq late /\ phase' = "clean"
    /\ UNCHANGED <<working, abandoned, late>>

TimeOut ==
    /\ phase = "closed" /\ phase' = "timeout"
    /\ UNCHANGED <<working, abandoned, late>>

Abandon(w) ==
    /\ phase = "timeout" \/ (phase = "clean" /\ w \in late)
    /\ w \in working
    /\ working' = working \ {w} /\ abandoned' = abandoned \cup {w}
    /\ UNCHANGED <<phase, late>>

\* The process exits, and with it whatever is still at work.
Stop ==
    /\ phase \in {"clean", "timeout"} /\ phase' = "stopped"
    /\ working' = {} /\ abandoned' = abandoned \cup working
    /\ UNCHANGED late

Next ==
    \/ \E w \in Work : Enter(w) \/ EnterLate(w) \/ Leave(w) \/ Abandon(w)
    \/ Close \/ Clean \/ TimeOut \/ Stop

Spec == Init /\ [][Next]_vars
=============================================================================
