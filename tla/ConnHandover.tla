---------------------------- MODULE ConnHandover ----------------------------
(***************************************************************************)
(* What the rotation of the worker client's connections promises, without  *)
(* locks, counts, flags and candidates: one connection serves, a later one *)
(* takes over from it in one step, a call starts on the connection that    *)
(* serves, and a connection that has been relieved is closed when its last *)
(* call has ended.  Only the end of the client closes under a call.        *)
(***************************************************************************)
EXTENDS Naturals

CONSTANTS Gens, Calls

VARIABLES
  serving,   \* the connection that serves
  open,      \* the connections that serve or served and are open
  user,      \* the connection each call runs on, or 0
  ended      \* the client is closed

vars == <<serving, open, user, ended>>

Init ==
  /\ serving = 1 /\ open = {1}
  /\ user = [c \in Calls |-> 0]
  /\ ended = FALSE

\* A connection that was relieved does not come back: the numbers grow.
TakeOver(g) ==
  /\ g > serving /\ ~ended
  /\ serving' = g /\ open' = open \cup {g}
  /\ UNCHANGED <<user, ended>>

Start(c) ==
  /\ user[c] = 0
  /\ serving \in open \/ ended
  /\ user' = [user EXCEPT ![c] = serving]
  /\ UNCHANGED <<serving, open, ended>>

Return(c) ==
  /\ user[c] # 0
  /\ user' = [user EXCEPT ![c] = 0]
  /\ UNCHANGED <<serving, open, ended>>

Retire(g) ==
  /\ g \in open /\ g # serving
  /\ (\A c \in Calls : user[c] # g) \/ ended
  /\ open' = open \ {g}
  /\ UNCHANGED <<serving, user, ended>>

End == ended' = TRUE /\ UNCHANGED <<serving, open, user>>
CloseLast == ended /\ open' = open \ {serving} /\ UNCHANGED <<serving, user, ended>>

Next ==
  \/ \E g \in Gens : TakeOver(g) \/ Retire(g)
  \/ \E c \in Calls : Start(c) \/ Return(c)
  \/ End \/ CloseLast

Spec == Init /\ [][Next]_vars
=============================================================================
