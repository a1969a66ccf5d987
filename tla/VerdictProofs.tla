--------------------------- MODULE VerdictProofs ---------------------------
(***************************************************************************)
(* Without failing store calls and without a shutdown, over the SurrealDB  *)
(* store: the holder of a claim always finds the row active and ends it.   *)
(* Crashes, user cancellations, the reaper, pause and drain remain.        *)
(*                                                                         *)
(* The strengthening splits ownership in two: the holder is pending until  *)
(* its write has landed.  A claimed job is active exactly while its holder *)
(* is pending, and nobody is left who could claim a job that has ended.    *)
(***************************************************************************)
EXTENDS JobOrchestratorProofs

NoFaults == Persistent /\ MaxFailures = 0 /\ "stop" \notin Admin

RunPending(j)    == won[j] /\ run[j] \in {"unregister", "settle", "write"}
CancelPending(j) == cancelPc[j] \in {"release", "write"}
ReaperPending(j) == reapJob = j /\ reaperPc \in {"cancel", "mark"}
Pending(j)       == RunPending(j) \/ CancelPending(j) \/ ReaperPending(j)

\* The process is never stopped.
NeverStopping == alive # "stopping"

\* A claimed job is active exactly while its holder has not written.
ClaimedActive ==
    \A j \in Jobs :
        /\ Pending(j) => status[j] \in Active
        /\ j \in finalizing /\ ~Pending(j) => status[j] \in Terminal

\* A job that ended in an earlier life of the process is out of reach.
EndedOutOfReach ==
    \A j \in Jobs : status[j] \in Terminal /\ j \notin finalizing =>
        /\ run[j] = "none" /\ ~Queued(j) /\ ~Listed(j)
        /\ callPc[j] # "send" /\ cancelPc[j] \notin {"mark", "claim"}

\* A run that won its claim does not go round the loop again.
WinnerLeaves ==
    \A j \in Jobs : won[j] =>
        /\ run[j] \in {"unregister", "settle", "write", "report", "exit"}
        /\ run[j] \in {"unregister", "settle"} => TerminalExit(j, outcome[j])

\* A job is in one lane, once, and only until its run begins.
QueuedOnce ==
    /\ \A l \in Lanes : \A i \in 1..Len(queues[l]) :
         /\ LaneOf[queues[l][i]] = l
         /\ run[queues[l][i]] = "none"
         /\ callPc[queues[l][i]] # "send"
         /\ \A k \in 1..Len(queues[l]) : queues[l][i] = queues[l][k] => i = k
    /\ \A j \in Jobs : callPc[j] = "send" => run[j] = "none"

VerdictInv == NeverStopping /\ ClaimedActive /\ EndedOutOfReach /\ WinnerLeaves /\ QueuedOnce

-----------------------------------------------------------------------------
(* No fault, no stop *)

LEMMA NoFailure ==
    ASSUME NoFaults, TypeInv, NeverStopping
    PROVE  ~StoreFails
<1>1. failures = 0
  BY DEF NoFaults, TypeInv, TypeOK, ProcessTypeOK
<1> QED
  BY <1>1 DEF NoFaults, NeverStopping, StoreFails

LEMMA NeverStops ==
    ASSUME NoFaults, NeverStopping, [Next]_vars
    PROVE  NeverStopping'
<1> USE DEF NeverStopping
<1>1. ASSUME NEW c \in Jobs, Enqueue(c) \/ Abandon(c) \/ Again(c) \/ Tick(c) \/ Cancel(c)
      PROVE  alive' = alive
  BY <1>1 DEF Enqueue, Lookup, Attach, Claim, Inspect, Evict, Admit, Create, Send, SendAbort,
     WaitDone, Abandon, Again, Tick, Cancel, CancelRead, CancelMark, CancelClaim, CancelRelease,
     CancelWrite, CancelReport, adminVars
<1>2. ASSUME NEW j \in Jobs, Worker(j)
      PROVE  alive' = alive
  BY <1>2 DEF Worker, Check, Begin, Cooldown, AbortWait, StartAttempt, Beat, Return, Unregister,
     Settle, WriteVerdict, Report, Exit, adminVars
<1>3. CASE Reaper \/ \E l \in Lanes : Dequeue(l)
  BY <1>3 DEF Reaper, ReapTick, ReapClaim, ReapCancel, ReapMark, ReapError, ReapFree, Dequeue,
     adminVars
<1>4. CASE Operator
  BY <1>4 DEF Operator, Pause, BeginDrain, Stop, NoFaults
<1>5. CASE Crash \/ Boot \/ BootDone \/ UNCHANGED vars
  BY <1>5 DEF Crash, Boot, BootDone, vars, adminVars
<1> QED
  BY <1>1, <1>2, <1>3, <1>4, <1>5 DEF Next

-----------------------------------------------------------------------------
(* The lanes *)

LEMMA QueuedOnceStep ==
    ASSUME QueueInv, QueuedOnce, [Next]_vars
    PROVE  QueuedOnce'
<1> USE DEF QueueInv, TypeInv, TypeOK
<1>0. queues \in [Lanes -> Seq(Jobs)] /\ run \in [Jobs -> RunPcs]
  BY DEF RegistryTypeOK, RunTypeOK
\* A call about to send has not been run, and was not queued either.
<1>1. ASSUME NEW j \in Jobs, callPc'[j] = "send"
      PROVE  run'[j] = "none"
  <2>1. callPc[j] = "send" \/ callPc[j] = "create"
    BY <1>1, CallOrigin
  <2>2. run[j] = "none" /\ ~Queued(j)
    <3>1. CASE callPc[j] = "send"
      BY <3>1 DEF QueuedOnce, Queued
    <3>2. CASE callPc[j] = "create"
      BY <3>2 DEF RowInv, RowFresh, RowExists, EarlyCalls
    <3> QED
      BY <2>1, <3>1, <3>2
  <2> QED
    BY <2>2, RunOrigin
<1>2. ASSUME NEW j \in Jobs, Queued(j), callPc'[j] = "send"
      PROVE  FALSE
  <2>1. CASE callPc[j] = "send"
    BY <1>2, <2>1 DEF QueuedOnce, Queued
  <2>2. CASE callPc[j] = "create"
    BY <1>2, <2>2 DEF RowInv, RowFresh, RowExists, EarlyCalls
  <2> QED
    BY <1>2, <2>1, <2>2, CallOrigin
<1>3. ASSUME UNCHANGED queues, \A j \in Jobs : run[j] = "none" => run'[j] = "none"
      PROVE  QueuedOnce'
  <2>1. \A l \in Lanes : \A i \in 1..Len(queues[l]) : queues[l][i] \in Jobs /\ Queued(queues[l][i])
    BY <1>0 DEF Queued
  <2> QED
    BY <1>1, <1>2, <1>3, <2>1 DEF QueuedOnce
<1>4. ASSUME NEW c \in Jobs, Send(c)
      PROVE  QueuedOnce'
  <2>1. /\ callPc[c] = "send" /\ callPc'[c] # "send" /\ run' = run
        /\ queues' = [queues EXCEPT ![LaneOf[c]] = Append(@, c)]
        /\ \A j \in Jobs \ {c} : callPc'[j] = callPc[j]
    BY <1>4 DEF Send, CallTo, CallTypeOK, runVars
  <2>2. run[c] = "none" /\ ~Queued(c)
    BY <2>1 DEF QueuedOnce, Queued
  <2> SUFFICES ASSUME NEW l \in Lanes, NEW i \in 1..Len(queues'[l])
               PROVE  /\ LaneOf[queues'[l][i]] = l
                      /\ run'[queues'[l][i]] = "none"
                      /\ callPc'[queues'[l][i]] # "send"
                      /\ \A k \in 1..Len(queues'[l]) : queues'[l][i] = queues'[l][k] => i = k
    BY <1>1 DEF QueuedOnce
  <2>3. queues[l] \in Seq(Jobs)
    BY <1>0
  <2>4. \A n \in 1..Len(queues[l]) : queues[l][n] \in Jobs \ {c}
    BY <2>2, <2>3 DEF Queued
  <2>5. CASE l # LaneOf[c]
    <3>1. queues'[l] = queues[l]
      BY <1>0, <2>1, <2>5
    <3> QED
      BY <2>1, <2>4, <3>1 DEF QueuedOnce
  <2>6. CASE l = LaneOf[c]
    <3>1. queues'[l] = Append(queues[l], c)
      BY <1>0, <2>1, <2>6
    <3>2. /\ Len(queues'[l]) = Len(queues[l]) + 1
          /\ \A n \in 1..Len(queues[l]) : queues'[l][n] = queues[l][n]
          /\ queues'[l][Len(queues[l]) + 1] = c
      BY <2>3, <3>1
    <3>3. \A n \in 1..Len(queues'[l]) : n = Len(queues[l]) + 1 \/ n \in 1..Len(queues[l])
      BY <2>3, <3>2
    <3>4. CASE i = Len(queues[l]) + 1
      BY <2>1, <2>2, <2>4, <2>6, <3>2, <3>3, <3>4
    <3>5. CASE i \in 1..Len(queues[l])
      <4>1. /\ LaneOf[queues[l][i]] = l /\ run[queues[l][i]] = "none"
            /\ callPc[queues[l][i]] # "send"
            /\ \A k \in 1..Len(queues[l]) : queues[l][i] = queues[l][k] => i = k
        BY <3>5 DEF QueuedOnce
      <4> QED
        BY <2>1, <2>4, <3>2, <3>3, <3>5, <4>1
    <3> QED
      BY <3>3, <3>4, <3>5
  <2> QED
    BY <2>5, <2>6
<1>5. ASSUME NEW m \in Lanes, Dequeue(m)
      PROVE  QueuedOnce'
  <2>1. /\ queues[m] # <<>> /\ queues[m] \in Seq(Jobs) /\ callPc' = callPc
        /\ queues' = [queues EXCEPT ![m] = Tail(@)]
        /\ run' = [run EXCEPT ![Head(queues[m])] = "check"]
    BY <1>0, <1>5 DEF Dequeue, RunTo, callVars
  <2>2. Head(queues[m]) = queues[m][1] /\ 1 \in 1..Len(queues[m])
    BY <2>1
  <2> SUFFICES ASSUME NEW l \in Lanes, NEW i \in 1..Len(queues'[l])
               PROVE  /\ LaneOf[queues'[l][i]] = l
                      /\ run'[queues'[l][i]] = "none"
                      /\ callPc'[queues'[l][i]] # "send"
                      /\ \A k \in 1..Len(queues'[l]) : queues'[l][i] = queues'[l][k] => i = k
    BY <1>1 DEF QueuedOnce
  <2>3. CASE l # m
    <3>1. queues'[l] = queues[l] /\ queues[l] \in Seq(Jobs)
      BY <1>0, <2>1, <2>3
    <3>2. /\ LaneOf[queues[l][i]] = l /\ run[queues[l][i]] = "none"
          /\ callPc[queues[l][i]] # "send"
          /\ \A k \in 1..Len(queues[l]) : queues[l][i] = queues[l][k] => i = k
      BY <3>1 DEF QueuedOnce
    <3>3. LaneOf[Head(queues[m])] = m
      BY <2>2 DEF QueuedOnce
    <3> QED
      BY <1>0, <2>1, <2>3, <3>1, <3>2, <3>3
  <2>4. CASE l = m
    <3>1. /\ Len(queues'[l]) = Len(queues[l]) - 1
          /\ \A n \in 1..Len(queues'[l]) : n + 1 \in 1..Len(queues[l])
                                           /\ queues'[l][n] = queues[l][n + 1]
      BY <1>0, <2>1, <2>4
    <3>2. /\ LaneOf[queues[l][i + 1]] = l /\ run[queues[l][i + 1]] = "none"
          /\ callPc[queues[l][i + 1]] # "send"
          /\ \A k \in 1..Len(queues[l]) : queues[l][i + 1] = queues[l][k] => i + 1 = k
      BY <3>1 DEF QueuedOnce
    <3>3. queues[l][i + 1] # Head(queues[m])
      BY <2>2, <2>4, <3>1, <3>2
    <3> QED
      BY <1>0, <2>1, <3>1, <3>2, <3>3
  <2> QED
    BY <2>3, <2>4
<1>6. ASSUME NEW c \in Jobs, (Enqueue(c) /\ ~Send(c)) \/ Abandon(c) \/ Again(c) \/ Tick(c) \/ Cancel(c)
      PROVE  queues' = queues /\ run' = run
  BY <1>6 DEF Enqueue, Lookup, Attach, Claim, Inspect, Evict, Admit, Create, SendAbort,
     WaitDone, Abandon, Again, Tick, Cancel, CancelRead, CancelMark, CancelClaim, CancelRelease,
     CancelWrite, CancelReport, runVars
<1>7. ASSUME NEW j \in Jobs, Worker(j)
      PROVE  queues' = queues /\ \A i \in Jobs : run[i] = "none" => run'[i] = "none"
  BY <1>0, <1>7 DEF Worker, Check, Begin, Cooldown, AbortWait, ClaimToWrite, StartAttempt, Beat,
     Return, Unregister, Settle, WriteVerdict, Report, Exit, RunTo, runVars
<1>8. CASE Reaper \/ Operator \/ Boot \/ BootDone \/ UNCHANGED vars
  BY <1>3, <1>8 DEF Reaper, ReapTick, ReapClaim, ReapCancel, ReapMark, ReapError, ReapFree,
     Operator, Boot, BootDone, vars, runVars
<1>9. CASE Crash
  BY <1>9 DEF Crash, QueuedOnce
<1> QED
  BY <1>3, <1>4, <1>5, <1>6, <1>7, <1>8, <1>9 DEF Next

-----------------------------------------------------------------------------
(* The run that won *)

LEMMA WinnerLeavesStep ==
    ASSUME NoFaults, QueueInv, VerdictInv, [Next]_vars
    PROVE  WinnerLeaves'
<1> USE DEF QueueInv, TypeInv, TypeOK, RunTypeOK, RegistryTypeOK, VerdictInv, WinnerLeaves,
    TerminalExit
<1>1. CASE UNCHANGED <<run, won, outcome, attempt>> /\ cancelled \subseteq cancelled'
  BY <1>1
<1>2. ASSUME NEW c \in Jobs, Enqueue(c) \/ Abandon(c) \/ Again(c) \/ Tick(c) \/ Cancel(c)
      PROVE  UNCHANGED <<run, won, outcome, attempt>> /\ cancelled \subseteq cancelled'
  BY <1>2 DEF Enqueue, Lookup, Attach, Claim, Inspect, Evict, Admit, Create, Send, SendAbort,
     WaitDone, Abandon, Again, Tick, Cancel, CancelRead, CancelMark, CancelClaim, CancelRelease,
     CancelWrite, CancelReport, runVars
<1>3. CASE Reaper \/ Operator \/ Boot \/ BootDone \/ UNCHANGED vars
  BY <1>1, <1>3 DEF Reaper, ReapTick, ReapClaim, ReapCancel, ReapMark, ReapError, ReapFree,
     Operator, Boot, BootDone, vars, runVars
<1>4. CASE Crash
  BY <1>4 DEF Crash
<1>5. ASSUME NEW l \in Lanes, Dequeue(l)
      PROVE  WinnerLeaves'
  <2>1. queues[l] # <<>> /\ queues[l] \in Seq(Jobs)
    BY <1>5 DEF Dequeue
  <2>2. run[Head(queues[l])] = "none" /\ Head(queues[l]) \in Jobs
    BY <2>1 DEF QueuedOnce
  <2>3. ~won[Head(queues[l])]
    BY <2>2
  <2> QED
    BY <1>5, <2>2, <2>3 DEF Dequeue, RunTo
<1>6. ASSUME NEW j \in Jobs, Worker(j)
      PROVE  WinnerLeaves'
  <2>1. CASE Check(j)
    BY <2>1 DEF Check, ClaimToWrite, RunTo
  <2>2. CASE Begin(j) \/ Cooldown(j) \/ StartAttempt(j) \/ Beat(j)
    BY <2>2 DEF Begin, Cooldown, StartAttempt, Beat, RunTo, runVars
  <2>3. CASE AbortWait(j)
    BY <2>3 DEF AbortWait, NeverStopping
  <2>4. ASSUME NEW o \in Outcomes, Return(j, o)
        PROVE  WinnerLeaves'
    BY <2>4 DEF Return, RunTo
  <2>5. CASE Unregister(j)
    BY <2>5 DEF Unregister, RunTo
  <2>6. CASE Settle(j)
    <3>1. run[j] = "settle" /\ won' = won /\ outcome' = outcome /\ cancelled' = cancelled
      BY <2>6 DEF Settle
    <3>2. won[j] => ~Retries(j)
      <4>1. MaxAttempts \in Nat /\ attempt[j] \in 1..MaxAttempts
        BY OrchestratorAssumption DEF OrchestratorAssumption
      <4> QED
        BY <3>1, <4>1 DEF Retries
    <3>3. CASE Retries(j)
      <4>1. /\ run' = [run EXCEPT ![j] = "attempt"] /\ ~won[j]
            /\ attempt' = [attempt EXCEPT ![j] = @ + 1]
        BY <2>6, <3>2, <3>3 DEF Settle, RunTo
      <4> QED
        BY <3>1, <4>1
    <3>4. CASE ~Retries(j)
      <4>1. /\ run' = [run EXCEPT ![j] = IF won[j] THEN "write" ELSE "exit"]
            /\ attempt' = attempt
        BY <2>6, <3>4 DEF Settle, RunTo, MayWrite
      <4> QED
        BY <3>1, <4>1
    <3> QED
      BY <3>3, <3>4
  <2>7. CASE WriteVerdict(j) \/ Report(j)
    BY <2>7 DEF WriteVerdict, Report, RunTo
  <2>8. CASE Exit(j)
    BY <2>8 DEF Exit, ForgetLocals, RunTo
  <2> QED
    BY <1>6, <2>1, <2>2, <2>3, <2>4, <2>5, <2>6, <2>7, <2>8 DEF Worker
<1> QED
  BY <1>1, <1>2, <1>3, <1>4, <1>5, <1>6 DEF Next

-----------------------------------------------------------------------------
(* Jobs that ended before the last crash *)

\* Only Crash gives claims back.
LEMMA ClaimsStay ==
    ASSUME NoFaults, QueueInv, VerdictInv, [Next]_vars
    PROVE  Crash \/ finalizing \subseteq finalizing'
<1>1. ~StoreFails
  BY NoFailure DEF QueueInv, VerdictInv
<1>2. ASSUME NEW c \in Jobs, Enqueue(c) \/ Abandon(c) \/ Again(c) \/ Tick(c) \/ Cancel(c)
      PROVE  finalizing \subseteq finalizing'
  BY <1>2 DEF Enqueue, Lookup, Attach, Claim, Inspect, Evict, Admit, Create, Send, SendAbort,
     WaitDone, Abandon, Again, Tick, Cancel, CancelRead, CancelMark, CancelClaim, CancelRelease,
     CancelWrite, CancelReport
<1>3. ASSUME NEW j \in Jobs, Worker(j)
      PROVE  finalizing \subseteq finalizing'
  BY <1>3 DEF Worker, Check, Begin, Cooldown, AbortWait, ClaimToWrite, StartAttempt, Beat, Return,
     Unregister, Settle, WriteVerdict, Report, Exit
<1>4. CASE Reaper
  BY <1>1, <1>4 DEF Reaper, ReapTick, ReapClaim, ReapCancel, ReapMark, ReapError, GiveUp, ReapFree
<1>5. CASE (\E l \in Lanes : Dequeue(l)) \/ Operator \/ Boot \/ BootDone \/ UNCHANGED vars
  BY <1>5 DEF Dequeue, Operator, Boot, BootDone, vars
<1> QED
  BY <1>2, <1>3, <1>4, <1>5 DEF Next

\* Whoever ends a job holds its claim.
LEMMA EndedByHolder ==
    ASSUME NoFaults, QueueInv, VerdictInv, [Next]_vars, NEW i \in Jobs,
           status[i] \notin Terminal, status'[i] \in Terminal
    PROVE  i \in finalizing
<1> USE DEF QueueInv, TypeInv, TypeOK, StoreTypeOK, FinalizerTypeOK
<1>1. CASE status' = status
  BY <1>1
<1>2. ASSUME NEW c \in Jobs, Enqueue(c) \/ Abandon(c) \/ Again(c)
      PROVE  i \in finalizing
  <2>1. CASE Create(c)
    BY <2>1 DEF Create, PutStatus, storeVars, Terminal
  <2>2. CASE SendAbort(c)
    BY <2>2 DEF SendAbort, VerdictInv, NeverStopping
  <2>3. CASE ~Create(c) /\ ~SendAbort(c)
    BY <1>1, <1>2, <2>3 DEF Enqueue, Lookup, Attach, Claim, Inspect, Evict, Admit, Send, WaitDone,
       Abandon, Again, Touch, storeVars
  <2> QED
    BY <2>1, <2>2, <2>3
<1>3. ASSUME NEW j \in Jobs, Worker(j)
      PROVE  i \in finalizing
  <2>1. CASE Begin(j)
    BY <2>1 DEF Begin, PutStatus, storeVars, AfterSetStatus, Terminal
  <2>2. CASE WriteVerdict(j)
    <3>1. i = j
      BY <2>2 DEF WriteVerdict, StoreWrite, PutStatus, storeVars
    <3>2. RunOwns(j)
      BY <2>2 DEF WriteVerdict, RunOwns, HandInv, WriterWon
    <3> QED
      BY <3>1, <3>2 DEF ClaimInv, ClaimExclusive, Owned
  <2>3. CASE ~Begin(j) /\ ~WriteVerdict(j)
    BY <1>1, <1>3, <2>3 DEF Worker, Check, Cooldown, AbortWait, StartAttempt, StoreTouch, Beat,
       Return, Unregister, Settle, Report, Exit, Touch, storeVars
  <2> QED
    BY <2>1, <2>2, <2>3
<1>4. ASSUME NEW j \in Jobs, Cancel(j)
      PROVE  i \in finalizing
  <2>1. CASE CancelWrite(j)
    <3>1. i = j /\ CancelOwns(j)
      BY <2>1 DEF CancelWrite, StoreWrite, PutStatus, storeVars, CancelOwns
    <3> QED
      BY <3>1 DEF ClaimInv, ClaimExclusive, Owned
  <2>2. CASE ~CancelWrite(j)
    BY <1>1, <1>4, <2>2 DEF Cancel, CancelRead, CancelMark, CancelClaim, CancelRelease,
       CancelReport, storeVars
  <2> QED
    BY <2>1, <2>2
<1>5. CASE Reaper
  <2>1. CASE ReapMark \/ ReapError
    <3>1. i = reapJob
      BY <2>1 DEF ReapMark, ReapError, GiveUp, PutStatus, storeVars
    <3> QED
      BY <3>1 DEF ClaimInv, ClaimExclusive, Owned, ReaperOwns
  <2>2. CASE ReapTick \/ ReapClaim \/ ReapCancel \/ ReapFree
    BY <1>1, <2>2 DEF ReapTick, ReapClaim, ReapCancel, ReapFree, storeVars
  <2> QED
    BY <1>5, <2>1, <2>2 DEF Reaper
<1>6. CASE Operator \/ Crash \/ Boot \/ BootDone \/ UNCHANGED vars
  BY <1>1, <1>6 DEF Operator, Crash, Boot, BootDone, vars, storeVars
<1>7. ASSUME NEW j \in Jobs, Tick(j)
      PROVE  status' = status
  BY <1>7 DEF Tick
<1>8. ASSUME NEW l \in Lanes, Dequeue(l)
      PROVE  status' = status
  BY <1>8 DEF Dequeue, storeVars
<1> QED
  BY <1>1, <1>2, <1>3, <1>4, <1>5, <1>6, <1>7, <1>8 DEF Next

LEMMA MarkOrigin ==
    ASSUME QueueInv, [Next]_vars, NEW i \in Jobs, cancelPc'[i] \in {"mark", "claim"}
    PROVE  cancelPc[i] \in {"mark", "claim"} \/ status[i] \in Active
<1> USE DEF QueueInv, TypeInv, TypeOK, FinalizerTypeOK, CancelTo
<1>1. ASSUME NEW j \in Jobs, Cancel(j)
      PROVE  cancelPc[i] \in {"mark", "claim"} \/ status[i] \in Active
  BY <1>1 DEF Cancel, CancelRead, CanCancel, CancelMark, CancelClaim, CancelRelease, CancelWrite,
     CancelReport
<1>2. ASSUME NEW c \in Jobs, Enqueue(c) \/ Abandon(c) \/ Again(c) \/ Tick(c)
      PROVE  cancelPc' = cancelPc
  BY <1>2 DEF Enqueue, Lookup, Attach, Claim, Inspect, Evict, Admit, Create, Send, SendAbort,
     WaitDone, Abandon, Again, Tick
<1>3. ASSUME NEW j \in Jobs, Worker(j)
      PROVE  cancelPc' = cancelPc
  BY <1>3 DEF Worker, Check, Begin, Cooldown, AbortWait, StartAttempt, Beat, Return, Unregister,
     Settle, WriteVerdict, Report, Exit
<1>4. CASE Reaper \/ \E l \in Lanes : Dequeue(l)
  BY <1>4 DEF Reaper, ReapTick, ReapClaim, ReapCancel, ReapMark, ReapError, ReapFree, Dequeue
<1>5. CASE Crash
  BY <1>5 DEF Crash
<1>6. CASE Operator \/ Boot \/ BootDone \/ UNCHANGED vars
  BY <1>6 DEF Operator, Boot, BootDone, vars
<1> QED
  BY <1>1, <1>2, <1>3, <1>4, <1>5, <1>6 DEF Next

LEMMA EndedStep ==
    ASSUME NoFaults, QueueInv, VerdictInv, [Next]_vars
    PROVE  EndedOutOfReach'
<1> USE DEF VerdictInv
<1> SUFFICES ASSUME NEW j \in Jobs, status'[j] \in Terminal, j \notin finalizing'
             PROVE  /\ run'[j] = "none" /\ ~Queued(j)' /\ ~Listed(j)'
                    /\ callPc'[j] # "send" /\ cancelPc'[j] \notin {"mark", "claim"}
  BY DEF EndedOutOfReach
<1>1. CASE Crash
  BY <1>1 DEF Crash, Queued, Listed
<1>2. CASE ~Crash
  <2>1. j \notin finalizing
    BY <1>2, ClaimsStay
  <2>2. status[j] \in Terminal
    BY <2>1, EndedByHolder
  <2>3. /\ run[j] = "none" /\ ~Queued(j) /\ ~Listed(j)
        /\ callPc[j] # "send" /\ cancelPc[j] \notin {"mark", "claim"}
    BY <2>1, <2>2 DEF EndedOutOfReach
  <2>4. status[j] \notin Active /\ callPc[j] # "create"
    BY <2>2 DEF Active, Terminal, QueueInv, RowInv, RowFresh, EarlyCalls
  <2> QED
    BY <2>3, <2>4, CallOrigin, RunOrigin, QueueOrigin, ReapOrigin, MarkOrigin DEF QueueInv
<1> QED
  BY <1>1, <1>2

-----------------------------------------------------------------------------
(* The holder finds the row active, and ends it *)

\* What ClaimedActive says of one job.
Settled(i) ==
    /\ Pending(i) => status[i] \in Active
    /\ i \in finalizing /\ ~Pending(i) => status[i] \in Terminal

\* A step that leaves the claim of a job alone may write its row only as RowStep
\* allows: terminal rows stay, and active ones stay active unless it ends them.
LEMMA SettledFrame ==
    ASSUME NoFaults, QueueInv, VerdictInv, NEW i \in Jobs, RowStep,
           Pending(i)' <=> Pending(i), i \in finalizing' => i \in finalizing,
           status[i] \in Active => status'[i] \in Active
    PROVE  Settled(i)'
<1>1. Settled(i)
  BY DEF VerdictInv, ClaimedActive, Settled
<1>2. status[i] \in Terminal => status'[i] \in Terminal
  BY DEF RowStep, Kept, NoFaults, Terminal
<1> QED
  BY <1>1, <1>2 DEF Settled

\* Whoever can still claim a job finds it active.
LEMMA Claimable ==
    ASSUME QueueInv, VerdictInv, NEW i \in Jobs, i \notin finalizing,
           run[i] # "none" \/ Listed(i) \/ cancelPc[i] = "claim"
    PROVE  status[i] \in Active
<1>1. status[i] # "absent"
  BY DEF QueueInv, RowInv, RowExists
<1>2. status[i] \notin Terminal
  BY DEF VerdictInv, EndedOutOfReach
<1> QED
  BY <1>1, <1>2 DEF QueueInv, TypeInv, TypeOK, StoreTypeOK, Status

LEMMA SettledEnqueue ==
    ASSUME NoFaults, QueueInv, VerdictInv, NEW c \in Jobs, Enqueue(c) \/ Abandon(c) \/ Again(c),
           RowStep, NEW i \in Jobs
    PROVE  Settled(i)'
<1> USE DEF QueueInv, TypeInv, TypeOK, StoreTypeOK
<1>1. UNCHANGED <<run, won, cancelPc, reaperPc, reapJob, finalizing>>
  BY DEF Enqueue, Lookup, Attach, Claim, Inspect, Evict, Admit, Create, Send, SendAbort,
     WaitDone, Abandon, Again, runVars, reapVars
<1>2. Pending(i)' <=> Pending(i)
  BY <1>1 DEF Pending, RunPending, CancelPending, ReaperPending
<1>3. status[i] \in Active => status'[i] \in Active
  <2>1. CASE Create(c)
    BY <2>1 DEF Create, PutStatus, storeVars, Active
  <2>2. CASE SendAbort(c)
    BY <2>2 DEF SendAbort, VerdictInv, NeverStopping
  <2>3. CASE ~Create(c) /\ ~SendAbort(c)
    BY <2>3 DEF Enqueue, Lookup, Attach, Claim, Inspect, Evict, Admit, Send, WaitDone,
       Abandon, Again, Touch, storeVars
  <2> QED
    BY <2>1, <2>2, <2>3
<1> QED
  BY <1>1, <1>2, <1>3, SettledFrame

LEMMA SettledWorker ==
    ASSUME NoFaults, QueueInv, VerdictInv, NEW j \in Jobs, Worker(j), RowStep, NEW i \in Jobs
    PROVE  Settled(i)'
<1> USE DEF QueueInv, TypeInv, TypeOK, StoreTypeOK, RunTypeOK, RegistryTypeOK, VerdictInv
<1>1. UNCHANGED <<cancelPc, reaperPc, reapJob>>
  BY DEF Worker, Check, Begin, Cooldown, AbortWait, StartAttempt, Beat, Return, Unregister,
     Settle, WriteVerdict, Report, Exit, reapVars
<1>2. CASE i # j
  <2>1. /\ run'[i] = run[i] /\ won'[i] = won[i] /\ status'[i] = status[i]
        /\ i \in finalizing' => i \in finalizing
    BY <1>2 DEF Worker, Check, Begin, Cooldown, AbortWait, ClaimToWrite, StartAttempt, StoreTouch,
       Beat, Return, Unregister, Settle, WriteVerdict, Report, Exit, ForgetLocals, RunTo, Touch,
       StoreWrite, PutStatus, storeVars, runVars
  <2>2. Pending(i)' <=> Pending(i)
    BY <1>1, <2>1 DEF Pending, RunPending, CancelPending, ReaperPending
  <2> QED
    BY <2>1, <2>2, SettledFrame
<1>3. Settled(j)'
  <2>1. ASSUME j \notin finalizing, status' = status, run[j] # "none", RunPending(j)'
        PROVE  Settled(j)'
    BY <2>1, Claimable DEF Settled, Pending
  <2>2. ASSUME UNCHANGED finalizing, status[j] \in Active => status'[j] \in Active,
               RunPending(j)' <=> RunPending(j)
        PROVE  Settled(j)'
    BY <1>1, <2>2, SettledFrame DEF Pending, CancelPending, ReaperPending
  <2>3. CASE Check(j)
    <3>1. run[j] = "check" /\ ~won[j] /\ status' = status
      BY <2>3 DEF Check, WinnerLeaves, storeVars
    <3>2. CASE ClaimToWrite(j, "cancelled") /\ ~ClaimLost(j)
      BY <2>1, <3>1, <3>2 DEF ClaimToWrite, ClaimLost, RunTo, RunPending
    <3>3. CASE UNCHANGED <<finalizing, won>>
      BY <2>2, <3>1, <3>3 DEF RunPending
    <3> QED
      BY <2>3, <3>2, <3>3 DEF Check, ClaimToWrite
  <2>4. CASE Begin(j)
    <3>1. ~won[j] /\ won' = won /\ finalizing' = finalizing
      BY <2>4 DEF Begin, WinnerLeaves
    <3>2. status[j] \in Active => status'[j] \in Active
      BY <2>4 DEF Begin, PutStatus, storeVars, AfterSetStatus, Active, Terminal
    <3> QED
      BY <2>2, <3>1, <3>2 DEF RunPending
  <2>5. CASE Cooldown(j) \/ StartAttempt(j) \/ Beat(j)
    <3>1. ~won[j] /\ won' = won /\ finalizing' = finalizing /\ status' = status
      BY <2>5 DEF Cooldown, StartAttempt, StoreTouch, Beat, Touch, WinnerLeaves, runVars, storeVars
    <3> QED
      BY <2>2, <3>1 DEF RunPending
  <2>6. CASE AbortWait(j)
    BY <2>6 DEF AbortWait, NeverStopping
  <2>7. ASSUME NEW o, Return(j, o)
        PROVE  Settled(j)'
    <3>1. run[j] = "running" /\ ~won[j] /\ status' = status /\ run'[j] = "unregister"
      BY <2>7 DEF Return, RunTo, WinnerLeaves, storeVars
    <3>2. CASE TerminalExit(j, o) /\ ~ClaimLost(j)
      BY <2>1, <2>7, <3>1, <3>2 DEF Return, ClaimLost, RunPending
    <3>3. CASE ~(TerminalExit(j, o) /\ ~ClaimLost(j))
      BY <2>2, <2>7, <3>1, <3>3 DEF Return, RunPending
    <3> QED
      BY <3>2, <3>3
  <2>8. CASE Unregister(j)
    <3>1. /\ run[j] = "unregister" /\ run'[j] = "settle"
          /\ won' = won /\ finalizing' = finalizing /\ status' = status
      BY <2>8 DEF Unregister, RunTo, Touch, storeVars
    <3> QED
      BY <2>2, <3>1 DEF RunPending
  <2>9. CASE Settle(j)
    <3>1. run[j] = "settle" /\ won' = won /\ finalizing' = finalizing /\ status' = status
      BY <2>9 DEF Settle, storeVars
    <3>2. won[j] => run'[j] = "write"
      <4>1. MaxAttempts \in Nat /\ attempt[j] \in 1..MaxAttempts
        BY OrchestratorAssumption DEF OrchestratorAssumption
      <4>2. won[j] => ~Retries(j)
        BY <3>1, <4>1 DEF Retries, WinnerLeaves, TerminalExit
      <4> QED
        BY <2>9, <4>2 DEF Settle, MayWrite, RunTo
    <3> QED
      BY <2>2, <3>1, <3>2 DEF RunPending
  <2>10. CASE WriteVerdict(j)
    <3>1. won[j] /\ run[j] = "write" /\ run'[j] = "report" /\ ~StoreFails
      BY <2>10, NoFailure DEF WriteVerdict, RunTo, HandInv, WriterWon
    <3>2. status[j] \in Active /\ status'[j] = Written(j, verdict[j])
      BY <2>10, <3>1
         DEF WriteVerdict, StoreWrite, PutStatus, ClaimedActive, Pending, RunPending
    <3>3. status'[j] \in Terminal
      <4>1. verdict[j] \in {"ready", "failed", "cancelled"}
        OBVIOUS
      <4> QED
        BY <3>2, <4>1 DEF Written, AfterSetStatus, AfterSetError, Active, Terminal
    <3>4. ~Pending(j)'
      BY <1>1, <3>1 DEF Pending, RunPending, CancelPending, ReaperPending, ClaimInv,
         ClaimExclusive, RunOwns, CancelOwns, ReaperOwns
    <3> QED
      BY <3>3, <3>4 DEF Settled
  <2>11. CASE Report(j) \/ Exit(j)
    <3>1. /\ run[j] \in {"report", "exit"} /\ run'[j] \in {"exit", "done"}
          /\ finalizing' = finalizing /\ status' = status
      BY <2>11 DEF Report, Exit, RunTo, storeVars
    <3> QED
      BY <2>2, <3>1 DEF RunPending
  <2> QED
    BY <2>3, <2>4, <2>5, <2>6, <2>7, <2>8, <2>9, <2>10, <2>11 DEF Worker
<1> QED
  BY <1>2, <1>3

LEMMA SettledCancel ==
    ASSUME NoFaults, QueueInv, VerdictInv, NEW j \in Jobs, Cancel(j), RowStep, NEW i \in Jobs
    PROVE  Settled(i)'
<1> USE DEF QueueInv, TypeInv, TypeOK, StoreTypeOK, FinalizerTypeOK, RegistryTypeOK
<1>1. UNCHANGED <<run, won, reaperPc, reapJob>>
  BY DEF Cancel, CancelRead, CancelMark, CancelClaim, CancelRelease, CancelWrite, CancelReport,
     runVars, reapVars
<1>2. CASE i # j
  <2>1. /\ cancelPc'[i] = cancelPc[i] /\ status'[i] = status[i]
        /\ i \in finalizing' => i \in finalizing
    BY <1>2 DEF Cancel, CancelRead, CancelMark, CancelClaim, CancelRelease, CancelWrite,
       CancelReport, CancelTo, StoreWrite, PutStatus, storeVars
  <2>2. Pending(i)' <=> Pending(i)
    BY <1>1, <2>1 DEF Pending, RunPending, CancelPending, ReaperPending
  <2> QED
    BY <2>1, <2>2, SettledFrame
<1>3. Settled(j)'
  <2>1. ASSUME UNCHANGED <<finalizing, status>>, CancelPending(j)' <=> CancelPending(j)
        PROVE  Settled(j)'
    BY <1>1, <2>1, SettledFrame DEF Pending, RunPending, ReaperPending
  <2>2. CASE CancelRead(j) \/ CancelMark(j) \/ CancelRelease(j) \/ CancelReport(j)
             \/ (CancelClaim(j) /\ ClaimLost(j))
    BY ZenonT(60), <2>1, <2>2 DEF CancelRead, CancelMark, CancelClaim, CancelRelease, CancelReport, CancelTo,
       ClaimLost, CancelPending, storeVars
  <2>3. CASE CancelClaim(j) /\ ~ClaimLost(j)
    <3>1. status[j] \in Active /\ status' = status
      BY <2>3, Claimable DEF CancelClaim, ClaimLost, storeVars
    <3>2. Pending(j)'
      BY <2>3 DEF CancelClaim, CancelTo, ClaimLost, Pending, CancelPending
    <3> QED
      BY <3>1, <3>2 DEF Settled
  <2>4. CASE CancelWrite(j)
    <3>1. cancelPc[j] = "write" /\ cancelPc'[j] = "report" /\ ~StoreFails
      BY <2>4, NoFailure DEF CancelWrite, CancelTo, VerdictInv
    <3>2. status[j] \in Active
      BY <3>1 DEF VerdictInv, ClaimedActive, Pending, CancelPending
    <3>3. status'[j] \in Terminal
      BY <2>4, <3>1, <3>2
         DEF CancelWrite, StoreWrite, PutStatus, AfterSetStatus, Active, Terminal
    <3>4. ~Pending(j)'
      BY <1>1, <3>1 DEF Pending, RunPending, CancelPending, ReaperPending, ClaimInv,
         ClaimExclusive, RunOwns, CancelOwns, ReaperOwns
    <3> QED
      BY <3>3, <3>4 DEF Settled
  <2> QED
    BY <2>2, <2>3, <2>4 DEF Cancel
<1> QED
  BY <1>2, <1>3

LEMMA SettledReaper ==
    ASSUME NoFaults, QueueInv, VerdictInv, Reaper, RowStep, NEW i \in Jobs
    PROVE  Settled(i)'
<1> USE OrchestratorAssumption
    DEF QueueInv, TypeInv, TypeOK, StoreTypeOK, FinalizerTypeOK, RegistryTypeOK,
        OrchestratorAssumption
<1>1. UNCHANGED <<run, won, cancelPc>> /\ ~StoreFails
  BY NoFailure DEF Reaper, ReapTick, ReapClaim, ReapCancel, ReapMark, ReapError, ReapFree, runVars,
     VerdictInv
<1>2. ASSUME status'[i] = status[i], i \in finalizing' => i \in finalizing,
             ReaperPending(i)' <=> ReaperPending(i)
      PROVE  Settled(i)'
  BY <1>1, <1>2, SettledFrame DEF Pending, RunPending, CancelPending
<1>3. CASE ReapTick \/ ReapCancel \/ ReapFree
  BY <1>2, <1>3 DEF ReapTick, ReapCancel, ReapFree, NextStale, ReaperPending, storeVars, HandInv,
     ReaperHands
<1>4. CASE ReapClaim
  <2>1. status' = status /\ reapJob = NoJob
    BY <1>4 DEF ReapClaim, storeVars, HandInv, ReaperHands
  <2>2. \/ reapJob' = NoJob /\ finalizing' = finalizing
        \/ /\ \E s \in reapTodo : reapJob' = s.job /\ s.job \notin finalizing
                                  /\ finalizing' = finalizing \cup {s.job}
           /\ reaperPc' = "cancel"
    BY <1>4 DEF ReapClaim, ClaimLost
  <2>3. CASE reapJob' # i
    <3>1. i \in finalizing' => i \in finalizing
      BY <2>2, <2>3
    <3> QED
      BY <1>2, <2>1, <2>3, <3>1 DEF ReaperPending
  <2>4. CASE reapJob' = i
    <3>1. i \notin finalizing /\ Listed(i) /\ reaperPc' = "cancel"
      BY <2>2, <2>4 DEF Listed
    <3>2. status[i] \in Active
      BY <3>1, Claimable
    <3> QED
      BY <2>1, <2>4, <3>1, <3>2 DEF Settled, Pending, ReaperPending
  <2> QED
    BY <2>3, <2>4
<1>5. CASE ReapMark
  <2>1. /\ reaperPc = "mark" /\ reaperPc' = "error" /\ UNCHANGED <<finalizing, reapJob>>
        /\ PutStatus(reapJob, AfterSetStatus(status[reapJob], "failed"))
    BY <1>1, <1>5 DEF ReapMark, GiveUp
  <2>2. CASE reapJob # i
    BY <1>2, <2>1, <2>2 DEF PutStatus, ReaperPending
  <2>3. CASE reapJob = i
    <3>1. status[i] \in Active
      BY <2>1, <2>3 DEF VerdictInv, ClaimedActive, Pending, ReaperPending
    <3>2. status'[i] \in Terminal
      BY <2>1, <2>3, <3>1 DEF PutStatus, AfterSetStatus, Active, Terminal
    <3>3. ~Pending(i)'
      BY <1>1, <2>1, <2>3 DEF Pending, RunPending, CancelPending, ReaperPending, ClaimInv,
         ClaimExclusive, RunOwns, CancelOwns, ReaperOwns
    <3> QED
      BY <3>2, <3>3 DEF Settled
  <2> QED
    BY <2>2, <2>3
<1>6. CASE ReapError
  <2>1. /\ reaperPc = "error" /\ reaperPc' = "free" /\ UNCHANGED <<finalizing, reapJob>>
        /\ PutStatus(reapJob, AfterSetError(status[reapJob]))
    BY <1>1, <1>6 DEF ReapError, GiveUp
  <2>2. CASE reapJob # i
    BY <1>2, <2>1, <2>2 DEF PutStatus, ReaperPending
  <2>3. CASE reapJob = i
    <3>1. ~Pending(i) /\ ~Pending(i)'
      BY <1>1, <2>1, <2>3 DEF Pending, RunPending, CancelPending, ReaperPending, ClaimInv,
         ClaimExclusive, RunOwns, CancelOwns, ReaperOwns
    <3>2. i \in finalizing
      BY <2>3 DEF ClaimInv, ClaimExclusive, Owned, ReaperOwns
    <3>3. status'[i] \in Terminal
      BY <2>1, <2>3, <3>1, <3>2
         DEF PutStatus, AfterSetError, Terminal, VerdictInv, ClaimedActive
    <3> QED
      BY <3>1, <3>3 DEF Settled
  <2> QED
    BY <2>2, <2>3
<1> QED
  BY <1>3, <1>4, <1>5, <1>6 DEF Reaper

LEMMA ClaimedStep ==
    ASSUME NoFaults, QueueInv, VerdictInv, [Next]_vars
    PROVE  ClaimedActive'
<1>1. RowStep
  BY RowsKept DEF QueueInv
<1> SUFFICES ASSUME NEW i \in Jobs PROVE Settled(i)'
  BY DEF ClaimedActive, Settled
<1>2. ASSUME NEW l \in Lanes, Dequeue(l)
      PROVE  Settled(i)'
  <2>1. queues[l] # <<>> /\ queues[l] \in Seq(Jobs)
    BY <1>2 DEF Dequeue, QueueInv, TypeInv, TypeOK, RegistryTypeOK
  <2>2. ~won[Head(queues[l])]
    BY <2>1 DEF VerdictInv, QueuedOnce, WinnerLeaves
  <2>3. /\ run' = [run EXCEPT ![Head(queues[l])] = "check"]
        /\ UNCHANGED <<status, won, finalizing, cancelPc, reaperPc, reapJob>>
    BY <1>2 DEF Dequeue, RunTo, storeVars, reapVars
  <2>4. Pending(i)' <=> Pending(i)
    BY <2>2, <2>3 DEF Pending, RunPending, CancelPending, ReaperPending, QueueInv, TypeInv, TypeOK,
       RunTypeOK
  <2> QED
    BY <1>1, <2>3, <2>4, SettledFrame
<1>3. ASSUME UNCHANGED <<run, won, cancelPc, reapJob, finalizing, status>>,
             reaperPc' = reaperPc \/ reapJob = NoJob
      PROVE  Settled(i)'
  BY <1>1, <1>3, SettledFrame, OrchestratorAssumption
     DEF OrchestratorAssumption, Pending, RunPending, CancelPending, ReaperPending
<1>4. ASSUME NEW j \in Jobs, Tick(j)
      PROVE  Settled(i)'
  BY <1>3, <1>4 DEF Tick, runVars, reapVars
<1>5. CASE Operator \/ Boot \/ BootDone \/ UNCHANGED vars
  BY <1>3, <1>5 DEF Operator, Boot, BootDone, vars, storeVars, runVars, reapVars, QueueInv, HandInv,
     ReaperHands
<1>6. CASE Crash
  <2>1. /\ finalizing' = {} /\ ~won'[i] /\ cancelPc'[i] \in {"idle", "refused"}
        /\ reaperPc' = "idle"
    BY <1>6 DEF Crash
  <2> QED
    BY <2>1 DEF Settled, Pending, RunPending, CancelPending, ReaperPending
<1> QED
  BY <1>1, <1>2, <1>4, <1>5, <1>6, SettledEnqueue, SettledWorker, SettledCancel, SettledReaper
     DEF Next

-----------------------------------------------------------------------------
(* The theorems *)

LEMMA VerdictInit == Init => VerdictInv
BY OrchestratorAssumption
   DEF OrchestratorAssumption, Init, VerdictInv, NeverStopping, ClaimedActive, EndedOutOfReach,
       WinnerLeaves, QueuedOnce, Pending, RunPending, CancelPending, ReaperPending, Terminal

LEMMA VerdictInvariant ==
    ASSUME NoFaults
    PROVE  Spec => [](QueueInv /\ VerdictInv)
<1>1. QueueInv /\ VerdictInv /\ [Next]_vars => VerdictInv'
  BY NeverStops, ClaimedStep, EndedStep, WinnerLeavesStep, QueuedOnceStep DEF VerdictInv
<1> QED
  BY <1>1, VerdictInit, QueueInvariant, PTL DEF Spec

\* "With the claim in place, the guard rarely fires": without faults it never
\* does, the owner's terminal write always finds the row active.
THEOREM VerdictAlwaysLands ==
    ASSUME NoFaults
    PROVE  Spec => []VerdictLands
<1>1. QueueInv /\ VerdictInv => VerdictLands
  BY DEF QueueInv, HandInv, WriterWon, VerdictInv, ClaimedActive, Pending, RunPending,
     CancelPending, ReaperPending, VerdictLands
<1> QED
  BY <1>1, VerdictInvariant, PTL

\* A claim held for ever is held over a job that has ended: without faults no
\* active job is left with a claim and nobody to end it.
THEOREM NoClaimIsOrphaned ==
    ASSUME NoFaults
    PROVE  Spec => []NoOrphanedClaim
<1>1. QueueInv /\ VerdictInv => NoOrphanedClaim
  <2> SUFFICES ASSUME QueueInv, VerdictInv, NEW j \in finalizing, status[j] \in Active
               PROVE  Owned(j)
    BY DEF NoOrphanedClaim
  <2>1. j \in Jobs
    BY DEF QueueInv, TypeInv, TypeOK, RegistryTypeOK
  <2>2. Pending(j)
    BY <2>1 DEF VerdictInv, ClaimedActive, Active, Terminal
  <2> QED
    BY <2>2 DEF Pending, RunPending, CancelPending, ReaperPending, Owned, RunOwns, CancelOwns,
       ReaperOwns
<1> QED
  BY <1>1, VerdictInvariant, PTL

-----------------------------------------------------------------------------
(* Failures are reported once *)

\* The failure is written, its callback is still to come.
Reporting(j) ==
    \/ run[j] = "report" /\ verdict[j] = "failed"
    \/ reapJob = j /\ reaperPc \in {"error", "free"}

ReportedRight(j) ==
    /\ notified[j] <= 1 /\ (notified[j] = 1 => status[j] = "failed")
    /\ Reporting(j) => notified[j] = 0 /\ status[j] = "failed"

ReportInv == \A j \in Jobs : ReportedRight(j)

\* A status that says failed says so for ever.
LEMMA ReportedFrame ==
    ASSUME NoFaults, RowStep, NEW i \in Jobs, ReportedRight(i), notified'[i] = notified[i],
           Reporting(i)' => Reporting(i)
    PROVE  ReportedRight(i)'
BY DEF NoFaults, RowStep, Kept, Terminal, ReportedRight

LEMMA ReportedWorker ==
    ASSUME NoFaults, QueueInv, VerdictInv, ReportInv, RowStep,
           NEW j \in Jobs, Worker(j), NEW i \in Jobs
    PROVE  ReportedRight(i)'
<1>0. /\ run \in [Jobs -> RunPcs] /\ notified \in [Jobs -> Nat] /\ status \in [Jobs -> Status]
      /\ verdict \in [Jobs -> {"ready", "failed", "cancelled"}]
  BY DEF QueueInv, TypeInv, TypeOK, RunTypeOK, ProcessTypeOK, StoreTypeOK
<1>1. UNCHANGED <<reaperPc, reapJob>> /\ ReportedRight(i)
  BY DEF ReportInv, Worker, Check, Begin, Cooldown, AbortWait, StartAttempt, Beat, Return, Unregister,
     Settle, WriteVerdict, Report, Exit, reapVars
<1>2. ASSUME notified'[i] = notified[i],
             run'[i] = "report" => run[i] = "report" /\ verdict'[i] = verdict[i]
      PROVE  ReportedRight(i)'
  BY <1>1, <1>2, ReportedFrame DEF Reporting
<1>3. ASSUME NEW v, ClaimToWrite(j, v), notified' = notified
      PROVE  ReportedRight(i)'
  BY <1>0, <1>2, <1>3 DEF ClaimToWrite, RunTo
<1>4. CASE Check(j) \/ AbortWait(j)
  BY <1>0, <1>2, <1>3, <1>4 DEF Check, AbortWait, RunTo, obsVars
<1>5. CASE \/ Begin(j) \/ Cooldown(j) \/ StartAttempt(j) \/ Beat(j) \/ Unregister(j) \/ Settle(j)
           \/ \E o \in Outcomes \ {"none"} : Return(j, o)
  BY <1>0, <1>2, <1>5 DEF Begin, Cooldown, StartAttempt, Beat, Unregister, Settle, Return, RunTo,
     obsVars, runVars
<1>6. CASE Exit(j)
  BY <1>0, <1>2, <1>6 DEF Exit, ForgetLocals, RunTo, obsVars
<1>7. CASE WriteVerdict(j)
  <2>1. /\ run[j] = "write" /\ run' = [run EXCEPT ![j] = "report"]
        /\ UNCHANGED <<verdict, notified>> /\ ~StoreFails
    BY <1>7, NoFailure DEF WriteVerdict, RunTo, obsVars, VerdictInv, QueueInv
  <2>2. CASE i # j
    BY <1>0, <1>2, <2>1, <2>2
  <2>3. CASE i = j
    <3>1. status[j] \in Active
      BY <2>1 DEF QueueInv, HandInv, WriterWon, VerdictInv, ClaimedActive, Pending, RunPending
    <3>2. verdict[j] = "failed" => status'[j] = "failed"
      BY <1>0, <1>7, <2>1, <3>1
         DEF WriteVerdict, StoreWrite, PutStatus, Written, AfterSetError, Active, Terminal
    <3>3. notified[j] = 0 /\ reapJob # j
      <4>1. notified[j] # 1 /\ notified[j] <= 1
        BY <1>1, <2>3, <3>1 DEF ReportedRight, Active
      <4>2. won[j]
        BY <2>1 DEF QueueInv, HandInv, WriterWon
      <4> QED
        BY <1>0, <2>1, <4>1, <4>2 DEF QueueInv, ClaimInv, ClaimExclusive, RunOwns, ReaperOwns
    <3> QED
      BY <1>0, <1>1, <2>1, <2>3, <3>2, <3>3 DEF ReportedRight, Reporting
  <2> QED
    BY <2>2, <2>3
<1>8. CASE Report(j)
  <2>1. /\ run[j] = "report" /\ run' = [run EXCEPT ![j] = "exit"] /\ status' = status
        /\ notified' = IF verdict[j] = "failed" THEN [notified EXCEPT ![j] = @ + 1] ELSE notified
    BY <1>8, NoFailure DEF Report, RunTo, CallsBack, storeVars, VerdictInv, QueueInv
  <2>2. CASE i # j
    BY <1>0, <1>2, <2>1, <2>2, <1>8 DEF Report
  <2>3. CASE i = j
    <3>1. reapJob # j
      <4>1. won[j]
        BY <2>1 DEF QueueInv, HandInv, WriterWon
      <4> QED
        BY <2>1, <4>1 DEF QueueInv, ClaimInv, ClaimExclusive, RunOwns, ReaperOwns
    <3>2. ~Reporting(j)'
      BY <1>0, <1>1, <2>1, <3>1 DEF Reporting
    <3>3. verdict[j] = "failed" => notified[j] = 0 /\ status[j] = "failed"
      BY <1>1, <2>1, <2>3 DEF ReportedRight, Reporting
    <3> QED
      BY <1>0, <1>1, <2>1, <2>3, <3>2, <3>3 DEF ReportedRight
  <2> QED
    BY <2>2, <2>3
<1> QED
  BY <1>4, <1>5, <1>6, <1>7, <1>8 DEF Worker

LEMMA ReportedReaper ==
    ASSUME NoFaults, QueueInv, VerdictInv, ReportInv, RowStep, Reaper, NEW i \in Jobs
    PROVE  ReportedRight(i)'
<1>0. /\ notified \in [Jobs -> Nat] /\ status \in [Jobs -> Status] /\ NoJob \notin Jobs
      /\ reapJob \in Jobs \cup {NoJob}
  BY OrchestratorAssumption
     DEF OrchestratorAssumption, QueueInv, TypeInv, TypeOK, ProcessTypeOK, StoreTypeOK, FinalizerTypeOK
<1>1. UNCHANGED <<run, verdict>> /\ ~StoreFails /\ ReportedRight(i)
  BY NoFailure DEF ReportInv, Reaper, ReapTick, ReapClaim, ReapCancel, ReapMark, ReapError, ReapFree,
     runVars, VerdictInv, QueueInv
<1>2. ASSUME notified'[i] = notified[i],
             reapJob' = i /\ reaperPc' \in {"error", "free"} =>
                reapJob = i /\ reaperPc \in {"error", "free"}
      PROVE  ReportedRight(i)'
  BY <1>1, <1>2, ReportedFrame DEF Reporting
<1>3. CASE ReapTick \/ ReapClaim \/ ReapCancel \/ ReapError
  BY <1>1, <1>2, <1>3 DEF ReapTick, ReapClaim, ReapCancel, ReapError, GiveUp, obsVars
<1>4. CASE ReapMark
  <2>1. /\ reaperPc = "mark" /\ reaperPc' = "error" /\ UNCHANGED <<reapJob, notified>>
        /\ PutStatus(reapJob, AfterSetStatus(status[reapJob], "failed"))
    BY <1>1, <1>4 DEF ReapMark, GiveUp, obsVars
  <2>2. CASE i # reapJob
    BY <1>2, <2>1, <2>2
  <2>3. CASE i = reapJob
    <3>1. status[i] \in Active
      BY <2>1, <2>3 DEF VerdictInv, ClaimedActive, Pending, ReaperPending
    <3>2. status'[i] = "failed"
      BY <1>0, <2>1, <2>3, <3>1 DEF PutStatus, AfterSetStatus, Active, Terminal
    <3>3. notified[i] = 0
      BY <1>0, <1>1, <3>1 DEF ReportedRight, Active
    <3> QED
      BY <2>1, <3>2, <3>3 DEF ReportedRight
  <2> QED
    BY <2>2, <2>3
<1>5. CASE ReapFree
  <2>1. /\ reaperPc = "free" /\ reapJob' = NoJob /\ status' = status
        /\ notified' = [notified EXCEPT ![reapJob] = @ + 1]
    BY <1>5 DEF ReapFree, storeVars
  <2>2. CASE i # reapJob
    BY <1>0, <1>2, <2>1, <2>2
  <2>3. CASE i = reapJob
    <3>1. notified[i] = 0 /\ status[i] = "failed"
      BY <1>1, <2>1, <2>3 DEF ReportedRight, Reporting
    <3>2. run[i] # "report"
      BY <2>3 DEF QueueInv, HandInv, WriterWon, ClaimInv, ClaimExclusive, RunOwns, ReaperOwns
    <3>3. ~Reporting(i)'
      BY <1>0, <1>1, <2>1, <3>2 DEF Reporting
    <3> QED
      BY <1>0, <2>1, <2>3, <3>1, <3>3 DEF ReportedRight
  <2> QED
    BY <2>2, <2>3
<1> QED
  BY <1>3, <1>4, <1>5 DEF Reaper

LEMMA ReportStep ==
    ASSUME NoFaults, QueueInv, VerdictInv, ReportInv, [Next]_vars
    PROVE  ReportInv'
<1> SUFFICES ASSUME NEW i \in Jobs PROVE ReportedRight(i)'
  BY DEF ReportInv
<1>1. RowStep /\ ReportedRight(i)
  BY RowsKept DEF QueueInv, ReportInv
<1>2. ASSUME UNCHANGED <<notified, run, verdict, reapJob>>,
             reaperPc' = reaperPc \/ reapJob = NoJob
      PROVE  ReportedRight(i)'
  BY <1>1, <1>2, ReportedFrame, OrchestratorAssumption DEF OrchestratorAssumption, Reporting
<1>3. ASSUME NEW c \in Jobs, Enqueue(c) \/ Abandon(c) \/ Again(c) \/ Cancel(c) \/ Tick(c)
      PROVE  ReportedRight(i)'
  BY <1>2, <1>3 DEF Enqueue, Lookup, Attach, Claim, Inspect, Evict, Admit, Create, Send, SendAbort,
     WaitDone, Abandon, Again, Cancel, CancelRead, CancelMark, CancelClaim, CancelRelease, CancelWrite,
     CancelReport, Tick, obsVars, runVars, reapVars
<1>4. ASSUME NEW l \in Lanes, Dequeue(l)
      PROVE  ReportedRight(i)'
  <2>1. run' = [run EXCEPT ![Head(queues[l])] = "check"]
        /\ UNCHANGED <<notified, verdict, reaperPc, reapJob>>
    BY <1>4 DEF Dequeue, RunTo, obsVars, reapVars
  <2>2. run'[i] = "report" => run[i] = "report"
    BY <2>1 DEF QueueInv, TypeInv, TypeOK, RunTypeOK
  <2> QED
    BY <1>1, <2>1, <2>2, ReportedFrame DEF Reporting
<1>5. CASE Operator \/ Boot \/ BootDone \/ UNCHANGED vars
  BY <1>2, <1>5 DEF Operator, Boot, BootDone, vars, obsVars, runVars, reapVars, QueueInv, HandInv,
     ReaperHands
<1>6. CASE Crash
  <2>1. run'[i] = "none" /\ reapJob' = NoJob /\ notified' = notified
    BY <1>6 DEF Crash, obsVars
  <2>2. ~Reporting(i)'
    BY <2>1, OrchestratorAssumption DEF OrchestratorAssumption, Reporting
  <2> QED
    BY <1>1, <2>1, <2>2, ReportedFrame
<1> QED
  BY <1>1, <1>3, <1>4, <1>5, <1>6, ReportedWorker, ReportedReaper DEF Next

\* OnJobFailed is called at most once per job, and only for one whose row says failed by then,
\* whichever of run, Cancel, reaper and boot ends it, and however often the process dies. With
\* faults of the store a failing write may be reported, and the job be reaped and reported again.
THEOREM FailuresReportedOnce ==
    ASSUME NoFaults
    PROVE  Spec => []FailureReportedOnce
<1>1. Init => ReportInv
  BY OrchestratorAssumption
     DEF OrchestratorAssumption, Init, ReportInv, ReportedRight, Reporting
<1>2. QueueInv /\ VerdictInv /\ ReportInv /\ [Next]_vars => ReportInv'
  BY ReportStep
<1>3. ReportInv => FailureReportedOnce
  BY DEF ReportInv, ReportedRight, FailureReportedOnce
<1> QED
  BY <1>1, <1>2, <1>3, VerdictInvariant, PTL DEF Spec
=============================================================================
