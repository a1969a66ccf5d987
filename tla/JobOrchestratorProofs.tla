------------------------ MODULE JobOrchestratorProofs ------------------------
(***************************************************************************)
(* Proofs about JobOrchestrator, for every set of jobs, keys and lanes and *)
(* every value of the bounds, whatever fails or crashes: types, exclusive  *)
(* claims, and, over the SurrealDB store, that a terminal status is final  *)
(* and that the queue implements FinalizationClaim.                        *)
(*                                                                         *)
(* One lemma per group of variables: the steps that change the group, one  *)
(* by one, then the steps that leave it alone.  The strengthening behind   *)
(* the last two says that nobody acts on a job that has no row yet, and    *)
(* that a call which may still create one finds none there.                *)
(***************************************************************************)
EXTENDS JobOrchestrator, TLAPS

-----------------------------------------------------------------------------
(* Type correctness *)

RetryBound ==
    \A c \in Jobs :
        /\ callPc[c] = "idle" => tries[c] = 0
        /\ callPc[c] \in {"claim", "inspect", "evict"} => tries[c] <= 1

TypeInv == TypeOK /\ RetryBound

LEMMA TypeInit == Init => TypeInv
<1> SUFFICES ASSUME Init PROVE TypeInv
  OBVIOUS
<1>1. StoreTypeOK
  BY DEF Init, StoreTypeOK, Status
<1>2. CallTypeOK /\ RetryBound
  BY DEF Init, CallTypeOK, RetryBound, CallPcs
<1>3. RegistryTypeOK
  BY DEF Init, RegistryTypeOK
<1>4. RunTypeOK
  BY OrchestratorAssumption DEF OrchestratorAssumption, Init, RunTypeOK, RunPcs, Outcomes
<1>5. FinalizerTypeOK
  BY DEF Init, FinalizerTypeOK, CancelPcs, ReaperPcs
<1>6. ProcessTypeOK
  <2>1. 0 \in 0..MaxFailures /\ 0 \in 0..MaxRestarts /\ MaxConcurrency \in Nat
    BY OrchestratorAssumption DEF OrchestratorAssumption
  <2>2. [j \in Jobs |-> 0] \in [Jobs -> Nat]
    OBVIOUS
  <2> QED
    BY <2>1, <2>2 DEF Init, ProcessTypeOK
<1> QED
  BY <1>1, <1>2, <1>3, <1>4, <1>5, <1>6 DEF TypeInv, TypeOK

\* Updating a function, inside its domain or not, keeps its type.
LEMMA UpdateType ==
    ASSUME NEW D, NEW S, NEW f \in [D -> S], NEW x, NEW v \in S
    PROVE  [f EXCEPT ![x] = v] \in [D -> S]
OBVIOUS

\* What a write over a row may leave: always a status.
LEMMA StatusClosed ==
    ASSUME NEW cur, NEW new \in Status
    PROVE  AfterSetStatus(cur, new) \in Status /\ AfterSetError(cur) \in Status
BY DEF AfterSetStatus, AfterSetError, Status, Terminal

LEMMA StoreWrites ==
    ASSUME StoreTypeOK, NEW j
    PROVE  /\ \A s \in Status : PutStatus(j, s) => StoreTypeOK'
           /\ \A s \in Status : StoreWrite(j, s) => StoreTypeOK'
           /\ Touch(j) => StoreTypeOK'
           /\ UNCHANGED storeVars => StoreTypeOK'
<1>0. [age EXCEPT ![j] = 0] \in [Jobs -> 0..3]
  <2>1. 0 \in 0..3
    OBVIOUS
  <2> QED
    BY <2>1, UpdateType DEF StoreTypeOK
<1>1. \A s \in Status : PutStatus(j, s) => StoreTypeOK'
  <2> SUFFICES ASSUME NEW s \in Status, PutStatus(j, s) PROVE StoreTypeOK'
    OBVIOUS
  <2>1. [status EXCEPT ![j] = s] \in [Jobs -> Status]
    BY DEF StoreTypeOK
  <2> QED
    BY <1>0, <2>1 DEF StoreTypeOK, PutStatus
<1>2. UNCHANGED storeVars => StoreTypeOK'
  BY DEF StoreTypeOK, storeVars
<1>3. Touch(j) => StoreTypeOK'
  BY <1>0 DEF StoreTypeOK, Touch
<1> QED
  BY <1>1, <1>2, <1>3 DEF StoreWrite

LEMMA StoreType ==
    ASSUME TypeInv, [Next]_vars
    PROVE  StoreTypeOK'
<1> USE DEF TypeInv, TypeOK
<1>1. /\ {"pending", "generating", "failed", "cancelled"} \subseteq Status
      /\ {"ready", "failed", "cancelled"} \subseteq Status
  BY DEF Status, Active, Terminal
<1>2. ASSUME NEW c \in Jobs, Enqueue(c) \/ Abandon(c) \/ Again(c)
      PROVE  StoreTypeOK'
  <2>1. CASE Attach(c)
    BY <2>1, StoreWrites DEF Attach
  <2>2. CASE Inspect(c)
    BY <2>2, StoreWrites DEF Inspect
  <2>3. CASE Create(c)
    BY <2>3, <1>1, StoreWrites DEF Create
  <2>4. CASE SendAbort(c)
    BY <2>4, <1>1, StoreWrites, StatusClosed DEF SendAbort
  <2>5. CASE \/ Lookup(c) \/ Claim(c) \/ Evict(c) \/ Admit(c) \/ Send(c) \/ WaitDone(c)
             \/ Abandon(c) \/ Again(c)
    BY <2>5, StoreWrites DEF Lookup, Claim, Evict, Admit, Send, WaitDone, Abandon, Again
  <2> QED
    BY <1>2, <2>1, <2>2, <2>3, <2>4, <2>5 DEF Enqueue
<1>3. ASSUME NEW j \in Jobs, Worker(j)
      PROVE  StoreTypeOK'
  <2>1. CASE Begin(j)
    BY <2>1, <1>1, StoreWrites, StatusClosed DEF Begin
  <2>2. CASE Cooldown(j) \/ StartAttempt(j) \/ Beat(j) \/ Unregister(j)
    BY <2>2, StoreWrites DEF Cooldown, StartAttempt, StoreTouch, Beat, Unregister
  <2>3. CASE WriteVerdict(j)
    <3>1. Written(j, verdict[j]) \in Status
      BY <1>1, StatusClosed DEF Written, RunTypeOK
    <3> QED
      BY <2>3, <3>1, StoreWrites DEF WriteVerdict
  <2>4. CASE \/ Check(j) \/ AbortWait(j) \/ (\E o \in Outcomes \ {"none"} : Return(j, o))
             \/ Settle(j) \/ Report(j) \/ Exit(j)
    BY <2>4, StoreWrites DEF Check, AbortWait, Return, Settle, Report, Exit
  <2> QED
    BY <1>3, <2>1, <2>2, <2>3, <2>4 DEF Worker
<1>4. ASSUME NEW j \in Jobs, Cancel(j)
      PROVE  StoreTypeOK'
  <2>1. CASE CancelWrite(j)
    BY <2>1, <1>1, StoreWrites, StatusClosed DEF CancelWrite
  <2>2. CASE CancelRead(j) \/ CancelMark(j) \/ CancelClaim(j) \/ CancelRelease(j) \/ CancelReport(j)
    BY <2>2, StoreWrites DEF CancelRead, CancelMark, CancelClaim, CancelRelease, CancelReport
  <2> QED
    BY <1>4, <2>1, <2>2 DEF Cancel
<1>5. CASE Reaper
  <2>1. CASE ReapMark
    BY <2>1, <1>1, StoreWrites, StatusClosed DEF ReapMark, GiveUp
  <2>2. CASE ReapError
    BY <2>2, <1>1, StoreWrites, StatusClosed DEF ReapError, GiveUp
  <2>3. CASE ReapTick \/ ReapClaim \/ ReapCancel \/ ReapFree
    BY <2>3, StoreWrites DEF ReapTick, ReapClaim, ReapCancel, ReapFree
  <2> QED
    BY <1>5, <2>1, <2>2, <2>3 DEF Reaper
<1>6. ASSUME NEW j \in Jobs, Tick(j)
      PROVE  StoreTypeOK'
  BY <1>6, OrchestratorAssumption DEF OrchestratorAssumption, Tick, StoreTypeOK
<1>7. ASSUME NEW l \in Lanes, Dequeue(l)
      PROVE  StoreTypeOK'
  BY <1>7, StoreWrites DEF Dequeue
<1>8. CASE Operator \/ Crash \/ Boot \/ BootDone \/ UNCHANGED vars
  BY <1>8, StoreWrites DEF Operator, Crash, Boot, BootDone, vars
<1> QED
  BY <1>2, <1>3, <1>4, <1>5, <1>6, <1>7, <1>8 DEF Next

LEMMA CallType ==
    ASSUME TypeInv, [Next]_vars
    PROVE  CallTypeOK' /\ RetryBound'
<1> USE DEF TypeInv, TypeOK, CallTypeOK, RetryBound
<1>1. ASSUME NEW c \in Jobs, Enqueue(c) \/ Abandon(c) \/ Again(c)
      PROVE  CallTypeOK' /\ RetryBound'
  <2>1. CASE Lookup(c)
    BY <2>1 DEF Lookup, ActiveOn, CallTo, CallPcs
  <2>2. CASE Attach(c)
    BY <2>2 DEF Attach, Handed, CallTo, CallPcs
  <2>3. CASE Claim(c)
    <3>1. inflight[KeyOf[c]] \in Jobs \cup {NoJob}
      BY OrchestratorAssumption DEF OrchestratorAssumption, RegistryTypeOK
    <3>2. [seen EXCEPT ![c] = inflight[KeyOf[c]]] \in [Jobs -> Jobs \cup {NoJob}]
      BY <3>1
    <3> QED
      BY <2>3, <3>2 DEF Claim, CallTo, CallPcs
  <2>4. CASE Inspect(c)
    BY <2>4 DEF Inspect, Handed, CallTo, CallPcs
  <2>5. CASE Evict(c)
    BY <2>5 DEF Evict, CallTo, CallPcs
  <2>6. CASE Admit(c) \/ Create(c)
    BY <2>6 DEF Admit, Create, CallTo, CallPcs
  <2>7. CASE Send(c) \/ SendAbort(c)
    BY <2>7 DEF Send, SendAbort, CallTo, CallPcs
  <2>8. CASE WaitDone(c) \/ Abandon(c) \/ Again(c)
    BY <2>8 DEF WaitDone, Abandon, Again, CallTo, CallPcs
  <2> QED
    BY <1>1, <2>1, <2>2, <2>3, <2>4, <2>5, <2>6, <2>7, <2>8 DEF Enqueue
<1>2. CASE Crash
  BY <1>2 DEF Crash, CallPcs
<1>3. CASE UNCHANGED callVars
  BY <1>3 DEF callVars
<1>4. ASSUME NEW j \in Jobs, Worker(j)
      PROVE  UNCHANGED callVars
  BY <1>4 DEF Worker, Check, Begin, Cooldown, AbortWait, StartAttempt, Beat, Return, Unregister,
     Settle, WriteVerdict, Report, Exit
<1>5. ASSUME NEW j \in Jobs, Cancel(j) \/ Tick(j)
      PROVE  UNCHANGED callVars
  BY <1>5 DEF Cancel, CancelRead, CancelMark, CancelClaim, CancelRelease, CancelWrite,
     CancelReport, Tick
<1>6. CASE Reaper \/ Operator \/ Boot \/ BootDone \/ UNCHANGED vars
  BY <1>3, <1>6 DEF Reaper, ReapTick, ReapClaim, ReapCancel, ReapMark, ReapError, ReapFree,
     Operator, Boot, BootDone, vars
<1>7. ASSUME NEW l \in Lanes, Dequeue(l)
      PROVE  UNCHANGED callVars
  BY <1>7 DEF Dequeue
<1> QED
  BY <1>1, <1>2, <1>3, <1>4, <1>5, <1>6, <1>7 DEF Next

LEMMA RegistryType ==
    ASSUME TypeInv, [Next]_vars
    PROVE  RegistryTypeOK'
<1> USE OrchestratorAssumption
    DEF OrchestratorAssumption, TypeInv, TypeOK, RegistryTypeOK, ReleaseKey, ctxVars
<1>1. ASSUME NEW c \in Jobs, Enqueue(c) \/ Abandon(c) \/ Again(c)
      PROVE  RegistryTypeOK'
  <2>1. CASE Attach(c)
    BY <2>1 DEF Attach, CallTypeOK
  <2>2. CASE Claim(c) \/ Evict(c) \/ Admit(c) \/ Create(c) \/ SendAbort(c)
    BY <2>2 DEF Claim, Evict, Admit, Create, SendAbort
  <2>3. CASE Send(c)
    <3>1. [queues EXCEPT ![LaneOf[c]] = Append(@, c)] \in [Lanes -> Seq(Jobs)]
      OBVIOUS
    <3> QED
      BY <2>3, <3>1 DEF Send
  <2>4. CASE Lookup(c) \/ Inspect(c) \/ WaitDone(c) \/ Abandon(c) \/ Again(c)
    BY <2>4 DEF Lookup, Inspect, WaitDone, Abandon, Again
  <2> QED
    BY <1>1, <2>1, <2>2, <2>3, <2>4 DEF Enqueue
<1>2. ASSUME NEW j \in Jobs, Worker(j)
      PROVE  RegistryTypeOK'
  <2>1. CASE Check(j) \/ AbortWait(j)
    BY <2>1 DEF Check, AbortWait, ClaimToWrite
  <2>2. CASE StartAttempt(j) \/ Unregister(j) \/ Exit(j)
    BY <2>2 DEF StartAttempt, Unregister, Exit
  <2>3. CASE \E o \in Outcomes \ {"none"} : Return(j, o)
    BY <2>3 DEF Return
  <2>4. CASE Begin(j) \/ Cooldown(j) \/ Beat(j) \/ Settle(j) \/ WriteVerdict(j) \/ Report(j)
    BY <2>4 DEF Begin, Cooldown, Beat, Settle, WriteVerdict, Report
  <2> QED
    BY <1>2, <2>1, <2>2, <2>3, <2>4 DEF Worker
<1>3. ASSUME NEW j \in Jobs, Cancel(j) \/ Tick(j)
      PROVE  RegistryTypeOK'
  <2>1. CASE CancelMark(j) \/ CancelClaim(j) \/ CancelRelease(j)
    BY <2>1 DEF CancelMark, CancelClaim, CancelRelease
  <2>2. CASE CancelRead(j) \/ CancelWrite(j) \/ CancelReport(j) \/ Tick(j)
    BY <2>2 DEF CancelRead, CancelWrite, CancelReport, Tick
  <2> QED
    BY <1>3, <2>1, <2>2 DEF Cancel
<1>4. CASE Reaper
  <2>1. CASE ReapClaim
    BY <2>1 DEF ReapClaim, FinalizerTypeOK, Snapshot
  <2>2. CASE ReapCancel \/ ReapMark \/ ReapError \/ ReapFree
    BY <2>2 DEF ReapCancel, ReapMark, ReapError, ReapFree, GiveUp
  <2>3. CASE ReapTick
    BY <2>3 DEF ReapTick
  <2> QED
    BY <1>4, <2>1, <2>2, <2>3 DEF Reaper
<1>5. ASSUME NEW l \in Lanes, Dequeue(l)
      PROVE  RegistryTypeOK'
  <2>1. Tail(queues[l]) \in Seq(Jobs)
    BY <1>5 DEF Dequeue
  <2> QED
    BY <1>5, <2>1 DEF Dequeue
<1>6. CASE Crash
  BY <1>6 DEF Crash
<1>7. CASE Operator \/ Boot \/ BootDone \/ UNCHANGED vars
  BY <1>7 DEF Operator, Boot, BootDone, vars
<1> QED
  BY <1>1, <1>2, <1>3, <1>4, <1>5, <1>6, <1>7 DEF Next

LEMMA RunType ==
    ASSUME TypeInv, [Next]_vars
    PROVE  RunTypeOK'
<1> USE OrchestratorAssumption
    DEF OrchestratorAssumption, TypeInv, TypeOK, RunTypeOK, RunTo
<1>1. ASSUME NEW j \in Jobs, Worker(j)
      PROVE  RunTypeOK'
  <2>1. CASE Check(j) \/ AbortWait(j)
    BY ZenonT(60), <2>1 DEF Check, AbortWait, ClaimToWrite, RunPcs
  <2>2. CASE Begin(j)
    BY <2>2 DEF Begin, RunPcs
  <2>3. CASE Cooldown(j) \/ StartAttempt(j) \/ Unregister(j) \/ WriteVerdict(j) \/ Report(j)
    BY <2>3 DEF Cooldown, StartAttempt, Unregister, WriteVerdict, Report, RunPcs
  <2>4. ASSUME NEW o \in Outcomes \ {"none"}, Return(j, o)
        PROVE  RunTypeOK'
    BY <2>4 DEF Return, TerminalExit, RunPcs
  <2>5. CASE Settle(j)
    BY <2>5 DEF Settle, Retries, Verdict, RunPcs
  <2>6. CASE Exit(j)
    BY <2>6 DEF Exit, ForgetLocals, RunPcs, Outcomes
  <2>7. CASE Beat(j)
    BY <2>7 DEF Beat, runVars
  <2> QED
    BY <1>1, <2>1, <2>2, <2>3, <2>4, <2>5, <2>6, <2>7 DEF Worker
<1>2. ASSUME NEW l \in Lanes, Dequeue(l)
      PROVE  RunTypeOK'
  BY <1>2 DEF Dequeue, RunPcs
<1>3. CASE Crash
  BY <1>3 DEF Crash, RunPcs
<1>4. CASE UNCHANGED runVars
  BY <1>4 DEF runVars
<1>5. ASSUME NEW c \in Jobs, Enqueue(c) \/ Abandon(c) \/ Again(c)
      PROVE  UNCHANGED runVars
  BY <1>5 DEF Enqueue, Lookup, Attach, Claim, Inspect, Evict, Admit, Create, Send, SendAbort,
     WaitDone, Abandon, Again
<1>6. ASSUME NEW j \in Jobs, Cancel(j) \/ Tick(j)
      PROVE  UNCHANGED runVars
  BY <1>6 DEF Cancel, CancelRead, CancelMark, CancelClaim, CancelRelease, CancelWrite,
     CancelReport, Tick
<1>7. CASE Reaper \/ Operator \/ Boot \/ BootDone \/ UNCHANGED vars
  BY <1>4, <1>7 DEF Reaper, ReapTick, ReapClaim, ReapCancel, ReapMark, ReapError, ReapFree,
     Operator, Boot, BootDone, vars
<1> QED
  BY <1>1, <1>2, <1>3, <1>4, <1>5, <1>6, <1>7 DEF Next

LEMMA FinalizerType ==
    ASSUME TypeInv, [Next]_vars
    PROVE  FinalizerTypeOK'
<1> USE DEF TypeInv, TypeOK, FinalizerTypeOK, CancelTo, reapVars
<1>1. ASSUME NEW j \in Jobs, Cancel(j)
      PROVE  FinalizerTypeOK'
  BY <1>1 DEF Cancel, CancelRead, CancelMark, CancelClaim, CancelRelease, CancelWrite,
     CancelReport, CancelPcs
<1>2. CASE Reaper
  <2>1. CASE ReapTick
    <3>1. \A j \in Jobs : Stale(j) => [job |-> j, st |-> status[j]] \in Snapshot
      BY DEF Stale, Snapshot, Active
    <3> QED
      BY <2>1, <3>1 DEF ReapTick, Snap, ReaperPcs
  <2>2. CASE ReapClaim
    BY <2>2 DEF ReapClaim, Snapshot, ReaperPcs
  <2>3. CASE ReapCancel \/ ReapMark \/ ReapError \/ ReapFree
    BY <2>3 DEF ReapCancel, ReapMark, ReapError, ReapFree, GiveUp, NextStale, ReaperPcs
  <2> QED
    BY <1>2, <2>1, <2>2, <2>3 DEF Reaper
<1>3. CASE Crash
  BY <1>3 DEF Crash, CancelPcs, ReaperPcs
<1>4. CASE Boot
  <2>1. \A j \in Jobs : Zombie(j) => [job |-> j, st |-> status[j]] \in Snapshot
    BY DEF Zombie, Snapshot
  <2> QED
    BY <1>4, <2>1 DEF Boot, Snap, ReaperPcs
<1>5. CASE UNCHANGED <<cancelPc, reapVars>>
  BY <1>5
<1>6. ASSUME NEW c \in Jobs, Enqueue(c) \/ Abandon(c) \/ Again(c)
      PROVE  UNCHANGED <<cancelPc, reapVars>>
  BY <1>6 DEF Enqueue, Lookup, Attach, Claim, Inspect, Evict, Admit, Create, Send, SendAbort,
     WaitDone, Abandon, Again
<1>7. ASSUME NEW j \in Jobs, Worker(j) \/ Tick(j)
      PROVE  UNCHANGED <<cancelPc, reapVars>>
  BY <1>7 DEF Worker, Check, Begin, Cooldown, AbortWait, StartAttempt, Beat, Return, Unregister,
     Settle, WriteVerdict, Report, Exit, Tick
<1>8. ASSUME NEW l \in Lanes, Dequeue(l)
      PROVE  UNCHANGED <<cancelPc, reapVars>>
  BY <1>8 DEF Dequeue
<1>9. CASE Operator \/ BootDone \/ UNCHANGED vars
  BY <1>9 DEF Operator, BootDone, vars
<1> QED
  BY <1>1, <1>2, <1>3, <1>4, <1>5, <1>6, <1>7, <1>8, <1>9 DEF Next

LEMMA ProcessType ==
    ASSUME TypeInv, [Next]_vars
    PROVE  ProcessTypeOK'
<1> USE DEF TypeInv, TypeOK, ProcessTypeOK, StoreFails, StoreOk, adminVars, obsVars
<1>1. ASSUME NEW c \in Jobs, Enqueue(c) \/ Abandon(c) \/ Again(c)
      PROVE  ProcessTypeOK'
  <2>1. CASE Lookup(c) \/ Attach(c) \/ Inspect(c) \/ Create(c)
    BY <2>1, OrchestratorAssumption
       DEF OrchestratorAssumption, Lookup, Attach, Inspect, Create
  <2>2. CASE SendAbort(c)
    BY <2>2, OrchestratorAssumption DEF OrchestratorAssumption, SendAbort, StoreWrite
  <2>3. CASE \/ Claim(c) \/ Evict(c) \/ Admit(c) \/ Send(c) \/ WaitDone(c) \/ Abandon(c)
             \/ Again(c)
    BY <2>3 DEF Claim, Evict, Admit, Send, WaitDone, Abandon, Again
  <2> QED
    BY <1>1, <2>1, <2>2, <2>3 DEF Enqueue
<1>2. ASSUME NEW j \in Jobs, Worker(j) \/ Tick(j)
      PROVE  ProcessTypeOK'
  <2>1. CASE Check(j) \/ WriteVerdict(j)
    BY <2>1, OrchestratorAssumption
       DEF OrchestratorAssumption, Check, WriteVerdict, StoreWrite
  <2>2. CASE Report(j) \/ Begin(j) \/ Cooldown(j) \/ StartAttempt(j)
    BY <2>2, OrchestratorAssumption
       DEF OrchestratorAssumption, Report, Begin, Cooldown, StartAttempt, StoreTouch, Event
  <2>3. CASE Exit(j)
    BY <2>3 DEF Exit
  <2>4. CASE \/ AbortWait(j) \/ Beat(j) \/ (\E o \in Outcomes \ {"none"} : Return(j, o))
             \/ Unregister(j) \/ Settle(j) \/ Tick(j)
    BY <2>4 DEF AbortWait, Beat, Return, Unregister, Settle, Tick, Event
  <2> QED
    BY <1>2, <2>1, <2>2, <2>3, <2>4 DEF Worker
<1>3. ASSUME NEW j \in Jobs, Cancel(j)
      PROVE  ProcessTypeOK'
  <2>1. CASE CancelWrite(j)
    BY <2>1, OrchestratorAssumption DEF OrchestratorAssumption, CancelWrite, StoreWrite
  <2>2. CASE CancelReport(j)
    BY <2>2, OrchestratorAssumption DEF OrchestratorAssumption, CancelReport, Event
  <2>3. CASE CancelRead(j) \/ CancelMark(j) \/ CancelClaim(j) \/ CancelRelease(j)
    BY <2>3 DEF CancelRead, CancelMark, CancelClaim, CancelRelease
  <2> QED
    BY <1>3, <2>1, <2>2, <2>3 DEF Cancel
<1>4. CASE Reaper
  <2>1. CASE ReapMark \/ ReapError
    BY <2>1, OrchestratorAssumption DEF OrchestratorAssumption, ReapMark, ReapError, GiveUp
  <2>2. CASE ReapTick \/ ReapClaim \/ ReapCancel
    BY <2>2 DEF ReapTick, ReapClaim, ReapCancel
  <2>3. CASE ReapFree
    <3>1. [notified EXCEPT ![reapJob] = @ + 1] \in [Jobs -> Nat]
      <4>1. CASE reapJob \in Jobs
        <5>1. notified[reapJob] + 1 \in Nat
          BY <4>1
        <5> QED
          BY <5>1, UpdateType
      <4>2. CASE reapJob \notin Jobs
        BY <4>2
      <4> QED
        BY <4>1, <4>2
    <3>2. /\ notified' = [notified EXCEPT ![reapJob] = @ + 1]
          /\ UNCHANGED <<alive, paused, draining, idle, published, failures, restarts>>
      BY <2>3 DEF ReapFree
    <3> QED
      BY <3>1, <3>2
  <2> QED
    BY <1>4, <2>1, <2>2, <2>3 DEF Reaper
<1>5. ASSUME NEW l \in Lanes, Dequeue(l)
      PROVE  ProcessTypeOK'
  BY <1>5 DEF Dequeue
<1>6. CASE Operator
  BY <1>6 DEF Operator, Pause, BeginDrain, Stop
<1>7. CASE Crash
  <2>1. /\ alive' = "down" /\ paused' = FALSE /\ draining' = FALSE
        /\ idle' = MaxConcurrency
        /\ UNCHANGED <<published, notified, failures>>
    BY <1>7 DEF Crash
  <2>2. restarts' \in 0..MaxRestarts /\ MaxConcurrency \in Nat
    BY <1>7, OrchestratorAssumption DEF OrchestratorAssumption, Crash
  <2> QED
    BY <2>1, <2>2
<1>8. CASE Boot \/ BootDone \/ UNCHANGED vars
  BY <1>8 DEF Boot, BootDone, vars
<1> QED
  BY <1>1, <1>2, <1>3, <1>4, <1>5, <1>6, <1>7, <1>8 DEF Next

LEMMA TypeStep == TypeInv /\ [Next]_vars => TypeInv'
BY StoreType, CallType, RegistryType, RunType, FinalizerType, ProcessType DEF TypeInv, TypeOK

\* Every variable keeps its type, Enqueue evicts at most two claims per call and
\* a closure is attempted at most MaxAttempts times.
THEOREM TypeCorrect == Spec => []TypeOK
<1>1. Init => TypeInv
  BY TypeInit
<1>2. TypeInv => TypeOK
  BY DEF TypeInv
<1> QED
  BY <1>1, <1>2, TypeStep, PTL DEF Spec

-----------------------------------------------------------------------------
(* One owner of the terminal write *)

\* A runJob that is over, or that has not begun, holds no claim.
WonWhileRunning == \A j \in Jobs : run[j] \in {"none", "done"} => ~won[j]

ClaimInv == ClaimExclusive /\ WonWhileRunning

LEMMA ClaimWorker ==
    ASSUME TypeInv, ClaimInv, NEW j \in Jobs, Worker(j)
    PROVE  ClaimInv'
<1> USE DEF TypeInv, TypeOK, RunTypeOK, FinalizerTypeOK, RegistryTypeOK, ClaimInv,
    ClaimExclusive, WonWhileRunning, Owned, RunOwns, CancelOwns, ReaperOwns, RunTo
<1>1. ASSUME NEW v, ClaimToWrite(j, v), run[j] \notin {"none", "done"},
             UNCHANGED <<cancelPc, reapJob>>
      PROVE  ClaimInv'
  BY <1>1 DEF ClaimToWrite, ClaimLost
<1>2. CASE Check(j)
  <2>1. CASE \E v \in {"cancelled"} : ClaimToWrite(j, v)
    BY <1>1, <1>2, <2>1 DEF Check, reapVars
  <2>2. CASE UNCHANGED <<finalizing, won>> /\ (RunTo(j, "begin") \/ RunTo(j, "exit"))
    BY <1>2, <2>2 DEF Check, reapVars
  <2> QED
    BY <1>2, <2>1, <2>2 DEF Check
<1>3. CASE AbortWait(j)
  BY <1>1, <1>3 DEF AbortWait, reapVars
<1>4. ASSUME NEW o, Return(j, o)
      PROVE  ClaimInv'
  BY <1>4 DEF Return, ClaimLost, reapVars
<1>5. CASE \/ Begin(j) \/ Cooldown(j) \/ StartAttempt(j) \/ Beat(j) \/ Unregister(j)
           \/ Settle(j) \/ WriteVerdict(j) \/ Report(j)
  <2>1. /\ run[j] \notin {"none", "done"}
        /\ \E pc \in RunPcs \ {"none", "done"} : run' = [run EXCEPT ![j] = pc]
        /\ UNCHANGED <<won, finalizing, cancelPc, reapJob>>
    BY <1>5 DEF Begin, Cooldown, StartAttempt, Beat, Unregister, Settle, WriteVerdict, Report,
       reapVars, runVars, RunPcs
  <2> QED
    BY <2>1
<1>6. CASE Exit(j)
  BY <1>6 DEF Exit, ForgetLocals, reapVars
<1> QED
  BY <1>2, <1>3, <1>4, <1>5, <1>6 DEF Worker

LEMMA ClaimCancel ==
    ASSUME TypeInv, ClaimInv, NEW j \in Jobs, Cancel(j)
    PROVE  ClaimInv'
<1> USE DEF TypeInv, TypeOK, RunTypeOK, FinalizerTypeOK, RegistryTypeOK, ClaimInv,
    ClaimExclusive, WonWhileRunning, Owned, RunOwns, CancelOwns, ReaperOwns, CancelTo
<1>1. CASE CancelRead(j) \/ CancelMark(j)
  BY <1>1 DEF CancelRead, CancelMark, reapVars, runVars
<1>2. CASE CancelClaim(j)
  BY <1>2 DEF CancelClaim, ClaimLost, reapVars, runVars
<1>3. CASE CancelRelease(j) \/ CancelWrite(j) \/ CancelReport(j)
  BY <1>3 DEF CancelRelease, CancelWrite, CancelReport, reapVars, runVars
<1> QED
  BY <1>1, <1>2, <1>3 DEF Cancel

LEMMA ClaimReaper ==
    ASSUME TypeInv, ClaimInv, Reaper
    PROVE  ClaimInv'
<1> USE DEF TypeInv, TypeOK, RunTypeOK, FinalizerTypeOK, RegistryTypeOK, ClaimInv,
    ClaimExclusive, WonWhileRunning, Owned, RunOwns, CancelOwns, ReaperOwns
<1>1. CASE ReapTick \/ ReapCancel
  BY <1>1 DEF ReapTick, ReapCancel, runVars
<1>2. CASE ReapClaim
  BY <1>2, OrchestratorAssumption DEF OrchestratorAssumption, ReapClaim, ClaimLost, runVars
<1>3. CASE ReapMark \/ ReapError
  <2>1. CASE /\ finalizing' = finalizing \ {reapJob}
             /\ reapJob' = NoJob
             /\ UNCHANGED <<run, won, cancelPc>>
    BY <2>1, OrchestratorAssumption DEF OrchestratorAssumption
  <2>2. CASE UNCHANGED <<finalizing, reapJob, run, won, cancelPc>>
    BY <2>2
  <2> QED
    BY <1>3, <2>1, <2>2 DEF ReapMark, ReapError, GiveUp, runVars
<1>4. CASE ReapFree
  BY <1>4, OrchestratorAssumption DEF OrchestratorAssumption, ReapFree, runVars
<1> QED
  BY <1>1, <1>2, <1>3, <1>4 DEF Reaper

LEMMA ClaimInit == Init => ClaimInv
BY OrchestratorAssumption
   DEF OrchestratorAssumption, Init, ClaimInv, ClaimExclusive, WonWhileRunning, Owned, RunOwns,
       CancelOwns, ReaperOwns

LEMMA ClaimStep == TypeInv /\ ClaimInv /\ [Next]_vars => ClaimInv'
<1> SUFFICES ASSUME TypeInv, ClaimInv, [Next]_vars PROVE ClaimInv'
  OBVIOUS
<1> USE DEF ClaimInv, ClaimExclusive, WonWhileRunning, Owned, RunOwns, CancelOwns, ReaperOwns
<1>1. CASE UNCHANGED <<run, won, finalizing, cancelPc, reapJob>>
  BY <1>1
<1>2. ASSUME NEW c \in Jobs, Enqueue(c) \/ Abandon(c) \/ Again(c) \/ Tick(c)
      PROVE  UNCHANGED <<run, won, finalizing, cancelPc, reapJob>>
  BY <1>2 DEF Enqueue, Lookup, Attach, Claim, Inspect, Evict, Admit, Create, Send, SendAbort,
     WaitDone, Abandon, Again, Tick, runVars, reapVars
<1>3. ASSUME NEW l \in Lanes, Dequeue(l)
      PROVE  ClaimInv'
  BY <1>3 DEF Dequeue, RunTo, reapVars, TypeInv, TypeOK, RunTypeOK
<1>4. CASE Operator \/ Boot \/ BootDone \/ UNCHANGED vars
  BY <1>4, <1>1 DEF Operator, Boot, BootDone, vars, runVars, reapVars
<1>5. CASE Crash
  BY <1>5, OrchestratorAssumption DEF OrchestratorAssumption, Crash
<1> QED
  BY <1>1, <1>2, <1>3, <1>4, <1>5, ClaimWorker, ClaimCancel, ClaimReaper DEF Next

\* Whoever wins a claim is the only one to hold it: runJob, Cancel and the reaper
\* never own the terminal write of the same job.
THEOREM ClaimsAreExclusive == Spec => []ClaimExclusive
<1>1. TypeInv /\ ClaimInv => ClaimExclusive
  BY DEF ClaimInv
<1> QED
  BY <1>1, TypeInit, TypeStep, ClaimInit, ClaimStep, PTL DEF Spec

-----------------------------------------------------------------------------
(* Rows: who acts on a job acts on an existing one *)

Queued(j) == \E l \in Lanes : \E i \in 1..Len(queues[l]) : queues[l][i] = j
Listed(j) == \E s \in reapTodo : s.job = j

EarlyCalls == {"idle", "attach", "claim", "inspect", "evict", "admit", "create"}

\* Whoever acts on a job acts on an existing row.
RowExists ==
    \A j \in Jobs : status[j] = "absent" =>
        /\ callPc[j] # "send" /\ run[j] = "none" /\ cancelPc[j] = "idle"
        /\ reapJob # j /\ ~Listed(j) /\ ~Queued(j)

\* A call creates its row at most once.
RowFresh == \A c \in Jobs : callPc[c] \in EarlyCalls => status[c] = "absent"

\* A run writes only with its claim in hand.
WriterWon == \A j \in Jobs : run[j] \in {"write", "report"} => won[j]

\* Between two jobs of a sweep, and in a dead process, the reaper holds none.
ReaperHands == (reaperPc \in {"idle", "scan"} \/ alive = "down") => reapJob = NoJob

RowInv == RowExists /\ RowFresh
HandInv == WriterWon /\ ReaperHands

-----------------------------------------------------------------------------
(* Claims in hand *)

LEMMA HandWorker ==
    ASSUME TypeInv, HandInv, NEW j \in Jobs, Worker(j)
    PROVE  HandInv'
<1> USE DEF TypeInv, TypeOK, RunTypeOK, HandInv, WriterWon, RunTo
<1>1. UNCHANGED <<reaperPc, reapJob>> /\ (alive' = alive)
  BY DEF Worker, Check, Begin, Cooldown, AbortWait, StartAttempt, Beat, Return, Unregister,
     Settle, WriteVerdict, Report, Exit, reapVars, adminVars
<1>2. ReaperHands'
  BY <1>1 DEF ReaperHands
<1> SUFFICES WriterWon'
  BY <1>2
<1>3. ASSUME NEW v, ClaimToWrite(j, v)
      PROVE  WriterWon'
  BY <1>3 DEF ClaimToWrite
<1>4. CASE Check(j)
  BY <1>3, <1>4 DEF Check
<1>5. CASE AbortWait(j)
  BY <1>3, <1>5 DEF AbortWait
<1>6. ASSUME NEW o, Return(j, o)
      PROVE  WriterWon'
  BY <1>6 DEF Return
<1>7. CASE Settle(j)
  BY <1>7 DEF Settle, MayWrite
<1>8. CASE Begin(j) \/ Cooldown(j) \/ StartAttempt(j) \/ Beat(j) \/ Unregister(j)
  BY <1>8 DEF Begin, Cooldown, StartAttempt, Beat, Unregister, runVars
<1>9. CASE WriteVerdict(j) \/ Report(j) \/ Exit(j)
  BY <1>9 DEF WriteVerdict, Report, Exit, ForgetLocals
<1> QED
  BY <1>2, <1>4, <1>5, <1>6, <1>7, <1>8, <1>9 DEF Worker

LEMMA HandReaper ==
    ASSUME HandInv, Reaper
    PROVE  HandInv'
<1> USE DEF HandInv, ReaperHands
<1>1. WriterWon'
  BY DEF WriterWon, Reaper, ReapTick, ReapClaim, ReapCancel, ReapMark, ReapError, ReapFree,
     runVars
<1> SUFFICES ReaperHands'
  BY <1>1
<1>2. CASE ReapTick
  BY <1>2 DEF ReapTick, adminVars
<1>3. CASE ReapClaim
  BY <1>3 DEF ReapClaim, adminVars
<1>4. CASE ReapCancel
  BY <1>4 DEF ReapCancel, adminVars
<1>5. CASE ReapMark \/ ReapError
  BY <1>5 DEF ReapMark, ReapError, GiveUp, NextStale, adminVars
<1>6. CASE ReapFree
  BY <1>6 DEF ReapFree, NextStale, adminVars
<1> QED
  BY <1>1, <1>2, <1>3, <1>4, <1>5, <1>6 DEF Reaper

LEMMA HandStep ==
    ASSUME TypeInv, HandInv, [Next]_vars
    PROVE  HandInv'
<1> USE DEF HandInv, WriterWon, ReaperHands
<1>1. CASE UNCHANGED <<run, won, reaperPc, reapJob, alive>>
  BY <1>1
<1>2. ASSUME NEW c \in Jobs, Enqueue(c) \/ Abandon(c) \/ Again(c) \/ Tick(c) \/ Cancel(c)
      PROVE  UNCHANGED <<run, won, reaperPc, reapJob, alive>>
  BY <1>2 DEF Enqueue, Lookup, Attach, Claim, Inspect, Evict, Admit, Create, Send, SendAbort,
     WaitDone, Abandon, Again, Tick, Cancel, CancelRead, CancelMark, CancelClaim, CancelRelease,
     CancelWrite, CancelReport, runVars, reapVars, adminVars
<1>3. ASSUME NEW l \in Lanes, Dequeue(l)
      PROVE  HandInv'
  BY <1>3 DEF Dequeue, RunTo, reapVars, TypeInv, TypeOK, RunTypeOK
<1>4. CASE Operator
  BY <1>4 DEF Operator, Pause, BeginDrain, Stop, runVars, reapVars
<1>5. CASE Crash
  BY <1>5 DEF Crash
<1>6. CASE Boot \/ BootDone \/ UNCHANGED vars
  BY <1>6 DEF Boot, BootDone, vars, runVars, reapVars, adminVars
<1> QED
  BY <1>1, <1>2, <1>3, <1>4, <1>5, <1>6, HandWorker, HandReaper DEF Next

-----------------------------------------------------------------------------
(* What a step does to a row *)

\* A write over a row that exists: it stays, and in SurrealDB a terminal one
\* stays as it is.
Kept(cur, new) ==
    /\ cur # "absent" /\ new # "absent"
    /\ Persistent /\ cur \in Terminal => new = cur

\* Only Create makes a row, where there is none.
RowStep ==
    \A i \in Jobs :
        \/ status'[i] = status[i]
        \/ /\ callPc[i] = "create" /\ status[i] = "absent"
           /\ status'[i] = "pending" /\ callPc'[i] \in {"send", "done"}
        \/ callPc[i] \notin EarlyCalls /\ Kept(status[i], status'[i])

LEMMA GuardedWrites ==
    ASSUME NEW cur, cur # "absent", NEW new \in Status \ {"absent"}
    PROVE  Kept(cur, AfterSetStatus(cur, new)) /\ Kept(cur, AfterSetError(cur))
BY DEF Kept, AfterSetStatus, AfterSetError, Status, Terminal

LEMMA WriteRow ==
    ASSUME TypeInv, RowInv, NEW j \in Jobs, NEW s, Kept(status[j], s),
           PutStatus(j, s) \/ UNCHANGED storeVars
    PROVE  RowStep
<1>1. status \in [Jobs -> Status]
  BY DEF TypeInv, TypeOK, StoreTypeOK
<1>2. callPc[j] \notin EarlyCalls
  BY DEF RowInv, RowFresh, Kept
<1> QED
  BY <1>1, <1>2 DEF RowStep, PutStatus, storeVars

LEMMA RowWorker ==
    ASSUME TypeInv, RowInv, NEW j \in Jobs, Worker(j)
    PROVE  RowStep
<1>1. {"generating", "ready", "failed", "cancelled"} \subseteq Status \ {"absent"}
  BY DEF Status, Active, Terminal
<1>2. CASE Begin(j)
  <2>1. status[j] # "absent"
    BY <1>2 DEF Begin, RowInv, RowExists
  <2> QED
    BY <1>1, <1>2, <2>1, GuardedWrites, WriteRow DEF Begin
<1>3. CASE WriteVerdict(j)
  <2>1. status[j] # "absent"
    BY <1>3 DEF WriteVerdict, RowInv, RowExists
  <2>2. Kept(status[j], Written(j, verdict[j]))
    BY <1>1, <2>1, GuardedWrites DEF Written, TypeInv, TypeOK, RunTypeOK
  <2> QED
    BY <1>3, <2>2, WriteRow DEF WriteVerdict, StoreWrite
<1>4. CASE ~Begin(j) /\ ~WriteVerdict(j)
  <2>1. status' = status
    BY <1>4 DEF Worker, Check, Cooldown, AbortWait, StartAttempt, StoreTouch, Beat, Return,
       Unregister, Settle, Report, Exit, Touch, storeVars
  <2> QED
    BY <2>1 DEF RowStep
<1> QED
  BY <1>2, <1>3, <1>4

LEMMA RowReaper ==
    ASSUME TypeInv, RowInv, Reaper
    PROVE  RowStep
<1>1. CASE status' = status
  BY <1>1 DEF RowStep
<1>2. CASE ReapMark \/ ReapError
  <2>1. PICK s \in {AfterSetStatus(status[reapJob], "failed"), AfterSetError(status[reapJob])} :
            PutStatus(reapJob, s) \/ UNCHANGED storeVars
    BY <1>2 DEF ReapMark, ReapError, GiveUp
  <2>2. CASE reapJob \in Jobs
    <3>1. status[reapJob] # "absent"
      BY <2>2 DEF RowInv, RowExists
    <3>2. "failed" \in Status \ {"absent"}
      BY DEF Status, Terminal
    <3> QED
      BY <2>1, <2>2, <3>1, <3>2, GuardedWrites, WriteRow
  <2>3. CASE reapJob \notin Jobs
    <3>1. status' = status
      BY <2>1, <2>3 DEF PutStatus, storeVars, TypeInv, TypeOK, StoreTypeOK
    <3> QED
      BY <3>1, <1>1
  <2> QED
    BY <2>2, <2>3
<1>3. CASE ReapTick \/ ReapClaim \/ ReapCancel \/ ReapFree
  BY <1>1, <1>3 DEF ReapTick, ReapClaim, ReapCancel, ReapFree, storeVars
<1> QED
  BY <1>2, <1>3 DEF Reaper

LEMMA RowsKept ==
    ASSUME TypeInv, RowInv, [Next]_vars
    PROVE  RowStep
<1>1. CASE status' = status
  BY <1>1 DEF RowStep
<1>2. "cancelled" \in Status \ {"absent"}
  BY DEF Status, Terminal
<1>3. ASSUME NEW c \in Jobs, Enqueue(c) \/ Abandon(c) \/ Again(c)
      PROVE  RowStep
  <2>1. CASE Create(c)
    BY <2>1 DEF Create, CallTo, PutStatus, storeVars, RowStep, RowInv, RowFresh, EarlyCalls,
       TypeInv, TypeOK, StoreTypeOK, CallTypeOK
  <2>2. CASE SendAbort(c)
    <3>1. Kept(status[c], AfterSetError(status[c]))
      BY <2>2, <1>2, GuardedWrites DEF SendAbort, RowInv, RowExists
    <3> QED
      BY <2>2, <3>1, WriteRow DEF SendAbort, StoreWrite
  <2>3. CASE ~Create(c) /\ ~SendAbort(c)
    BY <1>1, <1>3, <2>3 DEF Enqueue, Lookup, Attach, Claim, Inspect, Evict, Admit, Send, WaitDone,
       Abandon, Again, Touch, storeVars
  <2> QED
    BY <2>1, <2>2, <2>3
<1>4. ASSUME NEW j \in Jobs, Cancel(j)
      PROVE  RowStep
  <2>1. CASE CancelWrite(j)
    <3>1. Kept(status[j], AfterSetStatus(status[j], "cancelled"))
      BY <2>1, <1>2, GuardedWrites DEF CancelWrite, RowInv, RowExists
    <3> QED
      BY <2>1, <3>1, WriteRow DEF CancelWrite, StoreWrite
  <2>2. CASE ~CancelWrite(j)
    BY <1>1, <1>4, <2>2 DEF Cancel, CancelRead, CancelMark, CancelClaim, CancelRelease,
       CancelReport, storeVars
  <2> QED
    BY <2>1, <2>2
<1>5. ASSUME NEW j \in Jobs, Tick(j)
      PROVE  RowStep
  BY <1>1, <1>5 DEF Tick
<1>6. CASE Operator \/ Crash \/ Boot \/ BootDone \/ UNCHANGED vars
  BY <1>1, <1>6 DEF Operator, Crash, Boot, BootDone, vars, storeVars
<1>7. ASSUME NEW l \in Lanes, Dequeue(l)
      PROVE  RowStep
  BY <1>1, <1>7 DEF Dequeue, storeVars
<1> QED
  BY <1>3, <1>4, <1>5, <1>6, <1>7, RowWorker, RowReaper DEF Next

-----------------------------------------------------------------------------
(* Where those who act on a job come from *)

LEMMA CallOrigin ==
    ASSUME TypeInv, [Next]_vars, NEW i \in Jobs
    PROVE  /\ callPc'[i] \in EarlyCalls => callPc[i] \in EarlyCalls \/ status[i] = "absent"
           /\ callPc'[i] = "send" =>
                callPc[i] = "send" \/ (callPc[i] = "create" /\ status'[i] # "absent")
<1> USE DEF TypeInv, TypeOK, StoreTypeOK, CallTypeOK, EarlyCalls
<1>1. CASE callPc' = callPc
  BY <1>1
<1>2. ASSUME NEW c \in Jobs, Enqueue(c) \/ Abandon(c) \/ Again(c)
      PROVE  /\ callPc'[i] \in EarlyCalls => callPc[i] \in EarlyCalls \/ status[i] = "absent"
             /\ callPc'[i] = "send" =>
                callPc[i] = "send" \/ (callPc[i] = "create" /\ status'[i] # "absent")
  <2>1. CASE Lookup(c) \/ Claim(c) \/ Evict(c) \/ Admit(c) \/ Again(c)
    BY <2>1 DEF Lookup, Claim, Evict, Admit, Again, CallTo
  <2>2. CASE Attach(c) \/ Inspect(c)
    BY <2>2 DEF Attach, Inspect, Handed, CallTo
  <2>3. CASE Create(c)
    BY <2>3 DEF Create, PutStatus, CallTo
  <2>4. CASE Send(c) \/ SendAbort(c) \/ WaitDone(c) \/ Abandon(c)
    BY <2>4 DEF Send, SendAbort, WaitDone, Abandon, CallTo
  <2> QED
    BY <1>2, <2>1, <2>2, <2>3, <2>4 DEF Enqueue
<1>3. ASSUME NEW j \in Jobs, Worker(j) \/ Cancel(j) \/ Tick(j)
      PROVE  callPc' = callPc
  BY <1>3 DEF Worker, Check, Begin, Cooldown, AbortWait, StartAttempt, Beat, Return, Unregister,
     Settle, WriteVerdict, Report, Exit, Cancel, CancelRead, CancelMark, CancelClaim,
     CancelRelease, CancelWrite, CancelReport, Tick, callVars
<1>4. ASSUME NEW l \in Lanes, Dequeue(l)
      PROVE  callPc' = callPc
  BY <1>4 DEF Dequeue, callVars
<1>5. CASE Reaper
  BY <1>1, <1>5 DEF Reaper, ReapTick, ReapClaim, ReapCancel, ReapMark, ReapError, ReapFree,
     callVars
<1>6. CASE Crash
  BY <1>6 DEF Crash
<1>7. CASE Operator \/ Boot \/ BootDone \/ UNCHANGED vars
  BY <1>1, <1>7 DEF Operator, Boot, BootDone, vars, callVars
<1> QED
  BY <1>1, <1>2, <1>3, <1>4, <1>5, <1>6, <1>7 DEF Next

LEMMA RunOrigin ==
    ASSUME TypeInv, [Next]_vars, NEW i \in Jobs, run'[i] # "none"
    PROVE  run[i] # "none" \/ Queued(i)
<1> USE DEF TypeInv, TypeOK, RunTypeOK, RunTo
<1>1. ASSUME NEW j \in Jobs, Worker(j)
      PROVE  run[i] # "none"
  BY <1>1 DEF Worker, Check, Begin, Cooldown, AbortWait, ClaimToWrite, StartAttempt, Beat, Return,
     Unregister, Settle, WriteVerdict, Report, Exit, runVars
<1>2. ASSUME NEW l \in Lanes, Dequeue(l)
      PROVE  run[i] # "none" \/ Queued(i)
  <2>1. queues[l] \in Seq(Jobs) /\ queues[l] # <<>>
    BY <1>2 DEF Dequeue, RegistryTypeOK
  <2>2. 1 \in 1..Len(queues[l]) /\ Head(queues[l]) = queues[l][1]
    BY <2>1
  <2>3. run' = [run EXCEPT ![Head(queues[l])] = "check"]
    BY <1>2 DEF Dequeue
  <2> QED
    BY <2>2, <2>3 DEF Queued
<1>3. ASSUME NEW c \in Jobs, Enqueue(c) \/ Abandon(c) \/ Again(c) \/ Tick(c) \/ Cancel(c)
      PROVE  run' = run
  BY <1>3 DEF Enqueue, Lookup, Attach, Claim, Inspect, Evict, Admit, Create, Send, SendAbort,
     WaitDone, Abandon, Again, Tick, Cancel, CancelRead, CancelMark, CancelClaim, CancelRelease,
     CancelWrite, CancelReport, runVars
<1>4. CASE Reaper
  BY <1>4 DEF Reaper, ReapTick, ReapClaim, ReapCancel, ReapMark, ReapError, ReapFree, runVars
<1>5. CASE Crash
  BY <1>5 DEF Crash
<1>6. CASE Operator \/ Boot \/ BootDone \/ UNCHANGED vars
  BY <1>6 DEF Operator, Boot, BootDone, vars, runVars
<1> QED
  BY <1>1, <1>2, <1>3, <1>4, <1>5, <1>6 DEF Next

LEMMA CancelOrigin ==
    ASSUME TypeInv, [Next]_vars, NEW i \in Jobs, cancelPc'[i] # "idle"
    PROVE  cancelPc[i] # "idle" \/ status[i] \in Active
<1> USE DEF TypeInv, TypeOK, FinalizerTypeOK, CancelTo
<1>1. ASSUME NEW j \in Jobs, Cancel(j)
      PROVE  cancelPc[i] # "idle" \/ status[i] \in Active
  BY <1>1 DEF Cancel, CancelRead, CanCancel, CancelMark, CancelClaim, CancelRelease, CancelWrite,
     CancelReport
<1>2. ASSUME NEW c \in Jobs, Enqueue(c) \/ Abandon(c) \/ Again(c) \/ Tick(c)
      PROVE  cancelPc' = cancelPc
  BY <1>2 DEF Enqueue, Lookup, Attach, Claim, Inspect, Evict, Admit, Create, Send, SendAbort,
     WaitDone, Abandon, Again, Tick
<1>3. ASSUME NEW j \in Jobs, Worker(j)
      PROVE  cancelPc' = cancelPc
  BY <1>3 DEF Worker, Check, Begin, Cooldown, AbortWait, StartAttempt, Beat, Return, Unregister,
     Settle, WriteVerdict, Report, Exit
<1>4. CASE Reaper \/ \E l \in Lanes : Dequeue(l)
  BY <1>4 DEF Reaper, ReapTick, ReapClaim, ReapCancel, ReapMark, ReapError, ReapFree, Dequeue
<1>5. CASE Crash
  BY <1>5 DEF Crash
<1>6. CASE Operator \/ Boot \/ BootDone \/ UNCHANGED vars
  BY <1>6 DEF Operator, Boot, BootDone, vars
<1> QED
  BY <1>1, <1>2, <1>3, <1>4, <1>5, <1>6 DEF Next

LEMMA ReapOrigin ==
    ASSUME TypeInv, [Next]_vars, NEW i \in Jobs
    PROVE  /\ reapJob' = i => reapJob = i \/ Listed(i)
           /\ Listed(i)' => Listed(i) \/ status[i] \in Active
<1> USE OrchestratorAssumption DEF OrchestratorAssumption, Listed
<1>1. CASE UNCHANGED <<reapTodo, reapJob>>
  BY <1>1
<1>2. ASSUME NEW S \in SUBSET Jobs, \A j \in S : status[j] \in Active, reapTodo' = Snap(S),
             reapJob' = reapJob
      PROVE  /\ reapJob' = i => reapJob = i \/ Listed(i)
             /\ Listed(i)' => Listed(i) \/ status[i] \in Active
  BY <1>2 DEF Snap
<1>3. CASE ReapTick
  BY <1>2, <1>3 DEF ReapTick, Stale, Active
<1>4. CASE Boot
  BY <1>2, <1>4 DEF Boot, Zombie
<1>5. CASE ReapClaim
  BY <1>5 DEF ReapClaim
<1>6. CASE ReapCancel \/ ReapMark \/ ReapError \/ ReapFree
  BY <1>6 DEF ReapCancel, ReapMark, ReapError, ReapFree, GiveUp
<1>7. CASE Crash
  BY <1>7 DEF Crash
<1>8. ASSUME NEW c \in Jobs, Enqueue(c) \/ Abandon(c) \/ Again(c) \/ Tick(c) \/ Cancel(c)
      PROVE  UNCHANGED <<reapTodo, reapJob>>
  BY <1>8 DEF Enqueue, Lookup, Attach, Claim, Inspect, Evict, Admit, Create, Send, SendAbort,
     WaitDone, Abandon, Again, Tick, Cancel, CancelRead, CancelMark, CancelClaim, CancelRelease,
     CancelWrite, CancelReport, reapVars
<1>9. ASSUME NEW j \in Jobs, Worker(j)
      PROVE  UNCHANGED <<reapTodo, reapJob>>
  BY <1>9 DEF Worker, Check, Begin, Cooldown, AbortWait, StartAttempt, Beat, Return, Unregister,
     Settle, WriteVerdict, Report, Exit, reapVars
<1>10. CASE (\E l \in Lanes : Dequeue(l)) \/ Operator \/ BootDone \/ UNCHANGED vars
  BY <1>1, <1>10 DEF Dequeue, Operator, BootDone, vars, reapVars
<1> QED
  BY <1>1, <1>3, <1>4, <1>5, <1>6, <1>7, <1>8, <1>9, <1>10 DEF Next, Reaper

LEMMA QueueOrigin ==
    ASSUME TypeInv, [Next]_vars, NEW i \in Jobs, Queued(i)'
    PROVE  Queued(i) \/ callPc[i] = "send"
<1> USE DEF Queued
<1>0. queues \in [Lanes -> Seq(Jobs)]
  BY DEF TypeInv, TypeOK, RegistryTypeOK
<1>1. CASE queues' = queues
  BY <1>1
<1>2. ASSUME NEW c \in Jobs, Send(c)
      PROVE  Queued(i) \/ callPc[i] = "send"
  <2>1. callPc[c] = "send" /\ queues' = [queues EXCEPT ![LaneOf[c]] = Append(@, c)]
    BY <1>2 DEF Send
  <2>2. PICK l \in Lanes : \E n \in 1..Len(queues'[l]) : queues'[l][n] = i
    OBVIOUS
  <2>3. CASE l # LaneOf[c]
    BY <1>0, <2>1, <2>2, <2>3
  <2>4. CASE l = LaneOf[c]
    <3>1. queues'[l] = Append(queues[l], c) /\ queues[l] \in Seq(Jobs)
      BY <1>0, <2>1, <2>4
    <3>2. PICK n \in 1..Len(queues[l]) + 1 : queues'[l][n] = i
      BY <2>2, <3>1
    <3>3. i = IF n = Len(queues[l]) + 1 THEN c ELSE queues[l][n]
      BY <2>2, <3>1, <3>2
    <3> QED
      BY <2>1, <3>1, <3>2, <3>3
  <2> QED
    BY <2>3, <2>4
<1>3. ASSUME NEW l \in Lanes, Dequeue(l)
      PROVE  Queued(i)
  <2>1. queues[l] # <<>> /\ queues' = [queues EXCEPT ![l] = Tail(@)]
    BY <1>3 DEF Dequeue
  <2>2. PICK k \in Lanes : \E n \in 1..Len(queues'[k]) : queues'[k][n] = i
    OBVIOUS
  <2>3. CASE k # l
    BY <1>0, <2>1, <2>2, <2>3
  <2>4. CASE k = l
    <3>1. queues'[l] = Tail(queues[l]) /\ queues[l] \in Seq(Jobs)
      BY <1>0, <2>1
    <3>2. PICK n \in 1..Len(Tail(queues[l])) : Tail(queues[l])[n] = i
      BY <2>2, <2>4, <3>1
    <3>3. n + 1 \in 1..Len(queues[l]) /\ queues[l][n + 1] = i
      BY <2>1, <3>1, <3>2
    <3> QED
      BY <3>3
  <2> QED
    BY <2>3, <2>4
<1>4. ASSUME NEW c \in Jobs, (Enqueue(c) /\ ~Send(c)) \/ Abandon(c) \/ Again(c) \/ Tick(c) \/ Cancel(c)
      PROVE  queues' = queues
  BY <1>4 DEF Enqueue, Lookup, Attach, Claim, Inspect, Evict, Admit, Create, SendAbort,
     WaitDone, Abandon, Again, Tick, Cancel, CancelRead, CancelMark, CancelClaim, CancelRelease,
     CancelWrite, CancelReport
<1>5. ASSUME NEW j \in Jobs, Worker(j)
      PROVE  queues' = queues
  BY <1>5 DEF Worker, Check, Begin, Cooldown, AbortWait, StartAttempt, Beat, Return, Unregister,
     Settle, WriteVerdict, Report, Exit
<1>6. CASE Reaper \/ Operator \/ Boot \/ BootDone \/ UNCHANGED vars
  BY <1>1, <1>6 DEF Reaper, ReapTick, ReapClaim, ReapCancel, ReapMark, ReapError, ReapFree,
     Operator, Boot, BootDone, vars
<1>7. CASE Crash
  BY <1>7 DEF Crash
<1> QED
  BY <1>1, <1>2, <1>3, <1>4, <1>5, <1>6, <1>7 DEF Next

LEMMA RowInit == Init => RowInv /\ HandInv
BY OrchestratorAssumption
   DEF OrchestratorAssumption, Init, RowInv, RowExists, RowFresh, HandInv, WriterWon, ReaperHands,
       Listed, Queued

LEMMA RowInvStep ==
    ASSUME TypeInv, RowInv, [Next]_vars
    PROVE  RowInv'
<1> USE RowsKept DEF RowInv, RowExists, RowFresh, RowStep, Kept
<1>1. RowFresh'
  BY CallOrigin DEF EarlyCalls
<1>2. ASSUME NEW j \in Jobs, status'[j] = "absent"
      PROVE  status[j] = "absent"
  BY <1>2
<1>3. ASSUME NEW j \in Jobs, status[j] = "absent"
      PROVE  status[j] \notin Active
  BY <1>3 DEF Active
<1>4. RowExists'
  <2> SUFFICES ASSUME NEW j \in Jobs, status'[j] = "absent"
               PROVE  /\ callPc'[j] # "send" /\ run'[j] = "none" /\ cancelPc'[j] = "idle"
                      /\ reapJob' # j /\ ~Listed(j)' /\ ~Queued(j)'
    OBVIOUS
  <2> QED
    BY <1>2, <1>3, CallOrigin, RunOrigin, CancelOrigin, ReapOrigin, QueueOrigin
<1> QED
  BY <1>1, <1>4

\* What holds in every state, for either store.
QueueInv == TypeInv /\ ClaimInv /\ RowInv /\ HandInv

LEMMA QueueInvariant == Spec => []QueueInv
<1>1. Init => QueueInv
  BY TypeInit, ClaimInit, RowInit DEF QueueInv
<1>2. QueueInv /\ [Next]_vars => QueueInv'
  BY TypeStep, ClaimStep, RowInvStep, HandStep DEF QueueInv
<1> QED
  BY <1>1, <1>2, PTL DEF Spec

\* With the SurrealDB store a terminal status never changes: "jobs don't
\* reactivate".
THEOREM TerminalStaysFinal ==
    ASSUME Persistent
    PROVE  Spec => TerminalIsFinal
<1>1. QueueInv /\ [Next]_vars
        => [\A j \in Jobs : status[j] \in Terminal => status'[j] = status[j]]_vars
  <2> SUFFICES ASSUME QueueInv, [Next]_vars, NEW j \in Jobs, status[j] \in Terminal
               PROVE  status'[j] = status[j]
    OBVIOUS
  <2>1. status[j] # "absent"
    BY DEF Terminal
  <2> QED
    BY <2>1, RowsKept DEF QueueInv, RowStep, Kept
<1> QED
  BY <1>1, QueueInvariant, PTL DEF Spec, TerminalIsFinal

-----------------------------------------------------------------------------
(* The steps of FinalizationClaim, seen from here *)

SameRow(i) == Row(i)' = Row(i)
SameHolder(i) == Holder(i)' = Holder(i)
SameRows == \A i \in Jobs : SameRow(i)
SameHolders == \A i \in Jobs : SameHolder(i)
OtherRows(j) == \A i \in Jobs \ {j} : SameRow(i)
OtherHolders(j) == \A i \in Jobs \ {j} : SameHolder(i)

AbstractStep == [Promise!Next]_(Promise!vars)

LEMMA Stutters ==
    ASSUME SameRows, SameHolders, UNCHANGED finalizing
    PROVE  AbstractStep
BY DEF SameRows, SameHolders, SameRow, SameHolder, AbstractStep, Promise!vars

LEMMA Ends ==
    ASSUME NEW j \in Jobs, Holder(j) # "nobody", Row(j) # "absent", Row(j)' = "ended",
           OtherRows(j), SameHolders, UNCHANGED finalizing
    PROVE  AbstractStep
<1>1. [i \in Jobs |-> Row(i)'] = [[i \in Jobs |-> Row(i)] EXCEPT ![j] = "ended"]
  BY DEF OtherRows, SameRow
<1>2. [i \in Jobs |-> Holder(i)'] = [i \in Jobs |-> Holder(i)]
  BY DEF SameHolders, SameHolder
<1>3. CASE Row(j) = "ended"
  BY <1>1, <1>2, <1>3, Stutters DEF OtherRows, SameRows, SameRow
<1>4. CASE Row(j) # "ended"
  <2>1. Row(j) \in {"created", "queued"}
    BY <1>4 DEF Row
  <2>2. Promise!End(j)
    BY <1>1, <1>2, <2>1 DEF Promise!End, Promise!RowTo
  <2> QED
    BY <2>2 DEF AbstractStep, Promise!Next
<1> QED
  BY <1>3, <1>4

LEMMA Takes ==
    ASSUME NEW j \in Jobs, NEW f \in {"run", "cancel", "reaper"}, j \notin finalizing,
           finalizing' = finalizing \cup {j}, Holder(j)' = f, OtherHolders(j), SameRows
    PROVE  AbstractStep
<1>1. [i \in Jobs |-> Holder(i)'] = [[i \in Jobs |-> Holder(i)] EXCEPT ![j] = f]
  BY DEF OtherHolders, SameHolder
<1>2. [i \in Jobs |-> Row(i)'] = [i \in Jobs |-> Row(i)]
  BY DEF SameRows, SameRow
<1>3. Promise!Take(j, f)
  BY <1>1, <1>2 DEF Promise!Take, Promise!HolderTo
<1> QED
  BY <1>3 DEF AbstractStep, Promise!Next, Promise!Finalizers

LEMMA Finishes ==
    ASSUME NEW j \in Jobs, Holder(j)' = "nobody", OtherHolders(j), SameRows,
           UNCHANGED finalizing
    PROVE  AbstractStep
<1>1. CASE Holder(j) = "nobody"
  BY <1>1, Stutters DEF OtherHolders, SameHolders, SameHolder
<1>2. CASE Holder(j) # "nobody"
  <2>1. [i \in Jobs |-> Holder(i)'] = [[i \in Jobs |-> Holder(i)] EXCEPT ![j] = "nobody"]
    BY DEF OtherHolders, SameHolder
  <2>2. [i \in Jobs |-> Row(i)'] = [i \in Jobs |-> Row(i)]
    BY DEF SameRows, SameRow
  <2>3. Promise!Finish(j)
    BY <1>2, <2>1, <2>2 DEF Promise!Finish, Promise!HolderTo
  <2> QED
    BY <2>3 DEF AbstractStep, Promise!Next
<1> QED
  BY <1>1, <1>2

LEMMA Releases ==
    ASSUME NEW j \in Jobs, Holder(j) = "reaper", Row(j) # "absent",
           SameRow(j) \/ Row(j)' = "ended", OtherRows(j),
           finalizing' = finalizing \ {j}, Holder(j)' = "nobody", OtherHolders(j)
    PROVE  AbstractStep
<1>1. [i \in Jobs |-> Holder(i)'] = [[i \in Jobs |-> Holder(i)] EXCEPT ![j] = "nobody"]
  BY DEF OtherHolders, SameHolder
<1>2. \/ [i \in Jobs |-> Row(i)'] = [i \in Jobs |-> Row(i)]
      \/ [i \in Jobs |-> Row(i)'] = [[i \in Jobs |-> Row(i)] EXCEPT ![j] = "ended"]
  BY DEF OtherRows, SameRow
<1>3. Promise!Release(j)
  BY <1>1, <1>2 DEF Promise!Release, Promise!HolderTo, Promise!RowTo
<1> QED
  BY <1>3 DEF AbstractStep, Promise!Next

LEMMA Creates ==
    ASSUME NEW j \in Jobs, OtherRows(j), SameHolders, UNCHANGED finalizing,
           \/ Row(j) = "absent" /\ Row(j)' \in {"created", "queued"}
           \/ Row(j) = "created" /\ Row(j)' \in {"queued", "ended"}
    PROVE  AbstractStep
<1>1. [i \in Jobs |-> Row(i)'] = [[i \in Jobs |-> Row(i)] EXCEPT ![j] = Row(j)']
  BY DEF OtherRows, SameRow
<1>2. [i \in Jobs |-> Holder(i)'] = [i \in Jobs |-> Holder(i)]
  BY DEF SameHolders, SameHolder
<1>3. Promise!Create(j) \/ Promise!Offer(j)
  BY <1>1, <1>2 DEF Promise!Create, Promise!Offer, Promise!RowTo
<1> QED
  BY <1>3 DEF AbstractStep, Promise!Next

-----------------------------------------------------------------------------
(* Every step of the queue is one of them *)

LEMMA SameRowsIf ==
    ASSUME status' = status, callPc' = callPc
    PROVE  SameRows
BY DEF SameRows, SameRow, Row

LEMMA SameHoldersIf ==
    ASSUME UNCHANGED <<run, won, cancelPc, reapJob>>
    PROVE  SameHolders
BY DEF SameHolders, SameHolder, Holder, RunOwns, CancelOwns, ReaperOwns

\* A row that nobody has created does not end.
LEMMA EndedRow ==
    ASSUME NEW j \in Jobs, status[j] # "absent", status'[j] \in Terminal
    PROVE  Row(j) # "absent" /\ Row(j)' = "ended"
BY DEF Row, Terminal

LEMMA RefineEnqueue ==
    ASSUME Persistent, QueueInv, NEW c \in Jobs, Enqueue(c) \/ Abandon(c) \/ Again(c)
    PROVE  AbstractStep
<1> USE DEF QueueInv, TypeInv, TypeOK, StoreTypeOK, CallTypeOK
<1>1. SameHolders /\ UNCHANGED finalizing
  <2>1. UNCHANGED <<run, won, cancelPc, reapJob, finalizing>>
    BY DEF Enqueue, Lookup, Attach, Claim, Inspect, Evict, Admit, Create, Send, SendAbort,
       WaitDone, Abandon, Again, runVars, reapVars
  <2> QED
    BY <2>1, SameHoldersIf
<1>2. CASE Create(c)
  <2>1. status[c] = "absent" /\ callPc[c] = "create"
    BY <1>2 DEF Create, RowInv, RowFresh, EarlyCalls
  <2>2. OtherRows(c)
    BY <1>2 DEF Create, CallTo, PutStatus, storeVars, OtherRows, SameRow, Row
  <2>3. CASE status'[c] = "pending"
    <3>1. Row(c) = "absent" /\ Row(c)' \in {"created", "queued"}
      BY <2>1, <2>3 DEF Row, Terminal
    <3> QED
      BY <1>1, <2>2, <3>1, Creates
  <2>4. CASE status' = status
    <3>1. SameRow(c)
      BY <2>1, <2>4 DEF SameRow, Row
    <3> QED
      BY <1>1, <2>2, <3>1, Stutters DEF SameRows, OtherRows
  <2> QED
    BY <1>2, <2>3, <2>4 DEF Create, PutStatus, storeVars
<1>3. CASE Send(c) \/ SendAbort(c)
  <2>1. status[c] # "absent" /\ callPc[c] = "send" /\ callPc'[c] \in {"wait", "done"}
    BY <1>3 DEF Send, SendAbort, CallTo, RowInv, RowExists
  <2>2. OtherRows(c)
    BY <1>3 DEF Send, SendAbort, CallTo, StoreWrite, PutStatus, storeVars, OtherRows, SameRow, Row
  <2>3. status'[c] = status[c] \/ status'[c] \in Terminal
    BY <1>3 DEF Send, SendAbort, StoreWrite, PutStatus, storeVars, AfterSetError, Terminal
  <2>4. status[c] \in Terminal => status'[c] = status[c]
    BY <1>3 DEF Send, SendAbort, StoreWrite, PutStatus, storeVars, AfterSetError, Terminal
  <2>5. CASE status[c] \in Terminal
    <3>1. SameRow(c)
      BY <2>1, <2>4, <2>5 DEF SameRow, Row
    <3> QED
      BY <1>1, <2>2, <3>1, Stutters DEF SameRows, OtherRows
  <2>6. CASE status[c] \notin Terminal
    <3>1. Row(c) = "created" /\ Row(c)' \in {"queued", "ended"}
      BY <2>1, <2>3, <2>6 DEF Row, Terminal
    <3> QED
      BY <1>1, <2>2, <3>1, Creates
  <2> QED
    BY <2>5, <2>6
<1>4. CASE Lookup(c) \/ Attach(c) \/ Claim(c) \/ Inspect(c) \/ Evict(c) \/ Admit(c) \/ WaitDone(c)
           \/ Abandon(c) \/ Again(c)
  <2>1. status' = status /\ \A i \in Jobs : callPc'[i] = "send" <=> callPc[i] = "send"
    <3>1. CASE Attach(c) \/ Inspect(c)
      BY <3>1 DEF Attach, Inspect, Handed, CallTo, Touch, storeVars
    <3>2. CASE ~Attach(c) /\ ~Inspect(c)
      BY <1>4, <3>2 DEF Lookup, Claim, Evict, Admit, WaitDone, Abandon, Again, CallTo, storeVars
    <3> QED
      BY <3>1, <3>2
  <2>2. SameRows
    BY <2>1 DEF SameRows, SameRow, Row
  <2> QED
    BY <1>1, <2>2, Stutters
<1> QED
  BY <1>2, <1>3, <1>4 DEF Enqueue

LEMMA RefineWorker ==
    ASSUME Persistent, QueueInv, NEW j \in Jobs, Worker(j)
    PROVE  AbstractStep
<1> USE DEF QueueInv, TypeInv, TypeOK, StoreTypeOK, RunTypeOK
<1>1. UNCHANGED <<callPc, cancelPc, reapJob>>
  BY DEF Worker, Check, Begin, Cooldown, AbortWait, StartAttempt, Beat, Return, Unregister,
     Settle, WriteVerdict, Report, Exit, callVars, reapVars
<1>2. ASSUME UNCHANGED won, run[j] \notin {"none", "done"},
             NEW pc, pc \notin {"none", "done"}, run' = [run EXCEPT ![j] = pc]
      PROVE  SameHolders
  BY <1>1, <1>2 DEF SameHolders, SameHolder, Holder, RunOwns, CancelOwns, ReaperOwns
\* The run wins its claim ...
<1>3. ASSUME j \notin finalizing, finalizing' = finalizing \cup {j}, status' = status,
             won' = [won EXCEPT ![j] = TRUE],
             NEW pc \in RunPcs \ {"none", "done"}, run' = [run EXCEPT ![j] = pc]
      PROVE  AbstractStep
  <2>1. Holder(j)' = "run" /\ OtherHolders(j)
    BY <1>1, <1>3 DEF OtherHolders, SameHolder, Holder, RunOwns, CancelOwns, ReaperOwns
  <2>2. SameRows
    BY <1>1, <1>3, SameRowsIf
  <2> QED
    BY <1>3, <2>1, <2>2, Takes
\* ... or has none, or none any more.
<1>4. ASSUME UNCHANGED finalizing, status' = status, won' = [won EXCEPT ![j] = FALSE],
             NEW pc, run' = [run EXCEPT ![j] = pc]
      PROVE  AbstractStep
  <2>1. OtherHolders(j) /\ (SameHolder(j) \/ Holder(j)' = "nobody")
    BY <1>1, <1>4 DEF OtherHolders, SameHolder, Holder, RunOwns, CancelOwns, ReaperOwns, ClaimInv,
       ClaimExclusive
  <2>2. SameRows
    BY <1>1, <1>4, SameRowsIf
  <2>3. CASE SameHolder(j)
    BY <1>4, <2>1, <2>2, <2>3, Stutters DEF SameHolders, OtherHolders
  <2> QED
    BY <1>4, <2>1, <2>2, <2>3, Finishes
<1>5. ASSUME NEW v, ClaimToWrite(j, v), run[j] \notin {"none", "done"}, status' = status
      PROVE  AbstractStep
  <2>1. CASE ClaimLost(j)
    <3>1. SameHolders /\ UNCHANGED finalizing
      BY <1>2, <1>5, <2>1 DEF ClaimToWrite, RunTo
    <3> QED
      BY <1>1, <1>5, <3>1, SameRowsIf, Stutters
  <2>2. CASE ~ClaimLost(j)
    BY <1>3, <1>5, <2>2 DEF ClaimToWrite, ClaimLost, RunTo, RunPcs
  <2> QED
    BY <2>1, <2>2
<1>6. CASE Check(j)
  <2>1. run[j] = "check" /\ status' = status
    BY <1>6 DEF Check, storeVars
  <2>2. CASE ClaimToWrite(j, "cancelled")
    BY <1>5, <2>1, <2>2
  <2>3. CASE UNCHANGED <<finalizing, won>> /\ (RunTo(j, "begin") \/ RunTo(j, "exit"))
    <3>1. SameHolders
      BY <1>2, <2>1, <2>3 DEF RunTo
    <3> QED
      BY <1>1, <2>1, <2>3, <3>1, SameRowsIf, Stutters
  <2> QED
    BY <1>6, <2>2, <2>3 DEF Check
<1>7. CASE AbortWait(j)
  BY <1>5, <1>7 DEF AbortWait, storeVars
<1>8. ASSUME NEW o, Return(j, o)
      PROVE  AbstractStep
  <2>1. status' = status /\ run' = [run EXCEPT ![j] = "unregister"]
    BY <1>8 DEF Return, RunTo, storeVars
  <2>2. CASE TerminalExit(j, o) /\ ~ClaimLost(j)
    BY <1>3, <1>8, <2>1, <2>2 DEF Return, ClaimLost, RunPcs
  <2>3. CASE ~(TerminalExit(j, o) /\ ~ClaimLost(j))
    BY <1>4, <1>8, <2>1, <2>3 DEF Return
  <2> QED
    BY <2>2, <2>3
<1>9. CASE Exit(j)
  BY <1>4, <1>9 DEF Exit, ForgetLocals, RunTo, storeVars
<1>10. CASE Begin(j) \/ WriteVerdict(j)
  <2>1. UNCHANGED <<won, finalizing>> /\ run[j] \in {"begin", "write"}
        /\ (RunTo(j, "attempt") \/ RunTo(j, "report"))
    BY <1>10 DEF Begin, WriteVerdict
  <2>2. SameHolders
    BY <1>2, <2>1 DEF RunTo
  <2>3. status[j] # "absent"
    BY <2>1 DEF RowInv, RowExists
  <2>4. OtherRows(j)
    BY <1>1, <1>10 DEF Begin, WriteVerdict, StoreWrite, PutStatus, storeVars, OtherRows, SameRow, Row
  <2>5. CASE SameRow(j)
    BY <2>1, <2>2, <2>4, <2>5, Stutters DEF SameRows, OtherRows
  <2>6. CASE Begin(j)
    <3>1. \/ status'[j] = status[j]
          \/ status[j] \notin Terminal /\ status'[j] \notin Terminal \cup {"absent"}
      BY <2>6 DEF Begin, PutStatus, storeVars, AfterSetStatus, Terminal
    <3>2. SameRow(j)
      BY <1>1, <2>3, <3>1 DEF SameRow, Row
    <3> QED
      BY <2>5, <3>2
  <2>7. CASE WriteVerdict(j)
    <3>1. Holder(j) = "run"
      BY <2>7 DEF WriteVerdict, Holder, RunOwns, HandInv, WriterWon
    <3>2. status'[j] = status[j] \/ status'[j] \in Terminal
      <4>1. status'[j] = status[j] \/ status'[j] = Written(j, verdict[j])
        BY <2>7 DEF WriteVerdict, StoreWrite, PutStatus, storeVars
      <4>2. verdict[j] \in {"ready", "failed", "cancelled"}
        OBVIOUS
      <4> QED
        BY <4>1, <4>2 DEF Written, AfterSetStatus, AfterSetError, Terminal
    <3>3. CASE status'[j] = status[j]
      BY <1>1, <2>5, <3>3 DEF SameRow, Row
    <3>4. CASE status'[j] \in Terminal
      BY <2>1, <2>2, <2>3, <2>4, <3>1, <3>4, EndedRow, Ends
    <3> QED
      BY <3>2, <3>3, <3>4
  <2> QED
    BY <1>10, <2>6, <2>7
<1>11. CASE Cooldown(j) \/ StartAttempt(j) \/ Beat(j) \/ Unregister(j) \/ Settle(j) \/ Report(j)
  <2>1. UNCHANGED <<won, finalizing, status>> /\ run[j] \notin {"none", "done"}
        /\ \E pc \in RunPcs \ {"none", "done"} : run' = [run EXCEPT ![j] = pc]
    BY <1>11 DEF Cooldown, StartAttempt, StoreTouch, Beat, Unregister, Touch, Settle, Report,
       RunTo, runVars, storeVars, RunPcs
  <2>2. SameHolders
    BY <1>2, <2>1
  <2> QED
    BY <1>1, <2>1, <2>2, SameRowsIf, Stutters
<1> QED
  BY <1>6, <1>7, <1>8, <1>9, <1>10, <1>11 DEF Worker

LEMMA RefineCancel ==
    ASSUME Persistent, QueueInv, NEW j \in Jobs, Cancel(j)
    PROVE  AbstractStep
<1> USE DEF QueueInv, TypeInv, TypeOK, StoreTypeOK, FinalizerTypeOK
<1>1. UNCHANGED <<callPc, run, won, reapJob>>
  BY DEF Cancel, CancelRead, CancelMark, CancelClaim, CancelRelease, CancelWrite, CancelReport,
     callVars, runVars, reapVars
<1>2. ASSUME NEW pc, cancelPc' = [cancelPc EXCEPT ![j] = pc]
      PROVE  /\ OtherHolders(j)
             /\ pc \in {"release", "write", "report"} /\ CancelOwns(j) => SameHolder(j)
             /\ pc \notin {"release", "write", "report"} /\ ~CancelOwns(j) => SameHolder(j)
  BY <1>1, <1>2 DEF OtherHolders, SameHolder, Holder, RunOwns, CancelOwns, ReaperOwns
<1>3. CASE CancelRead(j) \/ CancelMark(j) \/ CancelRelease(j) \/ (CancelClaim(j) /\ ClaimLost(j))
  <2>1. status' = status /\ finalizing' = finalizing
    BY <1>3 DEF CancelRead, CancelMark, CancelRelease, CancelClaim, ClaimLost, storeVars
  <2>2. \E pc \in CancelPcs :
           /\ cancelPc' = [cancelPc EXCEPT ![j] = pc]
           /\ pc \in {"release", "write", "report"} <=> CancelOwns(j)
    BY <1>3 DEF CancelRead, CancelMark, CancelRelease, CancelClaim, CancelTo, CancelOwns, CancelPcs
  <2>3. SameHolders
    BY <1>2, <2>2 DEF SameHolders, OtherHolders
  <2> QED
    BY <1>1, <2>1, <2>3, SameRowsIf, Stutters
<1>4. CASE CancelClaim(j) /\ ~ClaimLost(j)
  <2>1. /\ status' = status /\ j \notin finalizing /\ finalizing' = finalizing \cup {j}
        /\ cancelPc' = [cancelPc EXCEPT ![j] = "release"]
    BY <1>4 DEF CancelClaim, ClaimLost, CancelTo, storeVars
  <2>2. Holder(j)' = "cancel" /\ OtherHolders(j)
    BY <1>1, <1>2, <2>1 DEF Holder, RunOwns, CancelOwns, ClaimInv, ClaimExclusive, Owned
  <2> QED
    BY <1>1, <2>1, <2>2, SameRowsIf, Takes
<1>5. CASE CancelWrite(j)
  <2>1. /\ UNCHANGED finalizing /\ cancelPc[j] = "write"
        /\ cancelPc' = [cancelPc EXCEPT ![j] = "report"]
    BY <1>5 DEF CancelWrite, CancelTo
  <2>2. SameHolders /\ Holder(j) # "nobody"
    BY <1>2, <2>1 DEF SameHolders, OtherHolders, CancelOwns, Holder
  <2>3. status[j] # "absent"
    BY <2>1 DEF RowInv, RowExists
  <2>4. OtherRows(j)
    BY <1>1, <1>5 DEF CancelWrite, StoreWrite, PutStatus, storeVars, OtherRows, SameRow, Row
  <2>5. status'[j] = status[j] \/ status'[j] \in Terminal
    BY <1>5 DEF CancelWrite, StoreWrite, PutStatus, storeVars, AfterSetStatus, Terminal
  <2>6. CASE status'[j] = status[j]
    <3>1. SameRow(j)
      BY <1>1, <2>6 DEF SameRow, Row
    <3> QED
      BY <2>1, <2>2, <2>4, <3>1, Stutters DEF SameRows, OtherRows
  <2>7. CASE status'[j] \in Terminal
    BY <2>1, <2>2, <2>3, <2>4, <2>7, EndedRow, Ends
  <2> QED
    BY <2>5, <2>6, <2>7
<1>6. CASE CancelReport(j)
  <2>1. /\ status' = status /\ finalizing' = finalizing /\ cancelPc[j] = "report"
        /\ cancelPc' = [cancelPc EXCEPT ![j] = "acked"]
    BY <1>6 DEF CancelReport, CancelTo, storeVars
  <2>2. Holder(j)' = "nobody" /\ OtherHolders(j)
    BY <1>1, <1>2, <2>1 DEF Holder, RunOwns, CancelOwns, ReaperOwns, ClaimInv, ClaimExclusive
  <2> QED
    BY <1>1, <2>1, <2>2, SameRowsIf, Finishes
<1> QED
  BY <1>3, <1>4, <1>5, <1>6 DEF Cancel

LEMMA RefineReaper ==
    ASSUME Persistent, QueueInv, Reaper
    PROVE  AbstractStep
<1> USE DEF QueueInv, TypeInv, TypeOK, StoreTypeOK, FinalizerTypeOK, RegistryTypeOK
<1>1. UNCHANGED <<callPc, run, won, cancelPc>>
  BY DEF Reaper, ReapTick, ReapClaim, ReapCancel, ReapMark, ReapError, ReapFree, callVars, runVars
<1>2. ASSUME NEW j \in Jobs, reapJob \in {j, NoJob}, reapJob' \in {j, NoJob}
      PROVE  /\ OtherHolders(j)
             /\ reapJob = j => Holder(j) = "reaper"
             /\ reapJob' = NoJob /\ ~RunOwns(j) /\ ~CancelOwns(j) => Holder(j)' = "nobody"
             /\ reapJob' = j /\ ~RunOwns(j) /\ ~CancelOwns(j) => Holder(j)' = "reaper"
  BY <1>1, <1>2, OrchestratorAssumption
     DEF OrchestratorAssumption, OtherHolders, SameHolder, Holder, RunOwns, CancelOwns, ReaperOwns,
         ClaimInv, ClaimExclusive
<1>3. ASSUME UNCHANGED <<reapJob, status, finalizing>>
      PROVE  AbstractStep
  BY <1>1, <1>3, SameRowsIf, SameHoldersIf, Stutters
<1>4. CASE ReapTick \/ ReapCancel
  BY <1>3, <1>4 DEF ReapTick, ReapCancel, storeVars
<1>5. CASE ReapClaim
  <2>1. status' = status /\ reapJob = NoJob
    BY <1>5 DEF ReapClaim, storeVars, HandInv, ReaperHands
  <2>2. \/ reapJob' = NoJob /\ finalizing' = finalizing
        \/ \E s \in reapTodo :
             reapJob' = s.job /\ s.job \notin finalizing /\ finalizing' = finalizing \cup {s.job}
    BY <1>5 DEF ReapClaim, ClaimLost
  <2>3. ASSUME NEW s \in reapTodo,
               reapJob' = s.job, s.job \notin finalizing, finalizing' = finalizing \cup {s.job}
        PROVE  AbstractStep
    <3>1. s.job \in Jobs
      BY DEF Snapshot
    <3>2. ~RunOwns(s.job) /\ ~CancelOwns(s.job)
      BY <2>3, <3>1 DEF ClaimInv, ClaimExclusive, Owned
    <3>3. Holder(s.job)' = "reaper" /\ OtherHolders(s.job)
      BY <1>2, <2>1, <2>3, <3>1, <3>2
    <3> QED
      BY <1>1, <2>1, <2>3, <3>1, <3>3, SameRowsIf, Takes
  <2> QED
    BY <1>3, <2>1, <2>2, <2>3
<1>6. CASE ReapMark \/ ReapError
  <2>1. PICK s \in {AfterSetStatus(status[reapJob], "failed"), AfterSetError(status[reapJob])} :
            PutStatus(reapJob, s) \/ UNCHANGED storeVars
    BY <1>6 DEF ReapMark, ReapError, GiveUp
  <2>2. \/ UNCHANGED <<finalizing, reapJob>>
        \/ finalizing' = finalizing \ {reapJob} /\ reapJob' = NoJob
    BY <1>6 DEF ReapMark, ReapError, GiveUp
  <2>3. CASE reapJob \notin Jobs
    <3>1. status' = status
      BY <2>1, <2>3 DEF PutStatus, storeVars
    <3>2. UNCHANGED <<finalizing, reapJob>>
      BY ZenonT(60), <2>2, <2>3
    <3> QED
      BY <1>3, <3>1, <3>2
  <2>4. ASSUME NEW j \in Jobs, reapJob = j
        PROVE  AbstractStep
    <3>1. status[j] # "absent" /\ ~RunOwns(j) /\ ~CancelOwns(j)
      BY <2>4 DEF RowInv, RowExists, ClaimInv, ClaimExclusive, ReaperOwns
    <3>2. OtherRows(j)
      BY <1>1, <2>1, <2>4 DEF PutStatus, storeVars, OtherRows, SameRow, Row
    <3>3. status'[j] = status[j] \/ status'[j] \in Terminal
      BY <2>1, <2>4 DEF PutStatus, storeVars, AfterSetStatus, AfterSetError, Terminal
    <3>4. Holder(j) = "reaper" /\ OtherHolders(j) /\ Row(j) # "absent"
      BY <1>2, <2>2, <2>4, <3>1 DEF Row
    <3>5. SameRow(j) \/ Row(j)' = "ended"
      <4>1. CASE status'[j] = status[j]
        BY <1>1, <4>1 DEF SameRow, Row
      <4>2. CASE status'[j] \in Terminal
        BY <3>1, <4>2, EndedRow
      <4> QED
        BY <3>3, <4>1, <4>2
    <3>6. CASE UNCHANGED <<finalizing, reapJob>>
      <4>1. SameHolders
        BY <1>1, <3>6, SameHoldersIf
      <4>2. CASE SameRow(j)
        BY <3>2, <3>6, <4>1, <4>2, Stutters DEF SameRows, OtherRows
      <4>3. CASE Row(j)' = "ended"
        BY <3>2, <3>4, <3>6, <4>1, <4>3, Ends
      <4> QED
        BY <3>5, <4>2, <4>3
    <3>7. CASE finalizing' = finalizing \ {reapJob} /\ reapJob' = NoJob
      <4>1. Holder(j)' = "nobody"
        BY <1>2, <2>4, <3>1, <3>7
      <4> QED
        BY <2>4, <3>2, <3>4, <3>5, <3>7, <4>1, Releases
    <3> QED
      BY <2>2, <3>6, <3>7
  <2> QED
    BY <2>3, <2>4
<1>7. CASE ReapFree
  <2>1. status' = status /\ finalizing' = finalizing /\ reapJob' = NoJob
    BY <1>7 DEF ReapFree, storeVars
  <2>2. CASE reapJob \notin Jobs
    BY <1>3, <2>1, <2>2
  <2>3. CASE reapJob \in Jobs
    <3>1. ~RunOwns(reapJob) /\ ~CancelOwns(reapJob)
      BY <2>3 DEF ClaimInv, ClaimExclusive, ReaperOwns
    <3>2. \A j \in Jobs : j = reapJob => Holder(j)' = "nobody" /\ OtherHolders(j)
      BY <1>2, <2>1, <3>1
    <3>3. ASSUME NEW j \in Jobs, j = reapJob
          PROVE  AbstractStep
      BY <1>1, <2>1, <3>2, <3>3, SameRowsIf, Finishes
    <3> QED
      BY <2>3, <3>3
  <2> QED
    BY <2>2, <2>3
<1> QED
  BY <1>4, <1>5, <1>6, <1>7 DEF Reaper

LEMMA RefineCrash ==
    ASSUME QueueInv, Crash
    PROVE  AbstractStep
<1>1. finalizing' = {} /\ \A i \in Jobs : Holder(i)' = "nobody"
  BY OrchestratorAssumption
     DEF OrchestratorAssumption, Crash, Holder, RunOwns, CancelOwns, ReaperOwns
<1>2. \A i \in Jobs : Row(i)' = IF Row(i) = "created" THEN "queued" ELSE Row(i)
  BY DEF Crash, storeVars, Row
<1>3. [i \in Jobs |-> Holder(i)'] = [i \in Jobs |-> "nobody"]
  BY <1>1
<1>4. [i \in Jobs |-> Row(i)']
        = [i \in Jobs |-> IF [k \in Jobs |-> Row(k)][i] = "created"
                          THEN "queued" ELSE [k \in Jobs |-> Row(k)][i]]
  BY <1>2
<1>5. Promise!Reset
  BY <1>1, <1>3, <1>4 DEF Promise!Reset
<1> QED
  BY <1>5 DEF AbstractStep, Promise!Next

LEMMA RefineStep ==
    ASSUME Persistent, QueueInv, [Next]_vars
    PROVE  AbstractStep
<1>1. ASSUME UNCHANGED <<status, callPc, run, won, cancelPc, reapJob, finalizing>>
      PROVE  AbstractStep
  BY <1>1, SameRowsIf, SameHoldersIf, Stutters
<1>2. ASSUME NEW l \in Lanes, Dequeue(l)
      PROVE  AbstractStep
  <2>1. SameHolders
    <3>1. run' = [run EXCEPT ![Head(queues[l])] = "check"] /\ UNCHANGED <<won, cancelPc, reapJob>>
      BY <1>2 DEF Dequeue, RunTo, reapVars
    <3> QED
      BY <3>1 DEF SameHolders, SameHolder, Holder, RunOwns, CancelOwns, ReaperOwns, QueueInv,
         ClaimInv, WonWhileRunning, TypeInv, TypeOK, RunTypeOK
  <2>2. UNCHANGED <<status, callPc, finalizing>>
    BY <1>2 DEF Dequeue, storeVars, callVars
  <2> QED
    BY <2>1, <2>2, SameRowsIf, Stutters
<1>3. ASSUME NEW j \in Jobs, Tick(j)
      PROVE  AbstractStep
  BY <1>1, <1>3 DEF Tick, callVars, runVars, reapVars
<1>4. CASE Operator \/ Boot \/ BootDone \/ UNCHANGED vars
  BY <1>1, <1>4 DEF Operator, Boot, BootDone, vars, storeVars, callVars, runVars, reapVars
<1> QED
  BY <1>2, <1>3, <1>4, RefineEnqueue, RefineWorker, RefineCancel, RefineReaper, RefineCrash
     DEF Next

LEMMA RefineInit == Init => Promise!Init
<1> SUFFICES ASSUME Init PROVE Promise!Init
  OBVIOUS
<1>1. \A i \in Jobs : Row(i) = "absent" /\ Holder(i) = "nobody"
  BY OrchestratorAssumption
     DEF OrchestratorAssumption, Init, Row, Holder, RunOwns, CancelOwns, ReaperOwns
<1> QED
  BY <1>1 DEF Init, Promise!Init

\* With the SurrealDB store the queue keeps claimFinalization's promise: nobody
\* but the holder of its claim ends a job that a worker may have been offered, a
\* claim is taken by one at a time and given back only by the reaper.
THEOREM ClaimIsImplemented ==
    ASSUME Persistent
    PROVE  Spec => ImplementsClaim
<1>1. QueueInv /\ [Next]_vars => [Promise!Next]_(Promise!vars)
  BY RefineStep DEF AbstractStep
<1> QED
  BY <1>1, RefineInit, QueueInvariant, PTL DEF Spec, ImplementsClaim, Promise!Spec
=============================================================================
