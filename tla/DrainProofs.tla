---------------------------- MODULE DrainProofs ----------------------------
(***************************************************************************)
(* Proofs about DrainAdmission, for any set of triggers, requests and      *)
(* jobs, and that it implements DrainPromise.                              *)
(***************************************************************************)
EXTENDS DrainAdmission, FiniteSetTheorems, TLAPS

Serving == {r \in Reqs : req[r] = "admitted"}
InTheMiddle == {"admitted", "queued", "running"}

\* The tracker's counter is the number of requests between TryAdmit and Release.
CountInv == count = Cardinality(Serving)

\* What a BeginDrain under way has closed so far, an operator's resume apart; when the
\* flag is up, either one is under way or all the gates are closed.
BeginInv ==
    /\ \A t \in Triggers : begin[t] # "idle" => serverDraining
    /\ \A t \in Triggers : begin[t] \in {"gate", "mark"} => intakePaused \/ resumed
    /\ \A t \in Triggers : begin[t] = "mark" => reaperGated
    /\ serverDraining => Closed \/ \E t \in Triggers : begin[t] \in {"pause", "gate", "mark"}

\* What the shutdown knows at each of its steps.
ShutInv ==
    /\ shut # "serving" => Closed
    /\ shut \in {"serving", "await", "wait", "blocked"} <=> verdict = "none"
    /\ shut \in {"serving", "await", "wait", "blocked", "cancel"} => ~rootDone
    /\ ~rootDone => \A j \in Jobs : job[j] # "lost"
    /\ shut \in {"wait", "blocked"} \/ verdict = "clean"
           => \A j \in Jobs \ late : job[j] \notin InTheMiddle
    /\ verdict = "clean" => count = 0 /\ \A j \in Jobs \ late : job[j] # "lost"

Inv == TypeOK /\ CountInv /\ BeginInv /\ ShutInv

-----------------------------------------------------------------------------
LEMMA ServingFinite ==
    IsFiniteSet(Serving) /\ Cardinality(Serving) \in 0..Cardinality(Reqs)
<1>1. IsFiniteSet(Reqs) /\ Serving \subseteq Reqs
  BY DrainAssumption DEF DrainAssumption, Serving
<1>2. IsFiniteSet(Serving) /\ Cardinality(Serving) <= Cardinality(Reqs)
  BY <1>1, FS_Subset
<1>3. Cardinality(Serving) \in Nat /\ Cardinality(Reqs) \in Nat
  BY <1>1, <1>2, FS_CardinalityType
<1> QED
  BY <1>2, <1>3

LEMMA InitInv == Init => Inv
<1> SUFFICES ASSUME Init PROVE Inv
  OBVIOUS
<1>1. CountInv
  <2>1. Serving = {}
    BY DEF Init, Serving
  <2> QED
    BY <2>1, FS_EmptySet DEF Init, CountInv
<1>2. TypeOK
  <2>1. count \in 0..Cardinality(Reqs)
    BY <1>1, ServingFinite DEF CountInv
  <2> QED
    BY <2>1 DEF Init, TypeOK, Counted
<1>3. BeginInv /\ ShutInv
  BY DEF Init, BeginInv, ShutInv, InTheMiddle
<1> QED
  BY <1>1, <1>2, <1>3 DEF Inv

-----------------------------------------------------------------------------
(* One lemma per part of the system *)

LEMMA BeginStep ==
    ASSUME Inv, NEW t \in Triggers, Begin(t)
    PROVE  Inv'
<1> USE DEF Inv
<1>1. UNCHANGED <<put, stored, resumed, late, count, req, job, shut, graceOver, afterFunc,
                  verdict, rootDone>>
  BY DEF Begin, BeginDrain, SetIntakePaused, GateReaper, MarkDraining, control
<1>2. TypeOK'
  <2>1. begin' \in [Triggers -> {"idle", "pause", "gate", "mark", "returned"}]
    BY DEF TypeOK, Begin, BeginDrain, SetIntakePaused, GateReaper, MarkDraining, BeginTo
  <2>2. /\ serverDraining' \in BOOLEAN /\ intakePaused' \in BOOLEAN
        /\ reaperGated' \in BOOLEAN /\ draining' \in BOOLEAN
    BY DEF TypeOK, Begin, BeginDrain, SetIntakePaused, GateReaper, MarkDraining
  <2> QED
    BY <1>1, <2>1, <2>2 DEF TypeOK, Counted
<1>3. CountInv'
  BY <1>1 DEF CountInv, Serving
<1>4. (intakePaused => intakePaused') /\ (reaperGated => reaperGated')
      /\ (draining => draining')
  BY DEF Begin, BeginDrain, SetIntakePaused, GateReaper, MarkDraining
<1>5. ShutInv'
  BY <1>1, <1>4 DEF ShutInv, Closed
<1>6. BeginInv'
  <2>1. CASE BeginDrain(t)
    BY <1>1, <2>1 DEF TypeOK, BeginInv, BeginDrain, BeginTo, Closed
  <2>2. CASE SetIntakePaused(t)
    BY <1>1, <2>2 DEF TypeOK, BeginInv, SetIntakePaused, BeginTo, Closed
  <2>3. CASE GateReaper(t)
    BY <1>1, <2>3 DEF TypeOK, BeginInv, GateReaper, BeginTo, Closed
  <2>4. CASE MarkDraining(t)
    BY <1>1, <2>4 DEF TypeOK, BeginInv, MarkDraining, BeginTo, Closed
  <2> QED
    BY <2>1, <2>2, <2>3, <2>4 DEF Begin
<1> QED
  BY <1>2, <1>3, <1>5, <1>6

\* An operator who resumes intake behind the drain is remembered.
LEMMA OperatorStep ==
    ASSUME Inv,
           \/ \E v \in {"pause", "resume"} : UpdateQueueControl(v)
           \/ PersistQueueControl
    PROVE  Inv'
<1> USE DEF Inv
<1>1. UNCHANGED <<serverDraining, reaperGated, draining, count, begin, req, job, shut,
                  graceOver, afterFunc, verdict, rootDone, late>>
  BY DEF UpdateQueueControl, PersistQueueControl, gates
<1>2. TypeOK'
  <2>1. intakePaused' \in BOOLEAN /\ resumed' \in BOOLEAN
    BY DEF UpdateQueueControl, PersistQueueControl, gates, TypeOK
  <2>2. stored' \in BOOLEAN
    BY DEF UpdateQueueControl, PersistQueueControl, TypeOK
  <2>3. put' \in {"idle", "pause", "resume"}
    BY DEF UpdateQueueControl, PersistQueueControl
  <2> QED
    BY <1>1, <2>1, <2>2, <2>3 DEF TypeOK, Counted
<1>3. CountInv'
  BY <1>1 DEF CountInv, Serving
<1>4. DrainPaused /\ (intakePaused \/ resumed) => intakePaused' \/ resumed'
  BY DEF UpdateQueueControl, PersistQueueControl, gates
<1>5. Closed => Closed'
  BY <1>1, <1>4 DEF Closed, DrainPaused
<1>6. BeginInv'
  BY <1>1, <1>4, <1>5 DEF BeginInv, DrainPaused
<1>7. ShutInv'
  BY <1>1, <1>5 DEF ShutInv
<1> QED
  BY <1>2, <1>3, <1>6, <1>7

LEMMA RequestStep ==
    ASSUME Inv, NEW r \in Reqs, Request(r)
    PROVE  Inv'
<1> USE DEF Inv
<1>1. UNCHANGED <<gates, control, begin, job, graceOver, afterFunc, verdict, rootDone>>
  BY DEF Request, TryAdmit, Release, CallAgain
<1>2. \/ shut' = shut
      \/ shut = "blocked" /\ shut' = "wait"
  BY DEF Request, TryAdmit, Release, CallAgain, Wake
<1>3. req' \in [Reqs -> {"new", "admitted", "refused", "served"}]
  BY DEF TypeOK, Request, TryAdmit, Release, CallAgain, ReqTo
<1>4. CountInv' /\ (verdict = "clean" => count' = 0)
  <2>1. CASE req[r] = "new" /\ ~draining /\ ReqTo(r, "admitted") /\ count' = count + 1
    <3>1. r \notin Serving /\ Serving' = Serving \cup {r}
      BY <2>1 DEF Serving, ReqTo, TypeOK
    <3>2. Cardinality(Serving') = Cardinality(Serving) + 1
      BY <3>1, ServingFinite, FS_AddElement
    <3>3. verdict # "clean"
      BY <2>1 DEF ShutInv, Closed, TypeOK
    <3> QED
      BY <2>1, <3>2, <3>3 DEF CountInv
  <2>2. CASE Release(r)
    <3>1. r \in Serving /\ Serving' = Serving \ {r}
      BY <2>2 DEF Serving, Release, ReqTo, TypeOK
    <3>2. Cardinality(Serving') = Cardinality(Serving) - 1
      BY <3>1, ServingFinite, FS_RemoveElement
    <3>3. Cardinality(Serving) # 0
      BY <3>1, ServingFinite, FS_EmptySet
    <3>4. Cardinality(Serving) \in Nat
      BY ServingFinite, FS_CardinalityType
    <3>5. count > 0 /\ count' = count - 1
      BY <2>2, <3>3, <3>4 DEF CountInv, Release
    <3> QED
      BY <3>2, <3>4, <3>5 DEF CountInv, ShutInv
  <2>3. CASE req[r] # "admitted" /\ count' = count
             /\ (ReqTo(r, "refused") \/ ReqTo(r, "new"))
    <3>1. Serving' = Serving
      BY <2>3 DEF Serving, ReqTo, TypeOK
    <3> QED
      BY <2>3, <3>1 DEF CountInv, ShutInv
  <2> QED
    BY <2>1, <2>2, <2>3 DEF Request, TryAdmit, CallAgain
<1>5. count' \in 0..Cardinality(Reqs)
  <2>1. Serving' \subseteq Reqs /\ IsFiniteSet(Reqs)
    BY DrainAssumption DEF DrainAssumption, Serving
  <2>2. IsFiniteSet(Serving') /\ Cardinality(Serving') <= Cardinality(Reqs)
    BY <2>1, FS_Subset
  <2>3. Cardinality(Serving') \in Nat /\ Cardinality(Reqs) \in Nat
    BY <2>1, <2>2, FS_CardinalityType
  <2> QED
    BY <1>4, <2>2, <2>3 DEF CountInv
<1>6. TypeOK'
  BY <1>1, <1>2, <1>3, <1>5 DEF TypeOK, Counted, gates, control
<1>7. BeginInv'
  BY <1>1 DEF BeginInv, Closed, gates, control
<1>8. ShutInv'
  BY <1>1, <1>2, <1>4 DEF ShutInv, Closed, gates, control
<1> QED
  BY <1>4, <1>6, <1>7, <1>8

LEMMA JobStep ==
    ASSUME Inv, NEW j \in Jobs, Job(j)
    PROVE  Inv'
<1> USE DEF Inv
<1>1. UNCHANGED <<gates, put, stored, resumed, count, begin, req, shut, graceOver, afterFunc,
                  verdict, rootDone>>
  BY DEF Job, Claim, Admit, Send, SendAbort, Dequeue, Finish, CutShort, Step, Move
<1>2. TypeOK'
  <2>1. job' \in [Jobs -> Counted \cup {"new", "refused", "ended", "lost"}]
    BY DEF TypeOK, Counted, Job, Claim, Admit, Send, SendAbort, Dequeue, Finish, CutShort,
           Step, Move
  <2>2. late' \subseteq Jobs
    BY DEF TypeOK, Job, Claim, Admit, Send, SendAbort, Dequeue, Finish, CutShort, Step
  <2> QED
    BY <1>1, <2>1, <2>2 DEF TypeOK, Counted, gates
<1>3. CountInv'
  BY <1>1 DEF CountInv, Serving
<1>4. BeginInv'
  BY <1>1 DEF BeginInv, Closed, gates
<1>5. ASSUME NEW i \in Jobs, job'[i] \in InTheMiddle, shut # "serving"
      PROVE  job[i] \in InTheMiddle \/ i \in late'
  <2>1. CASE Admit(j)
    BY <1>5, <2>1 DEF TypeOK, InTheMiddle, ShutInv, Closed, Admit, Step, Move
  <2>2. CASE ~Admit(j)
    BY <1>5, <2>2 DEF TypeOK, InTheMiddle, Job, Claim, Send, SendAbort, Dequeue, Finish,
                      CutShort, Step, Move
  <2> QED
    BY <2>1, <2>2
<1>6. ASSUME NEW i \in Jobs, job'[i] = "lost"
      PROVE  job[i] = "lost" \/ (rootDone /\ job[i] \in InTheMiddle)
  BY <1>6 DEF TypeOK, InTheMiddle, Job, Claim, Admit, Send, SendAbort, Dequeue, Finish,
              CutShort, Step, Move
<1>7. late \subseteq late'
  BY DEF Job, Claim, Admit, Send, SendAbort, Dequeue, Finish, CutShort, Step
<1>8. ShutInv'
  BY <1>1, <1>5, <1>6, <1>7 DEF ShutInv, Closed, gates
<1> QED
  BY <1>2, <1>3, <1>4, <1>8

LEMMA ShutdownStep ==
    ASSUME Inv, GraceExpires \/ AfterFunc \/ Shutdown
    PROVE  Inv'
<1> USE DEF Inv
<1>1. UNCHANGED <<control, serverDraining, intakePaused, draining, count, begin, req, job>>
      /\ (reaperGated' = reaperGated \/ reaperGated' = TRUE)
  BY DEF GraceExpires, AfterFunc, Shutdown, SettleOver, InFlightZero, GraceRunsOut,
         WaitZero, AwaitReturns, CancelAndWait, HTTPShutdown, FinishShutdown, gates
<1>2. CountInv'
  BY <1>1 DEF CountInv, Serving
<1>3. BeginInv'
  BY <1>1 DEF BeginInv, Closed, control
<1>4. CASE SettleOver
  <2>1. Closed
    BY <1>4, DrainAssumption DEF SettleOver, Settled, BeginInv, DrainAssumption
  <2>2. TypeOK' /\ ShutInv'
    BY <1>4, <2>1 DEF SettleOver, ShutTo, TypeOK, Counted, ShutInv, Closed, gates, control
  <2> QED
    BY <1>2, <1>3, <2>2
<1>5. CASE InFlightZero
  <2>1. \A j \in Jobs : job[j] \notin InTheMiddle
    BY <1>5 DEF InFlightZero, InFlight, Counted, InTheMiddle
  <2>2. TypeOK' /\ ShutInv'
    BY <1>5, <2>1 DEF InFlightZero, ShutTo, TypeOK, Counted, ShutInv, Closed, gates, control
  <2> QED
    BY <1>2, <1>3, <2>2
<1>6. CASE GraceRunsOut \/ WaitZero
  <2>1. UNCHANGED <<gates, graceOver, afterFunc, rootDone>>
        /\ shut' \in {"cancel", "blocked"}
        /\ verdict' \in {verdict, "timeout", "clean"}
    BY <1>6 DEF GraceRunsOut, WaitZero, AwaitReturns, ShutTo
  <2>2. TypeOK'
    BY <1>1, <2>1 DEF TypeOK, Counted, gates, control
  <2>3. /\ shut \in {"await", "wait"}
        /\ shut' = "blocked" => shut = "wait" /\ verdict' = verdict
        /\ shut' = "cancel" => verdict' # "none"
        /\ verdict' = "clean" => (shut = "wait" /\ count = 0) \/ verdict = "clean"
    BY <1>6 DEF GraceRunsOut, WaitZero, AwaitReturns, ShutTo
  <2>4. ShutInv'
    BY <1>1, <2>1, <2>3 DEF ShutInv, Closed, gates, control
  <2> QED
    BY <1>2, <1>3, <2>2, <2>4
<1>7. CASE GraceExpires \/ AfterFunc
  <2>1. /\ UNCHANGED <<gates, verdict, rootDone>>
        /\ shut' = shut \/ (shut = "blocked" /\ shut' = "wait")
    BY <1>7 DEF GraceExpires, AfterFunc, Wake
  <2>2. graceOver' \in BOOLEAN /\ afterFunc' \in BOOLEAN
    BY <1>7 DEF GraceExpires, AfterFunc, TypeOK
  <2>3. TypeOK'
    BY <1>1, <2>1, <2>2 DEF TypeOK, Counted, gates, control
  <2>4. ShutInv'
    BY <1>1, <2>1 DEF ShutInv, Closed, gates, control
  <2> QED
    BY <1>2, <1>3, <2>3, <2>4
<1>8. CASE CancelAndWait
  <2>1. TypeOK' /\ ShutInv'
    BY <1>8 DEF CancelAndWait, ShutTo, TypeOK, Counted, ShutInv, Closed, control
  <2> QED
    BY <1>2, <1>3, <2>1
<1>9. CASE HTTPShutdown \/ FinishShutdown
  <2>1. TypeOK' /\ ShutInv'
    BY <1>9 DEF HTTPShutdown, FinishShutdown, ShutTo, TypeOK, Counted, ShutInv, Closed,
                gates, control
  <2> QED
    BY <1>2, <1>3, <2>1
<1> QED
  BY <1>4, <1>5, <1>6, <1>7, <1>8, <1>9 DEF Shutdown

-----------------------------------------------------------------------------
LEMMA Invariance == Spec => []Inv
<1>1. Inv /\ [Next]_vars => Inv'
  <2> SUFFICES ASSUME Inv, [Next]_vars PROVE Inv'
    OBVIOUS
  <2>1. CASE Next
    BY <2>1, BeginStep, OperatorStep, RequestStep, JobStep, ShutdownStep DEF Next
  <2>2. CASE UNCHANGED vars
    BY <2>2 DEF vars, gates, control, Inv, TypeOK, Counted, CountInv, Serving, BeginInv,
                ShutInv, Closed
  <2> QED
    BY <2>1, <2>2
<1> QED
  BY InitInv, <1>1, PTL DEF Spec

\* The type invariant, for any number of triggers, requests and jobs.
THEOREM DrainTypeCorrect == Spec => []TypeOK
<1>1. Inv => TypeOK
  BY DEF Inv
<1> QED
  BY Invariance, <1>1, PTL

\* Whichever trigger began the drain, the shutdown counts behind closed gates
\* (BeginDrain, the settle period of cli/serve.go), of which an operator may have opened
\* intake again, and nobody the other two: SIGTERM's own BeginDrain may have returned at
\* once because another trigger was first.
THEOREM GatesAreClosed == Spec => [](shut # "serving" => Closed)
<1>1. Inv => (shut # "serving" => Closed)
  BY DEF Inv, ShutInv
<1> QED
  BY Invariance, <1>1, PTL

\* After AwaitDrain has returned nil no request is served, and no job is past the intake
\* check or lost, but for one let in after an operator had resumed intake
\* (queue_control.go:68).
THEOREM CleanDrainStaysQuiet == Spec => []CleanDrainIsQuiet
<1>1. Inv => CleanDrainIsQuiet
  <2> SUFFICES ASSUME Inv, verdict = "clean"
               PROVE  /\ \A r \in Reqs : req[r] # "admitted"
                      /\ \A j \in Jobs \ late :
                            job[j] \notin {"admitted", "queued", "running", "lost"}
    BY DEF CleanDrainIsQuiet
  <2>1. Serving = {}
    BY ServingFinite, FS_EmptySet DEF Inv, ShutInv, CountInv
  <2> QED
    BY <2>1 DEF Inv, ShutInv, Serving, InTheMiddle
<1> QED
  BY Invariance, <1>1, PTL

-----------------------------------------------------------------------------
\* The broadcast of the context comes after the context is done.
WakeInv == NoMissedWakeup /\ (afterFunc => graceOver)

LEMMA WakeStep == Inv /\ WakeInv /\ [Next]_vars => WakeInv'
<1> SUFFICES ASSUME Inv, WakeInv, [Next]_vars PROVE WakeInv'
  OBVIOUS
<1> USE DEF WakeInv, NoMissedWakeup
<1>1. CASE \E t \in Triggers : Begin(t)
  BY <1>1 DEF Begin, BeginDrain, SetIntakePaused, GateReaper, MarkDraining
<1>2. ASSUME NEW r \in Reqs, Request(r) PROVE WakeInv'
  <2>1. CASE TryAdmit(r) \/ CallAgain(r)
    <3>1. shut = "blocked" => draining
      BY DEF Inv, ShutInv, Closed
    <3>2. UNCHANGED <<shut, afterFunc, graceOver>> /\ (draining => count' = count)
      BY <2>1 DEF TryAdmit, CallAgain
    <3> QED
      BY <3>1, <3>2
  <2>2. CASE Release(r)
    BY <2>2 DEF Release, Wake
  <2> QED
    BY <1>2, <2>1, <2>2 DEF Request
<1>3. CASE \E j \in Jobs : Job(j)
  BY <1>3 DEF Job, Claim, Admit, Send, SendAbort, Dequeue, Finish, CutShort, Step, Move
<1>4. CASE GraceExpires \/ AfterFunc
  BY <1>4 DEF GraceExpires, AfterFunc, Wake
<1>5. CASE Shutdown
  BY <1>5 DEF Shutdown, SettleOver, InFlightZero, GraceRunsOut, WaitZero, AwaitReturns,
              CancelAndWait, HTTPShutdown, FinishShutdown, ShutTo
<1>6. CASE \/ \E v \in {"pause", "resume"} : UpdateQueueControl(v)
           \/ PersistQueueControl
  BY <1>6 DEF UpdateQueueControl, PersistQueueControl
<1>7. CASE UNCHANGED vars
  BY <1>7 DEF vars
<1> QED
  BY <1>1, <1>2, <1>3, <1>4, <1>5, <1>6, <1>7 DEF Next

\* WaitZero never sleeps with nothing to wait for, nor through the broadcast that
\* the end of the grace period sends once.
THEOREM NoWakeupIsMissed == Spec => []NoMissedWakeup
<1>1. Init => WakeInv
  BY DEF Init, WakeInv, NoMissedWakeup
<1>2. WakeInv => NoMissedWakeup
  BY DEF WakeInv
<1> QED
  BY <1>1, <1>2, WakeStep, Invariance, PTL DEF Spec

-----------------------------------------------------------------------------
(* The steps of DrainPromise, seen from here *)

AbstractStep == [Promise!Next]_(Promise!vars)

SamePhase == Phase' = Phase
SameWork == Working' = Working /\ Abandoned' = Abandoned /\ late' = late

LEMMA Stutters ==
    ASSUME SamePhase, SameWork
    PROVE  AbstractStep
BY DEF SamePhase, SameWork, AbstractStep, Promise!vars

\* A step that leaves the phase alone: all it reads is as before.
LEMMA PhaseFrame ==
    ASSUME UNCHANGED <<intakePaused, resumed, reaperGated, draining, verdict>>, Up' = Up
    PROVE  SamePhase
BY DEF SamePhase, Phase, Closed

\* A step that leaves the work alone.
LEMMA WorkFrame ==
    ASSUME UNCHANGED <<req, job, late>>, Up' = Up
    PROVE  SameWork
BY DEF SameWork, Working, Abandoned, AtWork, JobsAtWork, LostJobs

\* While the process lives, what is at work is where it is seen to be.
LEMMA WorkWhileUp == Up => Working = AtWork /\ Abandoned = LostJobs
BY DEF Working, Abandoned

\* A gate that closes late keeps the phase open, the last one closes it.
LEMMA BeginRefines ==
    ASSUME Inv, NEW t \in Triggers, Begin(t)
    PROVE  AbstractStep
<1>1. /\ UNCHANGED <<req, job, late, shut, verdict>> /\ Up
      /\ (Closed => Closed')
  BY DEF Begin, BeginDrain, SetIntakePaused, GateReaper, MarkDraining, Closed, control
<1>2. SameWork
  BY <1>1, WorkFrame DEF Up
<1>3. Phase' = Phase \/ (Phase = "open" /\ Phase' = "closed")
  BY <1>1 DEF Phase, Up, Closed
<1>4. CASE Phase' = Phase
  BY <1>2, <1>4, Stutters DEF SamePhase
<1>5. CASE Phase = "open" /\ Phase' = "closed"
  <2>1. Promise!Close
    BY <1>2, <1>5 DEF Promise!Close, SameWork
  <2> QED
    BY <2>1 DEF AbstractStep, Promise!Next
<1> QED
  BY <1>3, <1>4, <1>5

\* An operator opens or closes one gate, which the drain has closed already or will.
LEMMA OperatorRefines ==
    ASSUME Inv,
           \/ \E v \in {"pause", "resume"} : UpdateQueueControl(v)
           \/ PersistQueueControl
    PROVE  AbstractStep
<1>1. UNCHANGED <<reaperGated, draining, req, job, late, shut, verdict>> /\ Up
  BY DEF UpdateQueueControl, PersistQueueControl, gates, Up
<1>2. SameWork
  BY <1>1, WorkFrame DEF Up
<1>3. Closed => Closed'
  BY <1>1 DEF UpdateQueueControl, PersistQueueControl, gates, Closed, DrainPaused
<1>4. Phase' = Phase \/ (Phase = "open" /\ Phase' = "closed")
  BY <1>1, <1>3 DEF Phase, Up
<1>5. CASE Phase' = Phase
  BY <1>2, <1>5, Stutters DEF SamePhase
<1>6. CASE Phase = "open" /\ Phase' = "closed"
  <2>1. Promise!Close
    BY <1>2, <1>6 DEF Promise!Close, SameWork
  <2> QED
    BY <2>1 DEF AbstractStep, Promise!Next
<1> QED
  BY <1>4, <1>5, <1>6

\* Nothing is let in by a gate that BeginDrain has yet to close once the shutdown has
\* begun to wait.
LEMMA OpenUntilClosed ==
    ASSUME Inv, Up, ~Closed
    PROVE  Phase = "open"
<1>1. shut = "serving" /\ verdict = "none"
  BY DEF Inv, ShutInv
<1> QED
  BY <1>1 DEF Phase, Closed

LEMMA RequestRefines ==
    ASSUME Inv, NEW r \in Reqs, Request(r)
    PROVE  AbstractStep
<1>1. UNCHANGED <<gates, resumed, late, job, verdict>> /\ Up /\ Up'
  BY DEF Request, TryAdmit, Release, CallAgain, Wake, Up, control
<1>2. SamePhase
  BY <1>1, PhaseFrame DEF gates
<1>3. req \in [Reqs -> {"new", "admitted", "refused", "served"}] /\ r \notin Jobs
  BY DrainAssumption DEF Inv, TypeOK, DrainAssumption
<1>4. Working = AtWork /\ Working' = AtWork' /\ Abandoned = LostJobs /\ Abandoned' = LostJobs
  BY <1>1 DEF Working, Abandoned, LostJobs
<1>5. JobsAtWork' = JobsAtWork /\ r \notin JobsAtWork
  BY <1>1, <1>3 DEF JobsAtWork
<1>6. CASE req[r] = "new" /\ ~draining /\ ReqTo(r, "admitted")
  <2>1. Phase = "open"
    BY <1>1, <1>6, OpenUntilClosed DEF Closed
  <2>2. r \notin AtWork /\ AtWork' = AtWork \cup {r}
    BY <1>3, <1>5, <1>6 DEF AtWork, ReqTo
  <2>3. Promise!Enter(r)
    BY <1>1, <1>2, <1>4, <2>1, <2>2 DEF Promise!Enter, SamePhase
  <2> QED
    BY <2>3 DEF AbstractStep, Promise!Next
<1>7. CASE Release(r)
  <2>1. r \in AtWork /\ AtWork' = AtWork \ {r}
    BY <1>3, <1>5, <1>7 DEF AtWork, Release, ReqTo
  <2>2. Promise!Leave(r)
    BY <1>1, <1>2, <1>4, <2>1 DEF Promise!Leave, SamePhase
  <2> QED
    BY <2>2 DEF AbstractStep, Promise!Next
<1>8. CASE req[r] # "admitted" /\ (ReqTo(r, "refused") \/ ReqTo(r, "new"))
  <2>1. AtWork' = AtWork
    BY <1>3, <1>5, <1>8 DEF AtWork, ReqTo
  <2> QED
    BY <1>1, <1>2, <1>4, <2>1, Stutters DEF SameWork
<1> QED
  BY <1>6, <1>7, <1>8 DEF Request, TryAdmit, CallAgain

\* A job is cut off by the end of the root context only, and that comes after the
\* verdict; behind a clean one only a late job is left to cut off.
LEMMA CutOffAfterTimeout ==
    ASSUME Inv, Up, rootDone, NEW j \in Jobs, job[j] \in InTheMiddle
    PROVE  Phase = "timeout" \/ (Phase = "clean" /\ j \in late)
<1>1. verdict # "none" /\ (verdict = "clean" => j \in late)
  BY DEF Inv, ShutInv
<1>2. verdict = "timeout" \/ verdict = "clean"
  BY <1>1 DEF Inv, TypeOK
<1> QED
  BY <1>1, <1>2 DEF Phase

LEMMA JobRefines ==
    ASSUME Inv, NEW j \in Jobs, Job(j)
    PROVE  AbstractStep
<1>1. UNCHANGED <<gates, resumed, req, shut, verdict, rootDone>> /\ Up
  BY DEF Job, Claim, Admit, Send, SendAbort, Dequeue, Finish, CutShort, Step, Move
<1>2. SamePhase
  BY <1>1, PhaseFrame DEF gates, Up
<1>3. job \in [Jobs -> Counted \cup {"new", "refused", "ended", "lost"}] /\ j \notin Reqs
  BY DrainAssumption DEF Inv, TypeOK, DrainAssumption
<1>4. Working = AtWork /\ Working' = AtWork' /\ Abandoned = LostJobs /\ Abandoned' = LostJobs'
  BY <1>1 DEF Working, Abandoned, Up
<1>5. AtWork' = {r \in Reqs : req[r] = "admitted"} \cup JobsAtWork'
  BY <1>1 DEF AtWork
<1>6. CASE Move(j, "claimed", "admitted") /\ ~intakePaused
           /\ late' = IF resumed THEN late \cup {j} ELSE late
  <2>1. j \notin JobsAtWork /\ JobsAtWork' = JobsAtWork \cup {j} /\ LostJobs' = LostJobs
    BY <1>3, <1>6 DEF JobsAtWork, LostJobs, Move
  <2>2. j \notin AtWork /\ AtWork' = AtWork \cup {j}
    BY <1>3, <1>5, <2>1 DEF AtWork
  <2>3. CASE resumed
    <3>1. Phase # "stopped"
      BY <1>1 DEF Phase, Inv, TypeOK
    <3>2. Promise!EnterLate(j)
      BY <1>2, <1>4, <1>6, <2>1, <2>2, <2>3, <3>1 DEF Promise!EnterLate, SamePhase
    <3> QED
      BY <3>2 DEF AbstractStep, Promise!Next
  <2>4. CASE ~resumed
    <3>1. Phase = "open"
      BY <1>1, <1>6, <2>4, OpenUntilClosed DEF Closed
    <3>2. Promise!Enter(j)
      BY <1>2, <1>4, <1>6, <2>1, <2>2, <2>4, <3>1 DEF Promise!Enter, SamePhase
    <3> QED
      BY <3>2 DEF AbstractStep, Promise!Next
  <2> QED
    BY <2>3, <2>4
<1>7. CASE Step(j, "running", "ended")
  <2>1. j \in JobsAtWork /\ JobsAtWork' = JobsAtWork \ {j} /\ LostJobs' = LostJobs
    BY <1>3, <1>7 DEF JobsAtWork, LostJobs, Step, Move
  <2>2. j \in AtWork /\ AtWork' = AtWork \ {j}
    BY <1>3, <1>5, <2>1 DEF AtWork
  <2>3. Promise!Leave(j)
    BY <1>2, <1>4, <1>7, <2>1, <2>2 DEF Promise!Leave, SamePhase, Step
  <2> QED
    BY <2>3 DEF AbstractStep, Promise!Next
<1>8. CASE rootDone /\ (Step(j, "admitted", "lost") \/ Step(j, "running", "lost"))
  <2>1. Phase = "timeout" \/ (Phase = "clean" /\ j \in late)
    BY <1>1, <1>8, CutOffAfterTimeout DEF Step, Move, InTheMiddle
  <2>2. /\ j \in JobsAtWork /\ JobsAtWork' = JobsAtWork \ {j}
        /\ LostJobs' = LostJobs \cup {j}
    BY <1>3, <1>8 DEF JobsAtWork, LostJobs, Step, Move
  <2>3. j \in AtWork /\ AtWork' = AtWork \ {j}
    BY <1>3, <1>5, <2>2 DEF AtWork
  <2>4. Promise!Abandon(j)
    BY <1>2, <1>4, <1>8, <2>1, <2>2, <2>3 DEF Promise!Abandon, SamePhase, Step
  <2> QED
    BY <2>4 DEF AbstractStep, Promise!Next
<1>9. CASE \/ Step(j, "new", "claimed") \/ Step(j, "claimed", "refused")
           \/ Step(j, "admitted", "queued") \/ Step(j, "queued", "running")
  <2>1. JobsAtWork' = JobsAtWork /\ LostJobs' = LostJobs
    BY <1>3, <1>9 DEF JobsAtWork, LostJobs, Step, Move
  <2>2. AtWork' = AtWork
    BY <1>5, <2>1 DEF AtWork
  <2> QED
    BY <1>2, <1>4, <1>9, <2>1, <2>2, Stutters DEF SameWork, Step
<1> QED
  BY <1>6, <1>7, <1>8, <1>9 DEF Job, Claim, Admit, Send, SendAbort, Dequeue, Finish, CutShort

\* AwaitDrain looks at the jobs first: behind closed gates what it saw still holds
\* when WaitZero finds the counter at zero, but for late jobs.
LEMMA NothingAtWork ==
    ASSUME Inv, shut = "wait", count = 0
    PROVE  AtWork \subseteq late
<1>1. Serving = {}
  BY ServingFinite, FS_EmptySet DEF Inv, CountInv
<1>2. JobsAtWork \subseteq late
  BY DEF Inv, ShutInv, InTheMiddle, JobsAtWork
<1> QED
  BY <1>1, <1>2 DEF AtWork, Serving

LEMMA VerdictRefines ==
    ASSUME Inv, GraceRunsOut \/ WaitZero
    PROVE  AbstractStep
<1>1. UNCHANGED <<gates, resumed, late, req, job>> /\ shut \in {"await", "wait"} /\ Up /\ Up'
  BY DEF GraceRunsOut, WaitZero, AwaitReturns, ShutTo, Up, control
<1>2. SameWork
  BY <1>1, WorkFrame
<1>3. Phase = "closed"
  BY <1>1 DEF Inv, ShutInv, Closed, Phase
<1>4. CASE verdict' = "timeout"
  <2>1. Promise!TimeOut
    BY <1>1, <1>2, <1>3, <1>4 DEF Promise!TimeOut, SameWork, Phase
  <2> QED
    BY <2>1 DEF AbstractStep, Promise!Next
<1>5. CASE verdict' = "clean" /\ shut = "wait" /\ count = 0
  <2>1. Working \subseteq late
    BY <1>1, <1>5, NothingAtWork DEF Working
  <2>2. Promise!Clean
    BY <1>1, <1>2, <1>3, <1>5, <2>1 DEF Promise!Clean, SameWork, Phase
  <2> QED
    BY <2>2 DEF AbstractStep, Promise!Next
<1>6. CASE verdict' = verdict
  <2>1. SamePhase
    BY <1>1, <1>6, PhaseFrame DEF gates
  <2> QED
    BY <1>2, <2>1, Stutters
<1> QED
  BY <1>4, <1>5, <1>6 DEF GraceRunsOut, WaitZero, AwaitReturns

LEMMA ShutdownRefines ==
    ASSUME Inv, GraceExpires \/ AfterFunc \/ Shutdown
    PROVE  AbstractStep
<1>1. CASE GraceExpires \/ AfterFunc \/ SettleOver \/ InFlightZero \/ HTTPShutdown
  <2>1. /\ UNCHANGED <<intakePaused, resumed, reaperGated, draining, req, job, late, verdict>>
        /\ Up' = Up
    BY <1>1 DEF GraceExpires, AfterFunc, Wake, SettleOver, InFlightZero, HTTPShutdown,
                ShutTo, gates, control, Up
  <2> QED
    BY <2>1, PhaseFrame, WorkFrame, Stutters
<1>2. CASE GraceRunsOut \/ WaitZero
  BY <1>2, VerdictRefines
<1>3. CASE CancelAndWait
  <2>1. UNCHANGED <<req, job, late, verdict>> /\ Up /\ Up' /\ verdict # "none"
    BY <1>3 DEF CancelAndWait, ShutTo, Up, control, Inv, ShutInv
  <2>2. SamePhase
    BY <2>1 DEF SamePhase, Phase
  <2> QED
    BY <2>1, <2>2, WorkFrame, Stutters
<1>4. CASE FinishShutdown
  <2>1. UNCHANGED <<req, job, late>> /\ Up /\ ~Up' /\ verdict # "none"
    BY <1>4 DEF FinishShutdown, ShutTo, Up, control, Inv, ShutInv
  <2>2. Phase \in {"clean", "timeout"} /\ Phase' = "stopped"
    BY <2>1 DEF Phase, Inv, TypeOK
  <2>3. /\ Working' = {} /\ Working = AtWork
        /\ Abandoned' = LostJobs \cup AtWork /\ Abandoned = LostJobs
    BY <2>1 DEF Working, Abandoned, AtWork, JobsAtWork, LostJobs
  <2>4. Promise!Stop
    BY <2>1, <2>2, <2>3 DEF Promise!Stop
  <2> QED
    BY <2>4 DEF AbstractStep, Promise!Next
<1> QED
  BY <1>1, <1>2, <1>3, <1>4 DEF Shutdown

\* The drain of router.go and serve.go, with its four gates that close one by one and
\* its two counts taken one after the other, is one clean moment or a timeout, but for the
\* jobs that come in after an operator has resumed intake.
THEOREM DrainIsImplemented == Spec => ImplementsDrain
<1>1. Init => Promise!Init
  BY DEF Init, Promise!Init, Phase, Working, Abandoned, AtWork, JobsAtWork, LostJobs, Up,
         Closed
<1>2. Inv /\ [Next]_vars => AbstractStep
  <2> SUFFICES ASSUME Inv, [Next]_vars PROVE AbstractStep
    OBVIOUS
  <2>1. CASE Next
    BY <2>1, BeginRefines, OperatorRefines, RequestRefines, JobRefines, ShutdownRefines DEF Next
  <2>2. CASE UNCHANGED vars
    BY <2>2, PhaseFrame, WorkFrame, Stutters DEF vars, gates, control, Up
  <2> QED
    BY <2>1, <2>2
<1> QED
  BY <1>1, <1>2, Invariance, PTL DEF Spec, ImplementsDrain, Promise!Spec, AbstractStep
=============================================================================
