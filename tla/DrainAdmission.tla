--------------------------- MODULE DrainAdmission ---------------------------
(***************************************************************************)
(* Graceful drain of the API server: Server.BeginDrain and AwaitDrain      *)
(* (internal/api/rest/router.go), the OnDemandTracker                      *)
(* (internal/api/rest/on_demand_tracker.go) and the shutdown sequence of   *)
(* cli/serve.go, with the requests and jobs that race them, and with an    *)
(* operator who pauses and resumes intake at any time: the handler         *)
(* (internal/api/rest/queue_control.go) does not ask whether a drain is on.*)
(*                                                                         *)
(* Jobs stands for Enqueue calls on distinct target keys, so that each of  *)
(* them is counted by InFlightCount from its claim to the end of its run;  *)
(* JobOrchestrator has calls that share a key.                             *)
(***************************************************************************)
EXTENDS Integers, FiniteSets

CONSTANTS
    Triggers,   \* callers of BeginDrain: preStop hook, admin API, SIGTERM
    Sigterm,    \* the one whose caller goes on with the shutdown
    Reqs,       \* clients of generateLivingWikiPageOnDemand, each may call again
    Jobs,       \* Enqueue calls
    Stuck       \* requests and jobs that do not end by themselves

ASSUME DrainAssumption ==
    /\ Sigterm \in Triggers
    /\ IsFiniteSet(Reqs)
    /\ Reqs \cap Jobs = {}
    /\ Stuck \subseteq Reqs \cup Jobs

VARIABLES
    serverDraining,  \* Server.serverDraining
    intakePaused,    \* Orchestrator.intakePaused
    put, stored,     \* the operator's request in progress; the QueueControlRecord
    reaperGated,     \* Orchestrator.draining
    draining, count, \* OnDemandTracker
    begin,           \* step of each BeginDrain call
    req, job,        \* progress of each request and of each Enqueue call
    shut,            \* step of the shutdown sequence
    graceOver,       \* graceCtx is done
    afterFunc,       \* the AfterFunc of WaitZero has run
    verdict,         \* what AwaitDrain returned
    rootDone,        \* the orchestrator's root context is done
    resumed,         \* history: intake was last set by an operator who resumed it
                     \* after the drain had paused it
    late             \* history: the jobs that came in through that gap

gates == <<serverDraining, intakePaused, reaperGated, draining>>
control == <<put, stored, resumed, late>>
vars == <<gates, control, count, begin, req, job, shut, graceOver, afterFunc, verdict,
          rootDone>>

Counted == {"claimed", "admitted", "queued", "running"}
InFlight == {j \in Jobs : job[j] \in Counted}

Init ==
    /\ stored \in BOOLEAN /\ intakePaused = stored
    /\ put = "idle" /\ resumed = FALSE /\ late = {}
    /\ serverDraining = FALSE /\ reaperGated = FALSE
    /\ draining = FALSE /\ count = 0
    /\ begin = [t \in Triggers |-> "idle"]
    /\ req = [r \in Reqs |-> "new"]
    /\ job = [j \in Jobs |-> "new"]
    /\ shut = "serving"
    /\ graceOver = FALSE /\ afterFunc = FALSE
    /\ verdict = "none"
    /\ rootDone = FALSE

Up == shut # "stopped"
-----------------------------------------------------------------------------
(* BeginDrain *)

BeginTo(t, pc) == begin' = [begin EXCEPT ![t] = pc]

\* The compare-and-swap: a redundant trigger returns at once.
BeginDrain(t) ==
    /\ begin[t] = "idle" /\ Up
    /\ BeginTo(t, IF serverDraining THEN "returned" ELSE "pause")
    /\ serverDraining' = TRUE
    /\ UNCHANGED <<control, intakePaused, reaperGated, draining, count, req, job, shut,
                   graceOver, afterFunc, verdict, rootDone>>

SetIntakePaused(t) ==
    /\ begin[t] = "pause" /\ Up
    /\ BeginTo(t, "gate")
    /\ intakePaused' = TRUE
    /\ UNCHANGED <<control, serverDraining, reaperGated, draining, count, req, job, shut,
                   graceOver, afterFunc, verdict, rootDone>>

GateReaper(t) ==
    /\ begin[t] = "gate" /\ Up
    /\ BeginTo(t, "mark")
    /\ reaperGated' = TRUE
    /\ UNCHANGED <<control, serverDraining, intakePaused, draining, count, req, job, shut,
                   graceOver, afterFunc, verdict, rootDone>>

MarkDraining(t) ==
    /\ begin[t] = "mark" /\ Up
    /\ BeginTo(t, "returned")
    /\ draining' = TRUE
    /\ UNCHANGED <<control, serverDraining, intakePaused, reaperGated, count, req, job,
                   shut, graceOver, afterFunc, verdict, rootDone>>

-----------------------------------------------------------------------------
(* An operator's PUT /api/v1/admin/llm/control, one request at a time *)

\* The first BeginDrain has paused intake.
DrainPaused == draining \/ \E t \in Triggers : begin[t] \in {"gate", "mark"}

\* Intake is set to what the request says, drain or no drain.
UpdateQueueControl(v) ==
    /\ put = "idle" /\ shut \notin {"http", "stopped"}
    /\ put' = v
    /\ intakePaused' = (v = "pause")
    /\ resumed' = (v = "resume" /\ DrainPaused)
    /\ UNCHANGED <<stored, serverDraining, reaperGated, draining, count, begin, req, job,
                   shut, graceOver, afterFunc, verdict, rootDone, late>>

\* persistQueueControl saves what intake is by now; a save that fails is only logged.
PersistQueueControl ==
    /\ put # "idle" /\ Up
    /\ put' = "idle"
    /\ stored' \in {stored, intakePaused}
    /\ UNCHANGED <<gates, resumed, count, begin, req, job, shut, graceOver, afterFunc,
                   verdict, rootDone, late>>

-----------------------------------------------------------------------------
(* On-demand requests: TryAdmit, the work, the deferred Release *)

ReqTo(r, st) == req' = [req EXCEPT ![r] = st]

TryAdmit(r) ==
    /\ req[r] = "new" /\ shut \notin {"http", "stopped"}
    /\ IF draining
       THEN ReqTo(r, "refused") /\ UNCHANGED count
       ELSE ReqTo(r, "admitted") /\ count' = count + 1
    /\ UNCHANGED <<gates, control, begin, job, shut, graceOver, afterFunc, verdict, rootDone>>

\* cond.Broadcast wakes WaitZero, which then tests again.
Wake == shut' = IF shut = "blocked" THEN "wait" ELSE shut
ReleaseSilently(r) ==           \* mutant: no Broadcast
    /\ req[r] = "admitted" /\ Up
    /\ ReqTo(r, "served")
    /\ count' = IF count > 0 THEN count - 1 ELSE count
    /\ UNCHANGED <<gates, control, begin, job, shut, graceOver, afterFunc, verdict, rootDone>>
ReleaseForgotten(r) ==          \* mutant: a return before the defer
    /\ req[r] = "admitted" /\ Up
    /\ ReqTo(r, "served") /\ UNCHANGED count
    /\ Wake
    /\ UNCHANGED <<gates, control, begin, job, graceOver, afterFunc, verdict, rootDone>>
Release(r) ==
    /\ req[r] = "admitted" /\ Up
    /\ ReqTo(r, "served")
    /\ count' = IF count > 0 THEN count - 1 ELSE count
    /\ Wake
    /\ UNCHANGED <<gates, control, begin, job, graceOver, afterFunc, verdict, rootDone>>

\* The client calls again.
CallAgain(r) ==
    /\ req[r] \in {"refused", "served"} /\ shut \notin {"http", "stopped"}
    /\ ReqTo(r, "new")
    /\ UNCHANGED <<gates, control, count, begin, job, shut, graceOver, afterFunc, verdict,
                   rootDone>>

-----------------------------------------------------------------------------
(* Jobs: Enqueue and runJob, as far as the drain tells their steps apart *)

Move(j, from, to) ==
    /\ job[j] = from /\ Up
    /\ job' = [job EXCEPT ![j] = to]
    /\ UNCHANGED <<gates, put, stored, resumed, count, begin, req, shut, graceOver,
                   afterFunc, verdict, rootDone>>
Step(j, from, to) == Move(j, from, to) /\ UNCHANGED late

\* The key is claimed, and so counted, before intake is tested.
Claim(j)    == Step(j, "new", "claimed")
AdmitUngated(j) ==              \* mutant: intake is not tested after the claim
    /\ Move(j, "claimed", "admitted")
    /\ late' = IF resumed THEN late \cup {j} ELSE late
Admit(j) ==
    \/ intakePaused /\ Step(j, "claimed", "refused")
    \/ /\ ~intakePaused
       /\ Move(j, "claimed", "admitted")
       /\ late' = IF resumed THEN late \cup {j} ELSE late
Send(j)     == Step(j, "admitted", "queued")
SendAbort(j) == rootDone /\ Step(j, "admitted", "lost")
\* A worker already past the context check may still take a job.
Dequeue(j)  == Step(j, "queued", "running")
Finish(j)   == j \notin Stuck /\ Step(j, "running", "ended")
\* The run context, a child of the root context, is done.
CutShort(j) == rootDone /\ Step(j, "running", "lost")

-----------------------------------------------------------------------------
(* cli/serve.go after the signal, and AwaitDrain *)

ShutTo(pc) == shut' = pc

\* The five seconds outlast the few statements of a BeginDrain that is under way.
NoSettle == TRUE                \* mutant: no settle period
Settled == \A t \in Triggers : begin[t] \in {"idle", "returned"}
SettleOver ==
    /\ shut = "serving" /\ begin[Sigterm] = "returned"
    /\ Settled
    /\ ShutTo("await")
    /\ UNCHANGED <<gates, control, count, begin, req, job, graceOver, afterFunc, verdict,
                   rootDone>>

\* The wait loop of AwaitDrain: a poll every 50 ms.
InFlightZero ==
    /\ shut = "await" /\ InFlight = {}
    /\ ShutTo("wait")
    /\ UNCHANGED <<gates, control, count, begin, req, job, graceOver, afterFunc, verdict,
                   rootDone>>

AwaitReturns(v) ==
    /\ verdict' = v
    /\ ShutTo("cancel")
    /\ UNCHANGED <<gates, control, count, begin, req, job, graceOver, afterFunc, rootDone>>
GraceRunsOut == shut = "await" /\ InFlight # {} /\ graceOver /\ AwaitReturns("timeout")

\* One round of WaitZero under the lock: return, or give the lock up and block.
WaitZero ==
    /\ shut = "wait"
    /\ \/ graceOver /\ AwaitReturns("timeout")
       \/ ~graceOver /\ count = 0 /\ AwaitReturns("clean")
       \/ /\ ~graceOver /\ count > 0
          /\ ShutTo("blocked")
          /\ UNCHANGED <<gates, control, count, begin, req, job, graceOver, afterFunc,
                         verdict, rootDone>>

GraceExpires ==
    /\ shut \in {"await", "wait", "blocked"} /\ ~graceOver
    /\ graceOver' = TRUE
    /\ UNCHANGED <<gates, control, count, begin, req, job, shut, afterFunc, verdict,
                   rootDone>>

\* context.AfterFunc, registered by WaitZero: it broadcasts once.
AfterFuncSilent ==              \* mutant: the context is done, nobody is woken
    /\ shut \in {"wait", "blocked"} /\ graceOver /\ ~afterFunc
    /\ afterFunc' = TRUE
    /\ UNCHANGED <<gates, control, count, begin, req, job, shut, graceOver, verdict,
                   rootDone>>
AfterFunc ==
    /\ shut \in {"wait", "blocked"} /\ graceOver /\ ~afterFunc
    /\ afterFunc' = TRUE
    /\ Wake
    /\ UNCHANGED <<gates, control, count, begin, req, job, graceOver, verdict, rootDone>>

\* CancelAndWait: the root context is cancelled, the workers get 30 s to exit.
CancelAndWait ==
    /\ shut = "cancel"
    /\ rootDone' = TRUE /\ reaperGated' = TRUE
    /\ ShutTo("workers")
    /\ UNCHANGED <<control, serverDraining, intakePaused, draining, count, begin, req, job,
                   graceOver, afterFunc, verdict>>

\* ... until they have, or the 30 s are over.
HTTPShutdown ==
    /\ shut = "workers" /\ ShutTo("http")
    /\ UNCHANGED <<gates, control, count, begin, req, job, graceOver, afterFunc, verdict,
                   rootDone>>

\* Handlers get 30 s to return, then FinishShutdown and exit.
FinishShutdown ==
    /\ shut = "http" /\ ShutTo("stopped")
    /\ UNCHANGED <<gates, control, count, begin, req, job, graceOver, afterFunc, verdict,
                   rootDone>>

-----------------------------------------------------------------------------
Begin(t) == BeginDrain(t) \/ SetIntakePaused(t) \/ GateReaper(t) \/ MarkDraining(t)
Request(r) == TryAdmit(r) \/ (r \notin Stuck /\ Release(r)) \/ CallAgain(r)
Job(j) ==
    \/ Claim(j) \/ Admit(j) \/ Send(j) \/ SendAbort(j)
    \/ Dequeue(j) \/ Finish(j) \/ CutShort(j)
Shutdown ==
    \/ SettleOver \/ InFlightZero \/ GraceRunsOut \/ WaitZero
    \/ CancelAndWait \/ HTTPShutdown \/ FinishShutdown

Next ==
    \/ \E t \in Triggers : Begin(t)
    \/ \E v \in {"pause", "resume"} : UpdateQueueControl(v)
    \/ PersistQueueControl
    \/ \E r \in Reqs : Request(r)
    \/ \E j \in Jobs : Job(j)
    \/ GraceExpires \/ AfterFunc \/ Shutdown

Spec == Init /\ [][Next]_vars

\* Goroutines run, timers fire, and what does not hang ends. Nothing obliges the operator.
Fairness ==
    /\ \A t \in Triggers : WF_vars(begin[t] # "idle" /\ Begin(t))
    /\ \A r \in Reqs \ Stuck : WF_vars(Release(r))
    /\ \A j \in Jobs : WF_vars(job[j] # "new" /\ Job(j))
    /\ WF_vars(GraceExpires) /\ WF_vars(AfterFunc) /\ WF_vars(Shutdown)
FairSpec == Spec /\ Fairness

-----------------------------------------------------------------------------
(* The promise behind it: what is at work, and what the shutdown cut off *)

JobsAtWork == {j \in Jobs : job[j] \in {"admitted", "queued", "running"}}
AtWork == {r \in Reqs : req[r] = "admitted"} \cup JobsAtWork
LostJobs == {j \in Jobs : job[j] = "lost"}
Working == IF Up THEN AtWork ELSE {}
Abandoned == IF Up THEN LostJobs ELSE LostJobs \cup AtWork
\* All the gates of BeginDrain are closed, but for an operator who opened one again.
Closed == (intakePaused \/ resumed) /\ reaperGated /\ draining
Phase ==
    IF ~Up THEN "stopped"
    ELSE IF verdict # "none" THEN verdict
    ELSE IF Closed THEN "closed"
    ELSE "open"

Promise == INSTANCE DrainPromise WITH
    Work <- Reqs \cup Jobs,
    Resumable <- Jobs,
    phase <- Phase,
    working <- Working,
    abandoned <- Abandoned,
    late <- late

-----------------------------------------------------------------------------
(* Properties *)

\* Every variable keeps its type; the tracker counts no more than the requests
\* that are there to be counted.
TypeOK ==
    /\ serverDraining \in BOOLEAN /\ intakePaused \in BOOLEAN
    /\ reaperGated \in BOOLEAN /\ draining \in BOOLEAN
    /\ count \in 0..Cardinality(Reqs)
    /\ begin \in [Triggers -> {"idle", "pause", "gate", "mark", "returned"}]
    /\ req \in [Reqs -> {"new", "admitted", "refused", "served"}]
    /\ job \in [Jobs -> Counted \cup {"new", "refused", "ended", "lost"}]
    /\ shut \in {"serving", "await", "wait", "blocked", "cancel", "workers", "http",
                 "stopped"}
    /\ graceOver \in BOOLEAN /\ afterFunc \in BOOLEAN /\ rootDone \in BOOLEAN
    /\ verdict \in {"none", "clean", "timeout"}
    /\ put \in {"idle", "pause", "resume"} /\ stored \in BOOLEAN
    /\ resumed \in BOOLEAN /\ late \subseteq Jobs

\* "No window where a request passes the gate and then drain proceeds before the count
\* increments" (on_demand_tracker.go), and AwaitDrain's count of jobs taken before that of
\* requests: once it has returned nil, and until the process is gone, no request is being
\* served, and a job that is past the intake check, or was lost to the shutdown, can only be
\* one that an operator let in by resuming intake behind the drain, whichever trigger
\* began it.
CleanDrainIsQuiet ==
    verdict = "clean" =>
        /\ \A r \in Reqs : req[r] # "admitted"
        /\ \A j \in Jobs \ late : job[j] \notin {"admitted", "queued", "running", "lost"}

\* WaitZero sleeps only while there is a request to wait for, and not past the
\* broadcast of its own context: no wake-up is lost between its test and Wait.
NoMissedWakeup == shut = "blocked" => count > 0 /\ ~afterFunc

\* A drain is what DrainPromise says: from the moment BeginDrain has closed all gates,
\* whichever trigger it ran for, no request is let in, and no job unless an operator has
\* resumed intake since (queue_control.go:68); AwaitDrain's verdict comes after that
\* moment, though SIGTERM's own BeginDrain may have returned at once because another
\* trigger was first; requests and jobs, which it counts one after the other, are both at
\* zero when it returns nil, but for jobs let in that way; and what was let in before is
\* cut off only after it returned the context's error.
ImplementsDrain == Promise!Spec

\* "or ctx is cancelled" (AwaitDrain): once the signal's BeginDrain has begun, the
\* process stops, whatever hangs.
ShutdownCompletes == begin[Sigterm] # "idle" ~> shut = "stopped"
=============================================================================
