--------------------------- MODULE JobOrchestrator ---------------------------
(***************************************************************************)
(* The bounded LLM job queue of internal/llm/orchestrator: enqueue with    *)
(* deduplication, workers that run a closure with retries, user            *)
(* cancellation, the stale-job reaper, graceful drain, crash and startup   *)
(* reconciliation.  Every goroutine that touches a job is a process here,  *)
(* and one step is one critical section or one store call.                 *)
(*                                                                         *)
(* A job id is a fresh UUID drawn by one Enqueue call, so the set Jobs     *)
(* names both: call c creates job c, unless it is deduplicated.            *)
(*                                                                         *)
(* Time is the age of a row's updated_at, in four levels:                  *)
(*   0 fresh, 1 past reconcileStaleThreshold (90 s), 2 past the generating *)
(*   threshold (5, 10 or 30 min), 3 past stalePendingThreshold (45 min).   *)
(***************************************************************************)
EXTENDS Naturals, Sequences, FiniteSets, JobStore

CONSTANTS
    Jobs,            \* ids: one Enqueue call and the job it may create
    Keys,            \* target keys (the dedupe key of a request)
    Lanes,           \* interactive, maintenance, prewarm
    NoJob,           \* the absence of a job id
    KeyOf,           \* KeyOf[c]: target key of call c
    LaneOf,          \* LaneOf[c]: priority lane of call c
    MaxAttempts,     \* attempts of a closure, the first included
    MaxConcurrency,  \* size of the worker pool
    QueueCapacity,   \* buffer of each lane's channel
    SyncCalls,       \* calls made through EnqueueSync
    Cancellable,     \* jobs a user may cancel
    Hung,            \* closures that neither beat nor return until cancelled
    Reissue,         \* TRUE: a deduplicated caller may ask again, forever
    Admin,           \* operator actions in play: "pause", "drain", "stop"
    MaxAge,          \* bound on the age of a row
    MaxFailures,     \* bound on failing store calls
    MaxRestarts      \* bound on crashes

OrchestratorAssumption ==
    /\ NoJob \notin Jobs
    /\ KeyOf \in [Jobs -> Keys]
    /\ LaneOf \in [Jobs -> Lanes]
    /\ MaxAttempts \in Nat \ {0}
    /\ MaxConcurrency \in Nat
    /\ QueueCapacity \in Nat
    /\ SyncCalls \subseteq Jobs /\ Cancellable \subseteq Jobs /\ Hung \subseteq Jobs
    /\ Reissue \in BOOLEAN
    /\ Admin \subseteq {"pause", "drain", "stop"}
    /\ MaxAge \in 0..3
    /\ MaxFailures \in Nat /\ MaxRestarts \in Nat

ASSUME OrchestratorAssumption

VARIABLES
    \* the store (survives a crash)
    status, age,
    \* Enqueue calls: step, job id it is looking at, evictions so far
    callPc, seen, tries,
    \* in-process registries
    inflight, queues, finalizing, cancelled, runCancel, ctxDone,
    \* runJob, one per job: step, attempt, what the closure returned,
    \* claimWon, terminal status about to be written
    run, attempt, outcome, won, verdict,
    \* Cancel, one per job; the reaper, one
    cancelPc, reaperPc, reapTodo, reapJob,
    \* process lifecycle
    alive, paused, draining,
    \* workers inside dequeue
    idle,
    \* what the outside saw: terminal events, OnJobFailed callbacks
    published, notified,
    \* budgets
    failures, restarts

storeVars == <<status, age>>
callVars  == <<callPc, seen, tries>>
runVars   == <<run, attempt, outcome, won, verdict>>
ctxVars   == <<runCancel, ctxDone>>
reapVars  == <<reaperPc, reapTodo, reapJob>>
adminVars == <<alive, paused, draining, idle>>
obsVars   == <<published, notified>>
vars == <<storeVars, callVars, inflight, queues, finalizing, cancelled, ctxVars,
          runVars, cancelPc, reapVars, adminVars, obsVars, failures, restarts>>

-----------------------------------------------------------------------------
Outcomes == {"none", "ok", "transient", "fatal", "aborted"}
CallPcs  == {"idle", "attach", "claim", "inspect", "evict", "admit", "create",
             "send", "wait", "done"}
RunPcs   == {"none", "check", "begin", "attempt", "cooldown", "running",
             "unregister", "settle", "write", "report", "exit", "done"}
CancelPcs == {"idle", "mark", "claim", "release", "write", "report",
              "acked", "refused"}
ReaperPcs == {"idle", "scan", "cancel", "mark", "error", "free"}
\* A snapshot entry of ListActive: the job and the status it had.
Snapshot == [job : Jobs, st : Active]

Up      == alive \in {"up", "stopping"}
ContextDone(j) == j \in ctxDone \/ alive = "stopping"

\* A store call fails when the database is unreachable (MaxFailures times at
\* most) or because it is made with the root context, which Stop has cancelled.
\* MemStore ignores the context and cannot fail on a row that exists.
StoreFails ==
    /\ Persistent
    /\ \/ alive = "stopping" /\ UNCHANGED failures
       \/ failures < MaxFailures /\ failures' = failures + 1
StoreOk == UNCHANGED failures

\* Writes over a row.  Every write that lands bumps updated_at.
PutStatus(j, s) ==
    /\ status' = [status EXCEPT ![j] = s]
    /\ age' = [age EXCEPT ![j] = 0]
StoreWrite(j, s) ==
    \/ StoreOk /\ PutStatus(j, s)
    \/ StoreFails /\ UNCHANGED storeVars
\* SetProgress, Heartbeat, IncrementRetry: bump updated_at of an active row.
Touch(j) ==
    /\ age' = [age EXCEPT ![j] = 0]
    /\ UNCHANGED status
\* A failing one is only logged.
StoreTouch(j) ==
    \/ StoreOk /\ Touch(j)
    \/ StoreFails /\ UNCHANGED storeVars

\* publish: an event carries the row as read back, of status st here; what a
\* waiting EnqueueSync looks for is a terminal one, whatever the event's kind.
Event(j, st) == published' = IF st \in Terminal THEN published \cup {j} ELSE published

-----------------------------------------------------------------------------
Init ==
    /\ status = [j \in Jobs |-> "absent"]
    /\ age = [j \in Jobs |-> 0]
    /\ callPc = [j \in Jobs |-> "idle"]
    /\ seen = [j \in Jobs |-> NoJob]
    /\ tries = [j \in Jobs |-> 0]
    /\ inflight = [k \in Keys |-> NoJob]
    /\ queues = [l \in Lanes |-> <<>>]
    /\ finalizing = {} /\ cancelled = {} /\ runCancel = {} /\ ctxDone = {}
    /\ run = [j \in Jobs |-> "none"]
    /\ attempt = [j \in Jobs |-> 1]
    /\ outcome = [j \in Jobs |-> "none"]
    /\ won = [j \in Jobs |-> FALSE]
    /\ verdict = [j \in Jobs |-> "cancelled"]
    /\ cancelPc = [j \in Jobs |-> "idle"]
    /\ reaperPc = "idle" /\ reapTodo = {} /\ reapJob = NoJob
    /\ alive = "up" /\ paused = FALSE /\ draining = FALSE /\ idle = MaxConcurrency
    /\ published = {}
    /\ notified = [j \in Jobs |-> 0]
    /\ failures = 0 /\ restarts = 0

-----------------------------------------------------------------------------
(* Enqueue and EnqueueSync *)

\* What the caller does once Enqueue has handed it job j: EnqueueSync waits for
\* a terminal event of j unless the record it was handed is already terminal.
Handed(c, j) ==
    LET waits == c \in SyncCalls /\ status[j] \in Active IN
    /\ seen' = [seen EXCEPT ![c] = IF waits THEN j ELSE NoJob]
    /\ callPc' = [callPc EXCEPT ![c] = IF waits THEN "wait" ELSE "done"]

CallTo(c, pc) == callPc' = [callPc EXCEPT ![c] = pc]
ReleaseKey(k) == inflight' = [inflight EXCEPT ![k] = NoJob]

ActiveOn(k) == {j \in Jobs : KeyOf[j] = k /\ status[j] \in Active}

\* GetActiveByTargetKey: the most recently updated active row of the key; an
\* error of the query reads as "none".
Lookup(c) ==
    /\ callPc[c] = "idle" /\ Up
    /\ \/ /\ \E j \in ActiveOn(KeyOf[c]) :
               /\ \A i \in ActiveOn(KeyOf[c]) : age[j] <= age[i]
               /\ seen' = [seen EXCEPT ![c] = j]
          /\ CallTo(c, "attach") /\ StoreOk
       \/ /\ ActiveOn(KeyOf[c]) = {}
          /\ CallTo(c, "claim") /\ StoreOk /\ UNCHANGED seen
       \/ /\ ActiveOn(KeyOf[c]) # {}
          /\ CallTo(c, "claim") /\ StoreFails /\ UNCHANGED seen
    /\ UNCHANGED <<storeVars, tries, inflight, queues, finalizing, cancelled, ctxVars,
                   runVars, cancelPc, reapVars, adminVars, obsVars, restarts>>

\* Dedupe hit in the store: IncrementAttachedRequests bumps updated_at, the row
\* is read back, and the registry is synchronised (claim is a no-op on a claimed
\* key).  A failing read gives a nil row, whose use ends the caller's goroutine.
Attach(c) ==
    LET j == seen[c]
        k == KeyOf[c] IN
    /\ callPc[c] = "attach" /\ Up
    /\ \/ /\ Touch(j) /\ Handed(c, j) /\ StoreOk
          /\ inflight' = [inflight EXCEPT ![k] = IF @ = NoJob THEN j ELSE @]
       \/ /\ Touch(j) \/ UNCHANGED storeVars
          /\ CallTo(c, "done") /\ seen' = [seen EXCEPT ![c] = NoJob]
          /\ StoreFails /\ UNCHANGED inflight
    /\ UNCHANGED <<tries, queues, finalizing, cancelled, ctxVars, runVars, cancelPc,
                   reapVars, adminVars, obsVars, restarts>>

\* inflightRegistry.claim under its lock.
Claim(c) ==
    LET k == KeyOf[c] IN
    /\ callPc[c] = "claim" /\ Up
    /\ \/ /\ inflight[k] = NoJob
          /\ inflight' = [inflight EXCEPT ![k] = c]
          /\ CallTo(c, "admit") /\ UNCHANGED seen
       \/ /\ inflight[k] # NoJob
          /\ seen' = [seen EXCEPT ![c] = inflight[k]]
          /\ CallTo(c, "inspect") /\ UNCHANGED inflight
    /\ UNCHANGED <<storeVars, tries, queues, finalizing, cancelled, ctxVars, runVars,
                   cancelPc, reapVars, adminVars, obsVars, failures, restarts>>

\* The claim was lost: attach to the winner if its row is active; a row that is
\* terminal, missing or unreadable makes the claim look stale.  When the row can
\* be read once but not read back, the caller gets no job at all.
Inspect(c) ==
    LET j == seen[c] IN
    /\ callPc[c] = "inspect" /\ Up
    /\ \/ /\ status[j] \in Active
          /\ Touch(j) /\ Handed(c, j) /\ StoreOk
       \/ /\ status[j] \notin Active
          /\ CallTo(c, "evict") /\ StoreOk /\ UNCHANGED <<storeVars, seen>>
       \/ /\ status[j] \in Active
          /\ CallTo(c, "evict") /\ StoreFails /\ UNCHANGED <<storeVars, seen>>
       \/ /\ status[j] \in Active
          /\ Touch(j) \/ UNCHANGED storeVars
          /\ CallTo(c, "done") /\ seen' = [seen EXCEPT ![c] = NoJob] /\ StoreFails
    /\ UNCHANGED <<tries, inflight, queues, finalizing, cancelled, ctxVars, runVars,
                   cancelPc, reapVars, adminVars, obsVars, restarts>>

\* llm_inflight_stale_release, then the next of maxClaimAttempts = 2 rounds;
\* after the last round the call goes on without holding a claim.
Evict(c) ==
    /\ callPc[c] = "evict" /\ Up
    /\ ReleaseKey(KeyOf[c])
    /\ tries' = [tries EXCEPT ![c] = @ + 1]
    /\ CallTo(c, IF tries[c] = 0 THEN "claim" ELSE "admit")
    /\ seen' = [seen EXCEPT ![c] = NoJob]
    /\ UNCHANGED <<storeVars, queues, finalizing, cancelled, ctxVars, runVars,
                   cancelPc, reapVars, adminVars, obsVars, failures, restarts>>

Admit(c) ==
    /\ callPc[c] = "admit" /\ Up
    /\ \/ paused /\ ReleaseKey(KeyOf[c]) /\ CallTo(c, "done")
       \/ ~paused /\ CallTo(c, "create") /\ UNCHANGED inflight
    /\ UNCHANGED <<storeVars, seen, tries, queues, finalizing, cancelled, ctxVars,
                   runVars, cancelPc, reapVars, adminVars, obsVars, failures, restarts>>

\* A Create that reports an error may have left the row all the same.
Create(c) ==
    /\ callPc[c] = "create" /\ Up
    /\ \/ PutStatus(c, "pending") /\ StoreOk /\ CallTo(c, "send") /\ UNCHANGED inflight
       \/ /\ StoreFails
          /\ PutStatus(c, "pending") \/ UNCHANGED storeVars
          /\ ReleaseKey(KeyOf[c]) /\ CallTo(c, "done")
    /\ UNCHANGED <<seen, tries, queues, finalizing, cancelled, ctxVars, runVars, cancelPc,
                   reapVars, adminVars, obsVars, restarts>>

\* The select of Enqueue: the send is ready when the lane has room.  The record
\* the caller gets is the one created, so EnqueueSync always waits here ...
Send(c) ==
    LET l == LaneOf[c] IN
    /\ callPc[c] = "send" /\ Up
    /\ Len(queues[l]) < QueueCapacity
    /\ queues' = [queues EXCEPT ![l] = Append(@, c)]
    /\ IF c \in SyncCalls
       THEN CallTo(c, "wait") /\ seen' = [seen EXCEPT ![c] = c]
       ELSE CallTo(c, "done") /\ UNCHANGED seen
    /\ UNCHANGED <<storeVars, tries, inflight, finalizing, cancelled, ctxVars, runVars,
                   cancelPc, reapVars, adminVars, obsVars, failures, restarts>>

\* ... and the other branch when the root context is done: no claim is taken.
SendAbort(c) ==
    /\ callPc[c] = "send" /\ alive = "stopping"
    /\ ReleaseKey(KeyOf[c])
    /\ StoreWrite(c, AfterSetError(status[c]))
    /\ CallTo(c, "done")
    /\ UNCHANGED <<seen, tries, queues, finalizing, cancelled, ctxVars, runVars, cancelPc,
                   reapVars, adminVars, obsVars, restarts>>

\* EnqueueSync returns on a terminal event of its job or on shutdown.
WaitDone(c) ==
    /\ callPc[c] = "wait" /\ Up
    /\ seen[c] \in published \/ alive = "stopping"
    /\ CallTo(c, "done")
    /\ seen' = [seen EXCEPT ![c] = NoJob]
    /\ UNCHANGED <<storeVars, tries, inflight, queues, finalizing, cancelled,
                   ctxVars, runVars, cancelPc, reapVars, adminVars, obsVars, failures,
                   restarts>>

\* ... or when the caller's own context ends: the client went away.
Abandon(c) ==
    /\ callPc[c] = "wait" /\ Up
    /\ CallTo(c, "done")
    /\ seen' = [seen EXCEPT ![c] = NoJob]
    /\ UNCHANGED <<storeVars, tries, inflight, queues, finalizing, cancelled, ctxVars,
                   runVars, cancelPc, reapVars, adminVars, obsVars, failures, restarts>>

\* A caller that was handed another call's job, or refused, asks again.
Again(c) ==
    /\ Reissue /\ callPc[c] = "done" /\ status[c] = "absent"
    /\ CallTo(c, "idle")
    /\ tries' = [tries EXCEPT ![c] = 0]
    /\ UNCHANGED <<storeVars, seen, inflight, queues, finalizing, cancelled, ctxVars,
                   runVars, cancelPc, reapVars, adminVars, obsVars, failures, restarts>>

Enqueue(c) ==
    \/ Lookup(c) \/ Attach(c) \/ Claim(c) \/ Inspect(c) \/ Evict(c) \/ Admit(c)
    \/ Create(c) \/ Send(c) \/ SendAbort(c) \/ WaitDone(c)
-----------------------------------------------------------------------------
(* Workers: dequeue and runJob *)

RunTo(j, pc) == run' = [run EXCEPT ![j] = pc]

\* The polling selects prefer the interactive lane; the blocking select that
\* follows takes from whichever lane becomes ready, so any lane may be served.
\* A worker already past the context check may still take an item after Stop.
Dequeue(l) ==
    /\ Up /\ idle > 0
    /\ queues[l] # <<>>
    /\ RunTo(Head(queues[l]), "check")
    /\ queues' = [queues EXCEPT ![l] = Tail(@)]
    /\ idle' = idle - 1
    /\ UNCHANGED <<storeVars, callVars, inflight, finalizing, cancelled, ctxVars, attempt,
                   outcome, won, verdict, cancelPc, reapVars, alive, paused, draining,
                   obsVars, failures, restarts>>

\* claimFinalization: the claim is lost when somebody already holds it.
ClaimAlwaysWon(j) == FALSE      \* mutant: no test under the lock
ClaimLost(j) == j \in finalizing

\* The run goroutine claims: the winner goes on to write v.
ClaimToWrite(j, v) ==
    /\ verdict' = [verdict EXCEPT ![j] = v]
    /\ IF ClaimLost(j)
       THEN RunTo(j, "exit") /\ UNCHANGED <<finalizing, won>>
       ELSE /\ finalizing' = finalizing \cup {j}
            /\ won' = [won EXCEPT ![j] = TRUE]
            /\ RunTo(j, "write")

\* isCancelled on entry: a job cancelled while queued is not run.  It is left as
\* it is when its row is terminal or cannot be read.
Check(j) ==
    /\ run[j] = "check" /\ Up
    /\ \/ /\ j \notin cancelled /\ StoreOk
          /\ RunTo(j, "begin") /\ UNCHANGED <<verdict, finalizing, won>>
       \/ /\ j \in cancelled
          /\ (status[j] \in Terminal /\ StoreOk) \/ StoreFails
          /\ RunTo(j, "exit") /\ UNCHANGED <<verdict, finalizing, won>>
       \/ /\ j \in cancelled /\ status[j] \notin Terminal /\ StoreOk
          /\ ClaimToWrite(j, "cancelled")
    /\ UNCHANGED <<storeVars, callVars, inflight, queues, cancelled, ctxVars, attempt,
                   outcome, cancelPc, reapVars, adminVars, obsVars, restarts>>

\* SetStatus(generating), then the row is read back and announced; an error is
\* logged and the job runs anyway.
Begin(j) ==
    /\ run[j] = "begin" /\ Up
    /\ \/ /\ StoreOk /\ PutStatus(j, AfterSetStatus(status[j], "generating"))
          /\ Event(j, status'[j])
       \/ /\ StoreFails /\ UNCHANGED storeVars
          /\ Event(j, status[j]) \/ UNCHANGED published
    /\ attempt' = [attempt EXCEPT ![j] = 1]
    /\ RunTo(j, "attempt")
    /\ UNCHANGED <<callVars, inflight, queues, finalizing, cancelled, ctxVars, outcome,
                   won, verdict, cancelPc, reapVars, adminVars, notified, restarts>>

\* The subsystem breaker is open: SetProgress "backoff", then wait.  Whether it
\* is open is left free here.
Cooldown(j) ==
    /\ run[j] = "attempt" /\ Up
    /\ StoreTouch(j) /\ Event(j, status[j])
    /\ RunTo(j, "cooldown")
    /\ UNCHANGED <<callVars, inflight, queues, finalizing, cancelled, ctxVars, attempt,
                   outcome, won, verdict, cancelPc, reapVars, adminVars, notified,
                   restarts>>

\* The root context is done during a cooldown or a retry backoff.
AbortWait(j) ==
    /\ alive = "stopping"
    /\ run[j] = "cooldown" \/ (run[j] = "attempt" /\ attempt[j] > 1)
    /\ ClaimToWrite(j, "cancelled")
    /\ UNCHANGED <<storeVars, callVars, inflight, queues, cancelled, ctxVars, attempt,
                   outcome, cancelPc, reapVars, adminVars, obsVars, failures, restarts>>

\* IncrementRetry after a backoff, then a fresh run context is registered.
StartAttempt(j) ==
    /\ run[j] \in {"attempt", "cooldown"} /\ Up
    /\ IF attempt[j] > 1 THEN StoreTouch(j) ELSE StoreOk /\ UNCHANGED storeVars
    /\ runCancel' = runCancel \cup {j}
    /\ RunTo(j, "running")
    /\ UNCHANGED <<callVars, inflight, queues, finalizing, cancelled, ctxDone, attempt,
                   outcome, won, verdict, cancelPc, reapVars, adminVars, obsVars, restarts>>

\* Heartbeat, or ReportProgress, which also announces the row unless it only
\* buffers: a call that fails or writes nothing changes nothing.
Beat(j) ==
    /\ run[j] = "running" /\ Up /\ j \notin Hung
    /\ Touch(j) /\ (Event(j, status[j]) \/ UNCHANGED published)
    /\ UNCHANGED <<callVars, inflight, queues, finalizing, cancelled, ctxVars, runVars,
                   cancelPc, reapVars, adminVars, notified, failures, restarts>>

\* The closure returns.  On a terminal exit the claim is attempted at once.
TerminalExit(j, o) ==
    o # "transient" \/ j \in cancelled \/ attempt[j] >= MaxAttempts
Return(j, o) ==
    /\ run[j] = "running" /\ Up
    /\ o = "aborted" \/ j \in Hung => ContextDone(j)
    /\ outcome' = [outcome EXCEPT ![j] = o]
    /\ LET wins == TerminalExit(j, o) /\ ~ClaimLost(j) IN
       /\ won' = [won EXCEPT ![j] = wins]
       /\ finalizing' = IF wins THEN finalizing \cup {j} ELSE finalizing
    /\ RunTo(j, "unregister")
    /\ UNCHANGED <<storeVars, callVars, inflight, queues, cancelled, ctxVars, attempt,
                   verdict, cancelPc, reapVars, adminVars, obsVars, failures, restarts>>

\* cancel(), clearRunCancel and flush, which may write and announce buffered
\* progress.
Unregister(j) ==
    /\ run[j] = "unregister" /\ Up
    /\ runCancel' = runCancel \ {j}
    /\ ctxDone' = ctxDone \ {j}
    /\ Touch(j) \/ UNCHANGED storeVars
    /\ Event(j, status[j]) \/ UNCHANGED published
    /\ RunTo(j, "settle")
    /\ UNCHANGED <<callVars, inflight, queues, finalizing, cancelled, attempt, outcome,
                   won, verdict, cancelPc, reapVars, adminVars, notified,
                   failures, restarts>>

\* After the flush the goroutine looks at "cancelled" again and picks an exit.
RetriesCancelled(j) ==          \* mutant: the second isCancelled is dropped
    outcome[j] = "transient" /\ attempt[j] < MaxAttempts
RetriesOnceMore(j) ==           \* mutant: <= for <
    outcome[j] = "transient" /\ j \notin cancelled /\ attempt[j] <= MaxAttempts
Retries(j) == outcome[j] = "transient" /\ j \notin cancelled /\ attempt[j] < MaxAttempts
Verdict(j) ==
    IF j \in cancelled \/ outcome[j] = "aborted" THEN "cancelled"
    ELSE IF outcome[j] = "ok" THEN "ready"
    ELSE "failed"
MayWriteAnyway(j) == TRUE        \* mutant: claimWon is not looked at
MayWrite(j) == won[j]
Settle(j) ==
    /\ run[j] = "settle" /\ Up
    /\ IF Retries(j)
       THEN /\ attempt' = [attempt EXCEPT ![j] = @ + 1]
            /\ RunTo(j, "attempt") /\ UNCHANGED verdict
       ELSE /\ verdict' = [verdict EXCEPT ![j] = Verdict(j)]
            /\ RunTo(j, IF MayWrite(j) THEN "write" ELSE "exit") /\ UNCHANGED attempt
    /\ UNCHANGED <<storeVars, callVars, inflight, queues, finalizing, cancelled, ctxVars,
                   outcome, won, cancelPc, reapVars, adminVars, obsVars, failures,
                   restarts>>

\* finalizeReady, finalizeFailed, finalizeCancelled: a failing write is logged.
Written(j, v) == IF v = "failed" THEN AfterSetError(status[j])
                                 ELSE AfterSetStatus(status[j], v)
WriteVerdict(j) ==
    /\ run[j] = "write" /\ Up
    /\ StoreWrite(j, Written(j, verdict[j]))
    /\ RunTo(j, "report")
    /\ UNCHANGED <<callVars, inflight, queues, finalizing, cancelled, ctxVars, attempt,
                   outcome, won, verdict, cancelPc, reapVars, adminVars, obsVars,
                   restarts>>

\* ... then the row is read back; the event carries the status it has, and
\* nothing is published when the read fails.
CallsBackAnyError(j) == outcome[j] # "ok"          \* mutant: also when cancelled
CallsBackFatal(j) == verdict[j] = "failed" /\ outcome[j] = "fatal"
                                \* mutant: exhausted retries are not reported
CallsBack(j) == verdict[j] = "failed"
Report(j) ==
    /\ run[j] = "report" /\ Up
    /\ \/ /\ StoreOk /\ Event(j, status[j])
          /\ notified' = IF CallsBack(j)
                         THEN [notified EXCEPT ![j] = @ + 1] ELSE notified
       \/ StoreFails /\ UNCHANGED obsVars
    /\ RunTo(j, "exit")
    /\ UNCHANGED <<storeVars, callVars, inflight, queues, finalizing, cancelled, ctxVars,
                   attempt, outcome, won, verdict, cancelPc, reapVars, adminVars,
                   restarts>>

\* The locals of a runJob that is over.
ForgetLocals(j) ==
    /\ attempt' = [attempt EXCEPT ![j] = 1]
    /\ outcome' = [outcome EXCEPT ![j] = "none"]
    /\ won' = [won EXCEPT ![j] = FALSE]
    /\ verdict' = [verdict EXCEPT ![j] = "cancelled"]

\* The deferred clearRunState and inflight.release; the worker dequeues again
\* unless the root context is done.
Exit(j) ==
    /\ run[j] = "exit" /\ Up
    /\ runCancel' = runCancel \ {j}
    /\ cancelled' = cancelled \ {j}
    /\ ReleaseKey(KeyOf[j])
    /\ RunTo(j, "done") /\ ForgetLocals(j)
    /\ idle' = IF alive = "up" THEN idle + 1 ELSE idle
    /\ UNCHANGED <<storeVars, callVars, queues, finalizing, ctxDone, cancelPc, reapVars,
                   alive, paused, draining, obsVars, failures, restarts>>

Worker(j) ==
    \/ Check(j) \/ Begin(j) \/ Cooldown(j) \/ AbortWait(j) \/ StartAttempt(j) \/ Beat(j)
    \/ \E o \in Outcomes \ {"none"} : Return(j, o)
    \/ Unregister(j) \/ Settle(j) \/ WriteVerdict(j) \/ Report(j) \/ Exit(j)

-----------------------------------------------------------------------------
(* Cancel, also called by DrainPending for every pending job *)

CancelTo(j, pc) == cancelPc' = [cancelPc EXCEPT ![j] = pc]

CanCancel(j) == status[j] \in Active
CancelRead(j) ==
    /\ cancelPc[j] = "idle" /\ j \in Cancellable /\ Up
    /\ CanCancel(j)
    /\ CancelTo(j, "mark")
    /\ UNCHANGED <<storeVars, callVars, inflight, queues, finalizing, cancelled, ctxVars,
                   runVars, reapVars, adminVars, obsVars, failures, restarts>>

\* Mark and fetch the cancel function under runMu; calling it later than that
\* changes nothing, because the mark already stops a further attempt.
CancelMark(j) ==
    /\ cancelPc[j] = "mark" /\ Up
    /\ cancelled' = cancelled \cup {j}
    /\ ctxDone' = IF j \in runCancel THEN ctxDone \cup {j} ELSE ctxDone
    /\ CancelTo(j, IF j \in runCancel THEN "acked" ELSE "claim")
    /\ UNCHANGED <<storeVars, callVars, inflight, queues, finalizing, runCancel, runVars,
                   reapVars, adminVars, obsVars, failures, restarts>>

CancelClaim(j) ==
    /\ cancelPc[j] = "claim" /\ Up
    /\ CancelTo(j, IF ClaimLost(j) THEN "refused" ELSE "release")
    /\ finalizing' = finalizing \cup {j}
    /\ UNCHANGED <<storeVars, callVars, inflight, queues, cancelled, ctxVars, runVars,
                   reapVars, adminVars, obsVars, failures, restarts>>

CancelRelease(j) ==
    /\ cancelPc[j] = "release" /\ Up
    /\ ReleaseKey(KeyOf[j])
    /\ CancelTo(j, "write")
    /\ UNCHANGED <<storeVars, callVars, queues, finalizing, cancelled, ctxVars, runVars,
                   reapVars, adminVars, obsVars, failures, restarts>>

CancelWrite(j) ==
    /\ cancelPc[j] = "write" /\ Up
    /\ StoreWrite(j, AfterSetStatus(status[j], "cancelled"))
    /\ CancelTo(j, "report")
    /\ UNCHANGED <<callVars, inflight, queues, finalizing, cancelled, ctxVars, runVars,
                   reapVars, adminVars, obsVars, restarts>>

CancelReport(j) ==
    /\ cancelPc[j] = "report" /\ Up
    /\ \/ StoreOk /\ Event(j, status[j])
       \/ StoreFails /\ UNCHANGED published
    /\ CancelTo(j, "acked")
    /\ UNCHANGED <<storeVars, callVars, inflight, queues, finalizing, cancelled, ctxVars,
                   runVars, reapVars, adminVars, notified, restarts>>

Cancel(j) ==
    \/ CancelRead(j) \/ CancelMark(j) \/ CancelClaim(j) \/ CancelRelease(j)
    \/ CancelWrite(j) \/ CancelReport(j)
-----------------------------------------------------------------------------
(* The reaper, and startup reconciliation, which repeats its steps *)

\* generatingThresholdFor and the pending threshold, as age levels.  A job in phase
\* queued or backoff younger than 10 min has the pending threshold: level 2 is
\* past that as well.
StaleGenerating(j) == status[j] = "generating" /\ age[j] >= 2  \* mutant: no pending
Stale(j) ==
    \/ status[j] = "generating" /\ age[j] >= 2
    \/ status[j] = "pending" /\ age[j] >= 3
\* reconcileStaleThreshold.
Zombie(j) == status[j] \in Active /\ age[j] >= 1

Snap(S) == {[job |-> j, st |-> status[j]] : j \in S}
\* The rest of the sweep.
NextStale == reaperPc' = IF reapTodo = {} THEN "idle" ELSE "scan"

\* A tick lists the active rows; the sweep then works on that snapshot.
ReapTick ==
    LET stale == {j \in Jobs : Stale(j)} IN
    /\ reaperPc = "idle" /\ alive = "up" /\ stale # {}
    /\ reapTodo' = Snap(stale)
    /\ reaperPc' = "scan"
    /\ UNCHANGED <<storeVars, callVars, inflight, queues, finalizing, cancelled, ctxVars,
                   runVars, cancelPc, reapJob, adminVars, obsVars, failures, restarts>>

\* Skip a generating job during a drain and a job somebody else finalises;
\* otherwise claim it.
ReapClaim ==
    /\ reaperPc = "scan" /\ alive # "down"
    /\ \E s \in reapTodo :
         LET skip == (draining /\ s.st = "generating") \/ ClaimLost(s.job) IN
         /\ reapTodo' = reapTodo \ {s}
         /\ reapJob' = IF skip THEN NoJob ELSE s.job
         /\ finalizing' = IF skip THEN finalizing ELSE finalizing \cup {s.job}
         /\ reaperPc' = IF ~skip THEN "cancel"
                        ELSE IF reapTodo' = {} THEN "idle" ELSE "scan"
    /\ UNCHANGED <<storeVars, callVars, inflight, queues, cancelled, ctxVars, runVars,
                   cancelPc, adminVars, obsVars, failures, restarts>>

\* cancelActiveRun: tear the stuck stream down before the terminal write.
ReapCancel ==
    /\ reaperPc = "cancel" /\ alive # "down"
    /\ ctxDone' = IF reapJob \in runCancel THEN ctxDone \cup {reapJob} ELSE ctxDone
    /\ reaperPc' = "mark"
    /\ UNCHANGED <<storeVars, callVars, inflight, queues, finalizing, cancelled, runCancel,
                   runVars, cancelPc, reapTodo, reapJob, adminVars, obsVars, failures,
                   restarts>>

\* releaseFinalization after a failing store write, which may have landed all
\* the same: the sweep moves on.
GiveUp(s) ==
    /\ StoreFails
    /\ PutStatus(reapJob, s) \/ UNCHANGED storeVars
    /\ finalizing' = finalizing \ {reapJob}
    /\ reapJob' = NoJob
    /\ NextStale

ReapMark ==
    /\ reaperPc = "mark" /\ alive # "down"
    /\ LET s == AfterSetStatus(status[reapJob], "failed") IN
       \/ /\ PutStatus(reapJob, s) /\ StoreOk
          /\ reaperPc' = "error" /\ UNCHANGED <<finalizing, reapJob>>
       \/ GiveUp(s)
    /\ UNCHANGED <<callVars, inflight, queues, cancelled, ctxVars, runVars, cancelPc,
                   reapTodo, adminVars, obsVars, restarts>>

ReapError ==
    /\ reaperPc = "error" /\ alive # "down"
    /\ LET s == AfterSetError(status[reapJob]) IN
       \/ /\ PutStatus(reapJob, s) /\ StoreOk
          /\ reaperPc' = "free" /\ UNCHANGED <<finalizing, reapJob>>
       \/ GiveUp(s)
    /\ UNCHANGED <<callVars, inflight, queues, cancelled, ctxVars, runVars, cancelPc,
                   reapTodo, adminVars, obsVars, restarts>>

\* Both writes landed: free the key, run OnJobFailed.  No event is published.
ReapFree ==
    /\ reaperPc = "free" /\ alive # "down"
    /\ ReleaseKey(KeyOf[reapJob])
    /\ notified' = [notified EXCEPT ![reapJob] = @ + 1]
    /\ reapJob' = NoJob
    /\ NextStale
    /\ UNCHANGED <<storeVars, callVars, queues, finalizing, cancelled, ctxVars, runVars,
                   cancelPc, reapTodo, adminVars, published, failures, restarts>>

Reaper == ReapTick \/ ReapClaim \/ ReapCancel \/ ReapMark \/ ReapError \/ ReapFree

-----------------------------------------------------------------------------
(* Operators, time, crash and restart *)

\* The admin API toggles intake.
Pause ==
    /\ "pause" \in Admin /\ alive = "up"
    /\ paused' = ~paused
    /\ UNCHANGED <<alive, draining, idle>>
\* BeginDrain: pause intake and mark the orchestrator draining.
BeginDrain ==
    /\ "drain" \in Admin /\ alive = "up" /\ ~draining
    /\ paused' = TRUE /\ draining' = TRUE
    /\ UNCHANGED <<alive, idle>>
\* Shutdown and CancelAndWait: mark draining, cancel the root context.
Stop ==
    /\ "stop" \in Admin /\ alive = "up"
    /\ draining' = TRUE /\ alive' = "stopping"
    /\ UNCHANGED <<paused, idle>>
Operator ==
    /\ Pause \/ BeginDrain \/ Stop
    /\ UNCHANGED <<storeVars, callVars, inflight, queues, finalizing, cancelled, ctxVars,
                   runVars, cancelPc, reapVars, obsVars, failures, restarts>>

\* Time passes without a write to an active row.
Tick(j) ==
    /\ status[j] \in Active /\ age[j] < MaxAge
    /\ age' = [age EXCEPT ![j] = @ + 1]
    /\ UNCHANGED <<status, callVars, inflight, queues, finalizing, cancelled, ctxVars,
                   runVars, cancelPc, reapVars, adminVars, obsVars, failures, restarts>>

\* The process dies: only the store and what was already seen outside survive.
\* (Without a database nothing survives: a restart is another behaviour.)
Crash ==
    /\ Persistent /\ alive # "down" /\ restarts < MaxRestarts
    /\ restarts' = restarts + 1
    /\ alive' = "down"
    /\ callPc' = [c \in Jobs |-> IF callPc[c] = "idle" THEN "idle" ELSE "done"]
    /\ inflight' = [k \in Keys |-> NoJob]
    /\ queues' = [l \in Lanes |-> <<>>]
    /\ finalizing' = {} /\ cancelled' = {} /\ runCancel' = {} /\ ctxDone' = {}
    /\ run' = [j \in Jobs |-> "none"]
    /\ won' = [j \in Jobs |-> FALSE]
    /\ cancelPc' = [j \in Jobs |-> IF cancelPc[j] = "idle" THEN "idle" ELSE "refused"]
    /\ reaperPc' = "idle" /\ reapTodo' = {} /\ reapJob' = NoJob
    /\ paused' = FALSE /\ draining' = FALSE /\ idle' = MaxConcurrency
    /\ UNCHANGED <<storeVars, seen, tries, attempt, outcome, verdict, obsVars, failures>>

\* New: reconcileZombieJobs runs before any worker or caller does.
Boot ==
    LET zombies == {j \in Jobs : Zombie(j)} IN
    /\ alive = "down"
    /\ alive' = "booting"
    /\ reapTodo' = Snap(zombies)
    /\ reaperPc' = IF zombies = {} THEN "idle" ELSE "scan"
    /\ UNCHANGED <<storeVars, callVars, inflight, queues, finalizing, cancelled, ctxVars,
                   runVars, cancelPc, reapJob, paused, draining, idle, obsVars,
                   failures, restarts>>
BootDone ==
    /\ alive = "booting" /\ reaperPc = "idle"
    /\ alive' = "up"
    /\ UNCHANGED <<storeVars, callVars, inflight, queues, finalizing, cancelled, ctxVars,
                   runVars, cancelPc, reapVars, paused, draining, idle, obsVars,
                   failures, restarts>>

-----------------------------------------------------------------------------
Next ==
    \/ \E c \in Jobs : Enqueue(c) \/ Abandon(c) \/ Again(c)
    \/ \E l \in Lanes : Dequeue(l)
    \/ \E j \in Jobs : Worker(j) \/ Cancel(j) \/ Tick(j)
    \/ Reaper \/ Operator \/ Crash \/ Boot \/ BootDone

Spec == Init /\ [][Next]_vars

-----------------------------------------------------------------------------
(* Fairness.  Goroutines are scheduled, timers fire and time passes, so every  *)
(* step a goroutine is ready to take is taken; a closure returns on its own or, *)
(* when it hangs, once its context is done.  Nothing makes a caller call or     *)
(* leave, a user cancel, a closure beat, an operator act or the process crash.  *)

Progress(j) ==
    \/ Check(j) \/ Begin(j) \/ AbortWait(j) \/ StartAttempt(j)
    \/ \E o \in Outcomes \ {"none"} : Return(j, o)
    \/ Unregister(j) \/ Settle(j) \/ WriteVerdict(j) \/ Report(j) \/ Exit(j)

Fairness ==
    /\ \A c \in Jobs : WF_vars(callPc[c] # "idle" /\ Enqueue(c))
    /\ \A l \in Lanes : WF_vars(Dequeue(l))
    /\ \A j \in Jobs : WF_vars(Progress(j))
    /\ \A j \in Jobs : WF_vars(cancelPc[j] # "idle" /\ Cancel(j))
    /\ \A j \in Jobs : WF_vars(Tick(j))
    /\ WF_vars(Reaper) /\ WF_vars(Boot) /\ WF_vars(BootDone)

FairSpec == Spec /\ Fairness

-----------------------------------------------------------------------------
(* Properties *)

StoreTypeOK ==
    /\ status \in [Jobs -> Status]
    /\ age \in [Jobs -> 0..3]
CallTypeOK ==
    /\ callPc \in [Jobs -> CallPcs]
    /\ seen \in [Jobs -> Jobs \cup {NoJob}]
    /\ tries \in [Jobs -> 0..2]
RegistryTypeOK ==
    /\ inflight \in [Keys -> Jobs \cup {NoJob}]
    /\ queues \in [Lanes -> Seq(Jobs)]
    /\ finalizing \subseteq Jobs /\ cancelled \subseteq Jobs
    /\ runCancel \subseteq Jobs /\ ctxDone \subseteq Jobs
RunTypeOK ==
    /\ run \in [Jobs -> RunPcs]
    /\ attempt \in [Jobs -> 1..MaxAttempts]
    /\ outcome \in [Jobs -> Outcomes]
    /\ won \in [Jobs -> BOOLEAN]
    /\ verdict \in [Jobs -> {"ready", "failed", "cancelled"}]
FinalizerTypeOK ==
    /\ cancelPc \in [Jobs -> CancelPcs]
    /\ reaperPc \in ReaperPcs
    /\ reapTodo \subseteq Snapshot
    /\ reapJob \in Jobs \cup {NoJob}
ProcessTypeOK ==
    /\ alive \in {"up", "stopping", "down", "booting"}
    /\ paused \in BOOLEAN /\ draining \in BOOLEAN
    /\ idle \in Nat
    /\ published \subseteq Jobs
    /\ notified \in [Jobs -> Nat]
    /\ failures \in 0..MaxFailures
    /\ restarts \in 0..MaxRestarts

\* Every variable keeps its type; with the bounds of the code: at most two
\* evictions per call (maxClaimAttempts) and MaxAttempts attempts per job.
TypeOK ==
    /\ StoreTypeOK /\ CallTypeOK /\ RegistryTypeOK /\ RunTypeOK /\ FinalizerTypeOK
    /\ ProcessTypeOK

\* Who holds the right to write the terminal status of job j.
RunOwns(j)    == won[j] /\ run[j] \notin {"none", "done"}
CancelOwns(j) == cancelPc[j] \in {"release", "write", "report"}
ReaperOwns(j) == reapJob = j
Owned(j)      == RunOwns(j) \/ CancelOwns(j) \/ ReaperOwns(j)

\* "Whoever calls claimFinalization(jobID) first owns the terminal write"
\* (orchestrator.go): the run goroutine, Cancel and the reaper never own the same
\* job, whatever fails and whenever the process dies.
ClaimExclusive ==
    \A j \in Jobs :
        /\ ~(RunOwns(j) /\ CancelOwns(j))
        /\ ~(RunOwns(j) /\ ReaperOwns(j))
        /\ ~(CancelOwns(j) /\ ReaperOwns(j))
        /\ Owned(j) => j \in finalizing

\* "With the claim in place, the guard rarely fires" (orchestrator.go): when the
\* owner of the claim is about to write, the row is still active, so its
\* verdict is never dropped by the terminal-status guard of the store.
VerdictLands ==
    \A j \in Jobs :
        (run[j] = "write" \/ cancelPc[j] = "write" \/ (reapJob = j /\ reaperPc = "mark"))
            => status[j] \in Active

\* A claim is "held forever" only over a terminal row (releaseFinalization): a
\* claimed job that is still active has a goroutine that is about to end it.
NoOrphanedClaim ==
    \A j \in finalizing : status[j] \in Active => Owned(j)

\* The abstract claim, its row, holder and claims read off this state.
Row(j) ==
    IF status[j] = "absent" THEN "absent"
    ELSE IF status[j] \in Terminal THEN "ended"
    ELSE IF callPc[j] = "send" THEN "created" ELSE "queued"
Holder(j) ==
    IF RunOwns(j) THEN "run"
    ELSE IF CancelOwns(j) THEN "cancel"
    ELSE IF ReaperOwns(j) THEN "reaper" ELSE "nobody"
Promise == INSTANCE FinalizationClaim WITH
    row <- [j \in Jobs |-> Row(j)],
    claimed <- finalizing,
    holder <- [j \in Jobs |-> Holder(j)]

\* "A second caller observes the existing mark and returns false; that caller
\* must write NO terminal status" (claimFinalization), and only the reaper
\* releases a claim: every step of the queue is a step of FinalizationClaim.
ImplementsClaim == Promise!Spec

\* OnJobFailed fires at most once per job, and only for a job whose row says
\* failed by then, whichever of finalizeFailed, reapStaleJobs and
\* reconcileZombieJobs ends it (as long as no store call fails).
FailureReportedOnce ==
    \A j \in Jobs : notified[j] <= 1 /\ (notified[j] = 1 => status[j] = "failed")

\* claimFinalization: "jobs don't reactivate", and a terminal status is final.
TerminalIsFinal ==
    [][\A j \in Jobs : status[j] \in Terminal => status'[j] = status[j]]_vars

\* Job.TargetKey: "Two jobs with the same TargetKey that are both active will be
\* coalesced into a single run" (job.go).
OneActivePerKey == \A k \in Keys : Cardinality(ActiveOn(k)) <= 1

\* Every job ends: a closure that hangs, or a job whose process died, is ended by
\* the reaper or by startup reconciliation.
JobEnds == \A j \in Jobs : status[j] \in Active ~> status[j] \in Terminal

\* "called whenever any failure path marks a job as failed": OnJobFailed is called
\* for every job that fails, unless the process dies first.
FailureIsReported ==
    \A j \in Jobs : status[j] = "failed" ~> notified[j] = 1 \/ restarts > 0
=============================================================================
