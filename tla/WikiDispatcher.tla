--------------------------- MODULE WikiDispatcher ---------------------------
(***************************************************************************)
(* The living-wiki event dispatcher (livingwiki/webhook/dispatcher.go) of  *)
(* one process and what its handlers do to the watermarks and pages of a   *)
(* repository (livingwiki/orchestrator/incremental.go, the SurrealDB       *)
(* stores of db/livingwiki_page_store.go).                                 *)
(*                                                                         *)
(* A delivery <<e, n>> is the n-th time a provider, a request or the       *)
(* scheduler hands event e to Submit: the queued event with its context.   *)
(* One step is one critical section or one store call.                     *)
(***************************************************************************)
EXTENDS Naturals, Sequences, FiniteSets

CONSTANTS
    Repos,           \* repositories; each names the goroutine that drains its queue
    Spare,           \* goroutines that drain the overflow queue
    Events,          \* things that happen at a provider, each with a delivery id
    KindOf,          \* Events -> Kinds
    RepoOf,          \* Events -> Repos
    ShaOf,           \* Events -> commits: AfterSHA of a push, MergedSHA of a merge
    PrOf,            \* Events -> wiki PRs, of merges and rejections
    DiffProvider,    \* TRUE when a PushDiffProvider is injected
    QueueCap,        \* MaxQueueDepth, of each queue and of the overflow queue
    TimesOf,         \* bound: Events -> times the event is handed to Submit
    Expiring,        \* bound: events whose contexts may end before their handlers do
    MaxBadReads,     \* bound: failing reads, reported as an empty answer
    MaxBadWrites,    \* bound: failing writes
    MaxRestarts,     \* bound: crashes of the process
    NoSha, Nothing

Kinds == {"push", "merge", "reject", "refresh"}
Workers == Repos \cup Spare
Deliveries == UNION {{e} \X (1 .. TimesOf[e]) : e \in Events}
Shas == {ShaOf[e] : e \in Events} \cup {NoSha}
Prs == {PrOf[e] : e \in Events}
Marks == [processed : Shas, published : Shas]
NoMarks == [processed |-> NoSha, published |-> NoSha]

ASSUME DispatcherAssumption ==
    /\ Repos \cap Spare = {}
    /\ KindOf \in [Events -> Kinds]
    /\ RepoOf \in [Events -> Repos]
    /\ DOMAIN ShaOf = Events /\ DOMAIN PrOf = Events
    /\ \A e \in Events : ShaOf[e] # NoSha
    /\ DiffProvider \in BOOLEAN
    /\ QueueCap \in Nat \ {0}
    /\ TimesOf \in [Events -> Nat]
    /\ MaxBadReads \in Nat /\ MaxBadWrites \in Nat /\ MaxRestarts \in Nat
    /\ Nothing \notin Deliveries

\* A PR is merged or closed, and a commit merges one PR.
ASSUME PrAssumption ==
    /\ \A e, f \in Events : (KindOf[e] = "merge" /\ KindOf[f] = "reject") => PrOf[e] # PrOf[f]
    /\ \A e, f \in Events :
          (/\ KindOf[e] = "merge" /\ KindOf[f] = "merge"
           /\ RepoOf[e] = RepoOf[f] /\ ShaOf[e] = ShaOf[f]) => PrOf[e] = PrOf[f]

VARIABLES
    remembered,      \* delivery ids recorded in the dedupe cache since the process started
    sub,             \* progress and answer of each call of Submit
    queue,           \* per-repository channels
    overflow,        \* the overflow channel
    worker,          \* where each goroutine is in the handler it runs
    doing,           \* the delivery it handles
    read,            \* the watermarks its handler has read
    recent,          \* repositories inside the debounce window
    stop,            \* "no", "closing" once stopCh is closed, "clean" when Stop returned nil
    dead,            \* deliveries whose context is done
    done,            \* deliveries whose handler has returned
    marks,           \* lw_watermarks, one row per repository
    proposed,        \* PRs with proposed pages
    canonical,       \* PRs all of whose pages were copied to canonical
    badReads, badWrites, restarts,
    spilled,         \* repositories with an event that went through the overflow queue
    promised         \* deliveries that were in a repository's queue or handler when Stop was called

calls  == <<remembered, sub, queue, overflow>>
wiki   == <<marks, proposed, canonical>>
faults == <<badReads, badWrites, restarts>>
vars   == <<calls, worker, doing, read, recent, stop, dead, done, wiki, faults, spilled, promised>>

Repo(d) == RepoOf[d[1]]
Kind(d) == KindOf[d[1]]
Sha(d)  == ShaOf[d[1]]
Pr(d)   == PrOf[d[1]]

HandlerSteps == {"debounce", "read", "diff", "reset", "list", "copy", "delete", "write"}
Busy(w) == worker[w] \in HandlerSteps
InQueue(d, q) == \E i \in DOMAIN q : q[i] = d

TypeOK ==
    /\ remembered \subseteq Events
    /\ sub \in [Deliveries -> {"unsent", "route", "spill", "accepted", "duplicate", "full", "lost"}]
    /\ queue \in [Repos -> Seq(Deliveries)]
    /\ overflow \in Seq(Deliveries)
    /\ worker \in [Workers -> HandlerSteps \cup {"unborn", "idle", "exited"}]
    /\ doing \in [Workers -> Deliveries \cup {Nothing}]
    /\ read \in [Workers -> Marks]
    /\ recent \subseteq Repos
    /\ stop \in {"no", "closing", "clean"}
    /\ dead \subseteq Deliveries /\ done \subseteq Deliveries
    /\ marks \in [Repos -> Marks]
    /\ proposed \subseteq Prs /\ canonical \subseteq Prs
    /\ badReads \in 0 .. MaxBadReads /\ badWrites \in 0 .. MaxBadWrites
    /\ restarts \in 0 .. MaxRestarts
    /\ spilled \subseteq Repos /\ promised \subseteq Deliveries
    /\ \A w \in Workers : Busy(w) => doing[w] \in Deliveries

NewWorkers == [w \in Workers |-> IF w \in Repos THEN "unborn" ELSE "idle"]

Init ==
    /\ remembered = {} /\ overflow = <<>>
    /\ sub = [d \in Deliveries |-> "unsent"]
    /\ queue = [r \in Repos |-> <<>>]
    /\ worker = NewWorkers
    /\ doing = [w \in Workers |-> Nothing]
    /\ read = [w \in Workers |-> NoMarks]
    /\ recent = {} /\ stop = "no" /\ dead = {} /\ done = {}
    /\ marks = [r \in Repos |-> NoMarks]
    /\ proposed = {PrOf[e] : e \in {x \in Events : KindOf[x] \in {"merge", "reject"}}}
    /\ canonical = {}
    /\ badReads = 0 /\ badWrites = 0 /\ restarts = 0
    /\ spilled = {} /\ promised = {}
-----------------------------------------------------------------------------
(* Submit *)

\* The check and the recording of the delivery id are one critical section of the cache. An id it
\* holds is found unless its time to live is over or newer ids have pushed it out.
Submit(d) ==
    /\ sub[d] = "unsent"
    /\ d[2] > 1 => sub[<<d[1], d[2] - 1>>] \notin {"unsent", "route", "spill"}
    /\ \/ d[1] \in remembered /\ sub' = [sub EXCEPT ![d] = "duplicate"]
       \/ sub' = [sub EXCEPT ![d] = "route"]
    /\ remembered' = remembered \cup {d[1]}
    /\ UNCHANGED <<queue, overflow, worker, doing, read, recent, stop, dead, done, wiki, faults,
                   spilled, promised>>

\* repoQueueFor: the queue of a repository is created with its goroutine at first use.
Open(d) ==
    /\ sub[d] = "route" /\ worker[Repo(d)] = "unborn"
    /\ worker' = [worker EXCEPT ![Repo(d)] = "idle"]
    /\ UNCHANGED <<calls, doing, read, recent, stop, dead, done, wiki, faults, spilled, promised>>

\* Mutant: the overflow queue is tried first.
SendAnywhere(d) ==
    IF Len(overflow) < QueueCap
    THEN /\ overflow' = Append(overflow, d)
         /\ sub' = [sub EXCEPT ![d] = "accepted"]
         /\ UNCHANGED queue
    ELSE /\ queue' = [queue EXCEPT ![Repo(d)] = Append(@, d)]
         /\ sub' = [sub EXCEPT ![d] = "accepted"]
         /\ UNCHANGED overflow

\* Mutant: the event is queued without its context.
SendBare(d) ==
    /\ queue' = [queue EXCEPT ![Repo(d)] = Append(@, d[1])]
    /\ sub' = [sub EXCEPT ![d] = "accepted"]
    /\ UNCHANGED overflow

\* The event goes to its repository's queue, whether or not a goroutine still drains it.
SendTo(d) ==
    /\ IF Len(queue[Repo(d)]) < QueueCap
       THEN /\ queue' = [queue EXCEPT ![Repo(d)] = Append(@, d)]
            /\ sub' = [sub EXCEPT ![d] = "accepted"]
       ELSE /\ sub' = [sub EXCEPT ![d] = "spill"]
            /\ UNCHANGED queue
    /\ UNCHANGED overflow

Send(d) ==
    /\ sub[d] = "route" /\ worker[Repo(d)] # "unborn"
    /\ SendTo(d)
    /\ UNCHANGED <<remembered, worker, doing, read, recent, stop, dead, done, wiki, faults,
                   spilled, promised>>

Spill(d) ==
    /\ sub[d] = "spill"
    /\ IF Len(overflow) < QueueCap
       THEN /\ overflow' = Append(overflow, d)
            /\ sub' = [sub EXCEPT ![d] = "accepted"]
            /\ spilled' = spilled \cup {Repo(d)}
       ELSE /\ sub' = [sub EXCEPT ![d] = "full"]
            /\ UNCHANGED <<overflow, spilled>>
    /\ UNCHANGED <<remembered, queue, worker, doing, read, recent, stop, dead, done, wiki, faults,
                   promised>>

\* The context of an event ends: EventTimeout counts from Submit, and a webhook request's own
\* context ends when the request was answered.
ContextEnds(d) ==
    /\ d[1] \in Expiring
    /\ sub[d] \in {"route", "spill", "accepted"} /\ d \notin dead /\ d \notin done
    /\ dead' = dead \cup {d}
    /\ UNCHANGED <<calls, worker, doing, read, recent, stop, done, wiki, faults, spilled,
                   promised>>
-----------------------------------------------------------------------------
(* The goroutines: taking events, and one step of a handler per store call *)

FirstStep(d) ==
    CASE Kind(d) = "push" /\ DiffProvider  -> "debounce"
      [] Kind(d) = "push" /\ ~DiffProvider -> "read"
      [] Kind(d) = "merge"                 -> "list"
      [] Kind(d) = "reject"                -> "delete"
      [] Kind(d) = "refresh"               -> "read"

Start(w, d) ==
    /\ worker' = [worker EXCEPT ![w] = FirstStep(d)]
    /\ doing' = [doing EXCEPT ![w] = d]

TakeQueued(r) ==
    /\ worker[r] = "idle" /\ queue[r] # <<>>
    /\ Start(r, Head(queue[r]))
    /\ queue' = [queue EXCEPT ![r] = Tail(@)]
    /\ UNCHANGED <<remembered, sub, overflow, read, recent, stop, dead, done, wiki, faults, spilled,
                   promised>>

TakeOverflow(w) ==
    /\ worker[w] = "idle" /\ overflow # <<>>
    /\ Start(w, Head(overflow))
    /\ overflow' = Tail(overflow)
    /\ UNCHANGED <<remembered, sub, queue, read, recent, stop, dead, done, wiki, faults, spilled,
                   promised>>

\* Mutants: the queue is not drained; the overflow goroutines do not listen to stopCh.
LeavesAtOnce(w) == stop # "no"
LeavesItsQueueOnly(w) == stop # "no" /\ w \in Repos /\ queue[w] = <<>>

\* A repository's goroutine empties its queue before it leaves; the overflow queue is left as it is.
Leaves(w) == stop # "no" /\ (w \in Repos => queue[w] = <<>>)

Exit(w) ==
    /\ worker[w] = "idle" /\ Leaves(w)
    /\ worker' = [worker EXCEPT ![w] = "exited"]
    /\ UNCHANGED <<calls, doing, read, recent, stop, dead, done, wiki, faults, spilled, promised>>

GoTo(w, s) ==
    /\ worker' = [worker EXCEPT ![w] = s]
    /\ UNCHANGED <<doing, read, done>>

\* The handler returns; an error is only logged.
Return(w) ==
    /\ worker' = [worker EXCEPT ![w] = "idle"]
    /\ doing' = [doing EXCEPT ![w] = Nothing]
    /\ read' = [read EXCEPT ![w] = NoMarks]
    /\ done' = done \cup {doing[w]}

\* A store call under a context that is done fails; others may, within the bounds.
Succeeds(w) == doing[w] \notin dead /\ UNCHANGED faults

ReadFails(w) ==
    \/ doing[w] \in dead /\ UNCHANGED faults
    \/ /\ doing[w] \notin dead /\ badReads < MaxBadReads
       /\ badReads' = badReads + 1
       /\ UNCHANGED <<badWrites, restarts>>

WriteFails(w) ==
    \/ doing[w] \in dead /\ UNCHANGED faults
    \/ /\ doing[w] \notin dead /\ badWrites < MaxBadWrites
       /\ badWrites' = badWrites + 1
       /\ UNCHANGED <<badReads, restarts>>

\* GenerateIncremental: a run that starts within the window of an earlier one returns ErrDebounced.
Debounce(w) ==
    /\ worker[w] = "debounce"
    /\ LET r == Repo(doing[w]) IN
       IF r \in recent THEN Return(w) /\ UNCHANGED recent
       ELSE GoTo(w, "read") /\ recent' = recent \cup {r}
    /\ UNCHANGED <<calls, stop, dead, wiki, faults, spilled, promised>>

WindowOver(r) ==
    /\ r \in recent
    /\ recent' = recent \ {r}
    /\ UNCHANGED <<calls, worker, doing, read, stop, dead, done, wiki, faults, spilled, promised>>

\* WatermarkStore.Get answers "never generated" when its query fails.
Get(w) ==
    /\ worker[w] = "read"
    /\ \/ Succeeds(w)  /\ read' = [read EXCEPT ![w] = marks[Repo(doing[w])]]
       \/ ReadFails(w) /\ read' = [read EXCEPT ![w] = NoMarks]
    /\ worker' = [worker EXCEPT ![w] = IF Kind(doing[w]) = "push" /\ DiffProvider
                                       THEN "diff" ELSE "write"]
    /\ UNCHANGED <<calls, doing, done, recent, stop, dead, wiki, spilled, promised>>

\* The diff may be found (no page is known, so none is affected), fail, or its base be gone.
Diff(w) ==
    /\ worker[w] = "diff"
    /\ \/ GoTo(w, "write")
       \/ GoTo(w, "reset")
       \/ Return(w)
    /\ UNCHANGED <<calls, recent, stop, dead, wiki, faults, spilled, promised>>

\* handleForcePush: both watermarks are emptied.
ResetMarks(w) ==
    /\ worker[w] = "reset"
    /\ \/ /\ Succeeds(w)
          /\ marks' = [marks EXCEPT ![Repo(doing[w])] = NoMarks]
          /\ GoTo(w, "write")
       \/ WriteFails(w) /\ Return(w) /\ UNCHANGED marks
    /\ UNCHANGED <<calls, recent, stop, dead, proposed, canonical, spilled, promised>>

\* PromoteProposed: a failing list counts as an empty one, and with nothing to promote it returns nil.
List(w) ==
    /\ worker[w] = "list"
    /\ \/ Succeeds(w) /\ GoTo(w, IF Pr(doing[w]) \in proposed THEN "copy" ELSE "write")
       \/ ReadFails(w) /\ GoTo(w, "write")
    /\ UNCHANGED <<calls, recent, stop, dead, wiki, spilled, promised>>

\* Mutant: the error is dropped and the watermark written.
GoOnAnyway(w) == GoTo(w, "write")

\* What a handler does when a write of pages fails: it returns the error.
OnPageError(w) == Return(w)

Copy(w) ==
    /\ worker[w] = "copy"
    /\ \/ /\ Succeeds(w)
          /\ canonical' = canonical \cup {Pr(doing[w])}
          /\ GoTo(w, "delete")
       \/ WriteFails(w) /\ OnPageError(w) /\ UNCHANGED canonical
    /\ UNCHANGED <<calls, recent, stop, dead, marks, proposed, spilled, promised>>

Delete(w) ==
    /\ worker[w] = "delete"
    /\ \/ /\ Succeeds(w)
          /\ proposed' = proposed \ {Pr(doing[w])}
          /\ GoTo(w, IF Kind(doing[w]) = "merge" THEN "write" ELSE "read")
       \/ WriteFails(w) /\ OnPageError(w) /\ UNCHANGED proposed
    /\ UNCHANGED <<calls, recent, stop, dead, marks, canonical, spilled, promised>>

\* AdvanceProcessed of a push or a rejection, AdvancePublished of a merge, Reset of a refresh.
NewMarks(w) ==
    LET d == doing[w]
        old == marks[Repo(d)]
        base == read[w].published
    IN  CASE Kind(d) = "push"    -> [old EXCEPT !.processed = Sha(d)]
          [] Kind(d) = "merge"   -> [processed |-> Sha(d), published |-> Sha(d)]
          [] Kind(d) = "reject"  -> [old EXCEPT !.processed = base]
          [] Kind(d) = "refresh" -> [processed |-> base, published |-> base]

Write(w) ==
    /\ worker[w] = "write"
    /\ \/ Succeeds(w)   /\ marks' = [marks EXCEPT ![Repo(doing[w])] = NewMarks(w)]
       \/ WriteFails(w) /\ UNCHANGED marks
    /\ Return(w)
    /\ UNCHANGED <<calls, recent, stop, dead, proposed, canonical, spilled, promised>>

Handle(w) ==
    \/ Debounce(w) \/ Get(w) \/ Diff(w) \/ ResetMarks(w)
    \/ List(w) \/ Copy(w) \/ Delete(w) \/ Write(w)
-----------------------------------------------------------------------------
(* Shutdown and crash *)

Stop ==
    /\ stop = "no"
    /\ stop' = "closing"
    /\ promised' = {d \in Deliveries : \E r \in Repos : doing[r] = d \/ InQueue(d, queue[r])}
    /\ UNCHANGED <<calls, worker, doing, read, recent, dead, done, wiki, faults, spilled>>

\* Mutant: only the overflow goroutines are waited for.
SpareLeft == \A w \in Spare : worker[w] = "exited"

\* The two wait groups, over the goroutines that were started.
AllLeft == \A w \in Workers : worker[w] \in {"unborn", "exited"}

StopReturns ==
    /\ stop = "closing" /\ AllLeft
    /\ stop' = "clean"
    /\ UNCHANGED <<calls, worker, doing, read, recent, dead, done, wiki, faults, spilled, promised>>

\* The process dies, at any moment or because Stop's context ended, and starts again.
Crash ==
    /\ restarts < MaxRestarts
    /\ restarts' = restarts + 1
    /\ remembered' = {} /\ overflow' = <<>>
    /\ sub' = [d \in Deliveries |-> IF sub[d] \in {"route", "spill"} THEN "lost" ELSE sub[d]]
    /\ queue' = [r \in Repos |-> <<>>]
    /\ worker' = NewWorkers
    /\ doing' = [w \in Workers |-> Nothing]
    /\ read' = [w \in Workers |-> NoMarks]
    /\ recent' = {} /\ stop' = "no" /\ spilled' = {} /\ promised' = {}
    /\ UNCHANGED <<dead, done, wiki, badReads, badWrites>>

Next ==
    \/ \E d \in Deliveries : Submit(d) \/ Open(d) \/ Send(d) \/ Spill(d) \/ ContextEnds(d)
    \/ \E r \in Repos : TakeQueued(r) \/ WindowOver(r)
    \/ \E w \in Spare : TakeOverflow(w)
    \/ \E w \in Workers : Handle(w) \/ Exit(w)
    \/ Stop \/ StopReturns \/ Crash

Spec == Init /\ [][Next]_vars

\* Goroutines are scheduled and store calls return. Nothing else need happen.
Fairness ==
    /\ \A d \in Deliveries : WF_vars(Open(d) \/ Send(d) \/ Spill(d))
    /\ \A r \in Repos : WF_vars(TakeQueued(r))
    /\ \A w \in Spare : WF_vars(TakeOverflow(w))
    /\ \A w \in Workers : WF_vars(Handle(w)) /\ WF_vars(Exit(w))
    /\ WF_vars(StopReturns)

FairSpec == Spec /\ Fairness
-----------------------------------------------------------------------------
(* Properties *)

\* wiki_published_sha names a merged commit only if the pages of its PR were copied to canonical:
\* PromoteWithWatermark promotes before it advances, and gives up when a page cannot be written.
PublishedIsPromoted ==
    \A e \in Events :
        (KindOf[e] = "merge" /\ marks[RepoOf[e]].published = ShaOf[e]) => PrOf[e] \in canonical

\* What a rejection or a refresh has read is still the published commit when it writes it back:
\* the handlers of a repository do not overlap while none of its events took the overflow queue.
ReadsAreCurrent ==
    \A w \in Workers :
        (/\ worker[w] = "write" /\ Kind(doing[w]) \in {"reject", "refresh"}
         /\ Repo(doing[w]) \notin spilled /\ doing[w] \notin dead /\ badReads = 0)
        => read[w].published = marks[Repo(doing[w])].published

MergeWrites(r) ==
    \E w \in Workers :
        /\ worker[w] = "write" /\ Kind(doing[w]) = "merge" /\ Repo(doing[w]) = r
        /\ marks'[r].published = Sha(doing[w])

HistoryRewritten(r) ==
    /\ marks'[r] = NoMarks
    /\ \E w \in Workers : worker[w] = "reset" /\ Repo(doing[w]) = r

\* The published commit of a repository none of whose events overflowed moves only when a merge
\* moves it to its own commit or a force-push empties it: no refresh or rejection takes it back.
PublishedOnlyByMerge ==
    [][\A r \in Repos :
          (marks'[r].published # marks[r].published /\ r \notin spilled /\ badReads = 0)
          => MergeWrites(r) \/ HistoryRewritten(r)]_vars

\* After Stop returned nil every event that was queued or in a handler of its repository when Stop
\* was called has been handled, whatever was submitted meanwhile.
CleanStopKeepsPromise == stop = "clean" => promised \subseteq done

\* An event that Submit accepted is handled, unless the process dies, or Stop comes and the event
\* is not among what Stop waits for: it was in the overflow queue, or accepted too late.
AcceptedIsHandled ==
    \A d \in Deliveries :
        (sub[d] = "accepted" /\ stop = "no")
        ~> (d \in done \/ restarts > 0 \/ (stop # "no" /\ d \notin promised))

\* Stop returns: every goroutine sees stopCh, also one that was started after it was closed.
StopCompletes == (stop = "closing") ~> (stop = "clean" \/ restarts > 0)

\* A delivery that is refused as a duplicate is a repetition of one that was accepted or is being
\* accepted (dispatcher.go:237-242).
DuplicateWasAccepted ==
    \A d \in Deliveries : sub[d] = "duplicate" =>
        \E n \in 1 .. TimesOf[d[1]] : sub[<<d[1], n>>] \in {"route", "spill", "accepted"}
=============================================================================
