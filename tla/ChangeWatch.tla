---------------------------- MODULE ChangeWatch ----------------------------
(***************************************************************************)
(* The change watch of one repository (internal/changewatch): the watcher  *)
(* folds kernel events into a batch and flushes it when they pause, the    *)
(* router deduplicates the batch, re-indexes its files and merges them     *)
(* into the graph store, and record_change submits to the same router.     *)
(* A file's content is a value; a rename is a deletion and a creation.     *)
(* Rate limiter, breaker and branch validation are refusals that may come  *)
(* at any time; the reads of one IndexFiles are one step.                  *)
(***************************************************************************)
EXTENDS Naturals, Sequences, FiniteSets

CONSTANTS
    Files, Contents, Absent,
    SaveOps,         \* how editors save: in place ("modified"), or by renaming a new file ("added")
    Slots,           \* bound: submissions at a time
    Debounce,        \* how long the kernel events must pause
    DedupWindow,     \* how long a content hash is remembered
    MaxSubmit,       \* how long a submission may take until it is merged
    MaxEdits, MaxCalls, MaxRefusals, MaxFailures,
    InitialDisk      \* what was indexed at first

ASSUME WatchAssumption ==
    /\ Absent \notin Contents /\ SaveOps \subseteq {"added", "modified"}
    /\ Debounce \in Nat \ {0} /\ DedupWindow \in Nat \ {0} /\ MaxSubmit \in Nat
    /\ MaxEdits \in Nat /\ MaxCalls \in Nat /\ MaxRefusals \in Nat /\ MaxFailures \in Nat
    /\ InitialDisk \in [Files -> Contents \cup {Absent}]

\* A submission is merged before the next batch can be flushed: 100 ms of index budget against
\* 2 s of debounce. The code does not enforce it.
ASSUME QuickAssumption == MaxSubmit < Debounce

VARIABLES
    disk, raw,               \* the working tree; kernel events not handled yet
    watched, pending,        \* Watcher: is the repository watched; its batch
    timer, loose, due,       \* what is left of the debounce; timers a flush forgot, by what is left
                             \* of them; flushes whose timers have fired
    step, files, key,        \* a submission: where it is, the event's files and content hashes,
    view, unread, age,       \* its index result, the files it could not read; its age
    prev, store, fresh,      \* Router: previous result, freshness; the graph store
    seen,                    \* Router: content hashes with their ages
    dropped, raced,          \* history: files with an event given up since they were last read;
                             \* a flush found the timer armed again
    edits, calls, refusals, failures

tree    == <<disk, raw>>
watcher == <<watched, pending, timer, loose, due>>
slot    == <<step, files, key, view, unread, age>>
router  == <<prev, store, fresh, seen>>
bounds  == <<edits, calls, refusals, failures>>
history == <<dropped, raced>>
vars    == <<tree, watcher, slot, router, history, bounds>>

Values == Contents \cup {Absent}
NoHash == <<>>
Hashes == UNION {[S -> Values] : S \in SUBSET Files}
Ops    == {"added", "modified", "deleted"}

TypeOK ==
    /\ disk \in [Files -> Values] /\ raw \in Seq(Files \X Ops)
    /\ watched \in BOOLEAN /\ pending \in [Files -> Ops \cup {"none"}]
    /\ timer \in 0 .. Debounce /\ loose \in [1 .. Debounce -> Nat] /\ due \in Nat
    /\ step \in [Slots -> {"idle", "read", "admit", "index", "merge", "commit"}]
    /\ files \in [Slots -> SUBSET Files] /\ key \in [Slots -> Hashes]
    /\ view \in [Slots -> [Files -> Values]] /\ unread \in [Slots -> SUBSET Files]
    /\ age \in [Slots -> 0 .. MaxSubmit]
    /\ prev \in [Files -> Values] /\ store \in [Files -> Values]
    /\ fresh \in {"fresh", "stale", "suspect"}
    /\ seen \subseteq [key : Hashes, age : 0 .. DedupWindow - 1]
    /\ dropped \subseteq Files /\ raced \in BOOLEAN
    /\ edits \in 0 .. MaxEdits /\ calls \in 0 .. MaxCalls
    /\ refusals \in 0 .. MaxRefusals /\ failures \in 0 .. MaxFailures

Nowhere == [f \in Files |-> Absent]

\* SeedPrevious has been called with the tree as it is.
Init ==
    /\ disk = InitialDisk /\ prev = InitialDisk /\ store = InitialDisk
    /\ raw = <<>> /\ watched = TRUE /\ pending = [f \in Files |-> "none"]
    /\ timer = 0 /\ loose = [k \in 1 .. Debounce |-> 0] /\ due = 0
    /\ fresh = "fresh" /\ seen = {} /\ dropped = {} /\ raced = FALSE
    /\ step = [g \in Slots |-> "idle"] /\ files = [g \in Slots |-> {}]
    /\ key = [g \in Slots |-> NoHash] /\ view = [g \in Slots |-> Nowhere]
    /\ unread = [g \in Slots |-> {}] /\ age = [g \in Slots |-> 0]
    /\ edits = 0 /\ calls = 0 /\ refusals = 0 /\ failures = 0
-----------------------------------------------------------------------------
(* The working tree and time *)

Edit(f, c, op) ==
    /\ edits < MaxEdits /\ c # disk[f]
    /\ \/ disk[f] = Absent /\ op = "added"
       \/ c = Absent /\ op = "deleted"
       \/ disk[f] # Absent /\ c # Absent /\ op \in SaveOps
    /\ disk' = [disk EXCEPT ![f] = c]
    /\ raw' = Append(raw, <<f, op>>)
    /\ edits' = edits + 1
    /\ UNCHANGED <<watcher, slot, router, history, calls, refusals, failures>>

\* Submissions that time still counts for.
Open(g) == step[g] \in {"read", "admit", "index", "merge"}

\* Mutant: a hash is remembered at the end of its window.
RememberedTooLong == {s \in seen : s.age < DedupWindow}

\* The hashes that still are within their window when time has passed.
Remembered == {s \in seen : s.age + 1 < DedupWindow}

Pass ==
    /\ due = 0 /\ \A g \in Slots : Open(g) => age[g] < MaxSubmit
    /\ timer' = IF timer = 0 THEN 0 ELSE timer - 1
    /\ loose' = [k \in 1 .. Debounce |-> IF k = Debounce THEN 0 ELSE loose[k + 1]]
    /\ due' = loose[1] + (IF timer = 1 THEN 1 ELSE 0)
    /\ age' = [g \in Slots |-> IF Open(g) THEN age[g] + 1 ELSE age[g]]
    /\ seen' = {[s EXCEPT !.age = @ + 1] : s \in Remembered}
    /\ UNCHANGED <<tree, watched, pending, step, files, key, view, unread, prev, store, fresh,
                   history, bounds>>
-----------------------------------------------------------------------------
(* Watcher *)

\* What becomes of a file's place in the batch when the next event is op.
Folded(was, op) ==
    CASE was = "none"                       -> op
      [] was = "added" /\ op = "deleted"    -> "none"
      [] was = "deleted" /\ op = "added"    -> "modified"
      [] was # "added" /\ op = "deleted"    -> "deleted"
      [] was = "added" /\ op # "deleted"    -> "added"
      [] OTHER                              -> "modified"

\* handleEvent: the timer starts anew at every event, and one that has fired is not called back; an
\* event of a repository that is no longer watched is ignored.
HandleEvent ==
    /\ raw # <<>>
    /\ raw' = Tail(raw)
    /\ LET f == Head(raw)[1]
           p == Folded(pending[f], Head(raw)[2])
       IN IF watched
          THEN /\ pending' = [pending EXCEPT ![f] = p]
               /\ timer' = Debounce
               /\ dropped' = IF p = "none" THEN dropped \cup {f} ELSE dropped
          ELSE UNCHANGED <<pending, timer, dropped>>
    /\ UNCHANGED <<disk, watched, loose, due, raced, slot, router, bounds>>

Batch == {f \in Files : pending[f] # "none"}

\* The batch is drained; the hashes of what was not deleted are still to be read.
Drain(g) ==
    /\ step[g] = "idle"
    /\ step' = [step EXCEPT ![g] = "read"]
    /\ files' = [files EXCEPT ![g] = Batch]
    /\ key' = [key EXCEPT ![g] = [f \in {x \in Batch : pending[x] # "deleted"} |-> Absent]]
    /\ pending' = [f \in Files |-> "none"]
    /\ UNCHANGED <<view, unread, age>>

\* The watcher's reference to its timer is cleared: one that was armed again since the flush's own
\* fired runs on, and the next event will not stop it.
Forget ==
    /\ timer' = 0
    /\ loose' = IF timer = 0 THEN loose ELSE [loose EXCEPT ![timer] = @ + 1]
    /\ raced' = (raced \/ timer # 0)

\* Mutants: a batch that finds a submission under way is left for the next timer; is dropped.
Busy == \E h \in Slots : step[h] # "idle"
FlushUnlessBusy(g) ==
    /\ due > 0 /\ due' = due - 1
    /\ IF Batch # {} /\ ~Busy THEN Drain(g) ELSE UNCHANGED <<slot, pending>>
    /\ Forget
    /\ UNCHANGED <<tree, watched, router, dropped, bounds>>
FlushOrDrop(g) ==
    /\ due > 0 /\ due' = due - 1
    /\ IF Batch # {} /\ ~Busy THEN Drain(g)
       ELSE pending' = [f \in Files |-> "none"] /\ UNCHANGED slot
    /\ Forget
    /\ UNCHANGED <<tree, watched, router, dropped, bounds>>

\* flush: with an empty batch it returns.
Flush(g) ==
    /\ due > 0 /\ due' = due - 1
    /\ IF Batch # {} THEN Drain(g) ELSE UNCHANGED <<slot, pending>>
    /\ Forget
    /\ UNCHANGED <<tree, watched, router, dropped, bounds>>

\* Unwatch: the batch is given up; a flush that is still to come finds nothing.
Unwatch ==
    /\ watched /\ watched' = FALSE
    /\ timer' = 0
    /\ dropped' = dropped \cup Batch
    /\ pending' = [f \in Files |-> "none"]
    /\ UNCHANGED <<tree, loose, due, raced, slot, router, bounds>>
-----------------------------------------------------------------------------
(* Submissions *)

Goes(g, s) == step' = [step EXCEPT ![g] = s]

Ends(g) ==
    /\ Goes(g, "idle")
    /\ files' = [files EXCEPT ![g] = {}] /\ key' = [key EXCEPT ![g] = NoHash]
    /\ view' = [view EXCEPT ![g] = Nowhere] /\ unread' = [unread EXCEPT ![g] = {}]
    /\ age' = [age EXCEPT ![g] = 0]

GivesUp(g) == Ends(g) /\ dropped' = dropped \cup files[g]

Refuse ==
    /\ refusals < MaxRefusals
    /\ refusals' = refusals + 1
    /\ UNCHANGED <<edits, calls, failures>>

Fail ==
    /\ failures < MaxFailures
    /\ failures' = failures + 1
    /\ UNCHANGED <<edits, calls, refusals>>

HashesOf(S) == [f \in {x \in S : disk[x] # Absent} |-> disk[f]]

\* record_change: an agent names files, with their hashes or without.
Call(g, S) ==
    /\ calls < MaxCalls /\ step[g] = "idle"
    /\ Goes(g, "admit")
    /\ files' = [files EXCEPT ![g] = S]
    /\ \E k \in {NoHash, HashesOf(S)} : key' = [key EXCEPT ![g] = k]
    /\ calls' = calls + 1
    /\ UNCHANGED <<tree, watcher, view, unread, age, router, history, edits, refusals, failures>>

\* flush, unlocked: the contents are hashed; the batch is lost if HEAD cannot be read.
Read(g) ==
    /\ step[g] = "read"
    /\ \/ /\ Goes(g, "admit")
          /\ key' = [key EXCEPT ![g] = HashesOf(DOMAIN @)]
          /\ UNCHANGED <<files, view, unread, age, dropped, bounds>>
       \/ Refuse /\ GivesUp(g)
    /\ UNCHANGED <<tree, watcher, router, raced>>

Known(k) == k # NoHash /\ \E s \in seen : s.key = k

\* Submit, under the router's lock: rate limit and breaker, then the deduplication.
Admit(g) ==
    /\ step[g] = "admit"
    /\ \/ Refuse /\ GivesUp(g) /\ UNCHANGED seen
       \/ Known(key[g]) /\ GivesUp(g) /\ UNCHANGED <<seen, bounds>>
       \/ /\ ~Known(key[g])
          /\ Goes(g, "index")
          /\ seen' = IF key[g] = NoHash THEN seen ELSE seen \cup {[key |-> key[g], age |-> 0]}
          /\ view' = [view EXCEPT ![g] = prev]
          /\ UNCHANGED <<files, key, unread, age, dropped, bounds>>
    /\ UNCHANGED <<tree, watcher, prev, store, fresh, raced>>

\* IndexFiles: the branch does not match; the budget is exceeded or the call fails; or the files are
\* read into a copy of the previous result, where one that cannot be read keeps what it had.
Index(g) ==
    /\ step[g] = "index"
    /\ \/ Refuse /\ GivesUp(g) /\ UNCHANGED fresh
       \/ Fail /\ GivesUp(g) /\ fresh' \in {"stale", "suspect"}
       \/ \E S \in SUBSET files[g] :
             /\ IF S = files[g] THEN UNCHANGED bounds ELSE Fail
             /\ Goes(g, "merge")
             /\ view' = [view EXCEPT ![g] = [f \in Files |-> IF f \in S THEN disk[f] ELSE @[f]]]
             /\ unread' = [unread EXCEPT ![g] = files[g] \ S]
             /\ dropped' = dropped \ S
             /\ UNCHANGED <<files, key, age, fresh>>
    /\ UNCHANGED <<tree, watcher, prev, store, seen, raced>>

\* MergeIndexResult: the rows of the event's files are replaced, and no others.
Merge(g) ==
    /\ step[g] = "merge"
    /\ \/ /\ store' = [f \in Files |-> IF f \in files[g] THEN view[g][f] ELSE store[f]]
          /\ dropped' = dropped \cup unread[g]
          /\ Goes(g, "commit")
          /\ UNCHANGED <<files, key, view, unread, age, fresh, bounds>>
       \/ Fail /\ GivesUp(g) /\ fresh' = "suspect" /\ UNCHANGED store
    /\ UNCHANGED <<tree, watcher, prev, seen, raced>>

\* After the impact has been applied: previous result and freshness.
Commit(g) ==
    /\ step[g] = "commit"
    /\ prev' = view[g] /\ fresh' = "fresh"
    /\ Ends(g)
    /\ UNCHANGED <<tree, watcher, store, seen, history, bounds>>

Next ==
    \/ \E f \in Files, c \in Values, op \in Ops : Edit(f, c, op)
    \/ Pass \/ HandleEvent \/ Unwatch
    \/ \E g \in Slots :
          \/ Flush(g) \/ Read(g) \/ Admit(g) \/ Index(g) \/ Merge(g) \/ Commit(g)
          \/ \E S \in SUBSET Files \ {{}} : Call(g, S)

Spec == Init /\ [][Next]_vars

\* The goroutines run and the clock goes on; nobody has to edit, call or unwatch.
Fairness ==
    /\ WF_vars(Pass) /\ WF_vars(HandleEvent) /\ WF_vars(\E g \in Slots : Flush(g))
    /\ \A g \in Slots :
          WF_vars(Read(g) \/ Admit(g) \/ Index(g) \/ Merge(g) \/ Commit(g))

FairSpec == Spec /\ Fairness
-----------------------------------------------------------------------------
(* Properties *)

\* No event of the file is on its way to the store.
Settled(f) ==
    /\ \A i \in DOMAIN raw : raw[i][1] # f
    /\ pending[f] = "none"
    /\ \A g \in Slots : f \in files[g] => step[g] = "commit"

\* The watcher alone keeps the store up to date (mcp_record_change.go:67-70): when no event of a file
\* is on its way, the store has what is on disk, unless an event was refused, deduplicated, failed
\* or cancelled out. The hand-over from batch to timer to submission loses nothing else, and no
\* submission that read an older content merges it last. With calls beside it that may happen, and
\* also once a flush has forgotten a timer that was armed again, for then two flushes may follow
\* each other within the debounce.
NothingSlipsThrough ==
    (watched /\ calls = 0 /\ ~raced) => \A f \in Files \ dropped : Settled(f) => store[f] = disk[f]

\* Once the edits pause, every batch is flushed and every submission ends.
EventsSettle == \A f \in Files : []<>Settled(f)

\* A repository that is said to be fresh, with no event on its way, is (mcp_record_change.go:67-70,
\* passive_only_test.go:22-26: "the fsnotify watcher alone must detect every flavor of edit").
FreshIsHonest ==
    (watched /\ fresh = "fresh" /\ \A g \in Slots : step[g] = "idle")
    => \A f \in Files : Settled(f) => store[f] = disk[f]
=============================================================================
