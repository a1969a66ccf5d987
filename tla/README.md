# TLA+ models of SourceBridge

SourceBridge is a Go server (plus Python model workers, a web front end and editor
plugins) that indexes repositories, keeps a symbol graph, and has language models write
field guides, wiki pages, reviews and answers about them. Its own control logic is in
`internal/`: a job queue around slow, failing model calls, event pipelines that keep the
wiki and the index fresh, and a few periodic and shutdown protocols. This directory
models that logic, checks it with TLC on small instances and proves parts of it with TLAPS.

## 1. Inventory

| Component | State | Operations | Talks to | What is hard | What makes it correct |
|---|---|---|---|---|---|
| **LLM job orchestrator** `llm/orchestrator` | rows of `ca_llm_job` (through the store); registry key → job; three lane channels; `cancelled`, `runCancels`, `finalizing`; drain and pause flags | `Enqueue`, `EnqueueSync`, `runJob`, `Cancel`, `DrainPending`, `reapStaleJobs`, `reconcileZombieJobs`, `Shutdown`/`CancelAndWait` | store, closures that call models, subscribers, `OnJobFailed` | caller, worker, user, reaper and process death all end jobs; every store call may fail | one terminal write per job, by the owner of the claim, and it lands; a terminal status is final; every job ends; one failure, one callback |
| **Job store** `llm/memstore.go`, `db/llm_job_store.go` | one row per job | `SetStatus`, `SetError`, `Heartbeat`, `SetProgress`, lookups | SurrealDB | two implementations, one contract | terminal statuses are never left |
| **Compute breaker** `llm/orchestrator/breaker.go` | consecutive failures, open until | `waitDuration`, `recordSuccess`, `recordFailure` | `runJob` | shared by all jobs of a subsystem | opens at the threshold, closes by time |
| **Graceful drain** `api/rest/router.go`, `on_demand_tracker.go`, `queue_control.go`, `cli/serve.go` | drain flag, intake flag and its saved record, admission counter | `BeginDrain`, `TryAdmit`/`Release`, `AwaitDrain`, the operator's `handleUpdateQueueControl`, shutdown sequence | orchestrator, HTTP handlers, preStop hook, SIGTERM | two triggers; admission and an operator racing the drain | nothing is admitted after the wait saw zero, unless an operator resumes intake |
| **Living-wiki dispatcher** `livingwiki/webhook` | queue per repository, overflow queue, ring of delivery ids | `Submit`, drain loops, `Stop` | webhooks, scheduler, wiki orchestrator | full queues, redelivery, stop | per-repository order; an accepted event is handled |
| **Watermarks** `livingwiki/orchestrator` | `source_processed_sha`, `wiki_published_sha`, proposed and canonical pages | generate, promote, discard, force-push recovery | git hosts, dispatcher | two writes per transition; concurrent events | processed is never behind the published state, rejected deltas are regenerated |
| **Delayed publishing** `livingwiki/markdown/delay_queue.go` | buffered writes | `Enqueue`, `FlushDue` | git sinks | writes during a flush | no write is lost |
| **Periodic leaders** `livingwiki/scheduler`, `trash/worker.go` | lock with a time to live | `tick` | Redis or in-memory cache | the lock's life against the tick | one leader at a time, and always one eventually |
| **Change watch** `changewatch` | previous index result, dedup windows, rate buckets, breaker | `Submit` | file watcher, indexer, graph store | check, index and publish without the lock | no delta is lost, retries are accepted |
| **Trash** `trash` | tombstones, batches, keys | move, restore, purge, sweep | all stores | cascades and key collisions | a restore brings back exactly a batch |
| **Worker client** `worker`, `worker/tlsreload` | staged and committed certificate, connection bundles with their call counts, lanes | `acquire`/`release`, `Stage`, `Commit`, `rotateForCandidate`, `drainAndClose`, `Close` | gRPC worker, certificate files | two loops reload, missed events, calls under way during a swap | a running call keeps its connection; an older certificate never replaces a newer one; the last version is served; nothing leaks |
| **LLM profiles** `db/llm_*profile*.go`, `db/llm_config_*.go`, `llm/resolution`, `cli/serve.go` | settings row with version, legacy fields and `active_profile_id`; rows of `ca_llm_profile` with their watermark; the resolver's cache | migration at boot, create, update, delete, activate, legacy PUT, reconcile, `Resolve` | settings UI, pods of the release before, resolver on each pod | optimistic versions, two copies of the settings, writers that know of one only | the active profile exists; the mirror follows it; an old pod's write is told from all others; caches are coherent |
| **Events, health, auth** | handlers, cached status, single-use states | publish, shutdown, probe, consume | everything | shutdown, stale caches | in-flight handlers are waited for |
| Knowledge, search, QA, indexing, graph, reports, clustering | documents, indexes | queries and pipelines | models, database | quality of content | not a matter of interleavings |
| GraphQL/REST glue, CLI, web, plugins, Python workers, deployment | — | — | — | generated code and user interfaces | not modelled |

`PROJECT.json` lists the same components with their files, and under `hazards` what is hard
to test, each at its line.

## 2. Plan

| Order | Module | Of | Main questions |
|---|---|---|---|
| 1 | `JobStore`, `JobOrchestrator` (done) | job queue | claim exclusivity, final statuses, no stuck job |
| 2 | `FinalizationClaim` (done) | abstract promise of the claim protocol | `JobOrchestrator` implements it |
| 3 | `JobOrchestratorProofs`, `VerdictProofs` (done) | proofs about 1 and 2 | types, claims, final statuses, the refinement, verdicts that land, failures that are reported once |
| 4 | `DrainAdmission`, `DrainPromise`, `DrainProofs` (done) | graceful drain and its abstract promise | nothing runs after `AwaitDrain` returned nil but what an operator let in |
| 5 | `WikiDispatcher`, `WikiProofs` (done) | living-wiki dispatcher and watermarks, composed | order, loss, duplicates, crash between two writes |
| 6 | `ChangeWatch`, `ChangeWatchProofs` (done) | watcher, router, `record_change` | lost updates, honest freshness |
| 7 | `Scheduler`, `SchedulerProofs` (done) | scheduler and trash worker, one module for both | one leader, and one again in time |
| 8 | `CertRotation`, `ConnHandover`, `CertRotationProofs` (done) | certificate reload and rotation of connections, and its abstract promise | no call loses its connection, monotone generations |
| 9 | `ProfileMirror`, `ProfileProofs` (done) | profiles, mirror, migration, resolver cache | two releases write one row |
| 10 | `DelayQueue`, `Trash`, `SubsystemBreaker` (left) | small components | see section 7 |

The abstract specifications next to detailed ones are `FinalizationClaim`, `DrainPromise` and
`ConnHandover`; the other modules state their promise as invariants and action properties
(`PublishedOnlyByMerge`, `NeverOlder`: monotone registers). Left to do beyond 10: an abstract
specification of the watermarks for `WikiDispatcher`, a watcher of several repositories, and the
per-repository overrides of `Resolve`.

## 3. The modules

### JobStore

What a write does to a row's status. `AfterSetStatus` is the whole difference between the two
stores: the `WHERE` clause of `llm_job_store.go` refuses every write that leaves a terminal
status, the guard of `memstore.go` only those to *another terminal* status. The constant
`Persistent` selects the store.

### JobOrchestrator

One step is one critical section or one store call. The processes:

| Process | Code | Program counter |
|---|---|---|
| caller `c` | `Enqueue`, `EnqueueSync` | `callPc[c]`, `seen[c]`, `tries[c]` |
| run of job `j` | `dequeue`, `runJob`, `finalizeX` | `run[j]` with its locals `attempt`, `outcome`, `won`, `verdict` |
| user cancelling `j` | `Cancel` (also from `DrainPending`) | `cancelPc[j]` |
| reaper | `reapStaleJobs`; at startup `reconcileZombieJobs`, whose steps are the same | `reaperPc`, `reapTodo` (the snapshot), `reapJob` |
| operator, time, crash | `SetIntakePaused`, `BeginDrain`, `Stop`; `Tick`; `Crash`, `Boot` | `alive`, `paused`, `draining` |

Shared state: `status` and `age` are the store; `inflight` the registry; `queues` the lanes;
`finalizing`, `cancelled`, `runCancel` the maps under `runMu`; `ctxDone` the run contexts that
are cancelled. `published` and `notified` record what the outside saw: the jobs for which an
event with a terminal record was published, and the calls of `OnJobFailed`.

Abstractions:

* A job id is drawn by one call, so `Jobs` names both. A caller that was given another job may
  ask again (`Again`).
* Time is the age of `updated_at` in four levels, the thresholds of the code (90 s, the
  generating threshold, 45 min): 0 to 3. Any write that lands on an active row resets it.
* A failing store call is a choice, at most `MaxFailures` times; after `Stop` every call of the
  SurrealDB store may fail, because it is made with the cancelled root context. The in-memory
  store cannot fail. A reaper or `Create` write that reports an error may have landed.
* The closure is a free choice of beats and of an outcome: ok, transient, fatal or aborted;
  `Hung` closures do nothing until their context is done. A breaker that is open is a free choice.
* `Exit` joins the two deferred critical sections of `runJob`; `CancelMark` joins fetching the
  cancel function and calling it.
* Events are never dropped (the code drops them when a subscriber's buffer of 64 is full).

Left out: changing the pool size at run time, job logs, metrics, progress values.

### FinalizationClaim

The promise of `claimFinalization` without any of its mechanism: each job's terminal write has
at most one holder among run, cancel and reaper; a claim is taken by one at a time and given
back only by the reaper; a job ends only by the hand of its holder, or by an `Enqueue` that
gives up at shutdown before a worker was offered the job. `ImplementsClaim` says that
`JobOrchestrator` implements it: the holder is computed from `won`, `cancelPc` and `reapJob`,
the row from `status` and the step of the call that made it.

### DrainAdmission

The shutdown of a server, from the first `BeginDrain` to the end of the process.

| Process | Code | State |
|---|---|---|
| trigger `t` (preStop hook, admin API, SIGTERM) | `BeginDrain`: the compare-and-swap, then intake, reaper, tracker | `begin[t]` |
| client `r` | `TryAdmit`, `Release`, each under the tracker's lock; it may call again | `req[r]` |
| operator | `handleUpdateQueueControl`, then `persistQueueControl` | `put`, `stored` |
| job `j` | `Enqueue` (claim, intake check, send) and its run | `job[j]` |
| main goroutine | `cli/serve.go` after the signal, `AwaitDrain` and `WaitZero` inside it | `shut`, `verdict` |
| timer | `graceCtx`, and the `AfterFunc` of `WaitZero` | `graceOver`, `afterFunc` |

`WaitZero` is modelled at the grain of its lock: `wait` is holding it, `blocked` is asleep in
`cond.Wait`, and a broadcast moves it back to `wait`. A key is counted from its claim to the end
of the run. The operator's `PUT /api/v1/admin/llm/control` sets intake to what it says, with no test for a
drain, as long as HTTP is served: through the settle period, `AwaitDrain` and `CancelAndWait`. So
`intakePaused` has two writers, and a resume can open the gate that `BeginDrain` has closed. What
comes of it is kept in two history variables: `resumed` (intake was last set by a resume after the
drain's pause) and `late` (the jobs that came in while it was). One PUT is in progress at a time;
its record is saved in one step, with the value intake has by then, and the save may fail. Intake
starts as the record says (`router.go:532-535`).

Jobs have keys of their own here: `JobOrchestrator` has the calls that share one,
and with them the count may be wrong in either direction (section 6). So what this module shows
of a clean drain holds while no key is asked for twice.

Time is abstracted to two assumptions: the settle period of five seconds outlasts the four
statements of a `BeginDrain` under way (`Settled`), and each of the 30 s limits may be hit at any
moment. `Settled` matters: a redundant `BeginDrain` returns before the winner has closed
the gates, and without the settle period `AwaitDrain` could count before they are closed.

### DrainPromise

The drain without gates, counter, polls and sleeping waiter. `phase` goes from `open` over `closed`
to `clean` or `timeout` and to `stopped`; `working` is what was let in and has not ended, `abandoned`
what the shutdown cut off, `late` what an operator let in behind the drain. Work enters only while the
phase is open, the drain is clean at one moment at which nothing is at work, and only one that timed out
abandons anything before the process exits. Late work is excepted from all three, and only jobs can be
late. `ImplementsDrain` maps `working` to the requests between `TryAdmit` and `Release` with the jobs
between intake check and end, and calls the server closed when `BeginDrain` has closed the last of the
gates; an operator's resume does not open the phase again, it makes work late. So the refinement says two
things the invariants do not: that the counts of jobs and of requests, taken one after the other, agree
at the moment of the verdict, and that from the moment the gates are closed, which is before the settle
period ends, no request enters, and no job except through a resume.

### WikiDispatcher

The dispatcher of webhook events together with what its handlers do to a repository's
watermarks and pages.

| Process | Code | State |
|---|---|---|
| call of `Submit` | `Submit`: duplicate test, route, channel send, overflow | `sub[d]`, `remembered` |
| goroutine of a repository | `drainRepo` and the handler it runs | `worker[r]`, `doing[r]`, `read[r]` |
| overflow goroutine | `drainOverflow` and the handler it runs | the same, for `w` in `Spare` |
| handlers | `handlePush` with `GenerateIncremental` and the debounce, `PromoteWithWatermark`, `DiscardWithWatermark`, whole-repository refresh | steps `debounce` ... `write` |
| `Stop`, crash | `Stop`, process death | `stop`, `restarts` |

`queue` and `overflow` are the channels, `marks` is `lw_watermarks`, `proposed` and `canonical` are
the page tables by PR. `spilled` and `promised` are history: the repositories with an event that
went through the overflow queue, and the deliveries that `Stop` has to wait for. A delivery's
context may end at any moment when it is in `Expiring`; a failing write ends a handler with an
error, a failing read reads as an empty answer, as in the SurrealDB stores. The ring of delivery
ids may lose an entry at any time. Left out: PR branch commits, sink edits and per-page refreshes,
which touch single pages, and the ring's slots.

### Scheduler

Replicas with a ticker whose channel holds one tick, `TrySetNX` on a lock with a time to live, and
a round over the enabled repositories; the trash worker elects its leader with the same code.
`Pass` is time: it may not pass a tick that is due, the end of a round's allotted time, or a
replica's due work, so a bound on waiting (`wait`) replaces a liveness property. Calls of cache,
store and dispatcher may fail, and the failing cache call may have set the lock. `RoundAssumption`:
a round ends before its lock does. The lock is the Redis one, shared by all replicas: `NewCache` falls
back to a cache of the process when Redis cannot be reached at start-up (`redis.go:166-171`), and then each
such replica is a leader of its own; this is not modelled. `RefreshedRegularly` has the hypothesis
`RoomForAll` (one round submits every repository), without which it is false (section 6).

### ChangeWatch

| Process | Code | State |
|---|---|---|
| editor, kernel | `Edit` | `disk`, `raw` |
| watcher | `HandleEvent` (batch and timer), `Flush`, `Unwatch` | `pending`, `timer`, `loose`, `due` |
| submission `g`, of a flush or of `record_change` | `Router.Submit`: read, admit, index, merge, commit | `step[g]`, `files[g]`, `key[g]`, `view[g]` |
| router, store | previous result, freshness, dedup window, `MergeIndexResult` | `prev`, `fresh`, `seen`, `store` |

A content is a value; a rename is a deletion and a creation. Rate limiter, breaker and branch
validation are refusals at any time. The merge is that of the in-memory store; the SurrealDB
store always answers `ErrMergeNotSupported`. `QuickAssumption` (a submission is merged within the
debounce) is what the 100 ms budget against 2 s suggests and no code enforces. Left out: token
bucket and breaker arithmetic, several repositories, HTTP ingress, watching again, `Close`.

### CertRotation

| Process | Code | State |
|---|---|---|
| the file-event loop and the poll loop | `Watcher.Start`, `Stage`, `rotateForCandidate`, `Commit` | `wpc[l]`, `cert`, `ca`, `gen`, `old` |
| caller `c` | `acquire`, the RPC, `release` | `cpc[c]`, `at[c]` |
| drain goroutine of a bundle | `drainAndClose` | `drain[g]` |
| end of `runServe` | `Watcher.Close`, `Client.Close` | `main`, `closed`, `wclosed` |

A generation names a candidate and the bundle built from it. The three files are replaced together,
a version stands for contents and modification times, and the reads of `loadAndValidate` are two
steps, so a torn read is possible. Events may be missed. `unseen` and `refused` are history.
Left out: lanes, RPC wrappers, start-up and its failure paths, `rotateConnection`.

### ConnHandover

The rotation without locks, counts, flags and candidates: one connection serves, one with a greater
number takes over in one step, a call starts on the one that serves and ends on it, and a relieved
one is closed when nobody runs on it. Only the end of the client closes under a call. `HandsOver` maps
`open` to the open connections that are not in the hands of a rotation before its swap, so a refused
candidate that stays open, or a connection that comes back, is no step of it. It is stricter than
`RunningCallsKeepTheirConn`: it needs the second test of `acquire`, the other property does not.

### ProfileMirror

| Process | Code | State |
|---|---|---|
| old pod | `SaveLLMConfig` of the release before, which knows the legacy fields and the version only | one step |
| pod `h` | `MigrateToProfiles`: pointer, row, legacy fields, batch; process death | `pc[h]`, `local[h]` |
| admin request `a` | the adapters of `cli/serve.go` and the retry loops of `llm_profile_helpers.go`: first phase, read-back, observe, transaction, `InvalidateLocal` | `pc[a]`, `local[a]` |
| call of `Resolve` `r` | `applyWorkspace`, `LoadLLMConfig` of the adapter, `kickReconciliation` | `pc[r]`, `local[r]` |

`version`, `legacy`, `active` are the row `ca_llm_config:default`; `rows`, `content`, `watermark`
the table of profiles; `cache`, `cacheVer` the resolver's cache of each pod. A transaction is one
step with the guards it has in SQL, a query is one step, and any step may fail (`Stops`,
`GoWithout`, `SkipReconcile`). The settings of a row are one value, so an update replaces them all.
The retry cap is the freedom to stop at any retry. `byOld`, `edited` and `apart` are history: the
newest write is an old pod's; the active row was written and the version has not moved since; the
mirror lags for a reason that is known. Left out: names, sealing of keys, single fields of a patch,
per-repository overrides, the layers above the workspace, and helpers nobody calls.

### MC modules

`MCJobOrchestrator` gives the instances: all calls on one key and one lane, because every
interaction between jobs goes through a shared key, the lane or the reaper. `MCDrainAdmission`
has two triggers, two clients and two jobs, one of each kind hanging. `MCWikiDispatcher` names
events of one repository, each with a commit and a PR of its own; repositories share nothing but
the overflow queue. `MCScheduler` has two replicas and two repositories without jitter,
`MCChangeWatch` one file with two contents, `MCCertRotation` which of the versions are invalid,
`MCProfileMirror` one pod for all requests and the symmetry of contents and admins.

## 4. The runs

| Run | Bounds | Shows |
|---|---|---|
| `MCClaims` | 2 calls on one key (one `EnqueueSync`), 2 attempts, 1 worker, queue 1, 1 cancellable job, ages to 2, callers may ask again, no store failure, no crash | one owner per terminal write; the owner's write lands; no claim over an active job without an owner; one callback per failure |
| `MCFaults` | 1 call made through `EnqueueSync`, 2 attempts, 2 failing store calls, 1 cancellation, pause, drain, stop, 1 crash, all ages | what remains true when writes fail and the process is stopped: final statuses, and that every step is a step of `FinalizationClaim` |
| `MCRescue` | 2 calls, the closure of one hangs, 1 crash, all ages, under `FairSpec` | every job ends; every failure is called back unless the process died |
| `MCDedupeRace` (violation) | 2 calls, nothing else | two active jobs on one key |
| `MCDrain` | preStop hook and SIGTERM, 2 clients, 2 jobs, one of each hangs, an operator who pauses and resumes intake at will, under `FairSpec` | every step is a step of `DrainPromise`; so the wait begins after `BeginDrain` has closed the gates, and from then on nothing enters but jobs that a resume lets in; nothing else runs after a clean wait; no wake-up is lost; the process stops |
| `MCWiki` | push (whose context may end), merge, refresh of 1 repository, queues of 1, 1 overflow goroutine, 1 failing write, 1 crash, `Stop` at any moment, under `FairSpec` | the published commit is a promoted one and moves only by a merge or a force push; what a handler writes back is current; what `Stop` waits for is handled; an accepted event is handled; `Stop` returns |
| `MCRetryLost` (violation) | 2 events, each delivered twice, queues of 1 | the retry of a refused event is refused as a duplicate |
| `MCLeaders` | 2 replicas, interval 3, margin 1, 2 repositories, room for both, 2 failing calls, 2 crashes | one leader; as one round has room for all, every repository is submitted again within a bound |
| `MCWatch` | 1 file, 2 contents, 2 edits, 1 call of `record_change`, 1 refusal, 1 failure, under `FairSpec` | the watcher alone loses nothing between batch, timer and submission; events settle |
| `MCHonest` (violation) | 1 file, 2 edits, nothing fails | an event that cancels out leaves a deleted file in a "fresh" store |
| `MCRotate` | 3 replacements of the files (one refused), 5 candidates, 1 caller, both loops, missed events, failing probes, shutdown | a running call keeps its connection; what serves is committed, never older, and in the end the last version; counts are exact; nothing leaks; every step is a step of `ConnHandover` |
| `MCProfiles` | 2 profiles, 1 pod with boots and crashes, old pods, 2 admin requests, 1 call of `Resolve`, 3 writes of the settings row | the active profile exists; the watermark tells; the mirror agrees but for two known gaps; caches are coherent |

Why the bounds suffice: the claim protocol is per job, and a second job matters only through
the key, the lane and the sweep, for which two jobs and a sweep of two are the smallest case
with every order (`MCClaims`, `MCRescue`); failing store calls and operators act on one job at
a time, so `MCFaults` spends its states on depth instead. Crashes are in `MCFaults` and `MCRescue`;
`VerdictLands`, `NoOrphanedClaim` and `ClaimExclusive` are proved with them. Two callers under
failing reads are not run; types and exclusivity are proved for them. Two attempts have a first, a
retried and a last attempt. One crash covers every state a restart can find; a second one only
repeats it. Ages stop at 2 where a pending job need not be reaped (it is in `MCRescue`).

Two triggers are a winner and a loser; two clients and two jobs let one be in progress while the
other arrives, and one hang while the other ends. In `MCWiki` three events are enough to fill a queue
of one and overflow it; the rejection has the steps of the refresh and is in the proofs. In
`MCLeaders` an interval of 3 lets a tick fall inside a round and inside the lock's margin. In
`MCRotate` three versions are an old one, one that is refused and a newer one, and five candidates let
both loops stage in between; callers do not meet but in the count, which is proved for any number. In
`MCProfiles` three versions are a migration, a write and a second one that races it. A second pod with
two admins, and four versions with one, which includes a boot that heals the pointer while it is moved
away, found nothing else; for every number of them there is the proof. Its one content cannot tell two edits apart; the proof has any.

What the passing properties excuse, each by a history variable or a hypothesis: `CleanDrainIsQuiet` and
`ImplementsDrain` the jobs in `late`; `RefreshedRegularly` rounds without room for all; `NothingSlipsThrough`
`record_change`, a flush that forgot a timer armed again, and files given up (what cancels out is
`MCHonest`'s finding); `RestsWhenFresh` files replaced between read and recorded times (`unseen`);
`MirrorAgrees` the two gaps in `apart`; `CacheIsCoherent` the window between the two phases of an update
(`edited`); `ReadsAreCurrent` and `PublishedOnlyByMerge` repositories in `spilled` and failing reads;
`CleanStopKeepsPromise` and `AcceptedIsHandled` what went through the overflow queue or came after `Stop`.
Each is listed in section 6 or is a hazard of `PROJECT.json` that no
property covers.

Fairness (`FairSpec`): goroutines are scheduled by the Go runtime, timers fire and time passes,
so each step of a call in progress, a worker, a cancel in progress, the reaper and the boot
sequence is weakly fair. A closure is assumed to return once its context is done, and one that
is not `Hung` to return at all: each model call has a deadline. Not fair: making a call,
leaving it, cancelling, beating, the operator's acts, crashing.
In `DrainAdmission` the steps of a `BeginDrain` under way, of a job that was begun, of the main
goroutine and of the timers are fair, and so is the `Release` of a request that does not hang; no
trigger, client, job or operator need begin, and no PUT need save its record. In `WikiDispatcher` goroutines are scheduled and store calls
return; nobody need submit, stop or crash, no context need end and no debounce window need pass. In
`ChangeWatch` time, the watcher's event loop, flushes and the steps of a submission are fair; edits,
calls and `Unwatch` are not. `Scheduler` has urgency instead of fairness (see above), and
`CertRotation` and `ProfileMirror` are checked for safety: that the last version is served is stated
of the states in which nothing is left to do (`RestsWhenFresh`).
Deadlock checking is off where a system with all calls made and all work done has nothing to do; in
`MCLeaders`, where time always passes, it is on.

`JobEnds` needs `Reissue = FALSE`: a deduplicated call bumps `updated_at`, so callers that
keep asking for the key of a dead row keep it young (`orchestrator.go:741`). That is how the code
behaves and no comment denies it.

## 5. What is proved

`JobOrchestratorProofs`, for every value of the constants that satisfies
`OrchestratorAssumption` (any finite or infinite set of jobs, keys, lanes; any bounds):

* `TypeCorrect`: `Spec => []TypeOK`. `TypeOK` is not inductive alone: `attempt \in 1..MaxAttempts`
  holds after a retry only because `Retries` compares with the limit, and `tries \in 0..2` only
  because a call that has evicted twice is past its loop. `TypeInv` adds `RetryBound`, which ties
  `tries` to the step of the call.
* `ClaimsAreExclusive`: `Spec => []ClaimExclusive`. The strengthening is `WonWhileRunning` (`won`
  is set only between the claim and the exit of a run): without it a run could win a claim it
  already holds. The proof has one lemma per process; the argument is always that a step that
  makes somebody an owner tests `finalizing` in the same step, and that only the reaper, as owner,
  removes a claim.

Over the SurrealDB store (`ASSUME Persistent`: the in-memory store does not have the property, see
section 6), whatever fails or crashes:

* `TerminalStaysFinal`: `Spec => TerminalIsFinal`. The guard of the store is not enough: `Create`
  writes over whatever it finds. So the strengthening `RowInv` says that a call that may still
  create finds no row, and that whoever acts on a job (in a lane, a run, a cancel, the reaper's
  list or hands) acts on an existing row. `RowStep` is what one step may do to a row; the
  `...Origin` lemmas say where those who act on a job come from.
* `ClaimIsImplemented`: `Spec => ImplementsClaim`. The initial states map to initial states, and
  every step maps to a step of `FinalizationClaim` or a stutter: one lemma per abstract action
  says when a step is that action, one lemma per process finds it. `HandInv` adds that a run
  writes only with its claim in hand and that between two jobs of a sweep the reaper holds none.

`VerdictProofs`, over the SurrealDB store when no store call fails and nobody stops the process
(`NoFaults`; crashes, cancellations, retries, reaper, pause and drain remain; one failing write
is enough to break it, see section 6):

* `VerdictAlwaysLands`: `Spec => []VerdictLands`, and `NoClaimIsOrphaned`:
  `Spec => []NoOrphanedClaim`. The strengthening `VerdictInv` splits ownership: a holder is
  *pending* until its write has landed. A claimed job is active exactly while its holder is
  pending (`ClaimedActive`); a job that ended before the last crash is out of everybody's reach
  (`EndedOutOfReach`), so a new claim is always over an active row; a run that won does not go
  round the retry loop (`WinnerLeaves`); a job is queued once (`QueuedOnce`).
* `FailuresReportedOnce`: `Spec => []FailureReportedOnce`. `ReportInv` adds that whoever is about to
  call `OnJobFailed` (a run after its write, the reaper after its own) has a row that says failed and
  has not been called back yet. The verdict invariant gives the rest: who wins the claim of an active
  job finds it unreported, since what was reported is failed and stays so, and nobody else can reach
  the same step, for both would hold the claim. With faults it is false: a run calls back after
  a write that failed, and the reaper, after a restart has forgotten the claim, calls back again.

`DrainProofs`, for any set of triggers, jobs and finite set of requests:

* `DrainTypeCorrect`, `CleanDrainStaysQuiet` (`TypeOK`, `CleanDrainIsQuiet`), and `GatesAreClosed`: while
  the shutdown waits, requests and reaper are shut out, and intake is paused unless an operator has resumed
  it since. No run states it by itself, since `ImplementsDrain` fails without it. The strengthening has
  three parts. `CountInv`: the counter is the cardinality of the set of requests between `TryAdmit` and
  `Release` (so the floor of `Release` is never hit). `BeginInv`: once the flag is up, either all gates have
  been closed or one trigger is on its way to closing them, whatever PUTs come between; with `Settled` this
  gives the closed gates. `ShutInv`: what the main goroutine knows at each step; the heart is that a job
  which passes the intake check behind the drain has read a flag that an operator set, and so is in `late`:
  of all others, what `InFlightCount() == 0` has shown stays true.
* `NoWakeupIsMissed`: `NoMissedWakeup`, from `WakeInv`: the broadcast comes after the context is done,
  and a request released while the waiter sleeps wakes it.
* `DrainIsImplemented`: `Spec => ImplementsDrain`, one lemma per process of the drain. A PUT never moves
  the phase back (`OperatorRefines`). A step that lets work in has seen an open gate of its own: either
  not all have been closed and the shutdown has not begun to wait (`OpenUntilClosed`), or it is intake,
  which an operator resumed, and the job is late. At the verdict no job but late ones is at work and the
  counter is at zero (`NothingAtWork`); a job is cut off after the root context ended, so after a verdict,
  which was not the clean one unless the job is late (`CutOffAfterTimeout`).

`WikiProofs`, for any repositories, events, goroutines, queue lengths, failures and crashes:

* `TypeCorrect`, `PublishedStaysPromoted` (`PublishedIsPromoted`, `ASSUME MaxBadReads = 0`: a failing
  list of proposed pages reads as an empty one, and the mark moves without promotion),
  `ReadsStayCurrent`, `PublishedMovesByMerge` (`PublishedOnlyByMerge`) and `StopKeepsPromise`
  (`CleanStopKeepsPromise`). The invariant has four parts. `Steps`: a goroutine is at a step of the
  kind of event it handles. `Serial`: an event of a repository that never overflowed is in that
  repository's queue or in its goroutine's hands only, so handlers of the repository do not overlap
  and what one has read stays true until it writes. `Promotion`: a merge that is about to write the
  mark has all its pages in canonical. `Promise`: what was promised is queued, in a handler or done,
  and a goroutine leaves only when its queue is empty.

`SchedulerProofs`, for any replicas, repositories, intervals, failures and crashes:

* `TypeCorrect`, `LeaderIsAlone` (`OneLeader`). A working replica holds the lock, and what is left of
  the lock is at least what is left of its round (`Rounds`, `Leading`): this is where `RoundAssumption`
  and the margin are needed.
* `SubmittedInTime` (`RefreshedRegularly`, whose hypothesis is `RoomForAll`: one round submits all). `Timely` bounds
  a repository's waiting by a ranking: what is left of the lock, of the ticker and of the round.

`ChangeWatchProofs`, for any files, contents, slots, windows and budgets:

* `TypeCorrect`: types; the interval of each timer and of the age of a submission is the work.
* `WatcherLosesNothing` (`NothingSlipsThrough`). `WatchInv` speaks of the states without a call of
  `record_change` and without a forgotten timer (`Quiet`); the model shows why the property needs
  both. `Punctual`: a submission in progress is alone, and what is left of the debounce is at least
  what is left of the submission, so no flush can start beside it. This is the one use of
  `QuickAssumption`. `NothingLost`: every file that was not given up is in an unread event, in the
  batch, held by a submission that will still read it, brought by one that has read what is on disk,
  or stored with nobody about to merge something else (`Tracked`). An edit puts the file back into the
  events, so what a submission brings may be old only when a later event follows it.

`CertRotationProofs`, for any callers, edits and candidates:

* `TypeCorrect`, `CountsStayExact`, `CallsKeepTheirConn`, `ServesWhatIsCommitted`,
  `ShutdownLeaksNothing`, `MaterialNeverAges`, `LastVersionIsServed`, from one invariant of named
  parts: `LockInv` (who holds which mutex at which step), `GenInv` (staged, held, committed and
  serving generations are ordered), `MatInv` (material grows with the generation), `EndInv`, `ConnInv`
  and `FlagInv` (which connections are open, and that the flag is up before the drain counts),
  `CallInv` (the drain of a bundle still waits while a caller past the tests is in it). For the last
  theorem `FreshInv` says that stale material has a wake-up under way (`OnItsWay`).
* `RotationHandsOver`: `Spec => HandsOver`. The swap of the pointer is the handover; what a loop holds
  before it is new and nobody's (`InHandIsNew`), so dialling, refusing and committing move nothing into
  service. A call starts on an open connection (`ServingIsOpen`), and a drain that closes has nobody
  running on its bundle, by `CallInv`.

`ProfileProofs`, for any pods, admin requests, calls of `Resolve`, profiles and versions:

* `TypeCorrect`, `PointerAlwaysHolds`, `WatermarkAlwaysTells`, `MirrorStaysInStep`,
  `CachesStayCoherent`. Every step either leaves the settings row still or moves its version
  (`Dichotomy`). A move makes everything that was read before it old: no fetch and no cached record
  has the new version (`MovesKeep`), so only pointer, watermark and mirror must be restored, and each
  transaction does it. Between two moves what a `Resolve` has read at the current version stays true,
  but for a first-phase write of the row (`FetchInv`, `StillFetch`): this is why a torn read is never
  cached as current. The watermark's share is that reconciliation, whose guard is the version, finds
  the pointer it has read.

Every invariant, action property and refinement of the passing runs is proved. Model-checked only is
liveness (`JobEnds`, `FailureIsReported`, `ShutdownCompletes`, `AcceptedIsHandled`, `StopCompletes`,
`EventsSettle`), which is out of the prover's reach.

## 6. Findings and observations

The three violation runs are disagreements between the code and its comments; `PROJECT.json`
quotes the lines. Met on the way, without a run of their own (those marked * are
counterexamples of TLC to a property that was checked with other bounds, or that states less):

Jobs

* A failing terminal write leaves a claim over a live job that nobody will use (`orchestrator.go:1570`;
  the comment at 1665-1669 expects otherwise).*
* In the in-memory store a cancelled job can become generating (1376 against 1666-1668).*
* `EnqueueSync` waits until its own context ends for a job that was reaped (1083 against 1025-1026).*
* The deferred `inflight.release` of a run whose job was reaped frees the key of a newer job, so
  `AwaitDrain` misses a live job (1361, `dedupe.go:42-49`).* A dedupe hit on a job that has just ended puts
  it back into the registry, where it is counted for ever (744).*
* `Enqueue` uses the row it reads after a dedupe hit without a nil test (744): a failing
  read ends the caller's goroutine (`Attach`).
* A `Cancel` during a retry backoff finds no run context, claims, and ends a job that is
  generating; the run then goes on for another attempt, because only its end tests `isCancelled`.
* A retryable error followed by a `Cancel` before the second `isCancelled` leaves the job generating
  with no run and no claim until the reaper's threshold.
* A reaper that cancels just before `setRunCancel` finds nothing to cancel: a hanging closure
  then keeps its worker.
* `CancelAndWait` says it does not cancel the contexts of running jobs, but they are children of
  the root context it cancels, and so are the contexts of the final store writes.
* An operator who resumes intake during a drain lets jobs in behind it, and `AwaitDrain`, which has counted
  the jobs already, returns nil while one runs (`queue_control.go:68` against `router.go:1478-1480`, "returns
  nil when both queues are empty").*
* `persistQueueControl` saves what intake is by then: when a drain begins between the two halves of a PUT
  that resumes intake, the drain's pause is saved, and the next process boots paused (`queue_control.go:38`
  against 14-15, "only durable operator intent belongs here").*
* Two PUTs of the queue control at once may save their records in the order opposite to the one they set
  intake in; the model has one PUT at a time.
* `Admission.Release` is called "idempotent" by its comment; a second call would release another
  request. The code calls it once.

Living wiki and scheduler

* With more enabled repositories than `MaxParallel` those at the end of the list are never submitted: nothing
  writes `LastRunAt`, and the list comes in the same order (`scheduler.go:233` against 24-25, "picked up on
  the next tick").* Two repositories, one to a round and one replica show it without any failure. A jitter
  of an interval or more makes a repository never due.
* When Redis cannot be reached at start-up, `NewCache` gives the replica a cache of its own
  (`redis.go:166-171`), and leader election does not notice.
* The lock is never released and outlives the interval by a minute, so the leader's own next tick is
  skipped (against `scheduler.go:164-166` and `trash/worker.go:126-131`). A cache call that reports an error
  may have set the lock.
* `LivingWikiWatermarkStore.Get` and `ListProposed` answer a failing query with an empty result: a refresh
  may then reset the published mark, and a merge move it without promotion. `ListEnabledRepos` does the same.
* Webhook handlers hand the request's context to `Submit`, and `EventTimeout` counts from `Submit`: an event
  that waits long is handled with a context that is done.
* Events in the overflow queue are dropped by `Stop`, and a `Submit` after it is accepted and never handled.
* Pushes inside the debounce window are dropped; `handlePush` passes no pages, and reads the watermarks
  once more than it needs.

Change watch

* A flush forgets a timer that was armed again (`watcher.go:405,413`): two flushes may follow within the
  debounce and the older content be merged last.* So may a `record_change` that read earlier.*
* The content-hash test drops an edit that restores a recent content, and its key ignores deleted files.
* A "stale" or "suspect" mark is overwritten by the next event that succeeds; a batch that is rate-limited
  or whose branch is refused is lost with freshness unchanged; a file that cannot be read still leaves
  the repository "fresh".
* The debounce can be postponed for ever by edits. Outside tests nothing wires the router.
* The SurrealDB store's `MergeIndexResult` always fails (`ErrMergeNotSupported`).

Worker client

* A failed probe drops the candidate after its modification times were recorded: it is not tried again
  until the files change. `recordMtimes` runs after the reads, against the comment at `tlsreload.go:678-681`.
* The dial options of a rotated bundle lack `WithPerRPCCredentials` (`client.go:544-558` against 377-386).
* The watcher starts before the client subscribes (`serve.go:340`, `client.go:412`); when the start-up probe
  fails the client is closed before the watcher, and a rotation may install a connection nobody closes.
* Of the two tests in `acquire` either alone would keep `RunningCallsKeepTheirConn`; without the second
  a call could start on the bundle that has just been replaced, which `HandsOver` does not allow.

LLM profiles

* An activation between `UpdateProfile`'s test and its row write leaves the active row and the mirror
  different, with success reported, since the other branch only bumps (`serve.go:1541-1544` says the guard
  surfaces it).* This is the first of the two gaps `MirrorAgrees` allows (`apart`).
* The second: an old pod's write is swallowed by any bump or deletion that lands before the
  reconciliation, which carries the watermark over it; `docs/admin-runbooks/llm-config.md:262` says the
  scheme "correctly handles writes that leak through the freeze".*
* A reconciliation between an update's row write and its read-back overwrites the admin's edit, and the
  request succeeds. Of two concurrent updates of the active profile one is lost: the mirror is a whole row.
* Between row write and bump the caches of one version differ; the runbook knows this as the failure
  mode of the two-phase update. The next bump heals the caches, not the mirror.
* A boot whose reads of pointer and row straddle an activation and a deletion of the migrated profile
  "heals" it back and moves the pointer to it.
* A torn read can log `legacy_watermark_inversion` ("impossible by construction") and set
  `activeProfileMissing`, both without effect on what is cached. `LoadConfigSnapshot` turns a failing query
  into an empty snapshot, so `Resolve` falls back to the environment without marking it.
* Of the two guards of the reconciliation the version alone would do.

## 7. Not modelled, and why

* `DelayQueue` (one buffer that only the git sinks build), the compute breaker (counters behind one
  lock, left free in the job model), trash (one transaction or lock per operation; what can go wrong is in
  its cascades over data) and events, health and auth (small, or outside the core): each would be a
  module of a few actions, and is next if the project grows.
* What the parts that are modelled leave out is listed with each module in section 3.
* Content pipelines (cold start, search, QA, indexing, reports, clustering) are judged by their output, not
  by their interleavings.
* Generated code, user interfaces, prompts and manifests hold no protocol of their own.
