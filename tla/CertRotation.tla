---------------------------- MODULE CertRotation ----------------------------
(***************************************************************************)
(* How the client of the model worker takes new mTLS material while calls   *)
(* are running: the watcher of package tlsreload (Stage, Commit and its two *)
(* loops) and the connection bundles of worker.Client (acquire, release,    *)
(* rotateForCandidate, drainAndClose), from the end of start-up to Close.   *)
(*                                                                         *)
(* A step is one atomic operation or one critical section.  A generation    *)
(* names the candidate staged under it and the bundle built from it.  The   *)
(* three files are replaced together (a symlink swap); a version stands for *)
(* their contents and for their modification times.  Locals that die are reset.   *)
(***************************************************************************)
EXTENDS Naturals, FiniteSets

CONSTANTS
  Calls,      \* the callers that make RPCs
  MaxEdits,   \* bound: how often the files are replaced
  MaxGen,     \* bound: how many candidates are staged
  Invalid     \* the versions of the files that loadAndValidate refuses

ASSUME RotationAssumption ==
  /\ MaxEdits \in Nat
  /\ MaxGen \in Nat \ {0}
  /\ Invalid \subseteq 1..MaxEdits

ASSUME CallersAssumption == IsFiniteSet(Calls)

VARIABLES
  disk,      \* the version the three files have
  seen,      \* the version whose modification times recordMtimes has stored
  pending,   \* a file event waits, or the debounce timer is armed
  wpc,       \* what each of the two loops is doing
  cert,      \* loadAndValidate of a loop: the version its key pair has
  ca,        \* ... and the version its CA bundle has
  gen,       \* the generation of the candidate a loop holds
  old,       \* swapToNewBundle of a loop: the bundle it took out
  reloadMu,  \* the loop that holds Watcher.reloadMu
  rotateMu,  \* the loop that holds Client.rotateMu
  staged,    \* stagedGen
  mat,       \* what the candidate of a generation was read from
  committed, \* committedGen
  bundle,    \* Client.bundle
  conn,      \* the connection of each bundle
  inflight,  \* the count of each bundle
  closing,   \* the closing flag of each bundle
  drain,     \* the drainAndClose goroutine of each bundle
  cpc,       \* what each caller is doing
  at,        \* the bundle a caller has loaded
  closed,    \* Client.closed
  wclosed,   \* Watcher.closed
  main,      \* the end of runServe: Watcher.Close, then Client.Close
  unseen,    \* history: the last edit raised no event and fell between the
             \* first read of a Stage and its recordMtimes
  refused    \* history: the versions a failed probe has turned down

files == <<disk, seen, pending, unseen>>
stage == <<cert, ca, staged, mat, reloadMu>>
rotation == <<gen, old, rotateMu, committed, bundle, refused>>
conns == <<conn, closing, drain>>
rpcs == <<cpc, at, inflight>>
ends == <<closed, wclosed, main>>
vars == <<files, wpc, stage, rotation, conns, rpcs, ends>>

Loops == {"events", "poll"}
NoOne == "nobody"
Versions == 0..MaxEdits
Gens == 1..MaxGen

LoopSteps == {"idle", "stage", "ca", "record", "rotate", "probe", "commit",
              "swap", "mark", "gone"}
CallSteps == {"idle", "load", "inc", "test", "same", "back", "running"}

TypeOK ==
  /\ disk \in Versions /\ seen \in Versions /\ pending \in BOOLEAN
  /\ wpc \in [Loops -> LoopSteps]
  /\ cert \in [Loops -> Versions] /\ ca \in [Loops -> Versions]
  /\ gen \in [Loops -> Gens] /\ old \in [Loops -> Gens]
  /\ reloadMu \in Loops \cup {NoOne} /\ rotateMu \in Loops \cup {NoOne}
  /\ staged \in Gens /\ committed \in Gens /\ bundle \in Gens
  /\ mat \in [Gens -> [cert : Versions, ca : Versions]]
  /\ conn \in [Gens -> {"none", "open", "closed"}]
  /\ inflight \in [Gens -> Nat]
  /\ closing \in [Gens -> BOOLEAN]
  /\ drain \in [Gens -> {"none", "poll", "close", "done"}]
  /\ cpc \in [Calls -> CallSteps] /\ at \in [Calls -> Gens]
  /\ closed \in BOOLEAN /\ wclosed \in BOOLEAN
  /\ main \in {"serving", "joining", "client", "conn", "done"}
  /\ unseen \in BOOLEAN /\ refused \subseteq Versions

\* New has staged and committed the first version, and the client has dialled
\* with it and subscribed.
Init ==
  /\ disk = 0 /\ seen = 0 /\ pending = FALSE
  /\ wpc = [l \in Loops |-> "idle"]
  /\ cert = [l \in Loops |-> 0] /\ ca = [l \in Loops |-> 0]
  /\ gen = [l \in Loops |-> 1] /\ old = [l \in Loops |-> 1]
  /\ reloadMu = NoOne /\ rotateMu = NoOne
  /\ staged = 1 /\ committed = 1 /\ bundle = 1
  /\ mat = [g \in Gens |-> [cert |-> 0, ca |-> 0]]
  /\ conn = [g \in Gens |-> IF g = 1 THEN "open" ELSE "none"]
  /\ inflight = [g \in Gens |-> 0]
  /\ closing = [g \in Gens |-> FALSE]
  /\ drain = [g \in Gens |-> "none"]
  /\ cpc = [c \in Calls |-> "idle"] /\ at = [c \in Calls |-> 1]
  /\ closed = FALSE /\ wclosed = FALSE /\ main = "serving"
  /\ unseen = FALSE /\ refused = {}

-----------------------------------------------------------------------------
(* The files and the two loops of the watcher.                             *)

\* A loop has begun to read and has not yet stored the modification times.
Reading(l) == wpc[l] \in {"ca", "record"}

\* The files are replaced.  The notification may be missed.
Edit ==
  /\ disk < MaxEdits /\ main = "serving"
  /\ disk' = disk + 1
  /\ \E noticed \in BOOLEAN :
        /\ pending' = (pending \/ noticed)
        /\ unseen' = (~noticed /\ ~pending /\ \E l \in Loops : Reading(l))
  /\ UNCHANGED <<seen, wpc, stage, rotation, conns, rpcs, ends>>

MtimeAdvanced == disk > seen

\* watchLoop's quiet window has passed, or pollLoop's tick finds a newer file.
Wake(l) ==
  /\ wpc[l] = "idle"
  /\ IF l = "events" THEN pending ELSE MtimeAdvanced
  /\ pending' = (pending /\ l # "events")
  /\ wpc' = [wpc EXCEPT ![l] = "stage"]
  /\ UNCHANGED <<disk, seen, unseen, stage, rotation, conns, rpcs, ends>>

\* stopCh is closed.
Exit(l) ==
  /\ wpc[l] = "idle" /\ wclosed
  /\ wpc' = [wpc EXCEPT ![l] = "gone"]
  /\ UNCHANGED <<files, stage, rotation, conns, rpcs, ends>>

\* Mutant: Stage without reloadMu.
ReadPairUnserialised(l) ==
  /\ wpc[l] = "stage"
  /\ reloadMu' = l
  /\ cert' = [cert EXCEPT ![l] = disk]
  /\ wpc' = [wpc EXCEPT ![l] = "ca"]
  /\ UNCHANGED <<files, ca, staged, mat, rotation, conns, rpcs, ends>>

\* Stage: take reloadMu and read certificate and key.
ReadPair(l) ==
  /\ wpc[l] = "stage" /\ reloadMu = NoOne
  /\ reloadMu' = l
  /\ cert' = [cert EXCEPT ![l] = disk]
  /\ wpc' = [wpc EXCEPT ![l] = "ca"]
  /\ UNCHANGED <<files, ca, staged, mat, rotation, conns, rpcs, ends>>

\* Stage: read the CA bundle; with a certificate of another version the chain
\* may or may not verify.
ReadCA(l) ==
  /\ wpc[l] = "ca"
  /\ \/ /\ cert[l] \notin Invalid /\ disk \notin Invalid
        /\ ca' = [ca EXCEPT ![l] = disk]
        /\ wpc' = [wpc EXCEPT ![l] = "record"]
        /\ UNCHANGED <<reloadMu, cert>>
     \/ /\ cert[l] \in Invalid \/ cert[l] # disk \/ disk \in Invalid
        /\ cert' = [cert EXCEPT ![l] = 0]
        /\ wpc' = [wpc EXCEPT ![l] = "idle"]
        /\ reloadMu' = NoOne
        /\ UNCHANGED ca
  /\ UNCHANGED <<files, staged, mat, rotation, conns, rpcs, ends>>

\* Stage: the candidate gets its generation, then the times are stored.
Record(l) ==
  /\ wpc[l] = "record" /\ staged < MaxGen
  /\ staged' = staged + 1
  /\ gen' = [gen EXCEPT ![l] = staged + 1]
  /\ mat' = [mat EXCEPT ![staged + 1] = [cert |-> cert[l], ca |-> ca[l]]]
  /\ seen' = disk
  /\ cert' = [cert EXCEPT ![l] = 0] /\ ca' = [ca EXCEPT ![l] = 0]
  /\ reloadMu' = NoOne
  /\ wpc' = [wpc EXCEPT ![l] = "rotate"]
  /\ UNCHANGED <<disk, pending, unseen, old, rotateMu, committed,
                 bundle, refused, conns, rpcs, ends>>

-----------------------------------------------------------------------------
(* rotateForCandidate, run by the loop that staged the candidate.           *)

\* Mutant: rotations do not exclude each other.
DialUnserialised(l) ==
  /\ wpc[l] = "rotate"
  /\ rotateMu' = l
  /\ conn' = [conn EXCEPT ![gen[l]] = "open"]
  /\ wpc' = [wpc EXCEPT ![l] = "probe"]
  /\ UNCHANGED <<files, stage, gen, old, committed, bundle, refused, closing,
                 drain, rpcs, ends>>

\* Take rotateMu and dial with the candidate's material.  (The test of closed
\* before the lock never succeeds: see CloseWatcher.)
Dial(l) ==
  /\ wpc[l] = "rotate" /\ rotateMu = NoOne
  /\ rotateMu' = l
  /\ conn' = [conn EXCEPT ![gen[l]] = "open"]
  /\ wpc' = [wpc EXCEPT ![l] = "probe"]
  /\ UNCHANGED <<files, stage, gen, old, committed, bundle, refused, closing,
                 drain, rpcs, ends>>

\* Mutant: the connection of a refused candidate is forgotten.
GiveUpOpen(l) ==
  /\ rotateMu' = NoOne
  /\ gen' = [gen EXCEPT ![l] = 1]
  /\ wpc' = [wpc EXCEPT ![l] = "idle"]
  /\ UNCHANGED conn

\* The new connection is closed and the rotation is over.
GiveUp(l) ==
  /\ conn' = [conn EXCEPT ![gen[l]] = "closed"]
  /\ rotateMu' = NoOne
  /\ gen' = [gen EXCEPT ![l] = 1]
  /\ wpc' = [wpc EXCEPT ![l] = "idle"]

\* The versions a candidate was read from, if it was one version.
Whole(g) == {v \in Versions : mat[g] = [cert |-> v, ca |-> v]}

ProbePasses(l) ==
  /\ wpc[l] = "probe"
  /\ wpc' = [wpc EXCEPT ![l] = "commit"]
  /\ UNCHANGED <<files, stage, rotation, conns, rpcs, ends>>

ProbeFails(l) ==
  /\ wpc[l] = "probe"
  /\ GiveUp(l)
  /\ refused' = refused \cup Whole(gen[l])
  /\ UNCHANGED <<files, stage, old, committed, bundle, closing, drain,
                 rpcs, ends>>

\* Mutant: Commit tests for another generation, not for an older one.
AnyOther(l) == gen[l] # committed

\* Commit refuses a candidate older than the committed one.
Newer(l) == gen[l] > committed

Commit(l) ==
  /\ wpc[l] = "commit" /\ ~wclosed /\ Newer(l)
  /\ committed' = gen[l]
  /\ wpc' = [wpc EXCEPT ![l] = "swap"]
  /\ UNCHANGED <<files, stage, gen, old, rotateMu, bundle, refused, conns,
                 rpcs, ends>>

CommitRefused(l) ==
  /\ wpc[l] = "commit" /\ (wclosed \/ ~Newer(l))
  /\ GiveUp(l)
  /\ UNCHANGED <<files, stage, old, committed, bundle, refused, closing,
                 drain, rpcs, ends>>

\* swapToNewBundle: exchange the pointer ...
Swap(l) ==
  /\ wpc[l] = "swap"
  /\ old' = [old EXCEPT ![l] = bundle]
  /\ bundle' = gen[l]
  /\ wpc' = [wpc EXCEPT ![l] = "mark"]
  /\ UNCHANGED <<files, stage, gen, rotateMu, committed, refused, conns, rpcs,
                 ends>>

\* ... then flag the old bundle, start its drain and give the lock back.
MarkClosing(l) ==
  /\ wpc[l] = "mark"
  /\ closing' = [closing EXCEPT ![old[l]] = TRUE]
  /\ drain' = [drain EXCEPT ![old[l]] = "poll"]
  /\ rotateMu' = NoOne
  /\ gen' = [gen EXCEPT ![l] = 1] /\ old' = [old EXCEPT ![l] = 1]
  /\ wpc' = [wpc EXCEPT ![l] = "idle"]
  /\ UNCHANGED <<files, stage, committed, bundle, refused, conn,
                 rpcs, ends>>

\* drainAndClose: the count is zero, or the client is closed.
DrainPoll(g) ==
  /\ drain[g] = "poll"
  /\ inflight[g] = 0 \/ closed
  /\ drain' = [drain EXCEPT ![g] = "close"]
  /\ UNCHANGED <<files, wpc, stage, rotation, conn, closing, rpcs, ends>>

DrainClose(g) ==
  /\ drain[g] = "close"
  /\ drain' = [drain EXCEPT ![g] = "done"]
  /\ conn' = [conn EXCEPT ![g] = "closed"]
  /\ UNCHANGED <<files, wpc, stage, rotation, closing, rpcs, ends>>

-----------------------------------------------------------------------------
(* RPCs: acquire, the call itself, release.                                *)

CallMoves(c, from, to) ==
  /\ cpc[c] = from
  /\ cpc' = [cpc EXCEPT ![c] = to]
  /\ UNCHANGED <<files, wpc, stage, rotation, conns, ends>>

CountBy(c, n) == inflight' = [inflight EXCEPT ![at[c]] = n]

\* acquire returns nil once the client is closed; this caller then tries later.
Begin(c) ==
  /\ CallMoves(c, "idle", "load")
  /\ ~closed
  /\ UNCHANGED <<at, inflight>>

LoadBundle(c) ==
  /\ CallMoves(c, "load", "inc")
  /\ at' = [at EXCEPT ![c] = bundle]
  /\ UNCHANGED inflight

\* Mutant: acquire trusts the pointer it loaded before it was counted.
CountInUnchecked(c) ==
  /\ CallMoves(c, "inc", "running")
  /\ CountBy(c, inflight[at[c]] + 1)
  /\ UNCHANGED at

CountIn(c) ==
  /\ CallMoves(c, "inc", "test")
  /\ CountBy(c, inflight[at[c]] + 1)
  /\ UNCHANGED at

TestClosing(c) ==
  /\ CallMoves(c, "test", IF closing[at[c]] THEN "back" ELSE "same")
  /\ UNCHANGED <<at, inflight>>

\* Mutant: the pointer is not read again after the count.
TestSameSkipped(c) ==
  /\ CallMoves(c, "same", "running")
  /\ UNCHANGED <<at, inflight>>

TestSame(c) ==
  /\ CallMoves(c, "same", IF bundle = at[c] THEN "running" ELSE "back")
  /\ UNCHANGED <<at, inflight>>

\* Mutant: the retry of acquire leaves its count behind.
CountStays(c) ==
  /\ CallMoves(c, "back", "load")
  /\ at' = [at EXCEPT ![c] = 1]
  /\ UNCHANGED inflight

CountOut(c) ==
  /\ CallMoves(c, "back", "load")
  /\ CountBy(c, inflight[at[c]] - 1)
  /\ at' = [at EXCEPT ![c] = 1]

\* Mutant: a cancel function that releases each time it is called.
ReleaseTwice(c) ==
  /\ CallMoves(c, "running", "idle")
  /\ CountBy(c, inflight[at[c]] - 2)
  /\ at' = [at EXCEPT ![c] = 1]

\* The RPC has returned: release.
Release(c) ==
  /\ CallMoves(c, "running", "idle")
  /\ CountBy(c, inflight[at[c]] - 1)
  /\ at' = [at EXCEPT ![c] = 1]

-----------------------------------------------------------------------------
(* The end of runServe: its deferred calls close the watcher, which waits   *)
(* for its loops, and then the client.  So no loop runs once closed is set. *)

CloseWatcher ==
  /\ main = "serving"
  /\ wclosed' = TRUE /\ main' = "joining"
  /\ UNCHANGED <<files, wpc, stage, rotation, conns, rpcs, closed>>

\* wg.Wait returns.
JoinLoops ==
  /\ main = "joining" /\ \A l \in Loops : wpc[l] = "gone"
  /\ main' = "client"
  /\ UNCHANGED <<files, wpc, stage, rotation, conns, rpcs, closed, wclosed>>

SetClosed ==
  /\ main = "client"
  /\ closed' = TRUE /\ main' = "conn"
  /\ UNCHANGED <<files, wpc, stage, rotation, conns, rpcs, wclosed>>

CloseConn ==
  /\ main = "conn"
  /\ conn' = [conn EXCEPT ![bundle] = "closed"]
  /\ main' = "done"
  /\ UNCHANGED <<files, wpc, stage, rotation, closing, drain, rpcs, closed,
                 wclosed>>

-----------------------------------------------------------------------------

Step(l) ==
  \/ Wake(l) \/ Exit(l) \/ ReadPair(l) \/ ReadCA(l) \/ Record(l)
  \/ Dial(l) \/ ProbePasses(l) \/ ProbeFails(l)
  \/ Commit(l) \/ CommitRefused(l) \/ Swap(l) \/ MarkClosing(l)

CallStep(c) ==
  \/ LoadBundle(c) \/ CountIn(c) \/ TestClosing(c) \/ TestSame(c)
  \/ CountOut(c) \/ Release(c)

Drain(g) == DrainPoll(g) \/ DrainClose(g)

Closing == JoinLoops \/ SetClosed \/ CloseConn

Next ==
  \/ Edit
  \/ \E l \in Loops : Step(l)
  \/ \E c \in Calls : Begin(c) \/ CallStep(c)
  \/ \E g \in Gens : Drain(g)
  \/ CloseWatcher \/ Closing

Spec == Init /\ [][Next]_vars

-----------------------------------------------------------------------------
(* The promise behind it.  A connection under probe does not serve yet.    *)

Candidates == {gen[l] : l \in {k \in Loops : wpc[k] \in {"probe", "commit", "swap"}}}
InService == {g \in Gens : conn[g] = "open"} \ Candidates

User == [c \in Calls |-> IF cpc[c] = "running" THEN at[c] ELSE 0]

Promise == INSTANCE ConnHandover WITH
  serving <- bundle, open <- InService, user <- User, ended <- closed

-----------------------------------------------------------------------------
(* Properties.                                                             *)

\* A rotation never takes the connection away under a call: a call that came
\* out of acquire runs on an open connection unless the client is closed.
\* drainAndClose reads the count once; the two tests after the increment and
\* the order Swap, closing, count must make that enough.
RunningCallsKeepTheirConn ==
  \A c \in Calls : cpc[c] = "running" => conn[at[c]] = "open" \/ closed

\* Between rotations the bundle that serves is the one the watcher reports as
\* committed, although Commit and the swap are two steps and two loops rotate.
ServedIsCommitted == rotateMu = NoOne => bundle = committed

\* An older certificate or CA bundle never replaces a newer one, whatever
\* order two loops stage, probe and commit in.
NeverOlder ==
  [][/\ mat[bundle'].cert >= mat[bundle].cert
     /\ mat[bundle'].ca >= mat[bundle].ca]_bundle

\* A rotation is a handover: whatever the two loops and the callers do in between,
\* the connection under a new call is the one that serves at that moment, one that
\* was relieved never serves again and is closed after its last call, and one that
\* was refused by the probe or by Commit never stays open.
HandsOver == Promise!Spec

\* When runServe has closed watcher and client, every connection is closed or
\* has a goroutine that will close it.
NothingLeaks ==
  main = "done" => \A g \in Gens : conn[g] = "open" =>
                                     drain[g] \in {"poll", "close"}

\* The callers that are counted in a bundle.
Counted(g) ==
  {c \in Calls : cpc[c] \in {"test", "same", "back", "running"} /\ at[c] = g}

\* A bundle's count is the number of its callers, through every retry of
\* acquire: so drainAndClose neither waits for a call that is over nor misses
\* one that is not.
CountsAreCallers == \A g \in Gens : inflight[g] = Cardinality(Counted(g))

Fresh == mat[bundle] = [cert |-> disk, ca |-> disk]

\* When both loops rest and neither has a reason to wake, what was put on disk
\* last is served: a missed event is made up for by the poll, a torn read by a
\* second reload.  The exceptions: the files are not valid, the one probe this
\* version got has failed, or no event came and the change fell between the
\* reads and recordMtimes.
RestsWhenFresh ==
  /\ \A l \in Loops : wpc[l] = "idle"
  /\ ~pending /\ ~MtimeAdvanced /\ ~wclosed
  => Fresh \/ unseen \/ disk \in Invalid \cup refused
=============================================================================
