----------------------------- MODULE Scheduler -----------------------------
(***************************************************************************)
(* The periodic living-wiki scheduler (livingwiki/scheduler/scheduler.go)  *)
(* on several replicas: a ticker, a leader lock with a time to live in the *)
(* shared cache, and a round over the enabled repositories. The retention  *)
(* worker of trash/worker.go ticks and elects its leader the same way; its *)
(* round is one sweep.                                                     *)
(***************************************************************************)
EXTENDS Naturals, Sequences, FiniteSets

CONSTANTS
    Replicas,
    Interval,        \* ticks of the clock between two ticks of a replica
    Margin,          \* what the lock's time to live adds to it: a minute
    RepoOrder,       \* the enabled repositories, in the order the store lists them
    Jitter,          \* their offsets, jitterFor
    MaxParallel,     \* repositories submitted in one round
    MaxRound,        \* bound: how long a round may take
    MaxFailures,     \* bound: failing calls of cache, store and dispatcher
    MaxRestarts      \* bound: crashes

RepoSet == {RepoOrder[i] : i \in DOMAIN RepoOrder}

ASSUME SchedulerAssumption ==
    /\ Interval \in Nat \ {0} /\ Margin \in Nat \ {0}
    /\ MaxParallel \in Nat \ {0} /\ MaxRound \in Nat
    /\ MaxFailures \in Nat /\ MaxRestarts \in Nat
    /\ RepoOrder \in Seq(RepoSet) /\ DOMAIN Jitter = RepoSet
    /\ \A x \in RepoSet : Jitter[x] \in Nat

\* A round ends before its lock does.
ASSUME RoundAssumption == MaxRound < Interval + Margin

VARIABLES
    lease,           \* what is left of the lock's time to live; 0 when it is free
    replica,         \* "down", "idle" or "working"
    dueIn,           \* when the replica's ticker fires next
    fired,           \* a tick is in the ticker's channel
    elapsed,         \* how long its round has taken
    at, count,       \* where the round is in RepoOrder, and how many it has submitted
    wait,            \* how long some replica was up since the repository was last submitted
    failures, restarts

round == <<elapsed, at, count, wait>>
vars  == <<lease, replica, dueIn, fired, round, failures, restarts>>

\* Mutants: the minute is forgotten; it is added twice over.
TtlWithoutMargin == Interval
TtlTooLong == 2 * (Interval + Margin)

Ttl == Interval + Margin

Up(r) == replica[r] # "down"

\* Waiting times are counted up to just beyond the longest one that is allowed.
WaitBound == (MaxFailures + MaxRestarts + 1) * (2 * Interval + Margin) + MaxRound + 1

TypeOK ==
    /\ lease \in 0 .. Interval + Margin
    /\ replica \in [Replicas -> {"down", "idle", "working"}]
    /\ dueIn \in [Replicas -> 0 .. Interval]
    /\ fired \in [Replicas -> BOOLEAN]
    /\ elapsed \in [Replicas -> 0 .. MaxRound]
    /\ at \in [Replicas -> 1 .. Len(RepoOrder) + 1]
    /\ count \in [Replicas -> 0 .. MaxParallel]
    /\ wait \in [RepoSet -> 0 .. WaitBound]
    /\ failures \in 0 .. MaxFailures /\ restarts \in 0 .. MaxRestarts

Init ==
    /\ lease = 0
    /\ replica = [r \in Replicas |-> "down"]
    /\ dueIn = [r \in Replicas |-> 0]
    /\ fired = [r \in Replicas |-> FALSE]
    /\ elapsed = [r \in Replicas |-> 0]
    /\ at = [r \in Replicas |-> 1] /\ count = [r \in Replicas |-> 0]
    /\ wait = [x \in RepoSet |-> 0]
    /\ failures = 0 /\ restarts = 0
-----------------------------------------------------------------------------
(* Time *)

\* Nothing that is due is still to be done, and no round is at the end of its time.
MayPass ==
    \A r \in Replicas :
        /\ Up(r) => dueIn[r] > 0
        /\ replica[r] = "idle" => ~fired[r]
        /\ replica[r] = "working" => elapsed[r] < MaxRound

Pass ==
    /\ MayPass
    /\ lease' = IF lease = 0 THEN 0 ELSE lease - 1
    /\ dueIn' = [r \in Replicas |-> IF Up(r) THEN dueIn[r] - 1 ELSE dueIn[r]]
    /\ elapsed' = [r \in Replicas |->
                     IF replica[r] = "working" THEN elapsed[r] + 1 ELSE elapsed[r]]
    /\ wait' = [x \in RepoSet |->
                  IF (\E r \in Replicas : Up(r)) /\ wait[x] < WaitBound
                  THEN wait[x] + 1 ELSE wait[x]]
    /\ UNCHANGED <<replica, fired, at, count, failures, restarts>>

\* The ticker fires; its channel holds one tick, a second one is dropped.
Fire(r) ==
    /\ Up(r) /\ dueIn[r] = 0
    /\ dueIn' = [dueIn EXCEPT ![r] = Interval]
    /\ fired' = [fired EXCEPT ![r] = TRUE]
    /\ UNCHANGED <<lease, replica, round, failures, restarts>>

\* Run: the ticker is started, and the first tick comes at once.
Boot(r) ==
    /\ replica[r] = "down"
    /\ replica' = [replica EXCEPT ![r] = "idle"]
    /\ dueIn' = [dueIn EXCEPT ![r] = Interval]
    /\ fired' = [fired EXCEPT ![r] = TRUE]
    /\ UNCHANGED <<lease, round, failures, restarts>>

\* The lock of a replica that dies is kept until it expires.
Crash(r) ==
    /\ Up(r) /\ restarts < MaxRestarts
    /\ restarts' = restarts + 1
    /\ replica' = [replica EXCEPT ![r] = "down"]
    /\ fired' = [fired EXCEPT ![r] = FALSE]
    /\ dueIn' = [dueIn EXCEPT ![r] = 0]
    /\ elapsed' = [elapsed EXCEPT ![r] = 0]
    /\ at' = [at EXCEPT ![r] = 1] /\ count' = [count EXCEPT ![r] = 0]
    /\ UNCHANGED <<lease, wait, failures>>
-----------------------------------------------------------------------------
(* One tick *)

Fail ==
    /\ failures < MaxFailures
    /\ failures' = failures + 1

\* Mutant: a lock that another holds is set again.
TakesAnyway(r) ==
    /\ lease' = Ttl
    /\ replica' = [replica EXCEPT ![r] = IF lease = 0 THEN "working" ELSE @]

\* SetIfAbsent: the lock is set, and the tick won, only if nobody holds it.
Contend(r) ==
    /\ lease' = IF lease = 0 THEN Ttl ELSE lease
    /\ replica' = [replica EXCEPT ![r] = IF lease = 0 THEN "working" ELSE @]

\* A tick is won, found taken, or skipped because the cache reports an error; then the lock may
\* have been set all the same.
Tick(r) ==
    /\ replica[r] = "idle" /\ fired[r]
    /\ fired' = [fired EXCEPT ![r] = FALSE]
    /\ \/ Contend(r) /\ UNCHANGED failures
       \/ Fail /\ lease' \in {lease, IF lease = 0 THEN Ttl ELSE lease} /\ UNCHANGED replica
    /\ UNCHANGED <<dueIn, round, restarts>>

\* No repository has ever a last run: nextDueTime is the present, plus the jitter, less the interval.
IsDue(x) == Jitter[x] < Interval

RoundOver(r) == at[r] > Len(RepoOrder) \/ count[r] >= MaxParallel

\* The list of repositories fails, or the loop is at its end or at its cap.
Finish(r) ==
    /\ replica[r] = "working"
    /\ \/ RoundOver(r) /\ UNCHANGED failures
       \/ at[r] = 1 /\ Fail
    /\ replica' = [replica EXCEPT ![r] = "idle"]
    /\ elapsed' = [elapsed EXCEPT ![r] = 0]
    /\ at' = [at EXCEPT ![r] = 1] /\ count' = [count EXCEPT ![r] = 0]
    /\ UNCHANGED <<lease, dueIn, fired, wait, restarts>>

\* The next repository is skipped, submitted, or refused by the dispatcher.
Visit(r) ==
    /\ replica[r] = "working" /\ ~RoundOver(r)
    /\ at' = [at EXCEPT ![r] = @ + 1]
    /\ LET x == RepoOrder[at[r]] IN
       \/ ~IsDue(x) /\ UNCHANGED <<count, wait, failures>>
       \/ /\ IsDue(x)
          /\ count' = [count EXCEPT ![r] = @ + 1]
          /\ wait' = [wait EXCEPT ![x] = 0]
          /\ UNCHANGED failures
       \/ IsDue(x) /\ Fail /\ UNCHANGED <<count, wait>>
    /\ UNCHANGED <<lease, replica, dueIn, fired, elapsed, restarts>>

Next ==
    \/ Pass
    \/ \E r \in Replicas :
          Fire(r) \/ Boot(r) \/ Crash(r) \/ Tick(r) \/ Finish(r) \/ Visit(r)

Spec == Init /\ [][Next]_vars
-----------------------------------------------------------------------------
(* Properties *)

\* At most one replica is in a round: the lock outlives the round of its owner, also when the
\* owner's tick was late or the owner crashed and came back.
OneLeader ==
    \A r, s \in Replicas : (replica[r] = "working" /\ replica[s] = "working") => r = s

\* The time between two submissions of a repository: the lock's time to live, one more interval, and
\* the round itself; each failing call and each crash may cost that much again.
LongestWait == (failures + restarts + 1) * (2 * Interval + Margin) + MaxRound

\* Every enabled repository fits into one round, and none is put off by its jitter.
RoomForAll == Len(RepoOrder) <= MaxParallel /\ \A x \in RepoSet : IsDue(x)

\* If one round has room for all, every enabled repository is submitted again within that time
\* while some replica is up: the lock that outlives an interval, ticks that are skipped, calls that
\* fail and leaders that crash cost no more (tick, scheduler.go:161-222).
RefreshedRegularly == RoomForAll => \A x \in RepoSet : wait[x] <= LongestWait
=============================================================================
