-------------------------- MODULE SchedulerProofs --------------------------
(***************************************************************************)
(* Proofs about Scheduler, for any set of replicas, any list of            *)
(* repositories and any interval.                                          *)
(***************************************************************************)
EXTENDS Scheduler, TLAPS

\* What one round without a result costs: the lock's time to live and one more interval.
Period == 2 * Interval + Margin

\* What the failures and crashes so far allow a repository to wait, the round apart.
Budget == (failures + restarts + 1) * Period

\* A round has submitted no more than it has visited, and a replica outside a round is at its start.
Rounds ==
    \A r \in Replicas :
        /\ count[r] <= at[r] - 1
        /\ replica[r] # "working" => at[r] = 1 /\ count[r] = 0 /\ elapsed[r] = 0

\* The owner's lock is as old as its round, and nobody else is in one.
Leading ==
    /\ \A r \in Replicas : replica[r] = "working" => lease = Ttl - elapsed[r]
    /\ OneLeader

SafeInv == TypeOK /\ Rounds /\ Leading

\* Repository x is still to come in the round of replica r.
Pending(x, r) ==
    /\ replica[r] = "working"
    /\ \E i \in DOMAIN RepoOrder : RepoOrder[i] = x /\ i >= at[r]

\* Repository x can wait for the next submission: in the round that is on, after the lock
\* has expired, or, once it has, at the next tick of some replica.
InTime(x) ==
    /\ \A r \in Replicas : Pending(x, r) => wait[x] <= Budget + elapsed[r]
    /\ (lease > 0 /\ \A r \in Replicas : ~Pending(x, r)) => wait[x] + lease + Interval <= Budget
    /\ lease = 0 =>
          /\ wait[x] <= Budget
          /\ \/ \A r \in Replicas : ~Up(r)
             \/ \E r \in Replicas : Up(r) /\ (fired[r] \/ wait[x] + dueIn[r] <= Budget)

Timely == \A x \in RepoSet : InTime(x)

-----------------------------------------------------------------------------
LEMMA Numbers ==
    /\ Interval \in Nat \ {0} /\ Margin \in Nat \ {0} /\ MaxRound \in Nat
    /\ MaxParallel \in Nat \ {0} /\ MaxFailures \in Nat /\ MaxRestarts \in Nat
    /\ Len(RepoOrder) \in Nat /\ DOMAIN RepoOrder = 1 .. Len(RepoOrder)
    /\ Ttl = Interval + Margin /\ MaxRound < Ttl
    /\ \A i \in DOMAIN RepoOrder : RepoOrder[i] \in RepoSet
  BY SchedulerAssumption, RoundAssumption DEF SchedulerAssumption, RoundAssumption, Ttl, RepoSet

LEMMA BoundIsNat == WaitBound \in Nat
<1>1. MaxFailures + MaxRestarts + 1 \in Nat /\ 2 * Interval + Margin \in Nat
  BY Numbers
<1>2. \A m, n \in Nat : m * n \in Nat
  OBVIOUS
<1>3. (MaxFailures + MaxRestarts + 1) * (2 * Interval + Margin) \in Nat
  BY <1>1, <1>2
<1> QED
  BY <1>3, Numbers DEF WaitBound

LEMMA InitSafe == Init => SafeInv
<1> SUFFICES ASSUME Init PROVE SafeInv
  OBVIOUS
<1>1. TypeOK
  BY Numbers, BoundIsNat DEF Init, TypeOK
<1>2. Rounds /\ Leading
  BY DEF Init, Rounds, Leading, OneLeader
<1> QED
  BY <1>1, <1>2 DEF SafeInv

-----------------------------------------------------------------------------
\* Nobody is in a round when the lock is free.
LEMMA FreeLock ==
    ASSUME SafeInv, lease = 0, NEW r \in Replicas
    PROVE  replica[r] # "working"
<1> SUFFICES ASSUME replica[r] = "working" PROVE FALSE
  OBVIOUS
<1>1. lease = Ttl - elapsed[r] /\ elapsed[r] \in 0 .. MaxRound
  BY DEF SafeInv, Leading, TypeOK
<1> QED
  BY <1>1, Numbers

LEMMA StepSafe == SafeInv /\ [Next]_vars => SafeInv'
<1> SUFFICES ASSUME SafeInv, [Next]_vars PROVE SafeInv'
  OBVIOUS
<1> USE DEF SafeInv
<1>1. CASE Pass
  <2>1. TypeOK'
    BY SMTT(30), <1>1, Numbers, BoundIsNat DEF TypeOK, Pass, MayPass
  <2>2. Rounds'
    BY <1>1, Numbers DEF TypeOK, Rounds, Pass
  <2>3. Leading'
    <3>1. ASSUME NEW r \in Replicas, replica'[r] = "working" PROVE lease' = Ttl - elapsed'[r]
      <4>1. replica[r] = "working" /\ lease # 0
        BY <1>1, <3>1, FreeLock DEF Pass
      <4>2. lease' = lease - 1 /\ elapsed'[r] = elapsed[r] + 1
        BY <1>1, <4>1 DEF Pass
      <4>3. lease = Ttl - elapsed[r] /\ elapsed[r] \in Nat
        BY <4>1 DEF Leading, TypeOK
      <4> QED
        BY <4>2, <4>3, Numbers
    <3> QED
      BY <1>1, <3>1, Numbers DEF Pass, Leading, OneLeader, Ttl
  <2> QED
    BY <2>1, <2>2, <2>3
<1>2. ASSUME NEW r \in Replicas, Fire(r) PROVE SafeInv'
  BY <1>2, Numbers DEF TypeOK, Rounds, Leading, OneLeader, Fire, round, Up, Ttl
<1>3. ASSUME NEW r \in Replicas, Boot(r) PROVE SafeInv'
  BY <1>3, Numbers DEF TypeOK, Rounds, Leading, OneLeader, Boot, round, Ttl
<1>4. ASSUME NEW r \in Replicas, Crash(r) PROVE SafeInv'
  BY <1>4, Numbers DEF TypeOK, Rounds, Leading, OneLeader, Crash, Up, Ttl
<1>5. ASSUME NEW r \in Replicas, Tick(r) PROVE SafeInv'
  <2>1. lease' \in 0 .. Interval + Margin /\ (lease # 0 => lease' = lease)
    BY <1>5, Numbers DEF Tick, Contend, TypeOK
  <2>2. TypeOK'
    <3>1. failures' \in 0 .. MaxFailures
      BY <1>5, Numbers DEF Tick, Fail, TypeOK
    <3>2. /\ replica' \in [Replicas -> {"down", "idle", "working"}]
          /\ fired' \in [Replicas -> BOOLEAN]
      BY <1>5 DEF Tick, Contend, TypeOK
    <3> QED
      BY <1>5, <2>1, <3>1, <3>2 DEF Tick, TypeOK, round
  <2>3. Rounds'
    BY <1>5, Numbers DEF Tick, Contend, TypeOK, Rounds, round
  <2>4. Leading'
    <3>1. CASE lease = 0 /\ replica' = [replica EXCEPT ![r] = "working"]
      <4>1. lease' = Ttl /\ elapsed' = elapsed /\ elapsed[r] = 0
        BY <1>5, <3>1 DEF Tick, Contend, round, Rounds, TypeOK
      <4>2. \A s \in Replicas : replica[s] # "working"
        BY <3>1, FreeLock
      <4> QED
        BY <3>1, <4>1, <4>2, Numbers DEF Leading, OneLeader, TypeOK, Ttl
    <3>2. CASE replica' = replica
      <4>1. \A s \in Replicas : replica[s] = "working" => lease # 0
        BY FreeLock
      <4> QED
        BY <1>5, <2>1, <3>2, <4>1, Numbers DEF Tick, round, Leading, OneLeader, Ttl
    <3> QED
      BY <1>5, <3>1, <3>2 DEF Tick, Contend, TypeOK
  <2> QED
    BY <2>2, <2>3, <2>4
<1>6. ASSUME NEW r \in Replicas, Finish(r) PROVE SafeInv'
  <2>1. TypeOK'
    BY <1>6, Numbers DEF TypeOK, Finish, Fail
  <2>2. Rounds'
    BY <1>6, Numbers DEF TypeOK, Rounds, Finish
  <2>3. OneLeader' /\ Leading'
    BY <1>6, Numbers DEF TypeOK, Leading, OneLeader, Finish, Ttl
  <2> QED
    BY <2>1, <2>2, <2>3
<1>7. ASSUME NEW r \in Replicas, Visit(r) PROVE SafeInv'
  <2>1. /\ at[r] \in 1 .. Len(RepoOrder) /\ count[r] < MaxParallel
        /\ RepoOrder[at[r]] \in RepoSet
    BY <1>7, Numbers DEF Visit, RoundOver, TypeOK
  <2>2. TypeOK'
    <3>1. failures' \in 0 .. MaxFailures
      BY <1>7, Numbers DEF Visit, Fail, TypeOK
    <3>2. at' \in [Replicas -> 1 .. Len(RepoOrder) + 1]
      BY <1>7, <2>1, Numbers DEF Visit, TypeOK
    <3>3. count' \in [Replicas -> 0 .. MaxParallel]
      <4>1. count' = count \/ count' = [count EXCEPT ![r] = @ + 1]
        BY <1>7 DEF Visit
      <4>2. count \in [Replicas -> 0 .. MaxParallel]
        BY DEF TypeOK
      <4>3. count[r] + 1 \in 0 .. MaxParallel
        BY <4>2, <2>1, Numbers
      <4> QED
        BY <4>1, <4>2, <4>3
    <3>4. wait' \in [RepoSet -> 0 .. WaitBound]
      <4>1. wait' = wait \/ wait' = [wait EXCEPT ![RepoOrder[at[r]]] = 0]
        BY <1>7 DEF Visit
      <4>2. wait \in [RepoSet -> 0 .. WaitBound] /\ 0 \in 0 .. WaitBound
        BY BoundIsNat DEF TypeOK
      <4> QED
        BY <4>1, <4>2, <2>1
    <3> QED
      BY <1>7, <3>1, <3>2, <3>3, <3>4 DEF Visit, TypeOK
  <2>3. Rounds'
    <3>1. /\ UNCHANGED <<replica, elapsed>>
          /\ at' = [at EXCEPT ![r] = @ + 1]
          /\ count' = count \/ count' = [count EXCEPT ![r] = @ + 1]
          /\ replica[r] = "working"
      BY <1>7 DEF Visit
    <3>2. at \in [Replicas -> Nat] /\ count \in [Replicas -> Nat]
      BY Numbers DEF TypeOK
    <3> QED
      BY <3>1, <3>2 DEF Rounds
  <2>4. Leading'
    BY <1>7, Numbers DEF Visit, Leading, OneLeader, Ttl
  <2> QED
    BY <2>2, <2>3, <2>4
<1>8. CASE UNCHANGED vars
  BY <1>8, Numbers DEF TypeOK, Rounds, Leading, OneLeader, vars, round, Ttl
<1> QED
  BY <1>1, <1>2, <1>3, <1>4, <1>5, <1>6, <1>7, <1>8 DEF Next

-----------------------------------------------------------------------------
LEMMA BudgetIsNat ==
    ASSUME SafeInv
    PROVE  /\ Period \in Nat /\ Budget \in Nat /\ Period <= Budget
           /\ Period = Ttl + Interval
<1>1. failures + restarts + 1 \in Nat \ {0} /\ Period \in Nat /\ Period = Ttl + Interval
  BY Numbers DEF SafeInv, TypeOK, Period
<1>2. \A m \in Nat \ {0}, n \in Nat : m * n \in Nat /\ n <= m * n
  OBVIOUS
<1> QED
  BY <1>1, <1>2 DEF Budget

\* A failure or a crash adds a period to what is allowed.
LEMMA BudgetGrows ==
    ASSUME SafeInv,
           failures' + restarts' = failures + restarts + 1
    PROVE  Budget' = Budget + Period
<1>1. failures + restarts \in Nat /\ Period \in Nat /\ Period' = Period
  BY BudgetIsNat DEF SafeInv, TypeOK, Period
<1>2. \A m, n \in Nat : (m + 1 + 1) * n = (m + 1) * n + n
  OBVIOUS
<1> QED
  BY <1>1, <1>2 DEF Budget

LEMMA BudgetStays ==
    ASSUME failures' = failures, restarts' = restarts
    PROVE  Budget' = Budget
  BY DEF Budget, Period

LEMMA InitTimely == Init => Timely
<1> SUFFICES ASSUME Init, NEW x \in RepoSet PROVE InTime(x)
  BY DEF Timely
<1>1. 0 <= Budget
  BY InitSafe, BudgetIsNat
<1> QED
  BY <1>1 DEF Init, InTime, Pending, Up

-----------------------------------------------------------------------------
\* After a round without a result, or a call that failed, the time allowed is enough again.
LEMMA AfterFailure ==
    ASSUME SafeInv, SafeInv', Timely, NEW x \in RepoSet,
           failures' + restarts' = failures + restarts + 1,
           wait' = wait,
           lease' = lease \/ (lease = 0 /\ lease' = Ttl),
           \A r \in Replicas : elapsed'[r] = elapsed[r] \/ replica'[r] # "working",
           \A r \in Replicas : Pending(x, r)' => Pending(x, r)
    PROVE  InTime(x)'
<1>1. /\ Budget' = Budget + Period /\ Budget \in Nat /\ Budget' \in Nat
      /\ Period = Ttl + Interval
  BY BudgetGrows, BudgetIsNat
<1>2. wait[x] \in Nat /\ lease \in 0 .. Ttl
  BY Numbers DEF SafeInv, TypeOK
<1>3. wait[x] + lease <= Budget + Ttl
  <2>1. CASE lease = 0
    BY <2>1, <1>1, <1>2, Numbers DEF Timely, InTime
  <2>2. CASE \E r \in Replicas : Pending(x, r)
    <3>1. PICK r \in Replicas : Pending(x, r)
      BY <2>2
    <3>2. wait[x] <= Budget + elapsed[r] /\ lease = Ttl - elapsed[r] /\ elapsed[r] \in Nat
      BY <3>1 DEF Timely, InTime, Pending, SafeInv, Leading, TypeOK
    <3> QED
      BY SMTT(30), <3>2, <1>1, <1>2, Numbers
  <2>3. CASE lease > 0 /\ \A r \in Replicas : ~Pending(x, r)
    <3>1. wait[x] + lease + Interval <= Budget
      BY <2>3 DEF Timely, InTime
    <3> QED
      BY <3>1, <1>1, <1>2, Numbers
  <2> QED
    BY <2>1, <2>2, <2>3, <1>2
<1>4. wait'[x] + lease' + Interval <= Budget'
  <2>1. CASE lease' = lease
    BY <2>1, <1>1, <1>2, <1>3, Numbers
  <2>2. CASE lease = 0 /\ lease' = Ttl
    <3>1. wait[x] <= Budget
      BY <2>2 DEF Timely, InTime
    <3> QED
      BY <2>2, <3>1, <1>1, <1>2, Numbers
  <2> QED
    BY <2>1, <2>2
<1>5. ASSUME NEW r \in Replicas, Pending(x, r)' PROVE wait'[x] <= Budget' + elapsed'[r]
  <2>1. wait[x] <= Budget + elapsed[r] /\ elapsed[r] \in Nat
    BY <1>5 DEF Timely, InTime, SafeInv, TypeOK
  <2>2. elapsed'[r] = elapsed[r]
    BY <1>5 DEF Pending
  <2> QED
    BY <2>1, <2>2, <1>1, <1>2, Numbers
<1>6. wait'[x] <= Budget' /\ \A r \in Replicas : wait'[x] + dueIn'[r] <= Budget'
  <2>1. lease' \in Nat /\ \A r \in Replicas : dueIn'[r] \in 0 .. Interval
    BY Numbers DEF SafeInv, TypeOK
  <2> QED
    BY SMTT(30), <2>1, <1>1, <1>2, <1>4, Numbers
<1> QED
  BY <1>4, <1>5, <1>6 DEF InTime

\* While no failure or crash is added and lock, rounds and waiting times do not move, a
\* repository stays in time as long as some replica that is up will tick in time.
LEMMA NothingMoves ==
    ASSUME NEW x \in RepoSet, InTime(x),
           UNCHANGED <<lease, round, failures, restarts>>,
           \A r \in Replicas : replica'[r] = "working" <=> replica[r] = "working",
           lease = 0 => \/ \A r \in Replicas : ~Up(r)'
                       \/ \E r \in Replicas :
                             Up(r)' /\ (fired'[r] \/ wait[x] + dueIn'[r] <= Budget)
    PROVE  InTime(x)'
<1>1. Budget' = Budget
  BY BudgetStays
<1>2. \A r \in Replicas : Pending(x, r)' <=> Pending(x, r)
  BY DEF Pending, round
<1> QED
  BY <1>1, <1>2 DEF InTime, round

LEMMA PassTimely ==
    ASSUME SafeInv, Timely, Pass, NEW x \in RepoSet
    PROVE  InTime(x)'
<1>1. Budget' = Budget /\ Budget \in Nat
  BY BudgetStays, BudgetIsNat DEF Pass
<1>2. /\ wait[x] \in Nat /\ lease \in Nat
      /\ \A r \in Replicas : elapsed[r] \in Nat /\ dueIn[r] \in 0 .. Interval
  BY DEF SafeInv, TypeOK
<1>3. \/ wait'[x] = wait[x]
      \/ wait'[x] = wait[x] + 1 /\ \E r \in Replicas : Up(r)
  BY DEF Pass
<1>4. \A r \in Replicas : Pending(x, r)' <=> Pending(x, r)
  BY DEF Pass, Pending
<1>5. ASSUME NEW r \in Replicas, Pending(x, r) PROVE wait'[x] <= Budget + elapsed'[r]
  <2>1. wait[x] <= Budget + elapsed[r] /\ elapsed'[r] = elapsed[r] + 1
    BY <1>5 DEF Timely, InTime, Pending, Pass
  <2> QED
    BY <2>1, <1>1, <1>2, <1>3
<1>6. CASE lease = 0
  <2>1. lease' = 0 /\ \A r \in Replicas : replica[r] # "working"
    BY <1>6, FreeLock DEF Pass
  <2>2. CASE \A r \in Replicas : ~Up(r)
    <3>1. wait'[x] = wait[x] /\ \A r \in Replicas : ~Up(r)'
      BY <2>2, <1>3 DEF Pass, Up
    <3> QED
      BY <3>1, <2>1, <1>1, <1>4, <1>6 DEF Timely, InTime, Pending
  <2>3. CASE \E r \in Replicas : Up(r)
    <3>1. PICK r \in Replicas : Up(r) /\ (fired[r] \/ wait[x] + dueIn[r] <= Budget)
      BY <2>3, <1>6 DEF Timely, InTime
    <3>2. replica[r] = "idle" /\ ~fired[r] /\ dueIn[r] > 0
      BY <3>1, <2>1 DEF Pass, MayPass, Up, SafeInv, TypeOK
    <3>3. Up(r)' /\ dueIn'[r] = dueIn[r] - 1
      BY <3>1 DEF Pass, Up
    <3>4. wait'[x] + dueIn'[r] <= Budget /\ wait'[x] <= Budget
      BY <3>1, <3>2, <3>3, <1>1, <1>2, <1>3
    <3> QED
      BY <3>3, <3>4, <2>1, <1>1, <1>4 DEF InTime, Pending
  <2> QED
    BY <2>2, <2>3
<1>7. CASE lease > 0 /\ \A r \in Replicas : ~Pending(x, r)
  <2>1. wait[x] + lease + Interval <= Budget /\ lease' = lease - 1
    BY <1>7 DEF Timely, InTime, Pass
  <2>2. wait'[x] + lease' + Interval <= Budget
    BY <2>1, <1>1, <1>2, <1>3, Numbers
  <2>3. wait'[x] <= Budget
    BY <2>1, <2>2, <1>1, <1>2, <1>3, Numbers
  <2>4. ASSUME NEW r \in Replicas, Up(r)' PROVE wait'[x] + dueIn'[r] <= Budget
    <3>1. dueIn[r] \in 0 .. Interval /\ dueIn'[r] = dueIn[r] - 1
      BY <2>4, <1>2 DEF Pass, Up
    <3> QED
      BY <3>1, <2>1, <2>2, <1>1, <1>2, <1>3, <1>7, Numbers
  <2> QED
    BY <2>2, <2>3, <2>4, <1>1, <1>4, <1>7 DEF InTime
<1>8. CASE \E r \in Replicas : Pending(x, r)
  <2>1. PICK r \in Replicas : Pending(x, r)
    BY <1>8
  <2>2. lease = Ttl - elapsed[r] /\ elapsed[r] \in 0 .. MaxRound /\ elapsed[r] < MaxRound
    BY <2>1 DEF Pending, SafeInv, Leading, TypeOK, Pass, MayPass
  <2>3. lease' > 0
    BY <2>2, Numbers DEF Pass
  <2> QED
    BY <2>1, <2>3, <1>1, <1>4, <1>5, Numbers DEF InTime
<1> QED
  BY <1>2, <1>6, <1>7, <1>8

LEMMA TickTimely ==
    ASSUME SafeInv, SafeInv', Timely, NEW r \in Replicas, Tick(r), NEW x \in RepoSet
    PROVE  InTime(x)'
<1>1. CASE Contend(r) /\ UNCHANGED failures
  <2>1. Budget' = Budget /\ wait' = wait /\ elapsed' = elapsed /\ at' = at
    BY <1>1, BudgetStays DEF Tick, round
  <2>2. CASE lease = 0
    <3>1. lease' = Ttl /\ replica' = [replica EXCEPT ![r] = "working"]
      BY <1>1, <2>2 DEF Contend
    <3>2. /\ wait[x] <= Budget /\ Budget \in Nat
          /\ elapsed[r] \in Nat /\ wait[x] \in Nat
      <4>1. wait[x] <= Budget
        BY <2>2 DEF Timely, InTime
      <4>2. elapsed[r] \in Nat /\ wait[x] \in Nat
        BY DEF SafeInv, TypeOK
      <4> QED
        BY <4>1, <4>2, BudgetIsNat
    <3>3. \A s \in Replicas : replica[s] # "working"
      BY <2>2, FreeLock
    <3>4. Pending(x, r)'
      <4>1. PICK i \in DOMAIN RepoOrder : RepoOrder[i] = x
        BY DEF RepoSet
      <4>2. at[r] = 1 /\ i >= 1
        BY <3>3, <4>1, Numbers DEF SafeInv, Rounds
      <4>3. replica'[r] = "working"
        BY <3>1 DEF SafeInv, TypeOK
      <4> QED
        BY <2>1, <4>1, <4>2, <4>3 DEF Pending
    <3>5. \A s \in Replicas : Pending(x, s)' => s = r
      BY <3>1, <3>3 DEF Pending, SafeInv, TypeOK
    <3>6. wait'[x] <= Budget' + elapsed'[r]
      BY <2>1, <3>2
    <3> QED
      BY <3>1, <3>4, <3>5, <3>6, Numbers DEF InTime
  <2>3. CASE lease # 0
    <3>1. lease' = lease /\ replica' = replica /\ dueIn' = dueIn
      BY <1>1, <2>3 DEF Contend, Tick, SafeInv, TypeOK
    <3> QED
      BY <1>1, <2>1, <2>3, <3>1, NothingMoves DEF Tick, Timely
  <2> QED
    BY <2>2, <2>3
<1>2. CASE Fail /\ lease' \in {lease, IF lease = 0 THEN Ttl ELSE lease} /\ UNCHANGED replica
  <2>1. failures' + restarts' = failures + restarts + 1
    BY <1>2 DEF Fail, Tick, SafeInv, TypeOK
  <2>2. lease' = lease \/ (lease = 0 /\ lease' = Ttl)
    BY <1>2
  <2>3. UNCHANGED round /\ UNCHANGED replica
    BY <1>2 DEF Tick
  <2>4. \A s \in Replicas : Pending(x, s)' => Pending(x, s)
    BY <2>3 DEF Pending, round
  <2> QED
    BY <2>1, <2>2, <2>3, <2>4, AfterFailure DEF round
<1> QED
  BY <1>1, <1>2 DEF Tick

LEMMA FinishTimely ==
    ASSUME SafeInv, SafeInv', Timely, RoomForAll, NEW r \in Replicas, Finish(r),
           NEW x \in RepoSet
    PROVE  InTime(x)'
<1>1. \A s \in Replicas : Pending(x, s)' => Pending(x, s) /\ s # r
  BY DEF Finish, Pending, SafeInv, TypeOK
<1>2. lease' = lease /\ wait' = wait /\ restarts' = restarts /\ lease # 0
  BY FreeLock DEF Finish
<1>3. \A s \in Replicas : elapsed'[s] = elapsed[s] \/ replica'[s] # "working"
  BY DEF Finish, SafeInv, TypeOK
<1>4. CASE RoundOver(r) /\ UNCHANGED failures
  <2>1. ~Pending(x, r)
    <3>1. at[r] > Len(RepoOrder)
      BY SMTT(30), <1>4, Numbers DEF RoundOver, RoomForAll, SafeInv, Rounds, TypeOK
    <3> QED
      BY SMTT(30), <3>1, Numbers DEF Pending, SafeInv, TypeOK
  <2>2. \A s \in Replicas : Pending(x, s)' <=> Pending(x, s)
    BY <1>1, <2>1 DEF Finish, Pending, SafeInv, TypeOK
  <2>3. Budget' = Budget
    BY <1>4, BudgetStays DEF Finish
  <2>4. \A s \in Replicas : Pending(x, s)' => elapsed'[s] = elapsed[s]
    BY <1>3 DEF Pending
  <2> QED
    BY <1>2, <2>2, <2>3, <2>4 DEF Timely, InTime
<1>5. CASE Fail
  <2>1. failures' + restarts' = failures + restarts + 1
    BY <1>2, <1>5 DEF Fail, SafeInv, TypeOK
  <2> QED
    BY <1>1, <1>2, <1>3, <2>1, AfterFailure
<1> QED
  BY <1>4, <1>5 DEF Finish

LEMMA VisitTimely ==
    ASSUME SafeInv, SafeInv', Timely, RoomForAll, NEW r \in Replicas, Visit(r),
           NEW x \in RepoSet
    PROVE  InTime(x)'
<1> DEFINE y == RepoOrder[at[r]]
<1>1. y \in RepoSet /\ IsDue(y) /\ at[r] \in DOMAIN RepoOrder
  BY Numbers DEF Visit, RoundOver, RoomForAll, SafeInv, TypeOK
<1>2. /\ lease' = lease /\ replica' = replica /\ elapsed' = elapsed /\ restarts' = restarts
      /\ at' = [at EXCEPT ![r] = @ + 1] /\ lease # 0 /\ replica[r] = "working"
  BY FreeLock DEF Visit
<1>3. \A s \in Replicas : Pending(x, s)' => Pending(x, s)
  BY <1>2, Numbers DEF Pending, SafeInv, TypeOK
<1>4. CASE wait' = [wait EXCEPT ![y] = 0] /\ UNCHANGED failures
  <2>1. Budget' = Budget /\ Budget \in Nat /\ Period <= Budget /\ Period = Ttl + Interval
    BY <1>2, <1>4, BudgetStays, BudgetIsNat
  <2>2. CASE x = y
    <3>1. wait'[x] = 0 /\ lease' \in 0 .. Ttl /\ \A s \in Replicas : elapsed'[s] \in Nat
      BY <1>2, <1>4, <2>2, Numbers DEF SafeInv, TypeOK
    <3>2. wait'[x] + lease' + Interval <= Budget'
      <4>1. Ttl \in Nat /\ Interval \in Nat
        BY Numbers
      <4>2. lease' \in Nat /\ lease' <= Ttl /\ wait'[x] = 0
        BY <3>1, <4>1
      <4>3. \A k, m, n, b \in Nat : k <= m /\ m + n <= b => 0 + k + n <= b
        OBVIOUS
      <4>4. Ttl + Interval <= Budget'
        BY <2>1
      <4>5. 0 + lease' + Interval <= Budget'
        BY <4>1, <4>2, <4>3, <4>4, <2>1
      <4> QED
        BY <4>2, <4>5
    <3>3. \A s \in Replicas : wait'[x] <= Budget' + elapsed'[s]
      BY <3>1, <2>1
    <3> QED
      BY <1>2, <3>2, <3>3 DEF InTime
  <2>3. CASE x # y
    <3>1. wait'[x] = wait[x]
      BY <1>4, <2>3 DEF SafeInv, TypeOK
    <3>2. \A s \in Replicas : Pending(x, s) => Pending(x, s)'
      <4>1. ASSUME NEW i \in DOMAIN RepoOrder, RepoOrder[i] = x, i >= at[r]
            PROVE  i >= at'[r]
        BY <4>1, <1>2, <2>3, Numbers DEF SafeInv, TypeOK
      <4>2. \A s \in Replicas : s # r => at'[s] = at[s]
        BY <1>2 DEF SafeInv, TypeOK
      <4> QED
        BY <1>2, <4>1, <4>2 DEF Pending
    <3> QED
      BY <1>2, <1>3, <2>1, <3>1, <3>2 DEF Timely, InTime
  <2> QED
    BY <2>2, <2>3
<1>5. CASE Fail /\ wait' = wait
  <2>1. failures' + restarts' = failures + restarts + 1
    BY <1>2, <1>5 DEF Fail, SafeInv, TypeOK
  <2> QED
    BY <1>2, <1>3, <1>5, <2>1, AfterFailure
<1> QED
  BY <1>1, <1>4, <1>5 DEF Visit

LEMMA CrashTimely ==
    ASSUME SafeInv, SafeInv', Timely, NEW r \in Replicas, Crash(r), NEW x \in RepoSet
    PROVE  InTime(x)'
<1>1. failures' + restarts' = failures + restarts + 1
  BY DEF Crash, SafeInv, TypeOK
<1>2. \A s \in Replicas : Pending(x, s)' => Pending(x, s)
  BY DEF Crash, Pending, SafeInv, TypeOK
<1>3. \A s \in Replicas : elapsed'[s] = elapsed[s] \/ replica'[s] # "working"
  BY DEF Crash, SafeInv, TypeOK
<1> QED
  BY <1>1, <1>2, <1>3, AfterFailure DEF Crash

LEMMA StepTimely ==
    ASSUME SafeInv, SafeInv', Timely, RoomForAll, [Next]_vars
    PROVE  Timely'
<1> SUFFICES ASSUME NEW x \in RepoSet PROVE InTime(x)'
  BY DEF Timely
<1>1. CASE Pass
  BY <1>1, PassTimely
<1>2. ASSUME NEW r \in Replicas, Fire(r) PROVE InTime(x)'
  <2>1. fired' = [fired EXCEPT ![r] = TRUE] /\ replica' = replica
        /\ dueIn' = [dueIn EXCEPT ![r] = Interval] /\ Up(r)
    BY <1>2 DEF Fire
  <2>2. \A s \in Replicas : (Up(s) <=> Up(s)') /\ (s # r => dueIn'[s] = dueIn[s] /\ fired'[s] = fired[s])
    BY <2>1 DEF Up, SafeInv, TypeOK
  <2>3. fired'[r]
    BY <2>1 DEF SafeInv, TypeOK
  <2>4. lease = 0 => \/ \A s \in Replicas : ~Up(s)'
                    \/ \E s \in Replicas :
                          Up(s)' /\ (fired'[s] \/ wait[x] + dueIn'[s] <= Budget)
    BY <2>1, <2>2, <2>3
  <2> QED
    BY <1>2, <2>1, <2>4, NothingMoves DEF Fire, Timely
<1>3. ASSUME NEW r \in Replicas, Boot(r) PROVE InTime(x)'
  <2>1. fired'[r] /\ replica'[r] = "idle" /\ replica[r] = "down" /\ Up(r)'
    BY <1>3 DEF Boot, Up, SafeInv, TypeOK
  <2>2. \A s \in Replicas : s # r => replica'[s] = replica[s]
    BY <1>3 DEF Boot, SafeInv, TypeOK
  <2> QED
    BY <1>3, <2>1, <2>2, NothingMoves DEF Boot, Timely
<1>4. ASSUME NEW r \in Replicas, Crash(r) PROVE InTime(x)'
  BY <1>4, CrashTimely
<1>5. ASSUME NEW r \in Replicas, Tick(r) PROVE InTime(x)'
  BY <1>5, TickTimely
<1>6. ASSUME NEW r \in Replicas, Finish(r) PROVE InTime(x)'
  BY <1>6, FinishTimely
<1>7. ASSUME NEW r \in Replicas, Visit(r) PROVE InTime(x)'
  BY <1>7, VisitTimely
<1>8. CASE UNCHANGED vars
  <2>1. UNCHANGED <<replica, dueIn, fired>> /\ \A s \in Replicas : Up(s)' <=> Up(s)
    BY <1>8 DEF vars, Up
  <2> QED
    BY <1>8, <2>1, NothingMoves DEF vars, Timely, InTime
<1> QED
  BY <1>1, <1>2, <1>3, <1>4, <1>5, <1>6, <1>7, <1>8 DEF Next

\* A repository that is in time has not waited longer than is allowed.
LEMMA InTimeIsSoon ==
    ASSUME SafeInv, Timely
    PROVE  \A x \in RepoSet : wait[x] <= LongestWait
<1> SUFFICES ASSUME NEW x \in RepoSet PROVE wait[x] <= Budget + MaxRound
  BY DEF LongestWait, Budget, Period
<1>1. Budget \in Nat /\ wait[x] \in Nat /\ lease \in Nat /\ InTime(x)
  BY BudgetIsNat DEF Timely, SafeInv, TypeOK
<1>2. CASE \E r \in Replicas : Pending(x, r)
  <2>1. PICK r \in Replicas : Pending(x, r)
    BY <1>2
  <2>2. wait[x] <= Budget + elapsed[r] /\ elapsed[r] \in Nat /\ elapsed[r] <= MaxRound
    BY <2>1, <1>1, Numbers DEF InTime, SafeInv, TypeOK
  <2> QED
    BY <2>2, <1>1, Numbers
<1>3. CASE lease > 0 /\ \A r \in Replicas : ~Pending(x, r)
  <2>1. wait[x] + lease + Interval <= Budget
    BY <1>1, <1>3 DEF InTime
  <2> QED
    BY <2>1, <1>1, Numbers
<1>4. CASE lease = 0
  BY <1>1, <1>4, Numbers DEF InTime
<1> QED
  BY <1>1, <1>2, <1>3, <1>4

-----------------------------------------------------------------------------
\* The fields of the lock, the tickers and the rounds keep their types and bounds
\* (scheduler.go, Run and tick).
THEOREM TypeCorrect == Spec => []TypeOK
<1>1. SafeInv => TypeOK
  BY DEF SafeInv
<1> QED
  BY <1>1, InitSafe, StepSafe, PTL DEF Spec

\* The lock's time to live keeps two replicas from submitting at once, however their tickers
\* lie and whatever crashes (tick's SetIfAbsent), as long as a round is shorter than the lock.
THEOREM LeaderIsAlone == Spec => []OneLeader
<1>1. SafeInv => OneLeader
  BY DEF SafeInv, Leading
<1> QED
  BY <1>1, InitSafe, StepSafe, PTL DEF Spec

\* If all enabled repositories fit into one round, each is submitted again within the time that
\* the lock, the ticker and the failures allow, on any number of replicas (tick, nextDueTime).
THEOREM SubmittedInTime == Spec => []RefreshedRegularly
<1> DEFINE TimeInv == SafeInv /\ (RoomForAll => Timely)
<1>1. Init => TimeInv
  BY InitSafe, InitTimely
<1>2. TimeInv /\ [Next]_vars => TimeInv'
  <2> SUFFICES ASSUME TimeInv, [Next]_vars PROVE TimeInv'
    OBVIOUS
  <2>1. SafeInv'
    BY StepSafe
  <2>2. ASSUME RoomForAll PROVE Timely'
    BY <2>1, <2>2, StepTimely
  <2>3. RoomForAll' <=> RoomForAll
    BY DEF RoomForAll, RepoSet, IsDue
  <2> QED
    BY <2>1, <2>2, <2>3
<1>3. TimeInv => RefreshedRegularly
  BY InTimeIsSoon DEF RefreshedRegularly
<1> QED
  BY <1>1, <1>2, <1>3, PTL DEF Spec
=============================================================================
