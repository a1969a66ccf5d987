----------------------------- MODULE WikiProofs -----------------------------
(***************************************************************************)
(* Proofs about WikiDispatcher, for any set of repositories, goroutines    *)
(* and events.                                                             *)
(***************************************************************************)
EXTENDS WikiDispatcher, TLAPS

\* Where a goroutine is in a handler tells the kind of its event, and an idle one holds nothing.
Steps ==
    \A w \in Workers :
        /\ ~Busy(w) => doing[w] = Nothing /\ read[w] = NoMarks
        /\ worker[w] \in {"list", "copy"} => Kind(doing[w]) = "merge"
        /\ worker[w] = "delete" => Kind(doing[w]) \in {"merge", "reject"}
        /\ worker[w] \in {"debounce", "diff", "reset"} => Kind(doing[w]) = "push"
        /\ worker[w] = "read" => Kind(doing[w]) # "merge"

\* The goroutine of a repository handles its events only, and the overflow goroutines handle
\* events of repositories that have overflowed.
Serial ==
    /\ \A r \in Repos : \A i \in DOMAIN queue[r] : Repo(queue[r][i]) = r
    /\ \A i \in DOMAIN overflow : Repo(overflow[i]) \in spilled
    /\ \A r \in Repos : Busy(r) => Repo(doing[r]) = r
    /\ \A w \in Spare : Busy(w) => Repo(doing[w]) \in spilled

\* A PR on its way to a merge is proposed or canonical; a handler that is past the copy, or has
\* read a published commit, finds its pages in canonical.
Promotion ==
    /\ \A e \in Events : KindOf[e] = "merge" => PrOf[e] \in proposed \cup canonical
    /\ \A w \in Workers :
          (worker[w] \in {"delete", "write"} /\ Kind(doing[w]) = "merge")
          => Pr(doing[w]) \in canonical \/ doing[w] \in dead
    /\ \A w \in Workers, e \in Events :
          (/\ KindOf[e] = "merge" /\ Busy(w) /\ Repo(doing[w]) = RepoOf[e]
           /\ read[w].published = ShaOf[e]) => PrOf[e] \in canonical

\* Every promised delivery is handled, in a handler, or in a queue that is still drained.
Promise ==
    /\ stop = "no" => \A w \in Workers : worker[w] # "exited"
    /\ \A r \in Repos : queue[r] # <<>> => worker[r] # "unborn"
    /\ stop # "no" =>
          \A d \in promised :
              \/ d \in done
              \/ \E r \in Repos : Busy(r) /\ doing[r] = d
              \/ \E r \in Repos : worker[r] # "exited" /\ InQueue(d, queue[r])

Inv == TypeOK /\ Steps /\ Serial

-----------------------------------------------------------------------------
LEMMA DeliveryParts ==
    ASSUME NEW d \in Deliveries
    PROVE  /\ d[1] \in Events /\ Repo(d) \in Repos /\ Kind(d) \in Kinds
           /\ Sha(d) \in Shas /\ Sha(d) # NoSha /\ Pr(d) \in Prs
           /\ d # Nothing
<1>1. PICK e \in Events : d \in {e} \X (1 .. TimesOf[e])
  BY DEF Deliveries
<1>2. d[1] \in Events
  BY <1>1
<1> QED
  BY <1>2, DispatcherAssumption
  DEF DispatcherAssumption, Repo, Kind, Sha, Pr, Shas, Prs

LEMMA RepoWorkers == Repos \subseteq Workers /\ Spare \subseteq Workers
  BY DEF Workers

LEMMA NoMarksType == NoMarks \in Marks /\ NoMarks.published = NoSha
  BY DEF NoMarks, Marks, Shas

\* What an element of a queue was before the queue was extended, or its head taken.
LEMMA QueueEnds ==
    ASSUME NEW S, NEW q \in Seq(S), NEW x \in S
    PROVE  /\ Append(q, x) \in Seq(S)
           /\ \A i \in DOMAIN Append(q, x) :
                 Append(q, x)[i] = x \/ \E j \in DOMAIN q : Append(q, x)[i] = q[j]
           /\ \A j \in DOMAIN q : j \in DOMAIN Append(q, x) /\ Append(q, x)[j] = q[j]
  OBVIOUS

LEMMA QueueHead ==
    ASSUME NEW S, NEW q \in Seq(S), q # <<>>
    PROVE  /\ Head(q) \in S /\ 1 \in DOMAIN q /\ Head(q) = q[1]
           /\ Tail(q) \in Seq(S)
           /\ \A i \in DOMAIN Tail(q) : i + 1 \in DOMAIN q /\ Tail(q)[i] = q[i + 1]
           /\ \A j \in DOMAIN q :
                 q[j] = Head(q) \/ \E i \in DOMAIN Tail(q) : Tail(q)[i] = q[j]
<1>1. /\ Head(q) \in S /\ 1 \in DOMAIN q /\ Head(q) = q[1]
      /\ Tail(q) \in Seq(S) /\ Len(Tail(q)) = Len(q) - 1 /\ Len(q) \in Nat
      /\ \A i \in 1 .. Len(q) - 1 : Tail(q)[i] = q[i + 1]
  OBVIOUS
<1>2. \A i \in DOMAIN Tail(q) : i + 1 \in DOMAIN q /\ Tail(q)[i] = q[i + 1]
  BY <1>1
<1>3. ASSUME NEW j \in DOMAIN q, q[j] # Head(q)
      PROVE  \E i \in DOMAIN Tail(q) : Tail(q)[i] = q[j]
  <2>1. j \in 1 .. Len(q) /\ j # 1
    BY <1>1, <1>3
  <2>2. j - 1 \in DOMAIN Tail(q) /\ Tail(q)[j - 1] = q[j]
    BY <1>1, <2>1
  <2> QED
    BY <2>2
<1> QED
  BY <1>1, <1>2, <1>3
-----------------------------------------------------------------------------
(* The handlers' ways to move on *)

LEMMA GoToType ==
    ASSUME TypeOK, NEW w \in Workers, NEW s \in HandlerSteps, GoTo(w, s),
           Busy(w)
    PROVE  /\ worker' \in [Workers -> HandlerSteps \cup {"unborn", "idle", "exited"}]
           /\ doing' \in [Workers -> Deliveries \cup {Nothing}]
           /\ read' \in [Workers -> Marks] /\ done' \subseteq Deliveries
           /\ \A x \in Workers : Busy(x)' => doing'[x] \in Deliveries
  BY DEF TypeOK, GoTo, Busy

LEMMA ReturnType ==
    ASSUME TypeOK, NEW w \in Workers, Return(w), Busy(w)
    PROVE  /\ worker' \in [Workers -> HandlerSteps \cup {"unborn", "idle", "exited"}]
           /\ doing' \in [Workers -> Deliveries \cup {Nothing}]
           /\ read' \in [Workers -> Marks] /\ done' \subseteq Deliveries
           /\ \A x \in Workers : Busy(x)' => doing'[x] \in Deliveries
  BY NoMarksType DEF TypeOK, Return, Busy, HandlerSteps

LEMMA StartType ==
    ASSUME TypeOK, NEW w \in Workers, NEW d \in Deliveries, Start(w, d)
    PROVE  /\ worker' \in [Workers -> HandlerSteps \cup {"unborn", "idle", "exited"}]
           /\ doing' \in [Workers -> Deliveries \cup {Nothing}]
           /\ \A x \in Workers : Busy(x)' => doing'[x] \in Deliveries
<1>1. FirstStep(d) \in HandlerSteps
  BY DeliveryParts, DispatcherAssumption
  DEF DispatcherAssumption, FirstStep, HandlerSteps, Kinds
<1> QED
  BY <1>1 DEF TypeOK, Start, Busy

LEMMA FaultsType ==
    ASSUME TypeOK, NEW w \in Workers, Succeeds(w) \/ ReadFails(w) \/ WriteFails(w)
    PROVE  /\ badReads' \in 0 .. MaxBadReads /\ badWrites' \in 0 .. MaxBadWrites
           /\ restarts' \in 0 .. MaxRestarts
  BY DispatcherAssumption
  DEF DispatcherAssumption, TypeOK, Succeeds, ReadFails, WriteFails, faults

LEMMA NewMarksType ==
    ASSUME TypeOK, NEW w \in Workers, Busy(w)
    PROVE  NewMarks(w) \in Marks
<1>1. /\ doing[w] \in Deliveries /\ Repo(doing[w]) \in Repos
      /\ Kind(doing[w]) \in Kinds /\ Sha(doing[w]) \in Shas
  BY DeliveryParts DEF TypeOK
<1>2. marks[Repo(doing[w])] \in Marks /\ read[w] \in Marks
  BY <1>1 DEF TypeOK
<1> QED
  BY <1>1, <1>2 DEF NewMarks, Marks, Kinds

-----------------------------------------------------------------------------
(* Types *)

LEMMA CallType ==
    ASSUME TypeOK, NEW d \in Deliveries,
           Submit(d) \/ Open(d) \/ Send(d) \/ Spill(d) \/ ContextEnds(d)
    PROVE  TypeOK'
<1> d[1] \in Events /\ Repo(d) \in Repos
  BY DeliveryParts
<1>1. CASE Submit(d)
  BY <1>1 DEF TypeOK, Submit, wiki, faults, Busy
<1>2. CASE Open(d)
  BY <1>2, RepoWorkers DEF TypeOK, Open, calls, wiki, faults, Busy, HandlerSteps
<1>3. CASE Send(d)
  <2>1. queue[Repo(d)] \in Seq(Deliveries)
    BY DEF TypeOK
  <2>2. Append(queue[Repo(d)], d) \in Seq(Deliveries)
    BY <2>1
  <2> QED
    BY <1>3, <2>2 DEF TypeOK, Send, SendTo, wiki, faults, Busy
<1>4. CASE Spill(d)
  <2>1. Append(overflow, d) \in Seq(Deliveries)
    BY DEF TypeOK
  <2> QED
    BY <1>4, <2>1 DEF TypeOK, Spill, wiki, faults, Busy
<1>5. CASE ContextEnds(d)
  BY <1>5 DEF TypeOK, ContextEnds, calls, wiki, faults, Busy
<1> QED
  BY <1>1, <1>2, <1>3, <1>4, <1>5

LEMMA TakeType ==
    ASSUME TypeOK, (\E r \in Repos : TakeQueued(r)) \/ \E w \in Spare : TakeOverflow(w)
    PROVE  TypeOK'
<1>1. ASSUME NEW r \in Repos, TakeQueued(r)
      PROVE  TypeOK'
  <2>1. Head(queue[r]) \in Deliveries /\ Tail(queue[r]) \in Seq(Deliveries)
    BY <1>1, QueueHead DEF TypeOK, TakeQueued
  <2> QED
    BY <1>1, <2>1, StartType, RepoWorkers DEF TypeOK, TakeQueued, wiki, faults
<1>2. ASSUME NEW w \in Spare, TakeOverflow(w)
      PROVE  TypeOK'
  <2>1. Head(overflow) \in Deliveries /\ Tail(overflow) \in Seq(Deliveries)
    BY <1>2, QueueHead DEF TypeOK, TakeOverflow
  <2> QED
    BY <1>2, <2>1, StartType, RepoWorkers DEF TypeOK, TakeOverflow, wiki, faults
<1> QED
  BY <1>1, <1>2

LEMMA HandleType ==
    ASSUME TypeOK, NEW w \in Workers, Handle(w)
    PROVE  TypeOK'
<1> USE DEF TypeOK, calls, wiki
<1> DEFINE d == doing[w]
<1>0. /\ Busy(w) /\ d \in Deliveries /\ Repo(d) \in Repos /\ Pr(d) \in Prs
      /\ marks[Repo(d)] \in Marks
  <2>1. Busy(w)
    BY DEF Handle, Debounce, Get, Diff, ResetMarks, List, Copy, Delete, Write,
           Busy, HandlerSteps
  <2> QED
    BY <2>1, DeliveryParts
<1>1. CASE Debounce(w)
  BY <1>0, <1>1, GoToType, ReturnType DEF Debounce, faults, HandlerSteps
<1>2. CASE Get(w)
  BY <1>0, <1>2, FaultsType, NoMarksType DEF Get, Busy, HandlerSteps
<1>3. CASE Diff(w)
  BY <1>0, <1>3, GoToType, ReturnType DEF Diff, faults, HandlerSteps
<1>4. CASE ResetMarks(w)
  BY <1>0, <1>4, GoToType, ReturnType, FaultsType, NoMarksType
  DEF ResetMarks, HandlerSteps
<1>5. CASE List(w)
  BY <1>0, <1>5, GoToType, FaultsType DEF List, HandlerSteps
<1>6. CASE Copy(w)
  BY <1>0, <1>6, GoToType, ReturnType, FaultsType DEF Copy, OnPageError, HandlerSteps
<1>7. CASE Delete(w)
  BY <1>0, <1>7, GoToType, ReturnType, FaultsType DEF Delete, OnPageError, HandlerSteps
<1>8. CASE Write(w)
  BY <1>0, <1>8, ReturnType, FaultsType, NewMarksType DEF Write
<1> QED
  BY <1>1, <1>2, <1>3, <1>4, <1>5, <1>6, <1>7, <1>8 DEF Handle

LEMMA CrashType ==
    ASSUME TypeOK, Crash
    PROVE  TypeOK'
<1>1. sub' \in [Deliveries ->
          {"unsent", "route", "spill", "accepted", "duplicate", "full", "lost"}]
  BY DEF TypeOK, Crash
<1>2. restarts' \in 0 .. MaxRestarts
  BY DispatcherAssumption DEF DispatcherAssumption, TypeOK, Crash
<1> QED
  BY <1>1, <1>2, NoMarksType DEF TypeOK, Crash, NewWorkers, Busy, HandlerSteps, wiki

LEMMA TypeStep ==
    ASSUME TypeOK, [Next]_vars
    PROVE  TypeOK'
<1>1. ASSUME NEW r \in Repos, WindowOver(r)
      PROVE  TypeOK'
  BY <1>1 DEF TypeOK, WindowOver, calls, wiki, faults, Busy
<1>2. ASSUME NEW w \in Workers, Exit(w)
      PROVE  TypeOK'
  BY <1>2 DEF TypeOK, Exit, calls, wiki, faults, Busy, HandlerSteps
<1>3. ASSUME Stop \/ StopReturns
      PROVE  TypeOK'
  BY <1>3 DEF TypeOK, Stop, StopReturns, calls, wiki, faults, Busy
<1>4. ASSUME UNCHANGED vars
      PROVE  TypeOK'
  BY <1>4 DEF TypeOK, vars, calls, wiki, faults, Busy
<1> QED
  BY <1>1, <1>2, <1>3, <1>4, CallType, TakeType, HandleType, CrashType DEF Next

-----------------------------------------------------------------------------
(* Who handles what *)

LEMMA HandleBusy ==
    ASSUME TypeOK, NEW w \in Workers, Handle(w)
    PROVE  Busy(w) /\ doing[w] \in Deliveries
  BY DEF TypeOK, Handle, Debounce, Get, Diff, ResetMarks, List, Copy, Delete, Write,
         Busy, HandlerSteps

\* A step of a handler stays in the handler, with its event, or ends it.
LEMMA HandleMoves ==
    ASSUME TypeOK, NEW w \in Workers, Handle(w)
    PROVE  /\ \A x \in Workers \ {w} :
                 worker'[x] = worker[x] /\ doing'[x] = doing[x] /\ read'[x] = read[x]
           /\ \/ Busy(w)' /\ doing'[w] = doing[w] /\ done' = done
              \/ /\ worker'[w] = "idle" /\ doing'[w] = Nothing /\ read'[w] = NoMarks
                 /\ done' = done \cup {doing[w]}
           /\ UNCHANGED <<calls, spilled, stop, dead, promised>>
<1> USE DEF TypeOK, GoTo, Return, Busy, HandlerSteps
<1>1. CASE Debounce(w)
  BY <1>1 DEF Debounce
<1>2. CASE Get(w)
  BY <1>2 DEF Get
<1>3. CASE Diff(w)
  BY <1>3 DEF Diff
<1>4. CASE ResetMarks(w)
  BY <1>4 DEF ResetMarks
<1>5. CASE List(w)
  BY <1>5 DEF List
<1>6. CASE Copy(w)
  BY <1>6 DEF Copy, OnPageError
<1>7. CASE Delete(w)
  BY <1>7 DEF Delete, OnPageError
<1>8. CASE Write(w)
  BY <1>8 DEF Write
<1> QED
  BY <1>1, <1>2, <1>3, <1>4, <1>5, <1>6, <1>7, <1>8 DEF Handle

LEMMA HandleSteps ==
    ASSUME TypeOK, Steps, NEW w \in Workers, Handle(w)
    PROVE  Steps'
<1> DEFINE P(x) == /\ ~Busy(x) => doing[x] = Nothing /\ read[x] = NoMarks
                   /\ worker[x] \in {"list", "copy"} => Kind(doing[x]) = "merge"
                   /\ worker[x] = "delete" => Kind(doing[x]) \in {"merge", "reject"}
                   /\ worker[x] \in {"debounce", "diff", "reset"} => Kind(doing[x]) = "push"
                   /\ worker[x] = "read" => Kind(doing[x]) # "merge"
<1>0. doing[w] \in Deliveries /\ Kind(doing[w]) \in Kinds
  BY HandleBusy, DeliveryParts
<1>1. ASSUME NEW x \in Workers \ {w}
      PROVE  P(x)'
  BY <1>1, HandleMoves DEF Steps, Busy, Kind
<1>2. P(w)'
  <2> USE DEF GoTo, Return, Busy, HandlerSteps, TypeOK, Steps, Kind
  <2>1. CASE Debounce(w)
    BY <2>1, <1>0 DEF Debounce
  <2>2. CASE Get(w)
    BY <2>2, <1>0 DEF Get
  <2>3. CASE Diff(w)
    BY <2>3, <1>0 DEF Diff
  <2>4. CASE ResetMarks(w)
    BY <2>4, <1>0 DEF ResetMarks
  <2>5. CASE List(w)
    BY <2>5, <1>0 DEF List
  <2>6. CASE Copy(w)
    BY <2>6, <1>0 DEF Copy, OnPageError
  <2>7. CASE Delete(w)
    BY <2>7, <1>0 DEF Delete, OnPageError
  <2>8. CASE Write(w)
    BY <2>8, <1>0 DEF Write
  <2> QED
    BY <2>1, <2>2, <2>3, <2>4, <2>5, <2>6, <2>7, <2>8 DEF Handle
<1> QED
  BY <1>1, <1>2 DEF Steps

LEMMA StartSteps ==
    ASSUME TypeOK, Steps, NEW w \in Workers, worker[w] = "idle",
           NEW d \in Deliveries, Start(w, d), read' = read
    PROVE  Steps'
<1>1. Kind(d) \in Kinds /\ FirstStep(d) \in HandlerSteps
  BY DeliveryParts, DispatcherAssumption
  DEF DispatcherAssumption, FirstStep, HandlerSteps, Kinds
<1> QED
  BY <1>1 DEF TypeOK, Steps, Start, Busy, HandlerSteps, FirstStep, Kind, Kinds

LEMMA StepsStep ==
    ASSUME TypeOK, Steps, [Next]_vars
    PROVE  Steps'
<1>1. ASSUME NEW d \in Deliveries,
             Submit(d) \/ Open(d) \/ Send(d) \/ Spill(d) \/ ContextEnds(d)
      PROVE  Steps'
  <2>1. Repo(d) \in Workers
    BY DeliveryParts, RepoWorkers
  <2> QED
    BY <1>1, <2>1
    DEF TypeOK, Steps, Submit, Open, Send, Spill, ContextEnds, calls, Busy, HandlerSteps, Kind
<1>2. ASSUME NEW r \in Repos, TakeQueued(r)
      PROVE  Steps'
  BY <1>2, QueueHead, StartSteps, RepoWorkers DEF TypeOK, TakeQueued
<1>3. ASSUME NEW w \in Spare, TakeOverflow(w)
      PROVE  Steps'
  BY <1>3, QueueHead, StartSteps, RepoWorkers DEF TypeOK, TakeOverflow
<1>4. ASSUME NEW r \in Repos, WindowOver(r)
      PROVE  Steps'
  BY <1>4 DEF Steps, WindowOver, Busy, Kind
<1>5. ASSUME NEW w \in Workers, Exit(w)
      PROVE  Steps'
  BY <1>5 DEF TypeOK, Steps, Exit, Busy, HandlerSteps, Kind
<1>6. ASSUME Stop \/ StopReturns \/ UNCHANGED vars
      PROVE  Steps'
  BY <1>6 DEF Steps, Stop, StopReturns, vars, Busy, Kind
<1>7. ASSUME Crash
      PROVE  Steps'
  BY <1>7 DEF Steps, Crash, NewWorkers, Busy, HandlerSteps, Kind
<1> QED
  BY <1>1, <1>2, <1>3, <1>4, <1>5, <1>6, <1>7, HandleSteps DEF Next

LEMMA SerialStep ==
    ASSUME TypeOK, Serial, [Next]_vars
    PROVE  Serial'
<1> USE DEF Serial
<1>1. ASSUME NEW d \in Deliveries, Submit(d) \/ Open(d) \/ ContextEnds(d)
      PROVE  Serial'
  <2>1. Repo(d) \in Workers
    BY DeliveryParts, RepoWorkers
  <2> QED
    BY <1>1, <2>1, RepoWorkers
    DEF TypeOK, Submit, Open, ContextEnds, calls, Busy, HandlerSteps, Repo
<1>2. ASSUME NEW d \in Deliveries, Send(d)
      PROVE  Serial'
  <2>1. Repo(d) \in Repos /\ queue[Repo(d)] \in Seq(Deliveries)
    BY DeliveryParts DEF TypeOK
  <2>2. \A r \in Repos : \A i \in DOMAIN queue'[r] : Repo(queue'[r][i]) = r
    <3>1. \A i \in DOMAIN Append(queue[Repo(d)], d) :
             Repo(Append(queue[Repo(d)], d)[i]) = Repo(d)
      BY <2>1, QueueEnds
    <3>2. /\ \A r \in Repos \ {Repo(d)} : queue'[r] = queue[r]
          /\ queue'[Repo(d)] \in {queue[Repo(d)], Append(queue[Repo(d)], d)}
      BY <1>2, <2>1 DEF TypeOK, Send, SendTo
    <3>3. ASSUME NEW r \in Repos, r # Repo(d), NEW i \in DOMAIN queue'[r]
          PROVE  Repo(queue'[r][i]) = r
      BY <3>2, <3>3
    <3>4. ASSUME NEW i \in DOMAIN queue'[Repo(d)]
          PROVE  Repo(queue'[Repo(d)][i]) = Repo(d)
      <4>1. CASE queue'[Repo(d)] = queue[Repo(d)]
        BY <4>1, <3>4, <2>1
      <4>2. CASE queue'[Repo(d)] = Append(queue[Repo(d)], d)
        BY <4>2, <3>1, <3>4
      <4> QED
        BY <4>1, <4>2, <3>2
    <3> QED
      BY <3>3, <3>4
  <2> QED
    BY <1>2, <2>2 DEF Send, SendTo, Busy, Repo
<1>3. ASSUME NEW d \in Deliveries, Spill(d)
      PROVE  Serial'
  <2>1. \A i \in DOMAIN overflow' : Repo(overflow'[i]) \in spilled'
    <3>1. overflow \in Seq(Deliveries) /\ spilled \subseteq spilled'
      BY <1>3 DEF TypeOK, Spill
    <3>2. \A i \in DOMAIN Append(overflow, d) :
             Repo(Append(overflow, d)[i]) \in spilled \cup {Repo(d)}
      BY <3>1, QueueEnds
    <3> QED
      BY <1>3, <3>1, <3>2 DEF Spill, Repo
  <2> QED
    BY <1>3, <2>1 DEF Spill, Busy, Repo
<1>4. ASSUME NEW r \in Repos, TakeQueued(r)
      PROVE  Serial'
  <2>1. queue[r] \in Seq(Deliveries) /\ queue[r] # <<>>
    BY <1>4 DEF TypeOK, TakeQueued
  <2>2. Repo(Head(queue[r])) = r
    BY <2>1, QueueHead
  <2>3. \A i \in DOMAIN Tail(queue[r]) : Repo(Tail(queue[r])[i]) = r
    BY <2>1, QueueHead
  <2>4. \A x \in Repos : \A i \in DOMAIN queue'[x] : Repo(queue'[x][i]) = x
    BY <1>4, <2>3 DEF TypeOK, TakeQueued
  <2>5. r \notin Spare
    BY DispatcherAssumption DEF DispatcherAssumption
  <2> QED
    BY <1>4, <2>2, <2>4, <2>5, RepoWorkers DEF TypeOK, TakeQueued, Start, Busy, Repo
<1>5. ASSUME NEW w \in Spare, TakeOverflow(w)
      PROVE  Serial'
  <2>1. overflow \in Seq(Deliveries) /\ overflow # <<>>
    BY <1>5 DEF TypeOK, TakeOverflow
  <2>2. Repo(Head(overflow)) \in spilled
    BY <2>1, QueueHead
  <2>3. \A i \in DOMAIN Tail(overflow) : Repo(Tail(overflow)[i]) \in spilled
    BY <2>1, QueueHead
  <2>4. w \notin Repos
    BY DispatcherAssumption DEF DispatcherAssumption
  <2> QED
    BY <1>5, <2>2, <2>3, <2>4, RepoWorkers DEF TypeOK, TakeOverflow, Start, Busy, Repo
<1>6. ASSUME NEW w \in Workers, Handle(w)
      PROVE  Serial'
  BY <1>6, HandleMoves, HandleBusy, RepoWorkers DEF Busy, HandlerSteps, Repo, calls
<1>7. ASSUME NEW w \in Workers, Exit(w)
      PROVE  Serial'
  BY <1>7, RepoWorkers DEF TypeOK, Exit, Busy, HandlerSteps, Repo, calls
<1>8. ASSUME \/ \E r \in Repos : WindowOver(r)
             \/ Stop \/ StopReturns \/ UNCHANGED vars
      PROVE  Serial'
  BY <1>8 DEF WindowOver, Stop, StopReturns, vars, calls, Busy, Repo
<1>9. ASSUME Crash
      PROVE  Serial'
  BY <1>9, RepoWorkers DEF Crash, NewWorkers, Busy, HandlerSteps
<1> QED
  BY <1>1, <1>2, <1>3, <1>4, <1>5, <1>6, <1>7, <1>8, <1>9 DEF Next

LEMMA InitInv == Init => Inv
<1> SUFFICES ASSUME Init PROVE Inv
  OBVIOUS
<1>1. proposed \subseteq Prs
  BY DEF Init, Prs
<1>2. \A w \in Workers : ~Busy(w) /\ worker[w] \in {"unborn", "idle"}
  BY DEF Init, NewWorkers, Busy, HandlerSteps
<1>3. TypeOK
  BY <1>1, <1>2, NoMarksType, DispatcherAssumption
  DEF DispatcherAssumption, Init, TypeOK, NewWorkers
<1>4. Steps /\ Serial
  BY <1>2, RepoWorkers DEF Init, Steps, Serial
<1> QED
  BY <1>3, <1>4 DEF Inv

LEMMA InvStep ==
    ASSUME Inv, [Next]_vars
    PROVE  Inv'
  BY TypeStep, StepsStep, SerialStep DEF Inv

\* The variables keep their types, and a goroutine that is in a handler has an event.
THEOREM TypeCorrect == Spec => []TypeOK
<1>1. Inv => TypeOK
  BY DEF Inv
<1> QED
  BY <1>1, InitInv, InvStep, PTL DEF Spec

-----------------------------------------------------------------------------
(* What a handler has read is still true when it writes *)

\* No other goroutine handles an event of a repository that has not overflowed.
LEMMA AloneInRepo ==
    ASSUME Serial, NEW v \in Workers, NEW w \in Workers, Busy(v), Busy(w),
           Repo(doing[v]) = Repo(doing[w]), Repo(doing[w]) \notin spilled
    PROVE  v = w
<1>1. v \in Repos /\ w \in Repos
  BY DEF Serial, Workers
<1> QED
  BY <1>1 DEF Serial

\* A step of a handler touches the watermarks of its own repository only.
LEMMA MarksOfOthers ==
    ASSUME TypeOK, NEW w \in Workers, Handle(w), NEW r \in Repos, r # Repo(doing[w])
    PROVE  marks'[r] = marks[r]
  BY DEF TypeOK, Handle, Debounce, Get, Diff, ResetMarks, List, Copy, Delete, Write, wiki

LEMMA BadReadsGrow ==
    ASSUME TypeOK, [Next]_vars
    PROVE  badReads' \in Nat /\ badReads' >= badReads
<1> badReads \in Nat
  BY DispatcherAssumption DEF DispatcherAssumption, TypeOK
<1>1. ASSUME NEW w \in Workers, Handle(w)
      PROVE  badReads' \in Nat /\ badReads' >= badReads
  BY <1>1 DEF Handle, Debounce, Get, Diff, ResetMarks, List, Copy, Delete, Write,
              Succeeds, ReadFails, WriteFails, faults
<1>2. ASSUME NEW d \in Deliveries,
             Submit(d) \/ Open(d) \/ Send(d) \/ Spill(d) \/ ContextEnds(d)
      PROVE  badReads' = badReads
  BY <1>2 DEF faults, Submit, Open, Send, Spill, ContextEnds
<1>3. ASSUME NEW r \in Repos, TakeQueued(r) \/ WindowOver(r)
      PROVE  badReads' = badReads
  BY <1>3 DEF faults, TakeQueued, WindowOver
<1>4. ASSUME NEW w \in Workers, TakeOverflow(w) \/ Exit(w)
      PROVE  badReads' = badReads
  BY <1>4 DEF faults, TakeOverflow, Exit
<1>5. ASSUME Stop \/ StopReturns \/ Crash \/ UNCHANGED vars
      PROVE  badReads' = badReads
  BY <1>5 DEF faults, Stop, StopReturns, Crash, vars
<1> QED
  BY <1>1, <1>2, <1>3, <1>4, <1>5, RepoWorkers DEF Next

LEMMA HandleCurrent ==
    ASSUME Inv, ReadsAreCurrent, NEW w \in Workers, Handle(w), badReads' >= badReads,
           badReads \in Nat, badReads' \in Nat
    PROVE  ReadsAreCurrent'
<1> DEFINE r == Repo(doing[w])
           Pre(x) == /\ worker[x] = "write" /\ Kind(doing[x]) \in {"reject", "refresh"}
                     /\ Repo(doing[x]) \notin spilled /\ doing[x] \notin dead
                     /\ badReads = 0
<1> SUFFICES ASSUME NEW x \in Workers, Pre(x)'
             PROVE  (read[x].published = marks[Repo(doing[x])].published)'
  BY DEF ReadsAreCurrent
<1>0. TypeOK /\ Serial /\ Steps /\ badReads = 0 /\ spilled' = spilled /\ dead' = dead
  BY HandleMoves DEF Inv
<1>1. Busy(w) /\ doing[w] \in Deliveries /\ r \in Repos /\ Kind(doing[w]) \in Kinds
  BY <1>0, HandleBusy, DeliveryParts
<1>2. CASE x # w
  <2>1. /\ worker'[x] = worker[x] /\ doing'[x] = doing[x] /\ read'[x] = read[x]
    BY <1>0, <1>2, HandleMoves
  <2>2. Pre(x) /\ Busy(x)
    BY <1>0, <2>1 DEF Kind, Repo, Busy, HandlerSteps
  <2>3. r # Repo(doing[x])
    BY <1>0, <1>1, <1>2, <2>2, AloneInRepo
  <2>4. Repo(doing[x]) \in Repos
    BY <1>0, <2>2, DeliveryParts DEF TypeOK
  <2>5. marks'[Repo(doing[x])] = marks[Repo(doing[x])]
    BY <1>0, <2>3, <2>4, MarksOfOthers
  <2> QED
    BY <2>1, <2>2, <2>5 DEF ReadsAreCurrent, Repo
<1>3. CASE x = w
  <2>1. doing'[w] = doing[w] /\ worker'[w] = "write"
    BY <1>0, <1>3, HandleMoves
  <2>2. Kind(doing[w]) \in {"reject", "refresh"} /\ doing[w] \notin dead /\ badReads' = 0
    BY <1>0, <1>3, <2>1 DEF Kind
  <2>3. Get(w)
    BY <1>0, <2>1, <2>2
    DEF Handle, Debounce, Diff, ResetMarks, List, Copy, Delete, Write, Return, GoTo,
        OnPageError, TypeOK, Steps
  <2>4. Succeeds(w)
    BY <2>2, <2>3, <1>0 DEF Get, ReadFails
  <2>5. read'[w] = marks[Repo(doing[w])] /\ marks' = marks
    BY <1>0, <2>2, <2>3, <2>4 DEF Get, ReadFails, TypeOK, Succeeds, faults, wiki
  <2> QED
    BY <1>3, <2>1, <2>5 DEF Repo
<1> QED
  BY <1>2, <1>3

LEMMA CurrentStep ==
    ASSUME Inv, ReadsAreCurrent, [Next]_vars
    PROVE  ReadsAreCurrent'
<1>0. TypeOK /\ badReads \in Nat /\ badReads' \in Nat /\ badReads' >= badReads
  BY BadReadsGrow, DispatcherAssumption DEF DispatcherAssumption, Inv, TypeOK
<1>1. ASSUME NEW d \in Deliveries,
             Submit(d) \/ Open(d) \/ Send(d) \/ Spill(d) \/ ContextEnds(d)
      PROVE  ReadsAreCurrent'
  BY <1>0, <1>1
  DEF TypeOK, ReadsAreCurrent, Submit, Open, Send, Spill, ContextEnds, calls, wiki, faults,
      Kind, Repo
<1>2. ASSUME \/ \E r \in Repos : WindowOver(r)
             \/ Stop \/ StopReturns \/ UNCHANGED vars
      PROVE  ReadsAreCurrent'
  BY <1>2 DEF ReadsAreCurrent, WindowOver, Stop, StopReturns, vars, calls, wiki, faults,
              Kind, Repo
<1>3. ASSUME NEW w \in Workers, NEW d \in Deliveries, Start(w, d),
             UNCHANGED <<read, spilled, dead, wiki, faults>>
      PROVE  ReadsAreCurrent'
  <2>1. Kind(d) \in Kinds /\ FirstStep(d) # "write"
    BY DeliveryParts, DispatcherAssumption DEF DispatcherAssumption, FirstStep, Kinds
  <2> QED
    BY <1>0, <1>3, <2>1 DEF TypeOK, ReadsAreCurrent, Start, wiki, faults, Kind, Repo
<1>4. ASSUME NEW r \in Repos, TakeQueued(r)
      PROVE  ReadsAreCurrent'
  BY <1>0, <1>3, <1>4, QueueHead, RepoWorkers DEF TypeOK, TakeQueued
<1>5. ASSUME NEW w \in Spare, TakeOverflow(w)
      PROVE  ReadsAreCurrent'
  BY <1>0, <1>3, <1>5, QueueHead, RepoWorkers DEF TypeOK, TakeOverflow
<1>6. ASSUME NEW w \in Workers, Exit(w)
      PROVE  ReadsAreCurrent'
  BY <1>0, <1>6 DEF TypeOK, ReadsAreCurrent, Exit, wiki, faults, Kind, Repo
<1>7. ASSUME Crash
      PROVE  ReadsAreCurrent'
  BY <1>7 DEF ReadsAreCurrent, Crash, NewWorkers
<1> QED
  BY <1>0, <1>1, <1>2, <1>4, <1>5, <1>6, <1>7, HandleCurrent DEF Next

\* What a rejection or a refresh has read is still the published commit when it writes it back,
\* while no event of the repository took the overflow queue.
THEOREM ReadsStayCurrent == Spec => []ReadsAreCurrent
<1>1. Init => ReadsAreCurrent
  BY DEF Init, ReadsAreCurrent, NewWorkers
<1>2. Inv /\ ReadsAreCurrent /\ [Next]_vars => (Inv /\ ReadsAreCurrent)'
  BY InvStep, CurrentStep
<1> QED
  BY <1>1, <1>2, InitInv, PTL DEF Spec

LEMMA OnlyByMerge ==
    ASSUME Inv, ReadsAreCurrent, [Next]_vars, NEW r \in Repos,
           marks'[r].published # marks[r].published, r \notin spilled, badReads = 0
    PROVE  MergeWrites(r) \/ HistoryRewritten(r)
<1>0. TypeOK /\ Steps
  BY DEF Inv
<1>1. PICK w \in Workers : Handle(w)
  BY DEF Next, vars, wiki, Submit, Open, Send, Spill, ContextEnds, TakeQueued,
         WindowOver, TakeOverflow, Exit, Stop, StopReturns, Crash
<1>2. Busy(w) /\ doing[w] \in Deliveries /\ Kind(doing[w]) \in Kinds /\ r = Repo(doing[w])
  BY <1>0, <1>1, HandleBusy, DeliveryParts, MarksOfOthers
<1>3. ResetMarks(w) \/ Write(w)
  BY <1>1 DEF Handle, Debounce, Get, Diff, List, Copy, Delete, wiki
<1>4. CASE ResetMarks(w)
  <2>1. marks' = [marks EXCEPT ![r] = NoMarks] /\ worker[w] = "reset"
    BY <1>2, <1>4 DEF ResetMarks
  <2> QED
    BY <1>0, <1>2, <2>1 DEF HistoryRewritten, TypeOK
<1>5. CASE Write(w)
  <2>1. /\ worker[w] = "write" /\ doing[w] \notin dead
        /\ marks' = [marks EXCEPT ![r] = NewMarks(w)]
    BY <1>2, <1>5 DEF Write, Succeeds
  <2>2. marks'[r] = NewMarks(w) /\ marks[r] \in Marks
    BY <1>0, <2>1 DEF TypeOK
  <2>3. CASE Kind(doing[w]) = "merge"
    BY <1>2, <2>1, <2>2, <2>3 DEF MergeWrites, NewMarks
  <2>4. CASE Kind(doing[w]) \in {"push", "reject"}
    BY <1>2, <2>2, <2>4 DEF NewMarks, Marks
  <2>5. CASE Kind(doing[w]) = "refresh"
    <3>1. read[w].published = marks[r].published
      BY <1>2, <2>1, <2>5 DEF ReadsAreCurrent
    <3> QED
      BY <1>2, <2>2, <2>5, <3>1 DEF NewMarks
  <2> QED
    BY <1>2, <2>3, <2>4, <2>5 DEF Kinds
<1> QED
  BY <1>3, <1>4, <1>5

\* The published commit of a repository none of whose events overflowed moves only by a merge or
\* by a force-push.
THEOREM PublishedMovesByMerge == Spec => PublishedOnlyByMerge
<1>1. Inv /\ ReadsAreCurrent /\ [Next]_vars
      => [\A r \in Repos :
             (marks'[r].published # marks[r].published /\ r \notin spilled /\ badReads = 0)
             => MergeWrites(r) \/ HistoryRewritten(r)]_vars
  BY OnlyByMerge
<1>2. Spec => []Inv
  BY InitInv, InvStep, PTL DEF Spec
<1> QED
  BY <1>1, <1>2, ReadsStayCurrent, PTL DEF Spec, PublishedOnlyByMerge

-----------------------------------------------------------------------------
(* A published commit has its pages in canonical *)

PInv == Inv /\ Promotion /\ PublishedIsPromoted

\* What the step of a handler leaves alone, grows, or takes from the proposed pages.
LEMMA HandlePages ==
    ASSUME Inv, Promotion, NEW w \in Workers, Handle(w)
    PROVE  /\ canonical \subseteq canonical'
           /\ \A e \in Events : KindOf[e] = "merge" => PrOf[e] \in proposed' \cup canonical'
<1> DEFINE d == doing[w]
<1>1. d[1] \in Events /\ TypeOK /\ Steps
  BY HandleBusy, DeliveryParts DEF Inv
<1>2. CASE Delete(w)
  <2>1. CASE d \in dead
    BY <1>2, <2>1 DEF Delete, Succeeds, Promotion
  <2>2. CASE d \notin dead /\ Kind(d) = "merge"
    <3>1. Pr(d) \in canonical /\ canonical' = canonical
      BY <1>2, <2>2 DEF Delete, Promotion
    <3>2. proposed \ {Pr(d)} \subseteq proposed'
      BY <1>2 DEF Delete
    <3> QED
      BY <3>1, <3>2 DEF Promotion
  <2>3. CASE Kind(d) = "reject"
    <3>1. \A e \in Events : KindOf[e] = "merge" => PrOf[e] # Pr(d)
      BY <1>1, <2>3, PrAssumption DEF PrAssumption, Kind, Pr
    <3>2. proposed \ {Pr(d)} \subseteq proposed' /\ canonical' = canonical
      BY <1>2 DEF Delete
    <3> QED
      BY <3>1, <3>2 DEF Promotion
  <2> QED
    BY <1>1, <1>2, <2>1, <2>2, <2>3 DEF Steps, Delete
<1>3. CASE Copy(w)
  BY <1>3 DEF Copy, Promotion
<1>4. CASE ~Delete(w) /\ ~Copy(w)
  BY <1>4 DEF Handle, Debounce, Get, Diff, ResetMarks, List, Write, wiki, Promotion
<1> QED
  BY <1>2, <1>3, <1>4

LEMMA HandlePast ==
    ASSUME Inv, Promotion, MaxBadReads = 0, NEW w \in Workers, Handle(w),
           worker'[w] \in {"delete", "write"}, Kind(doing'[w]) = "merge"
    PROVE  Pr(doing'[w]) \in canonical' \/ doing'[w] \in dead'
<1>1. TypeOK /\ Steps /\ Busy(w) /\ doing[w] \in Deliveries
  BY HandleBusy DEF Inv
<1>2. doing'[w] = doing[w] /\ dead' = dead
  BY <1>1, HandleMoves
<1>3. KindOf[doing[w][1]] = "merge" /\ doing[w][1] \in Events /\ badReads = 0
  BY <1>1, <1>2, DeliveryParts DEF Kind, TypeOK
<1>4. CASE List(w)
  <2>1. doing[w] \in dead \/ (worker'[w] = "write" => Pr(doing[w]) \notin proposed)
    BY <1>1, <1>3, <1>4 DEF List, Succeeds, ReadFails, GoTo, TypeOK
  <2>2. worker'[w] # "delete" /\ canonical' = canonical
    BY <1>1, <1>4 DEF List, GoTo, TypeOK, wiki
  <2> QED
    BY <1>2, <1>3, <2>1, <2>2 DEF Promotion, Pr
<1>5. CASE Copy(w)
  BY <1>1, <1>2, <1>5 DEF Copy, OnPageError, Return, GoTo, TypeOK
<1>6. CASE Delete(w)
  <2>1. Pr(doing[w]) \in canonical \/ doing[w] \in dead
    BY <1>2, <1>6 DEF Delete, Promotion
  <2> QED
    BY <1>2, <1>6, <2>1 DEF Delete
<1>7. CASE Debounce(w) \/ Get(w) \/ Diff(w) \/ ResetMarks(w)
  BY <1>1, <1>2, <1>7 DEF Debounce, Get, Diff, ResetMarks, Steps
<1>8. CASE Write(w)
  BY <1>1, <1>8 DEF Write, Return, TypeOK
<1> QED
  BY <1>4, <1>5, <1>6, <1>7, <1>8 DEF Handle

LEMMA HandleReads ==
    ASSUME Inv, Promotion, PublishedIsPromoted, NEW w \in Workers, Handle(w),
           canonical \subseteq canonical', NEW e \in Events, KindOf[e] = "merge",
           Busy(w)', Repo(doing'[w]) = RepoOf[e], read'[w].published = ShaOf[e]
    PROVE  PrOf[e] \in canonical'
<1>1. TypeOK /\ Busy(w) /\ doing'[w] = doing[w] /\ ShaOf[e] # NoSha
  BY HandleBusy, HandleMoves, DispatcherAssumption
  DEF DispatcherAssumption, Inv, Busy, HandlerSteps
<1>2. CASE Get(w)
  <2>1. read'[w] \in {marks[Repo(doing[w])], NoMarks}
    BY <1>1, <1>2 DEF Get, TypeOK
  <2>2. Repo(doing[w]) = RepoOf[e]
    BY <1>1 DEF Repo
  <2>3. marks[RepoOf[e]].published = ShaOf[e]
    BY <1>1, <2>1, <2>2, NoMarksType
  <2> QED
    BY <2>3 DEF PublishedIsPromoted
<1>3. CASE ~Get(w)
  <2>1. read'[w] = read[w]
    BY <1>1, <1>3
    DEF Handle, Debounce, Diff, ResetMarks, List, Copy, Delete, Write, Return, GoTo,
        OnPageError, Busy, HandlerSteps, TypeOK
  <2> QED
    BY <1>1, <2>1 DEF Promotion, Repo
<1> QED
  BY <1>2, <1>3

LEMMA HandlePublished ==
    ASSUME Inv, Promotion, PublishedIsPromoted, NEW w \in Workers, Handle(w),
           canonical \subseteq canonical', NEW e \in Events, KindOf[e] = "merge",
           marks'[RepoOf[e]].published = ShaOf[e]
    PROVE  PrOf[e] \in canonical'
<1>1. /\ TypeOK /\ Busy(w) /\ doing[w] \in Deliveries /\ doing[w][1] \in Events
      /\ Repo(doing[w]) \in Repos /\ Kind(doing[w]) \in Kinds
      /\ ShaOf[e] # NoSha /\ RepoOf[e] \in Repos
  BY HandleBusy, DeliveryParts, DispatcherAssumption DEF DispatcherAssumption, Inv
<1>2. CASE marks'[RepoOf[e]] = marks[RepoOf[e]]
  BY <1>2 DEF PublishedIsPromoted
<1>3. CASE marks'[RepoOf[e]] # marks[RepoOf[e]]
  <2>1. RepoOf[e] = Repo(doing[w])
    BY <1>1, <1>3, MarksOfOthers
  <2>2. ResetMarks(w) \/ Write(w)
    BY <1>3 DEF Handle, Debounce, Get, Diff, List, Copy, Delete, wiki
  <2>3. CASE ResetMarks(w)
    BY <1>1, <1>3, <2>1, <2>3, NoMarksType DEF ResetMarks, TypeOK
  <2>4. CASE Write(w)
    <3>1. /\ worker[w] = "write" /\ doing[w] \notin dead
          /\ marks'[RepoOf[e]] = NewMarks(w)
      BY <1>1, <1>3, <2>1, <2>4 DEF Write, Succeeds, TypeOK
    <3>2. CASE Kind(doing[w]) \in {"push", "reject"}
      <4>1. marks[RepoOf[e]].published = ShaOf[e]
        BY <1>1, <2>1, <3>1, <3>2 DEF NewMarks, Marks, TypeOK
      <4> QED
        BY <4>1 DEF PublishedIsPromoted
    <3>3. CASE Kind(doing[w]) = "merge"
      <4>1. Sha(doing[w]) = ShaOf[e]
        BY <3>1, <3>3 DEF NewMarks
      <4>2. Pr(doing[w]) = PrOf[e]
        BY <1>1, <2>1, <3>3, <4>1, PrAssumption DEF PrAssumption, Sha, Repo, Kind, Pr
      <4> QED
        BY <3>1, <3>3, <4>2 DEF Promotion
    <3>4. CASE Kind(doing[w]) = "refresh"
      <4>1. read[w].published = ShaOf[e]
        BY <3>1, <3>4 DEF NewMarks
      <4> QED
        BY <1>1, <2>1, <4>1 DEF Promotion
    <3> QED
      BY <1>1, <3>2, <3>3, <3>4 DEF Kinds
  <2> QED
    BY <2>2, <2>3, <2>4
<1> QED
  BY <1>2, <1>3

LEMMA HandlePInv ==
    ASSUME PInv, MaxBadReads = 0, NEW w \in Workers, Handle(w)
    PROVE  Promotion' /\ PublishedIsPromoted'
<1>0. Inv /\ Promotion /\ PublishedIsPromoted /\ TypeOK
  BY DEF PInv, Inv
<1>1. /\ canonical \subseteq canonical'
      /\ \A e \in Events : KindOf[e] = "merge" => PrOf[e] \in proposed' \cup canonical'
  BY <1>0, HandlePages
<1>2. ASSUME NEW x \in Workers, worker'[x] \in {"delete", "write"}, Kind(doing'[x]) = "merge"
      PROVE  Pr(doing'[x]) \in canonical' \/ doing'[x] \in dead'
  <2>1. CASE x = w
    BY <1>0, <1>2, <2>1, HandlePast
  <2>2. CASE x # w
    <3>1. worker'[x] = worker[x] /\ doing'[x] = doing[x] /\ dead' = dead
      BY <1>0, <2>2, HandleMoves
    <3> QED
      BY <1>0, <1>1, <1>2, <3>1 DEF Promotion, Kind, Pr
  <2> QED
    BY <2>1, <2>2
<1>3. ASSUME NEW x \in Workers, NEW e \in Events, KindOf[e] = "merge", Busy(x)',
             Repo(doing'[x]) = RepoOf[e], read'[x].published = ShaOf[e]
      PROVE  PrOf[e] \in canonical'
  <2>1. CASE x = w
    BY <1>0, <1>1, <1>3, <2>1, HandleReads
  <2>2. CASE x # w
    <3>1. worker'[x] = worker[x] /\ doing'[x] = doing[x] /\ read'[x] = read[x]
      BY <1>0, <2>2, HandleMoves
    <3> QED
      BY <1>0, <1>1, <1>3, <3>1 DEF Promotion, Busy, Repo
  <2> QED
    BY <2>1, <2>2
<1>4. PublishedIsPromoted'
  BY <1>0, <1>1, HandlePublished DEF PublishedIsPromoted
<1>5. Promotion'
  BY <1>1, <1>2, <1>3 DEF Promotion, Kind, Pr, Repo
<1> QED
  BY <1>4, <1>5

LEMMA StartPInv ==
    ASSUME PInv, NEW w \in Workers, worker[w] = "idle", NEW d \in Deliveries, Start(w, d),
           UNCHANGED <<read, dead, wiki>>
    PROVE  Promotion' /\ PublishedIsPromoted'
<1>1. Kind(d) \in Kinds /\ (FirstStep(d) \in {"delete", "write"} => Kind(d) # "merge")
  BY DeliveryParts, DispatcherAssumption DEF DispatcherAssumption, FirstStep, Kinds
<1>2. read[w].published = NoSha /\ \A e \in Events : ShaOf[e] # NoSha
  BY NoMarksType, DispatcherAssumption
  DEF DispatcherAssumption, PInv, Inv, Steps, Busy, HandlerSteps
<1>3. ASSUME NEW x \in Workers, NEW e \in Events, KindOf[e] = "merge", Busy(x)',
             Repo(doing'[x]) = RepoOf[e], read'[x].published = ShaOf[e]
      PROVE  PrOf[e] \in canonical'
  <2>1. x # w
    BY <1>2, <1>3
  <2>2. worker'[x] = worker[x] /\ doing'[x] = doing[x]
    BY <2>1 DEF PInv, Inv, TypeOK, Start
  <2> QED
    BY <1>3, <2>2 DEF PInv, Promotion, wiki, Busy, Repo
<1>4. ASSUME NEW x \in Workers, worker'[x] \in {"delete", "write"}, Kind(doing'[x]) = "merge"
      PROVE  Pr(doing'[x]) \in canonical' \/ doing'[x] \in dead'
  <2>1. x # w
    BY <1>1, <1>4 DEF PInv, Inv, TypeOK, Start
  <2>2. worker'[x] = worker[x] /\ doing'[x] = doing[x]
    BY <2>1 DEF PInv, Inv, TypeOK, Start
  <2> QED
    BY <1>4, <2>2 DEF PInv, Promotion, wiki, Kind, Pr
<1> QED
  BY <1>3, <1>4 DEF PInv, Promotion, PublishedIsPromoted, wiki, Kind, Pr, Repo

LEMMA PStep ==
    ASSUME PInv, MaxBadReads = 0, [Next]_vars
    PROVE  PInv'
<1> USE DEF PInv, Promotion, PublishedIsPromoted, wiki, Busy, HandlerSteps, Kind, Repo, Pr
<1>0. Inv' /\ TypeOK
  BY InvStep DEF Inv
<1>1. ASSUME NEW d \in Deliveries,
             Submit(d) \/ Open(d) \/ Send(d) \/ Spill(d) \/ ContextEnds(d)
      PROVE  Promotion' /\ PublishedIsPromoted'
  BY ZenonT(60), <1>0, <1>1 DEF TypeOK, Submit, Open, Send, Spill, ContextEnds
<1>2. ASSUME \/ \E r \in Repos : WindowOver(r)
             \/ Stop \/ StopReturns \/ UNCHANGED vars
      PROVE  Promotion' /\ PublishedIsPromoted'
  BY <1>2 DEF WindowOver, Stop, StopReturns, vars
<1>3. ASSUME NEW r \in Repos, TakeQueued(r)
      PROVE  Promotion' /\ PublishedIsPromoted'
  <2>1. Head(queue[r]) \in Deliveries
    BY <1>0, <1>3, QueueHead DEF TypeOK, TakeQueued
  <2>2. Start(r, Head(queue[r])) /\ UNCHANGED <<read, dead, wiki>> /\ worker[r] = "idle"
    BY <1>3 DEF TakeQueued
  <2> QED
    BY <2>1, <2>2, StartPInv, RepoWorkers
<1>4. ASSUME NEW w \in Spare, TakeOverflow(w)
      PROVE  Promotion' /\ PublishedIsPromoted'
  <2>1. Head(overflow) \in Deliveries
    BY <1>0, <1>4, QueueHead DEF TypeOK, TakeOverflow
  <2>2. Start(w, Head(overflow)) /\ UNCHANGED <<read, dead, wiki>> /\ worker[w] = "idle"
    BY <1>4 DEF TakeOverflow
  <2> QED
    BY <2>1, <2>2, StartPInv, RepoWorkers
<1>5. ASSUME NEW w \in Workers, Exit(w)
      PROVE  Promotion' /\ PublishedIsPromoted'
  BY <1>0, <1>5 DEF TypeOK, Exit
<1>6. ASSUME Crash
      PROVE  Promotion' /\ PublishedIsPromoted'
  BY <1>6 DEF Crash, NewWorkers
<1> QED
  BY <1>0, <1>1, <1>2, <1>3, <1>4, <1>5, <1>6, HandlePInv DEF Next

\* When reads do not fail, a published commit has its pages in canonical, whatever else fails,
\* crashes, overflows or comes twice.
THEOREM PublishedStaysPromoted ==
    ASSUME MaxBadReads = 0
    PROVE  Spec => []PublishedIsPromoted
<1>1. Init => PInv
  <2> SUFFICES ASSUME Init PROVE PInv
    OBVIOUS
  <2>1. \A w \in Workers : worker[w] \in {"unborn", "idle"}
    BY DEF Init, NewWorkers
  <2>2. \A e \in Events : KindOf[e] = "merge" => PrOf[e] \in proposed
    BY DEF Init
  <2>3. \A e \in Events : marks[RepoOf[e]].published # ShaOf[e]
    BY NoMarksType, DispatcherAssumption DEF DispatcherAssumption, Init
  <2> QED
    BY <2>1, <2>2, <2>3, InitInv
    DEF PInv, Promotion, PublishedIsPromoted, Busy, HandlerSteps
<1>2. PInv /\ [Next]_vars => PInv'
  BY PStep
<1>3. PInv => PublishedIsPromoted
  BY DEF PInv
<1> QED
  BY <1>1, <1>2, <1>3, PTL DEF Spec

-----------------------------------------------------------------------------
(* What Stop promises *)

QInv == Inv /\ Promise /\ CleanStopKeepsPromise

\* A delivery that is still to be handled, at the repository whose goroutine has it.
Kept(d, r) ==
    \/ Busy(r) /\ doing[r] = d
    \/ worker[r] # "exited" /\ InQueue(d, queue[r])

LEMMA PromiseKept ==
    ASSUME Promise, stop # "no", NEW d \in promised, d \notin done
    PROVE  \E r \in Repos : Kept(d, r)
  BY DEF Promise, Kept

LEMMA KeptPromise ==
    ASSUME stop = "no" => \A w \in Workers : worker[w] # "exited",
           \A r \in Repos : queue[r] # <<>> => worker[r] # "unborn",
           stop # "no" =>
              \A d \in promised : d \in done \/ \E r \in Repos : Kept(d, r)
    PROVE  Promise
  BY DEF Promise, Kept

LEMMA QueuedNotEmpty ==
    ASSUME NEW d, NEW q, InQueue(d, q)
    PROVE  q # <<>>
  BY DEF InQueue

\* A step of a repository's goroutine, or a new event, keeps what is to be handled.
LEMMA SendKeeps ==
    ASSUME TypeOK, NEW x \in Deliveries, Send(x) \/ Open(x)
    PROVE  \A r \in Repos : \A d : Kept(d, r) => Kept(d, r)'
<1> SUFFICES ASSUME NEW r \in Repos, NEW d, Kept(d, r)
             PROVE  Kept(d, r)'
  OBVIOUS
<1>0. Repo(x) \in Repos /\ Repo(x) \in Workers
  BY DeliveryParts, RepoWorkers
<1>1. CASE Open(x)
  BY <1>0, <1>1, RepoWorkers DEF TypeOK, Open, calls, Kept, Busy, HandlerSteps, InQueue
<1>2. CASE Send(x)
  <2>1. queue'[r] \in {queue[r], Append(queue[r], x)} /\ queue[r] \in Seq(Deliveries)
    BY <1>0, <1>2 DEF TypeOK, Send, SendTo
  <2>2. InQueue(d, queue[r]) => InQueue(d, queue'[r])
    BY SMTT(30), <2>1, QueueEnds DEF InQueue
  <2> QED
    BY <1>2, <2>2 DEF Send, Kept, Busy
<1> QED
  BY <1>1, <1>2

LEMMA TakeKeeps ==
    ASSUME TypeOK, NEW x \in Repos, TakeQueued(x)
    PROVE  \A r \in Repos : \A d : Kept(d, r) => Kept(d, r)'
<1> SUFFICES ASSUME NEW r \in Repos, NEW d, Kept(d, r)
             PROVE  Kept(d, r)'
  OBVIOUS
<1>1. queue[x] \in Seq(Deliveries) /\ queue[x] # <<>> /\ worker[x] = "idle" /\ x \in Workers
  BY RepoWorkers DEF TypeOK, TakeQueued
<1>2. CASE r # x
  BY <1>1, <1>2, RepoWorkers DEF TypeOK, TakeQueued, Start, Kept, Busy
<1>3. CASE r = x
  <2>1. InQueue(d, queue[x]) /\ queue'[x] = Tail(queue[x])
    BY <1>1, <1>3 DEF TypeOK, TakeQueued, Kept, Busy, HandlerSteps
  <2>2. d = Head(queue[x]) \/ InQueue(d, queue'[x])
    BY <1>1, <2>1, QueueHead DEF InQueue
  <2>3. Head(queue[x]) \in Deliveries
    BY <1>1, QueueHead
  <2>4. Busy(x)' /\ doing'[x] = Head(queue[x])
    <3>1. FirstStep(Head(queue[x])) \in HandlerSteps
      BY <2>3, DeliveryParts, DispatcherAssumption
      DEF DispatcherAssumption, FirstStep, HandlerSteps, Kinds
    <3> QED
      BY <1>1, <3>1 DEF TypeOK, TakeQueued, Start, Busy
  <2> QED
    BY <1>3, <2>2, <2>4 DEF Kept, Busy, HandlerSteps
<1> QED
  BY <1>2, <1>3

LEMMA HandleKeeps ==
    ASSUME TypeOK, NEW w \in Workers, Handle(w)
    PROVE  \A r \in Repos : \A d : Kept(d, r) => Kept(d, r)' \/ d \in done'
  BY HandleMoves, HandleBusy, RepoWorkers DEF Kept, Busy, HandlerSteps, calls

LEMMA ExitKeeps ==
    ASSUME TypeOK, NEW w \in Workers, Exit(w)
    PROVE  \A r \in Repos : \A d : Kept(d, r) => Kept(d, r)'
<1> SUFFICES ASSUME NEW r \in Repos, NEW d, Kept(d, r)
             PROVE  Kept(d, r)'
  OBVIOUS
<1>1. CASE r # w
  BY <1>1, RepoWorkers DEF TypeOK, Exit, calls, Kept, Busy
<1>2. CASE r = w
  <2>1. queue[r] = <<>> /\ ~Busy(r)
    BY <1>2 DEF Exit, Leaves, Busy, HandlerSteps
  <2> QED
    BY <2>1, QueuedNotEmpty DEF Kept
<1> QED
  BY <1>1, <1>2

\* Stop promises exactly what is in a handler or a queue of a goroutine that still runs.
LEMMA StopPromises ==
    ASSUME Inv, Promise, Stop
    PROVE  Promise'
<1>1. \A r \in Repos : worker[r] # "exited"
  BY RepoWorkers DEF Promise, Stop
<1>2. \A d \in Deliveries : \A r \in Repos : doing[r] = d => Busy(r)
  BY RepoWorkers, DeliveryParts DEF Inv, Steps
<1>3. \A d \in promised' : \E r \in Repos : Kept(d, r)
  BY <1>1, <1>2 DEF Stop, Kept
<1>4. \A r \in Repos : \A d : Kept(d, r) => Kept(d, r)'
  BY DEF Stop, calls, Kept, Busy
<1> QED
  BY <1>3, <1>4 DEF Stop, calls, Promise, Kept

\* When every goroutine has left nothing is kept any more.
LEMMA ReturnsHandled ==
    ASSUME Promise, StopReturns
    PROVE  promised \subseteq done
<1>1. \A r \in Repos : worker[r] \in {"unborn", "exited"}
  BY RepoWorkers DEF StopReturns, AllLeft
<1>2. \A r \in Repos : \A d : ~Kept(d, r)
  BY <1>1, QueuedNotEmpty DEF Promise, Kept, Busy, HandlerSteps
<1> QED
  BY <1>2, PromiseKept DEF StopReturns

\* Steps that neither stop nor restart the dispatcher.
LEMMA RunningPromise ==
    ASSUME QInv, UNCHANGED <<stop, promised>>, done \subseteq done',
           \A r \in Repos : \A d : Kept(d, r) => Kept(d, r)' \/ d \in done',
           stop = "no" => \A w \in Workers : worker'[w] # "exited",
           \A r \in Repos : queue'[r] # <<>> => worker'[r] # "unborn"
    PROVE  Promise' /\ CleanStopKeepsPromise'
<1>1. stop # "no" => \A d \in promised : d \in done' \/ \E r \in Repos : Kept(d, r)'
  BY PromiseKept DEF QInv
<1> QED
  BY <1>1 DEF QInv, Promise, Kept, CleanStopKeepsPromise

LEMMA QStep ==
    ASSUME QInv, [Next]_vars
    PROVE  QInv'
<1>0. Inv' /\ TypeOK /\ Promise
  BY InvStep DEF QInv, Inv
<1>1. ASSUME NEW d \in Deliveries, Send(d) \/ Open(d)
      PROVE  Promise' /\ CleanStopKeepsPromise'
  <2>1. Repo(d) \in Repos /\ Repo(d) \in Workers
    BY DeliveryParts, RepoWorkers
  <2>2. /\ stop = "no" => \A w \in Workers : worker'[w] # "exited"
        /\ \A r \in Repos : queue'[r] # <<>> => worker'[r] # "unborn"
    BY <1>0, <1>1, <2>1, RepoWorkers DEF TypeOK, Send, SendTo, Open, calls, Promise
  <2>3. UNCHANGED <<stop, promised, done>>
    BY <1>1 DEF Send, Open
  <2> QED
    BY <1>0, <1>1, <2>2, <2>3, SendKeeps, RunningPromise
<1>2. ASSUME NEW r \in Repos, TakeQueued(r)
      PROVE  Promise' /\ CleanStopKeepsPromise'
  <2>1. UNCHANGED <<stop, promised, done>>
    BY <1>2 DEF TakeQueued
  <2>2. FirstStep(Head(queue[r])) \in HandlerSteps
    BY <1>0, <1>2, QueueHead, DeliveryParts, DispatcherAssumption
    DEF DispatcherAssumption, TypeOK, TakeQueued, FirstStep, HandlerSteps, Kinds
  <2>3. /\ stop = "no" => \A w \in Workers : worker'[w] # "exited"
        /\ \A x \in Repos : queue'[x] # <<>> => worker'[x] # "unborn"
    BY <1>0, <1>2, <2>2, RepoWorkers DEF TypeOK, TakeQueued, Start, Promise, HandlerSteps
  <2> QED
    BY <1>0, <1>2, <2>1, <2>3, TakeKeeps, RunningPromise
<1>3. ASSUME NEW w \in Spare, TakeOverflow(w)
      PROVE  Promise' /\ CleanStopKeepsPromise'
  <2>1. UNCHANGED <<stop, promised, done, queue>> /\ w \notin Repos
    BY <1>3, DispatcherAssumption DEF DispatcherAssumption, TakeOverflow
  <2>2. FirstStep(Head(overflow)) \in HandlerSteps
    BY <1>0, <1>3, QueueHead, DeliveryParts, DispatcherAssumption
    DEF DispatcherAssumption, TypeOK, TakeOverflow, FirstStep, HandlerSteps, Kinds
  <2>3. /\ stop = "no" => \A x \in Workers : worker'[x] # "exited"
        /\ \A x \in Repos : queue'[x] # <<>> => worker'[x] # "unborn"
    BY <1>0, <1>3, <2>1, <2>2, RepoWorkers
    DEF TypeOK, TakeOverflow, Start, Promise, HandlerSteps
  <2>4. \A r \in Repos : \A d : Kept(d, r) => Kept(d, r)'
    BY <1>0, <1>3, <2>1, RepoWorkers DEF TypeOK, TakeOverflow, Start, Kept, Busy
  <2> QED
    BY <2>1, <2>3, <2>4, RunningPromise
<1>4. ASSUME NEW w \in Workers, Handle(w)
      PROVE  Promise' /\ CleanStopKeepsPromise'
  <2>1. UNCHANGED <<stop, promised, queue>> /\ done \subseteq done'
    BY <1>0, <1>4, HandleMoves DEF calls
  <2>2. /\ stop = "no" => \A x \in Workers : worker'[x] # "exited"
        /\ \A x \in Repos : queue'[x] # <<>> => worker'[x] # "unborn"
    BY <1>0, <1>4, <2>1, HandleMoves, RepoWorkers DEF Promise, Busy, HandlerSteps
  <2> QED
    BY <1>0, <1>4, <2>1, <2>2, HandleKeeps, RunningPromise
<1>5. ASSUME NEW w \in Workers, Exit(w)
      PROVE  Promise' /\ CleanStopKeepsPromise'
  <2>1. UNCHANGED <<stop, promised, done, queue>> /\ stop # "no"
    BY <1>5 DEF Exit, Leaves, calls
  <2>2. \A x \in Repos : queue'[x] # <<>> => worker'[x] # "unborn"
    BY <1>0, <1>5, <2>1, RepoWorkers DEF TypeOK, Exit, Promise
  <2> QED
    BY <1>0, <1>5, <2>1, <2>2, ExitKeeps, RunningPromise
<1>6. ASSUME \/ \E d \in Deliveries : Submit(d) \/ Spill(d) \/ ContextEnds(d)
             \/ \E r \in Repos : WindowOver(r)
             \/ UNCHANGED vars
      PROVE  Promise' /\ CleanStopKeepsPromise'
  <2>1. UNCHANGED <<stop, promised, done, queue, worker, doing>>
    BY <1>6 DEF Submit, Spill, ContextEnds, WindowOver, vars, calls
  <2>2. \A r \in Repos : \A d : Kept(d, r) => Kept(d, r)'
    BY <2>1 DEF Kept, Busy
  <2> QED
    BY <1>0, <2>1, <2>2, RunningPromise DEF Promise
<1>7. ASSUME Stop
      PROVE  Promise' /\ CleanStopKeepsPromise'
  BY <1>0, <1>7, StopPromises DEF QInv, Stop, CleanStopKeepsPromise
<1>8. ASSUME StopReturns
      PROVE  Promise' /\ CleanStopKeepsPromise'
  <2>1. promised' \subseteq done'
    BY <1>0, <1>8, ReturnsHandled DEF StopReturns
  <2> QED
    BY <1>0, <1>8, <2>1
    DEF StopReturns, calls, CleanStopKeepsPromise, Promise
<1>9. ASSUME Crash
      PROVE  Promise' /\ CleanStopKeepsPromise'
  BY <1>9 DEF Crash, NewWorkers, Promise, CleanStopKeepsPromise
<1> QED
  BY <1>0, <1>1, <1>2, <1>3, <1>4, <1>5, <1>6, <1>7, <1>8, <1>9 DEF Next, QInv

\* After Stop returned nil, all that was queued or in a repository's handler when it was called
\* has been handled.
THEOREM StopKeepsPromise == Spec => []CleanStopKeepsPromise
<1>1. Init => QInv
  BY InitInv DEF Init, QInv, Promise, CleanStopKeepsPromise, NewWorkers
<1>2. QInv /\ [Next]_vars => QInv'
  BY QStep
<1>3. QInv => CleanStopKeepsPromise
  BY DEF QInv
<1> QED
  BY <1>1, <1>2, <1>3, PTL DEF Spec
=============================================================================
