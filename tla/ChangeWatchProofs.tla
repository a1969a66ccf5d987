-------------------------- MODULE ChangeWatchProofs --------------------------
(***************************************************************************)
(* Proofs about ChangeWatch, for any files, contents and slots, any        *)
(* debounce and windows: types, and that nothing slips through between the *)
(* kernel's event and the store.                                           *)
(*                                                                         *)
(* The strengthening has two parts.  While nobody calls record_change and  *)
(* no timer was forgotten, a submission in progress keeps the next flush   *)
(* away, so there is one at a time.  And a file whose content the store    *)
(* does not have is somewhere on its way there, or was given up.           *)
(***************************************************************************)
EXTENDS ChangeWatch, TLAPS

-----------------------------------------------------------------------------
(* Type correctness *)

SlotTypeOK ==
    /\ step \in [Slots -> {"idle", "read", "admit", "index", "merge", "commit"}]
    /\ files \in [Slots -> SUBSET Files] /\ key \in [Slots -> Hashes]
    /\ view \in [Slots -> [Files -> Values]] /\ unread \in [Slots -> SUBSET Files]
    /\ age \in [Slots -> 0 .. MaxSubmit]

WatcherTypeOK ==
    /\ disk \in [Files -> Values] /\ raw \in Seq(Files \X Ops)
    /\ watched \in BOOLEAN /\ pending \in [Files -> Ops \cup {"none"}]
    /\ timer \in 0 .. Debounce /\ loose \in [1 .. Debounce -> Nat] /\ due \in Nat
    /\ raced \in BOOLEAN

RouterTypeOK ==
    /\ prev \in [Files -> Values] /\ store \in [Files -> Values]
    /\ fresh \in {"fresh", "stale", "suspect"} /\ dropped \subseteq Files
    /\ seen \subseteq [key : Hashes, age : 0 .. DedupWindow - 1]

BudgetTypeOK ==
    /\ edits \in 0 .. MaxEdits /\ calls \in 0 .. MaxCalls
    /\ refusals \in 0 .. MaxRefusals /\ failures \in 0 .. MaxFailures

LEMMA TypeParts == TypeOK <=> SlotTypeOK /\ WatcherTypeOK /\ RouterTypeOK /\ BudgetTypeOK
BY DEF TypeOK, SlotTypeOK, WatcherTypeOK, RouterTypeOK, BudgetTypeOK

\* A hash is a function on some files.
LEMMA HashType ==
    ASSUME NEW S \in SUBSET Files, NEW h \in [S -> Values]
    PROVE  h \in Hashes
BY DEF Hashes

LEMMA NoHashType == NoHash \in Hashes
<1>1. NoHash \in [{} -> Values]
  BY DEF NoHash
<1> QED
  BY <1>1, HashType

LEMMA HashDomain ==
    ASSUME NEW h \in Hashes
    PROVE  DOMAIN h \subseteq Files
BY DEF Hashes

LEMMA HashesOfType ==
    ASSUME disk \in [Files -> Values], NEW S \in SUBSET Files
    PROVE  HashesOf(S) \in Hashes
<1>1. HashesOf(S) \in [{x \in S : disk[x] # Absent} -> Values]
  BY DEF HashesOf
<1> QED
  BY <1>1, HashType

LEMMA TypeInit == Init => TypeOK
<1> SUFFICES ASSUME Init PROVE TypeOK
  OBVIOUS
<1> USE WatchAssumption DEF WatchAssumption, Init, Values
<1>1. SlotTypeOK
  BY NoHashType DEF SlotTypeOK, Nowhere
<1>2. /\ raw \in Seq(Files \X Ops) /\ pending \in [Files -> Ops \cup {"none"}]
      /\ timer \in 0 .. Debounce /\ loose \in [1 .. Debounce -> Nat]
  OBVIOUS
<1>3. /\ edits \in 0 .. MaxEdits /\ calls \in 0 .. MaxCalls
      /\ refusals \in 0 .. MaxRefusals /\ failures \in 0 .. MaxFailures
  OBVIOUS
<1>4. seen \subseteq [key : Hashes, age : 0 .. DedupWindow - 1]
  OBVIOUS
<1> QED
  BY <1>1, <1>2, <1>3, <1>4 DEF TypeOK, SlotTypeOK

\* A submission that ends leaves an empty slot.
LEMMA EndsType ==
    ASSUME SlotTypeOK, NEW g \in Slots, Ends(g)
    PROVE  SlotTypeOK'
<1> USE DEF SlotTypeOK, Ends, Goes
<1>1. key' \in [Slots -> Hashes]
  BY NoHashType
<1>2. view' \in [Slots -> [Files -> Values]]
  BY DEF Nowhere, Values
<1>3. age' \in [Slots -> 0 .. MaxSubmit]
  BY WatchAssumption DEF WatchAssumption
<1> QED
  BY <1>1, <1>2, <1>3

LEMMA SlotType ==
    ASSUME TypeOK, [Next]_vars
    PROVE  SlotTypeOK'
<1> USE DEF TypeOK
<1>0. SlotTypeOK
  BY DEF SlotTypeOK
<1>1. CASE UNCHANGED slot
  BY <1>0, <1>1 DEF slot, SlotTypeOK
<1>2. CASE Pass
  BY <1>0, <1>2, WatchAssumption DEF Pass, SlotTypeOK, WatchAssumption
<1>3. ASSUME NEW g \in Slots, Flush(g)
      PROVE  SlotTypeOK'
  <2>1. CASE Batch = {}
    BY <1>1, <1>3, <2>1 DEF Flush
  <2>2. CASE Drain(g)
    <3> DEFINE h == [f \in {x \in Batch : pending[x] # "deleted"} |-> Absent]
    <3>1. h \in Hashes
      <4>1. h \in [{x \in Batch : pending[x] # "deleted"} -> Values]
        BY DEF Values
      <4>2. {x \in Batch : pending[x] # "deleted"} \in SUBSET Files
        BY DEF Batch
      <4> QED
        BY <4>1, <4>2, HashType
    <3>2. key' = [key EXCEPT ![g] = h] /\ Batch \subseteq Files
      BY <2>2 DEF Drain, Batch
    <3> HIDE DEF h
    <3> QED
      BY <1>0, <2>2, <3>1, <3>2 DEF Drain, SlotTypeOK
  <2> QED
    BY <1>3, <2>1, <2>2 DEF Flush
<1>4. ASSUME NEW g \in Slots, NEW S \in SUBSET Files, Call(g, S)
      PROVE  SlotTypeOK'
  <2>1. key' \in [Slots -> Hashes]
    BY <1>4, NoHashType, HashesOfType DEF Call
  <2> QED
    BY <1>0, <1>4, <2>1 DEF Call, Goes, SlotTypeOK
<1>5. ASSUME NEW g \in Slots, Read(g)
      PROVE  SlotTypeOK'
  <2>1. HashesOf(DOMAIN key[g]) \in Hashes
    BY HashesOfType, HashDomain
  <2>2. CASE ~Ends(g)
    BY <1>0, <1>5, <2>1, <2>2 DEF Read, Goes, GivesUp, SlotTypeOK
  <2> QED
    BY <1>0, <2>2, EndsType
<1>6. ASSUME NEW g \in Slots, Admit(g)
      PROVE  SlotTypeOK'
  <2>1. CASE ~Ends(g)
    BY <1>0, <1>6, <2>1 DEF Admit, Goes, GivesUp, SlotTypeOK
  <2> QED
    BY <1>0, <2>1, EndsType
<1>7. ASSUME NEW g \in Slots, Index(g)
      PROVE  SlotTypeOK'
  <2>1. ASSUME NEW S \in SUBSET files[g], Goes(g, "merge"),
               view' = [view EXCEPT ![g] = [f \in Files |-> IF f \in S THEN disk[f] ELSE @[f]]],
               unread' = [unread EXCEPT ![g] = files[g] \ S], UNCHANGED <<files, key, age>>
        PROVE  SlotTypeOK'
    <3>1. view' \in [Slots -> [Files -> Values]]
      BY <2>1
    <3> QED
      BY <1>0, <2>1, <3>1 DEF Goes, SlotTypeOK
  <2> QED
    BY <1>0, <1>7, <2>1, EndsType DEF Index, GivesUp
<1>8. ASSUME NEW g \in Slots, Merge(g)
      PROVE  SlotTypeOK'
  <2>1. CASE ~Ends(g)
    BY <1>0, <1>8, <2>1 DEF Merge, Goes, GivesUp, SlotTypeOK
  <2> QED
    BY <1>0, <2>1, EndsType
<1>9. ASSUME NEW g \in Slots, Commit(g)
      PROVE  SlotTypeOK'
  BY <1>0, <1>9, EndsType DEF Commit
<1>10. ASSUME NEW f \in Files, NEW c \in Values, NEW op \in Ops, Edit(f, c, op)
       PROVE  SlotTypeOK'
  BY <1>1, <1>10 DEF Edit
<1>11. CASE HandleEvent \/ Unwatch \/ UNCHANGED vars
  BY <1>1, <1>11 DEF HandleEvent, Unwatch, vars
<1> QED
  BY <1>2, <1>3, <1>4, <1>5, <1>6, <1>7, <1>8, <1>9, <1>10, <1>11 DEF Next

\* A file's place in the batch stays an operation or nothing.
LEMMA FoldedType ==
    ASSUME NEW was \in Ops \cup {"none"}, NEW op \in Ops
    PROVE  Folded(was, op) \in Ops \cup {"none"}
BY DEF Folded, Ops

LEMMA WatcherType ==
    ASSUME TypeOK, [Next]_vars
    PROVE  WatcherTypeOK'
<1> USE WatchAssumption DEF WatchAssumption, WatcherTypeOK
<1>0. WatcherTypeOK
  BY TypeParts
<1>1. CASE UNCHANGED <<tree, watcher, raced>>
  BY <1>0, <1>1 DEF tree, watcher
<1>2. ASSUME NEW f \in Files, NEW c \in Values, NEW op \in Ops, Edit(f, c, op)
      PROVE  WatcherTypeOK'
  BY <1>0, <1>2 DEF Edit, watcher, history
<1>3. CASE Pass
  <2>1. loose' \in [1 .. Debounce -> Nat]
    BY <1>0, <1>3 DEF Pass
  <2>2. due' \in Nat
    <3>1. loose[1] \in Nat
      BY <1>0
    <3> QED
      BY <1>3, <3>1 DEF Pass
  <2>3. timer' \in 0 .. Debounce
    BY <1>0, <1>3 DEF Pass
  <2> QED
    BY <1>0, <1>3, <2>1, <2>2, <2>3 DEF Pass, tree, history
<1>4. CASE HandleEvent
  <2>1. Head(raw) \in Files \X Ops /\ raw' \in Seq(Files \X Ops)
    BY <1>0, <1>4 DEF HandleEvent
  <2>2. /\ Head(raw)[1] \in Files
        /\ Folded(pending[Head(raw)[1]], Head(raw)[2]) \in Ops \cup {"none"}
    BY <1>0, <2>1, FoldedType
  <2>3. UNCHANGED <<disk, watched, loose, due, raced>>
    BY <1>0, <1>4 DEF HandleEvent
  <2>4. timer' \in {timer, Debounce}
    BY <1>4 DEF HandleEvent
  <2>5. \/ pending' = pending
        \/ pending' = [pending EXCEPT ![Head(raw)[1]] = Folded(pending[Head(raw)[1]], Head(raw)[2])]
    BY <1>4 DEF HandleEvent
  <2>6. pending' \in [Files -> Ops \cup {"none"}]
    BY <1>0, <2>2, <2>5
  <2> QED
    BY <1>0, <2>1, <2>3, <2>4, <2>6
<1>5. ASSUME NEW g \in Slots, Flush(g)
      PROVE  WatcherTypeOK'
  <2>1. timer' \in 0 .. Debounce /\ loose' \in [1 .. Debounce -> Nat] /\ raced' \in BOOLEAN
    BY <1>0, <1>5 DEF Flush, Forget
  <2>2. due' \in Nat /\ pending' \in [Files -> Ops \cup {"none"}]
    BY <1>0, <1>5 DEF Flush, Drain
  <2> QED
    BY <1>0, <1>5, <2>1, <2>2 DEF Flush, tree
<1>6. CASE Unwatch
  <2>1. UNCHANGED <<disk, raw, loose, due>> /\ timer' = 0
    BY <1>6 DEF Unwatch, tree
  <2>3. watched' \in BOOLEAN /\ raced' \in BOOLEAN
    BY <1>0, <1>6 DEF Unwatch
  <2>2. pending' \in [Files -> Ops \cup {"none"}]
    BY <1>6 DEF Unwatch
  <2> QED
    BY <1>0, <2>1, <2>2, <2>3
<1>7. ASSUME NEW g \in Slots,
             \/ Read(g) \/ Admit(g) \/ Index(g) \/ Merge(g) \/ Commit(g)
             \/ \E S \in SUBSET Files : Call(g, S)
      PROVE  WatcherTypeOK'
  BY <1>1, <1>7 DEF Read, Admit, Index, Merge, Commit, Call, history
<1>8. CASE UNCHANGED vars
  BY <1>1, <1>8 DEF vars, history
<1> QED
  BY <1>2, <1>3, <1>4, <1>5, <1>6, <1>7, <1>8 DEF Next

LEMMA RouterType ==
    ASSUME TypeOK, [Next]_vars
    PROVE  RouterTypeOK'
<1> USE WatchAssumption DEF WatchAssumption, RouterTypeOK
<1>0. SlotTypeOK /\ WatcherTypeOK /\ RouterTypeOK
  BY TypeParts
<1>1. CASE UNCHANGED <<router, dropped>>
  BY <1>0, <1>1 DEF router
<1>2. ASSUME NEW f \in Files, NEW c \in Values, NEW op \in Ops, Edit(f, c, op)
      PROVE  RouterTypeOK'
  BY <1>1, <1>2 DEF Edit, history
<1>3. CASE Pass
  <2>1. seen' \subseteq [key : Hashes, age : 0 .. DedupWindow - 1]
    <3>1. \A s \in Remembered :
             [s EXCEPT !.age = @ + 1] \in [key : Hashes, age : 0 .. DedupWindow - 1]
      BY <1>0 DEF Remembered
    <3> QED
      BY <1>3, <3>1 DEF Pass
  <2> QED
    BY <1>0, <1>3, <2>1 DEF Pass, history
<1>4. CASE HandleEvent
  <2>1. raw # <<>> => Head(raw)[1] \in Files
    BY <1>0 DEF WatcherTypeOK
  <2> QED
    BY <1>0, <1>4, <2>1 DEF HandleEvent, router
<1>5. ASSUME NEW g \in Slots, Flush(g)
      PROVE  RouterTypeOK'
  BY <1>1, <1>5 DEF Flush
<1>6. CASE Unwatch
  BY <1>0, <1>6 DEF Unwatch, router, Batch
<1>7. ASSUME NEW g \in Slots, Read(g)
      PROVE  RouterTypeOK'
  BY <1>0, <1>7 DEF SlotTypeOK, Read, GivesUp, router
<1>8. ASSUME NEW g \in Slots, Admit(g)
      PROVE  RouterTypeOK'
  BY <1>0, <1>8 DEF SlotTypeOK, Admit, GivesUp
<1>9. ASSUME NEW g \in Slots, Index(g)
      PROVE  RouterTypeOK'
  BY <1>0, <1>9 DEF SlotTypeOK, Index, GivesUp
<1>10. ASSUME NEW g \in Slots, Merge(g)
       PROVE  RouterTypeOK'
  <2>1. store' \in [Files -> Values]
    BY <1>0, <1>10 DEF Merge, SlotTypeOK
  <2>2. UNCHANGED <<prev, seen>>
    BY <1>10 DEF Merge
  <2>3. fresh' \in {"fresh", "stale", "suspect"} /\ dropped' \subseteq Files
    BY <1>0, <1>10 DEF Merge, GivesUp, SlotTypeOK
  <2> QED
    BY <1>0, <2>1, <2>2, <2>3
<1>11. ASSUME NEW g \in Slots, Commit(g)
       PROVE  RouterTypeOK'
  BY <1>0, <1>11 DEF SlotTypeOK, Commit, history
<1>12. ASSUME NEW g \in Slots, NEW S \in SUBSET Files, Call(g, S)
       PROVE  RouterTypeOK'
  BY <1>1, <1>12 DEF Call, history
<1>13. CASE UNCHANGED vars
  BY <1>1, <1>13 DEF vars, history
<1> QED
  BY <1>2, <1>3, <1>4, <1>5, <1>6, <1>7, <1>8, <1>9, <1>10, <1>11, <1>12, <1>13 DEF Next

LEMMA BudgetType ==
    ASSUME TypeOK, [Next]_vars
    PROVE  BudgetTypeOK'
<1> USE WatchAssumption DEF WatchAssumption, TypeOK, BudgetTypeOK
<1>1. CASE UNCHANGED bounds
  BY <1>1 DEF bounds
<1>2. CASE Refuse \/ Fail
  BY <1>2 DEF Refuse, Fail
<1>3. ASSUME NEW f \in Files, NEW c \in Values, NEW op \in Ops, Edit(f, c, op)
      PROVE  BudgetTypeOK'
  BY <1>3 DEF Edit
<1>4. CASE Pass \/ HandleEvent \/ Unwatch \/ UNCHANGED vars
  BY <1>1, <1>4 DEF Pass, HandleEvent, Unwatch, vars
<1>5. ASSUME NEW g \in Slots,
             Flush(g) \/ Read(g) \/ Admit(g) \/ Index(g) \/ Merge(g) \/ Commit(g)
      PROVE  BudgetTypeOK'
  BY <1>1, <1>2, <1>5 DEF Flush, Read, Admit, Index, Merge, Commit
<1>6. ASSUME NEW g \in Slots, NEW S \in SUBSET Files, Call(g, S)
      PROVE  BudgetTypeOK'
  BY <1>6 DEF Call
<1> QED
  BY <1>3, <1>4, <1>5, <1>6 DEF Next

LEMMA TypeStep == TypeOK /\ [Next]_vars => TypeOK'
BY SlotType, WatcherType, RouterType, BudgetType
   DEF TypeOK, SlotTypeOK, WatcherTypeOK, RouterTypeOK, BudgetTypeOK

\* Batches, timers, submissions, index results and remembered hashes keep their types: a hash is
\* never older than its window, and a submission never older than its budget.
THEOREM TypeCorrect == Spec => []TypeOK
BY TypeInit, TypeStep, PTL DEF Spec
-----------------------------------------------------------------------------
(* One submission at a time *)

\* The watcher is alone, and no flush has forgotten a timer.
Quiet == calls = 0 /\ ~raced

\* A submission in progress keeps the next flush away: what is left of the timer is at least what is
\* left of the debounce since its own flush.
Punctual ==
    /\ loose = [k \in 1 .. Debounce |-> 0]
    /\ due \in 0 .. 1
    /\ \A g \in Slots : Open(g) =>
         /\ due = 0 /\ (timer = 0 \/ timer + age[g] >= Debounce)
         /\ \A h \in Slots : Open(h) => g = h

\* Nobody stops being disturbed: calls and raced do not go back.
LEMMA QuietBefore ==
    ASSUME TypeOK, [Next]_vars, Quiet'
    PROVE  Quiet
<1> USE DEF Quiet
<1>0. calls \in Nat /\ raced \in BOOLEAN
  BY WatchAssumption DEF TypeOK, WatchAssumption
<1>1. CASE UNCHANGED <<calls, raced>>
  BY <1>1
<1>2. ASSUME NEW f \in Files, NEW c \in Values, NEW op \in Ops, Edit(f, c, op)
      PROVE  Quiet
  BY <1>1, <1>2 DEF Edit, history
<1>3. CASE Pass \/ HandleEvent \/ Unwatch \/ UNCHANGED vars
  BY <1>1, <1>3 DEF Pass, HandleEvent, Unwatch, vars, history, bounds
<1>4. ASSUME NEW g \in Slots, Flush(g)
      PROVE  Quiet
  BY <1>0, <1>4 DEF Flush, Forget, bounds
<1>5. ASSUME NEW g \in Slots, Read(g) \/ Admit(g) \/ Index(g) \/ Merge(g) \/ Commit(g)
      PROVE  Quiet
  BY <1>1, <1>5 DEF Read, Admit, Index, Merge, Commit, Refuse, Fail, history, bounds
<1>6. ASSUME NEW g \in Slots, NEW S \in SUBSET Files, Call(g, S)
      PROVE  Quiet
  BY <1>0, <1>6 DEF Call
<1> QED
  BY <1>2, <1>3, <1>4, <1>5, <1>6 DEF Next

\* A step that opens no submission and leaves the clocks alone.
LEMMA PunctualFrame ==
    ASSUME Punctual, UNCHANGED <<timer, loose, due>>,
           \A g \in Slots : Open(g)' => Open(g) /\ age'[g] = age[g]
    PROVE  Punctual'
BY DEF Punctual

\* What a step of submission g does to the slots.
LEMMA SubmissionKeeps ==
    ASSUME SlotTypeOK, NEW g \in Slots,
           Read(g) \/ Admit(g) \/ Index(g) \/ Merge(g) \/ Commit(g)
    PROVE  /\ UNCHANGED <<tree, watcher, raced>>
           /\ \A h \in Slots : h # g =>
                /\ step'[h] = step[h] /\ files'[h] = files[h]
                /\ view'[h] = view[h] /\ unread'[h] = unread[h] /\ age'[h] = age[h]
           /\ Open(g)' => Open(g) /\ age'[g] = age[g]
<1> USE DEF SlotTypeOK, Goes, Ends, GivesUp, Open
<1>1. CASE Read(g)
  BY <1>1 DEF Read
<1>2. CASE Admit(g)
  BY <1>2 DEF Admit
<1>3. CASE Index(g)
  BY <1>3 DEF Index
<1>4. CASE Merge(g)
  BY <1>4 DEF Merge
<1>5. CASE Commit(g)
  BY <1>5 DEF Commit, history
<1> QED
  BY <1>1, <1>2, <1>3, <1>4, <1>5

LEMMA PunctualStep ==
    ASSUME TypeOK, Punctual, [Next]_vars, Quiet'
    PROVE  Punctual'
<1>0. SlotTypeOK /\ timer \in 0 .. Debounce /\ Debounce \in Nat \ {0} /\ MaxSubmit \in Nat
  BY TypeParts, WatchAssumption DEF WatcherTypeOK, WatchAssumption
<1>1. CASE UNCHANGED <<timer, loose, due, step, age>>
  BY <1>1, PunctualFrame DEF Open
<1>2. ASSUME NEW f \in Files, NEW c \in Values, NEW op \in Ops, Edit(f, c, op)
      PROVE  Punctual'
  BY <1>1, <1>2 DEF Edit, watcher, slot
<1>3. CASE Pass
  <2>1. loose' = [k \in 1 .. Debounce |-> 0] /\ loose[1] = 0
    BY <1>0, <1>3 DEF Pass, Punctual
  <2>2. due' = IF timer = 1 THEN 1 ELSE 0
    BY <1>3, <2>1 DEF Pass
  <2>3. ASSUME NEW g \in Slots, Open(g)
        PROVE  timer # 1 /\ (timer' = 0 \/ timer' + age'[g] >= Debounce)
    <3>1. age[g] < MaxSubmit /\ age[g] \in Nat /\ age'[g] = age[g] + 1
      BY <1>0, <1>3, <2>3 DEF Pass, SlotTypeOK
    <3>2. timer = 0 \/ timer + age[g] >= Debounce
      BY <2>3 DEF Punctual
    <3>3. timer' = IF timer = 0 THEN 0 ELSE timer - 1
      BY <1>3 DEF Pass
    <3> QED
      BY <1>0, <3>1, <3>2, <3>3, QuickAssumption
  <2>4. \A g \in Slots : Open(g)' <=> Open(g)
    BY <1>3 DEF Pass, Open
  <2> QED
    BY <2>1, <2>2, <2>3, <2>4 DEF Punctual
<1>4. CASE HandleEvent
  <2>1. UNCHANGED <<loose, due, step, age>> /\ timer' \in {timer, Debounce}
    BY <1>4 DEF HandleEvent, slot
  <2>2. \A g \in Slots : age[g] \in Nat
    BY <1>0 DEF SlotTypeOK
  <2> QED
    BY <1>0, <2>1, <2>2 DEF Punctual, Open
<1>5. ASSUME NEW g \in Slots, Flush(g)
      PROVE  Punctual'
  <2>1. due > 0 /\ due' = due - 1 /\ due \in 0 .. 1
    BY <1>5 DEF Flush, Punctual
  <2>2. \A h \in Slots : ~Open(h)
    BY <2>1 DEF Punctual
  <2>3. timer' = 0 /\ loose' = loose
    BY <1>5 DEF Flush, Forget, Quiet
  <2>4. \A h \in Slots : Open(h)' => h = g
    BY <1>0, <1>5, <2>2 DEF Flush, Drain, Open, slot, SlotTypeOK
  <2> QED
    BY <2>1, <2>3, <2>4 DEF Punctual
<1>6. CASE Unwatch
  BY <1>6 DEF Unwatch, slot, Punctual, Open
<1>7. ASSUME NEW g \in Slots, Read(g) \/ Admit(g) \/ Index(g) \/ Merge(g) \/ Commit(g)
      PROVE  Punctual'
  <2>1. \A h \in Slots : Open(h)' => Open(h) /\ age'[h] = age[h]
    BY <1>0, <1>7, SubmissionKeeps DEF Open
  <2>2. UNCHANGED <<timer, loose, due>>
    BY <1>0, <1>7, SubmissionKeeps DEF watcher
  <2> QED
    BY <2>1, <2>2, PunctualFrame
<1>8. ASSUME NEW g \in Slots, NEW S \in SUBSET Files, Call(g, S)
      PROVE  FALSE
  <2>1. calls \in Nat
    BY WatchAssumption DEF TypeOK, WatchAssumption
  <2> QED
    BY <1>8, <2>1 DEF Call, Quiet
<1>9. CASE UNCHANGED vars
  BY <1>1, <1>9 DEF vars, watcher, slot
<1> QED
  BY <1>2, <1>3, <1>4, <1>5, <1>6, <1>7, <1>8, <1>9 DEF Next
-----------------------------------------------------------------------------
(* Whatever the store does not have is on its way there *)

InRaw(f) == \E i \in DOMAIN raw : raw[i][1] = f
\* A submission that will read the file; one that has read it, or could not.
Holds(f, g)   == step[g] \in {"read", "admit", "index"} /\ f \in files[g]
Merging(f, g) == step[g] = "merge" /\ f \in files[g]
Brings(f, g)  == Merging(f, g) /\ (f \in unread[g] \/ view[g][f] = disk[f])

Tracked(f) ==
    \/ InRaw(f) \/ pending[f] # "none"
    \/ \E g \in Slots : Holds(f, g) \/ Brings(f, g)
    \/ store[f] = disk[f] /\ \A g \in Slots : ~Merging(f, g)

NothingLost == watched => \A f \in Files \ dropped : Tracked(f)

\* The rest of the events after the first: nothing of another file is gone.
LEMMA RestOfRaw ==
    ASSUME NEW f, raw \in Seq(Files \X Ops), raw # <<>>, raw' = Tail(raw), f # Head(raw)[1],
           InRaw(f)
    PROVE  InRaw(f)'
<1>1. PICK i \in 1 .. Len(raw) : raw[i][1] = f
  BY DEF InRaw
<1>2. i # 1
  BY <1>1
<1>3. i - 1 \in DOMAIN raw' /\ raw'[i - 1] = raw[i]
  BY <1>1, <1>2
<1> QED
  BY <1>1, <1>3 DEF InRaw

\* A step that takes nothing back.
LEMMA TrackedFrame ==
    ASSUME NEW f \in Files, Tracked(f), InRaw(f) => InRaw(f)',
           pending[f] # "none" => pending'[f] # "none",
           UNCHANGED <<disk, store, step, files, view, unread>>
    PROVE  Tracked(f)'
BY DEF Tracked, Holds, Brings, Merging

LEMMA LostSubmission ==
    ASSUME TypeOK, Punctual, NothingLost, NEW g \in Slots, watched', NEW f \in Files \ dropped',
           Read(g) \/ Admit(g) \/ Index(g) \/ Merge(g) \/ Commit(g)
    PROVE  Tracked(f)'
<1>0. SlotTypeOK /\ watched
  BY TypeParts, SubmissionKeeps DEF watcher
<1>1. /\ UNCHANGED <<raw, pending, disk>>
      /\ \A h \in Slots : h # g =>
           /\ step'[h] = step[h] /\ files'[h] = files[h]
           /\ view'[h] = view[h] /\ unread'[h] = unread[h]
  BY <1>0, SubmissionKeeps DEF tree, watcher
\* Files that are not the submission's, or no longer.
<1>2. ASSUME f \notin dropped, ~Holds(f, g), ~Merging(f, g), ~Merging(f, g)', store'[f] = store[f]
      PROVE  Tracked(f)'
  <2>1. Tracked(f)
    BY <1>0, <1>2 DEF NothingLost
  <2>2. CASE InRaw(f) \/ pending[f] # "none"
    BY <1>1, <2>2 DEF Tracked, InRaw
  <2>3. ASSUME NEW h \in Slots, Holds(f, h) \/ Brings(f, h)
        PROVE  Tracked(f)'
    <3>1. h # g
      BY <1>2, <2>3 DEF Brings
    <3> QED
      BY <1>1, <2>3, <3>1 DEF Tracked, Holds, Brings, Merging
  <2>4. CASE store[f] = disk[f] /\ \A h \in Slots : ~Merging(f, h)
    BY <1>1, <1>2, <2>4 DEF Tracked, Merging
  <2> QED
    BY <2>1, <2>2, <2>3, <2>4 DEF Tracked
<1>3. CASE GivesUp(g) /\ store' = store
  <2>1. f \notin dropped /\ f \notin files[g]
    BY <1>3 DEF GivesUp
  <2>2. step'[g] = "idle"
    BY <1>0, <1>3 DEF GivesUp, Ends, Goes, SlotTypeOK
  <2> QED
    BY <1>2, <1>3, <2>1, <2>2 DEF Holds, Merging
\* Before the files are read.
<1>4. CASE (Read(g) \/ Admit(g)) /\ ~GivesUp(g)
  <2>1. /\ step[g] \in {"read", "admit"} /\ step'[g] \in {"admit", "index"}
        /\ UNCHANGED <<files, store, dropped>>
    BY <1>0, <1>4 DEF Read, Admit, Goes, SlotTypeOK, router
  <2>2. CASE f \in files[g]
    BY <2>1, <2>2 DEF Tracked, Holds
  <2>3. CASE f \notin files[g]
    BY <1>2, <2>1, <2>3 DEF Holds, Merging
  <2> QED
    BY <2>2, <2>3
\* Those it reads are brought as they are; those it cannot read are known.
<1>5. CASE Index(g) /\ ~GivesUp(g)
  <2>1. PICK S \in SUBSET files[g] :
           /\ view' = [view EXCEPT ![g] = [x \in Files |-> IF x \in S THEN disk[x] ELSE @[x]]]
           /\ unread' = [unread EXCEPT ![g] = files[g] \ S]
           /\ dropped' = dropped \ S
           /\ Goes(g, "merge") /\ UNCHANGED <<files, store>>
    BY <1>5 DEF Index
  <2>2. step[g] = "index" /\ step'[g] = "merge" /\ unread'[g] = files[g] \ S
    BY <1>0, <1>5, <2>1 DEF Index, Goes, SlotTypeOK
  <2>3. f \in S => view'[g][f] = disk[f]
    BY <1>0, <2>1 DEF SlotTypeOK
  <2>4. CASE f \in files[g]
    BY <1>1, <2>1, <2>2, <2>3, <2>4 DEF Tracked, Brings, Merging
  <2>5. CASE f \notin files[g]
    BY <1>2, <2>1, <2>2, <2>5 DEF Holds, Merging
  <2> QED
    BY <2>4, <2>5
\* No other submission is there to merge an older content.
<1>6. CASE Merge(g) /\ ~GivesUp(g)
  <2>1. /\ store' = [x \in Files |-> IF x \in files[g] THEN view[g][x] ELSE store[x]]
        /\ dropped' = dropped \cup unread[g] /\ UNCHANGED files
        /\ step[g] = "merge" /\ step'[g] = "commit"
    BY <1>0, <1>6 DEF Merge, Goes, SlotTypeOK
  <2>2. f \notin dropped /\ f \notin unread[g] /\ f \in Files
    BY <2>1
  <2>3. CASE f \notin files[g]
    BY <1>2, <2>1, <2>2, <2>3 DEF Holds, Merging
  <2>4. CASE f \in files[g]
    <3>1. \A h \in Slots : h # g => ~Open(h)
      BY <2>1 DEF Punctual, Open
    <3>2. \A h \in Slots : ~Merging(f, h)'
      BY <1>1, <2>1, <3>1 DEF Merging, Open
    <3>3. Tracked(f)
      BY <1>0, <2>2 DEF NothingLost
    <3>4. CASE InRaw(f) \/ pending[f] # "none"
      BY <1>1, <3>4 DEF Tracked, InRaw
    <3>5. CASE \E h \in Slots : Holds(f, h) \/ Brings(f, h)
      <4>1. Brings(f, g)
        BY <2>1, <3>1, <3>5 DEF Holds, Brings, Merging, Open
      <4> QED
        BY <1>1, <2>1, <2>2, <2>4, <3>2, <4>1 DEF Brings, Tracked
    <3> QED
      BY <2>1, <2>4, <3>3, <3>4, <3>5 DEF Tracked, Merging
  <2> QED
    BY <2>3, <2>4
<1>7. CASE Commit(g)
  <2>1. step[g] = "commit" /\ step'[g] = "idle" /\ UNCHANGED <<store, dropped>>
    BY <1>0, <1>7 DEF Commit, Ends, Goes, history, SlotTypeOK
  <2> QED
    BY <1>2, <2>1 DEF Holds, Merging
<1>8. (Read(g) \/ Admit(g) \/ Index(g) \/ Merge(g)) /\ GivesUp(g) => store' = store
  <2>1. Merge(g) /\ GivesUp(g) => store' = store
    BY <1>0 DEF Merge, GivesUp, Ends, Goes, SlotTypeOK
  <2> QED
    BY <2>1 DEF Read, Admit, Index, router
<1> QED
  BY <1>3, <1>4, <1>5, <1>6, <1>7, <1>8

LEMMA LostStep ==
    ASSUME TypeOK, Punctual, NothingLost, [Next]_vars
    PROVE  Quiet' => NothingLost'
<1> SUFFICES ASSUME Quiet', watched', NEW f \in Files \ dropped'
             PROVE  Tracked(f)'
  BY DEF NothingLost
<1>0. SlotTypeOK /\ WatcherTypeOK
  BY TypeParts
<1>1. ASSUME watched, f \notin dropped, InRaw(f) => InRaw(f)',
             pending[f] # "none" => pending'[f] # "none",
             UNCHANGED <<disk, store, step, files, view, unread>>
      PROVE  Tracked(f)'
  BY <1>1, TrackedFrame DEF NothingLost
<1>2. ASSUME NEW x \in Files, NEW c \in Values, NEW op \in Ops, Edit(x, c, op)
      PROVE  Tracked(f)'
  <2>1. raw' = Append(raw, <<x, op>>) /\ raw \in Seq(Files \X Ops)
    BY <1>0, <1>2 DEF Edit, WatcherTypeOK
  <2>2. CASE f = x
    <3>1. Len(raw) + 1 \in DOMAIN raw' /\ raw'[Len(raw) + 1] = <<x, op>>
      BY <2>1
    <3> QED
      BY <2>2, <3>1 DEF Tracked, InRaw
  <2>3. CASE f # x
    <3>1. InRaw(f) => InRaw(f)'
      BY <2>1 DEF InRaw
    <3>2. /\ disk'[f] = disk[f] /\ watched /\ f \notin dropped
          /\ UNCHANGED <<pending, store, step, files, view, unread>>
      BY <1>0, <1>2, <2>3 DEF Edit, watcher, slot, router, history, WatcherTypeOK
    <3>3. Tracked(f)
      BY <3>2 DEF NothingLost
    <3> QED
      BY <3>1, <3>2, <3>3 DEF Tracked, Holds, Brings, Merging
  <2> QED
    BY <2>2, <2>3
<1>3. CASE Pass
  BY <1>1, <1>3 DEF Pass, tree, history, InRaw
<1>4. CASE HandleEvent
  <2>1. /\ watched /\ raw # <<>> /\ raw' = Tail(raw)
        /\ UNCHANGED <<disk, store, step, files, view, unread>>
    BY <1>4 DEF HandleEvent, slot, router
  <2> DEFINE e == Head(raw)[1]
             p == Folded(pending[e], Head(raw)[2])
  <2>2. /\ pending' = [pending EXCEPT ![e] = p]
        /\ dropped' = IF p = "none" THEN dropped \cup {e} ELSE dropped
    BY <1>4, <2>1 DEF HandleEvent
  <2>3. CASE f = e
    BY <1>0, <2>2, <2>3 DEF Tracked, WatcherTypeOK
  <2>4. CASE f # e
    <3>1. InRaw(f) => InRaw(f)'
      BY <1>0, <2>1, <2>4, RestOfRaw DEF WatcherTypeOK
    <3>2. f \notin dropped /\ pending'[f] = pending[f]
      BY <1>0, <2>2, <2>4 DEF WatcherTypeOK
    <3> QED
      BY <1>1, <2>1, <3>1, <3>2
  <2> QED
    BY <2>3, <2>4
<1>5. ASSUME NEW g \in Slots, Flush(g)
      PROVE  Tracked(f)'
  <2>1. watched /\ f \notin dropped /\ UNCHANGED <<raw, disk, store>>
    BY <1>5 DEF Flush, tree, router
  <2>2. CASE Batch = {}
    BY <1>1, <1>5, <2>1, <2>2 DEF Flush, slot, InRaw
  <2>3. CASE Drain(g)
    <3>1. /\ step[g] = "idle" /\ step' = [step EXCEPT ![g] = "read"]
          /\ files' = [files EXCEPT ![g] = Batch] /\ UNCHANGED <<view, unread>>
      BY <2>3 DEF Drain
    <3>2. CASE f \in Batch
      BY <1>0, <3>1, <3>2 DEF Tracked, Holds, SlotTypeOK
    <3>3. CASE f \notin Batch
      <4>1. pending[f] = "none" /\ Tracked(f)
        BY <2>1, <3>3 DEF Batch, NothingLost
      <4>2. \A h \in Slots : h # g => step'[h] = step[h] /\ files'[h] = files[h]
        BY <1>0, <3>1 DEF SlotTypeOK
      <4>3. step'[g] = "read"
        BY <1>0, <3>1 DEF SlotTypeOK
      <4>4. CASE InRaw(f)
        BY <2>1, <4>4 DEF Tracked, InRaw
      <4>5. ASSUME NEW h \in Slots, Holds(f, h) \/ Brings(f, h)
            PROVE  Tracked(f)'
        <5>1. h # g
          BY <3>1, <4>5 DEF Holds, Brings, Merging
        <5> QED
          BY <2>1, <3>1, <4>2, <4>5, <5>1 DEF Tracked, Holds, Brings, Merging
      <4>6. CASE store[f] = disk[f] /\ \A h \in Slots : ~Merging(f, h)
        BY <2>1, <4>2, <4>3, <4>6 DEF Tracked, Merging
      <4> QED
        BY <4>1, <4>4, <4>5, <4>6 DEF Tracked
    <3> QED
      BY <3>2, <3>3
  <2> QED
    BY <1>5, <2>2, <2>3 DEF Flush
<1>6. CASE Unwatch
  BY <1>6 DEF Unwatch
<1>7. ASSUME NEW g \in Slots, Read(g) \/ Admit(g) \/ Index(g) \/ Merge(g) \/ Commit(g)
      PROVE  Tracked(f)'
  BY <1>7, LostSubmission
<1>8. ASSUME NEW g \in Slots, NEW S \in SUBSET Files, Call(g, S)
      PROVE  FALSE
  <2>1. calls \in Nat
    BY WatchAssumption DEF TypeOK, WatchAssumption
  <2> QED
    BY <1>8, <2>1 DEF Call, Quiet
<1>9. CASE UNCHANGED vars
  BY <1>1, <1>9 DEF vars, tree, watcher, slot, router, history, InRaw
<1> QED
  BY <1>2, <1>3, <1>4, <1>5, <1>6, <1>7, <1>8, <1>9 DEF Next

-----------------------------------------------------------------------------
(* The theorem *)

WatchInv == Quiet => Punctual /\ NothingLost

LEMMA WatchInit == Init => WatchInv
<1> SUFFICES ASSUME Init PROVE Punctual /\ NothingLost
  BY DEF WatchInv
<1>1. Punctual
  BY DEF Init, Punctual, Open
<1>2. NothingLost
  BY DEF Init, NothingLost, Tracked, Merging
<1> QED
  BY <1>1, <1>2

LEMMA WatchStep == TypeOK /\ WatchInv /\ [Next]_vars => WatchInv'
<1> SUFFICES ASSUME TypeOK, WatchInv, [Next]_vars, Quiet' PROVE Punctual' /\ NothingLost'
  BY DEF WatchInv
<1>1. Punctual /\ NothingLost
  BY QuietBefore DEF WatchInv
<1> QED
  BY <1>1, PunctualStep, LostStep

\* Between kernel event and store the watcher loses nothing but what it gave up: with no event of a
\* file left on its way, the store has what is on disk. As long as nobody calls record_change and no
\* flush has forgotten a timer, for then two submissions may overlap and the older merge last.
THEOREM WatcherLosesNothing == Spec => []NothingSlipsThrough
<1>1. WatchInv => NothingSlipsThrough
  <2> SUFFICES ASSUME NothingLost, watched, NEW f \in Files \ dropped, Settled(f)
               PROVE  store[f] = disk[f]
    BY DEF WatchInv, Quiet, NothingSlipsThrough
  <2>1. ~InRaw(f) /\ pending[f] = "none"
    BY DEF Settled, InRaw
  <2>2. \A g \in Slots : ~Holds(f, g) /\ ~Merging(f, g)
    BY DEF Settled, Holds, Merging
  <2> QED
    BY <2>1, <2>2 DEF NothingLost, Tracked, Brings
<1> QED
  BY <1>1, TypeInit, TypeStep, WatchInit, WatchStep, PTL DEF Spec
=============================================================================
