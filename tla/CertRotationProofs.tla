------------------------- MODULE CertRotationProofs -------------------------
(***************************************************************************)
(* Proofs about CertRotation, for any finite set of callers and any number  *)
(* of replacements and candidates, and that it implements ConnHandover.     *)
(***************************************************************************)
EXTENDS CertRotation, FiniteSetTheorems, TLAPS

\* A loop is between taking rotateMu and giving it back.
Rotating(l) == wpc[l] \in {"probe", "commit", "swap", "mark"}

\* A loop has a candidate in hand.
Holds(l) == wpc[l] = "rotate" \/ Rotating(l)

\* Each mutex is held by the loop that is in its critical section.
LockInv ==
  \A l \in Loops :
    /\ Reading(l) <=> reloadMu = l
    /\ Rotating(l) <=> rotateMu = l

\* The bundles that have been in service: the current one, those that drain or
\* have drained, and the one a rotation has just taken out.
Served(g) ==
  \/ g = bundle
  \/ drain[g] # "none"
  \/ \E l \in Loops : wpc[l] = "mark" /\ old[l] = g

\* Candidates in hand have generations of their own, which were not served
\* before; what serves is what is committed, the step before the swap apart.
GenInv ==
  /\ committed <= staged
  /\ \A g \in Gens : Served(g) => g <= committed
  /\ \A l \in Loops : Holds(l) => gen[l] <= staged
  /\ \A l, k \in Loops : l # k /\ Holds(l) /\ Holds(k) => gen[l] # gen[k]
  /\ \A l \in Loops : Holds(l) /\ wpc[l] # "mark" => ~Served(gen[l])
  /\ \A l \in Loops : wpc[l] = "swap" => committed = gen[l] /\ bundle < committed
  /\ (\A l \in Loops : wpc[l] # "swap") => bundle = committed
  /\ drain[bundle] = "none"
  /\ \A l \in Loops : wpc[l] = "mark" =>
       gen[l] = bundle /\ old[l] # bundle /\ drain[old[l]] = "none"

\* A later candidate was read from versions at least as new, since Stage is
\* serialised and the files only get newer.
MatInv ==
  /\ \A g, h \in Gens : g <= h /\ h <= staged =>
       mat[g].cert <= mat[h].cert /\ mat[g].ca <= mat[h].ca
  /\ \A g \in Gens : g <= staged => mat[g].cert <= disk /\ mat[g].ca <= disk
  /\ \A l \in Loops : Reading(l) => mat[staged].cert <= cert[l] /\ cert[l] <= disk
  /\ \A l \in Loops : wpc[l] = "record" => mat[staged].ca <= ca[l] /\ ca[l] <= disk

\* The end of the server comes after the last step of its loops.
EndInv ==
  /\ closed <=> main \in {"conn", "done"}
  /\ wclosed <=> main # "serving"
  /\ main \in {"client", "conn", "done"} => \A l \in Loops : wpc[l] = "gone"
  /\ main = "done" => conn[bundle] = "closed"

\* Where a connection is closed, and who has still to close it.
ConnInv ==
  /\ \A g \in Gens : Served(g) /\ drain[g] \in {"none", "poll"} => conn[g] = "open" \/ closed
  /\ \A l \in Loops : Rotating(l) => conn[gen[l]] = "open"
  /\ \A g \in Gens : conn[g] = "open" =>
       \/ g = bundle
       \/ drain[g] \in {"poll", "close"}
       \/ \E l \in Loops : Rotating(l) /\ gen[l] = g
       \/ \E l \in Loops : wpc[l] = "mark" /\ old[l] = g

\* A caller that has found its bundle not closing has been counted before the
\* bundle's drain looked.
CallInv ==
  \A c \in Calls :
    /\ cpc[c] \notin {"idle", "load"} => Served(at[c])
    /\ cpc[c] \in {"same", "running"} => drain[at[c]] \in {"none", "poll"} \/ closed

\* A bundle is flagged no later than its drain starts.
FlagInv == \A g \in Gens : drain[g] # "none" => closing[g]

Inv == /\ TypeOK /\ CountsAreCallers /\ LockInv /\ GenInv /\ MatInv /\ EndInv
       /\ ConnInv /\ CallInv /\ FlagInv

-----------------------------------------------------------------------------
USE DEF files, stage, rotation, conns, rpcs, ends

LEMMA Numbers == MaxEdits \in Nat /\ MaxGen \in Nat \ {0}
BY RotationAssumption DEF RotationAssumption

LEMMA CountedFinite ==
  ASSUME NEW g \in Gens
  PROVE  IsFiniteSet(Counted(g)) /\ Cardinality(Counted(g)) \in Nat
<1>1. Counted(g) \subseteq Calls
  BY DEF Counted
<1> QED
  BY <1>1, CallersAssumption, FS_Subset, FS_CardinalityType

LEMMA InitInv == Init => Inv
<1> SUFFICES ASSUME Init PROVE Inv
  OBVIOUS
<1>1. TypeOK
  <2>1. 0 \in Versions /\ 1 \in Gens
    BY Numbers DEF Versions, Gens
  <2>2. mat \in [Gens -> [cert : Versions, ca : Versions]]
    BY <2>1 DEF Init
  <2>3. wpc \in [Loops -> LoopSteps] /\ cpc \in [Calls -> CallSteps]
    BY DEF Init, LoopSteps, CallSteps
  <2> QED
    BY <2>1, <2>2, <2>3 DEF Init, TypeOK
<1>2. CountsAreCallers
  <2>1. \A g \in Gens : Counted(g) = {}
    BY DEF Init, Counted
  <2> QED
    BY <2>1, FS_EmptySet DEF Init, CountsAreCallers
<1>3. LockInv /\ EndInv /\ FlagInv
  BY DEF Init, LockInv, EndInv, FlagInv, Reading, Rotating, Loops, NoOne
<1>4. GenInv /\ MatInv
  BY Numbers DEF Init, GenInv, MatInv, Served, Holds, Rotating, Reading, Gens
<1>5. ConnInv /\ CallInv
  BY Numbers DEF Init, ConnInv, CallInv, Served, Rotating, Gens
<1> QED
  BY <1>1, <1>2, <1>3, <1>4, <1>5 DEF Inv

\* A step that leaves all that the counts depend on keeps them.
LEMMA SameCounts ==
  ASSUME CountsAreCallers, UNCHANGED rpcs
  PROVE  CountsAreCallers'
BY DEF CountsAreCallers, Counted

-----------------------------------------------------------------------------
(* The callers.                                                            *)

LEMMA CallTypes ==
  ASSUME Inv, NEW c \in Calls, Begin(c) \/ CallStep(c)
  PROVE  TypeOK' /\ CountsAreCallers'
<1>1. /\ cpc' \in [Calls -> CallSteps] /\ at' \in [Calls -> Gens]
      /\ UNCHANGED <<files, wpc, stage, rotation, conns, ends>>
  <2>1. /\ \E s \in CallSteps : cpc' = [cpc EXCEPT ![c] = s]
        /\ UNCHANGED <<files, wpc, stage, rotation, conns, ends>>
    BY DEF Begin, CallStep, LoadBundle, CountIn, TestClosing, TestSame, CountOut, Release,
       CallMoves, CallSteps
  <2>2. \E g \in Gens : at' = at \/ at' = [at EXCEPT ![c] = g]
    <3>1. bundle \in Gens /\ 1 \in Gens
      BY Numbers DEF Inv, TypeOK, Gens
    <3> QED
      BY <3>1 DEF Begin, CallStep, LoadBundle, CountIn, TestClosing, TestSame, CountOut,
         Release
  <2> QED
    BY <2>1, <2>2 DEF Inv, TypeOK
<1>2. CountsAreCallers'
  <2>1. ASSUME NEW g \in Gens PROVE inflight'[g] = Cardinality(Counted(g)')
    <3>0. inflight[g] = Cardinality(Counted(g)) /\ inflight \in [Gens -> Nat]
      BY DEF Inv, CountsAreCallers, TypeOK
    <3>1. CASE Counted(g)' = Counted(g) /\ inflight'[g] = inflight[g]
      BY <3>0, <3>1
    <3>2. CASE g = at[c] /\ CountIn(c)
      <4>1. c \notin Counted(g) /\ Counted(g)' = Counted(g) \cup {c}
        BY <3>2 DEF Inv, TypeOK, CountIn, CallMoves, Counted
      <4>2. inflight'[g] = inflight[g] + 1
        BY <3>0, <3>2 DEF CountIn, CountBy
      <4> QED
        BY <3>0, <4>1, <4>2, CountedFinite, FS_AddElement
    <3>3. CASE g = at[c] /\ (CountOut(c) \/ Release(c))
      <4>1. c \in Counted(g) /\ Counted(g)' = Counted(g) \ {c}
        BY <3>3 DEF Inv, TypeOK, CountOut, Release, CallMoves, Counted
      <4>2. inflight'[g] = inflight[g] - 1
        BY <3>0, <3>3 DEF CountOut, Release, CountBy
      <4> QED
        BY <3>0, <4>1, <4>2, CountedFinite, FS_RemoveElement
    <3>4. CASE g # at[c] /\ (CountIn(c) \/ CountOut(c) \/ Release(c))
      <4>1. Counted(g)' = Counted(g)
        BY <3>4 DEF Inv, TypeOK, CountIn, CountOut, Release, CallMoves, Counted
      <4>2. inflight'[g] = inflight[g]
        BY <3>0, <3>4 DEF CountIn, CountOut, Release, CountBy
      <4> QED
        BY <3>1, <4>1, <4>2
    <3>5. CASE Begin(c) \/ LoadBundle(c) \/ TestClosing(c) \/ TestSame(c)
      <4>1. Counted(g)' = Counted(g)
        BY <3>5 DEF Inv, TypeOK, Begin, LoadBundle, TestClosing, TestSame, CallMoves, Counted
      <4>2. inflight' = inflight
        BY <3>5 DEF Begin, LoadBundle, TestClosing, TestSame
      <4> QED
        BY <3>1, <4>1, <4>2
    <3> QED
      BY <3>2, <3>3, <3>4, <3>5 DEF CallStep
  <2> QED
    BY <2>1 DEF CountsAreCallers
<1>3. inflight' \in [Gens -> Nat]
  <2>1. inflight' = [g \in Gens |-> inflight'[g]]
    BY DEF Inv, TypeOK, Begin, CallStep, LoadBundle, CountIn, TestClosing, TestSame, CountOut,
       Release, CountBy
  <2>2. ASSUME NEW g \in Gens PROVE inflight'[g] \in Nat
    <3>1. Counted(g)' \subseteq Calls
      BY DEF Counted
    <3>2. Cardinality(Counted(g)') \in Nat
      BY <3>1, CallersAssumption, FS_Subset, FS_CardinalityType
    <3> QED
      BY <1>2, <3>2 DEF CountsAreCallers
  <2> QED
    BY <2>1, <2>2
<1> QED
  BY <1>1, <1>2, <1>3 DEF Inv, TypeOK

\* What becomes of a caller does not disturb the other parts of the invariant.
LEMMA CallInvs ==
  ASSUME Inv, NEW c \in Calls, Begin(c) \/ CallStep(c)
  PROVE  Inv'
<1>1. UNCHANGED <<files, wpc, stage, rotation, conns, ends>>
  BY DEF Begin, CallStep, LoadBundle, CountIn, TestClosing, TestSame, CountOut, Release,
     CallMoves
<1>2. LockInv' /\ GenInv' /\ MatInv' /\ EndInv' /\ ConnInv' /\ FlagInv'
  BY <1>1 DEF Inv, LockInv, GenInv, MatInv, EndInv, ConnInv, FlagInv, Served, Holds,
     Rotating, Reading
<1>3. CallInv'
  <2>1. \A g \in Gens : Served(g)' <=> Served(g)
    BY <1>1 DEF Served
  <2>2. /\ cpc \in [Calls -> CallSteps] /\ at \in [Calls -> Gens] /\ bundle \in Gens
        /\ \A g \in Gens : drain[g] \in {"none", "poll", "close", "done"}
    BY DEF Inv, TypeOK
  <2>3. ASSUME NEW d \in Calls, d # c PROVE cpc'[d] = cpc[d] /\ at'[d] = at[d]
    BY <2>2, <2>3 DEF Begin, CallStep, LoadBundle, CountIn, TestClosing, TestSame, CountOut,
       Release, CallMoves
  <2>4. cpc'[c] \notin {"idle", "load"} => Served(at'[c])
    BY <2>2 DEF Inv, CallInv, Begin, CallStep, LoadBundle, CountIn, TestClosing, TestSame,
       CountOut, Release, CallMoves, Served
  <2>5. cpc'[c] \in {"same", "running"} => drain[at'[c]] \in {"none", "poll"} \/ closed
    <3>1. CASE TestClosing(c)
      <4>1. cpc'[c] = "same" => ~closing[at[c]] /\ at' = at
        BY <2>2, <3>1 DEF TestClosing, CallMoves
      <4> QED
        BY <2>2, <3>1, <4>1 DEF Inv, FlagInv, TestClosing, CallMoves
    <3>2. CASE TestSame(c)
      BY <2>2, <3>2 DEF Inv, CallInv, TestSame, CallMoves
    <3>3. CASE Begin(c) \/ LoadBundle(c) \/ CountIn(c) \/ CountOut(c) \/ Release(c)
      BY <2>2, <3>3 DEF Begin, LoadBundle, CountIn, CountOut, Release, CallMoves
    <3> QED
      BY <3>1, <3>2, <3>3 DEF CallStep
  <2>6. \A d \in Calls : at'[d] \in Gens
    BY CallTypes DEF TypeOK
  <2> QED
    BY <1>1, <2>1, <2>3, <2>4, <2>5, <2>6 DEF Inv, CallInv
<1> QED
  BY <1>2, <1>3, CallTypes DEF Inv

-----------------------------------------------------------------------------
(* The files and the Stage of a loop.                                      *)

\* A step that leaves the bundles alone does not change what has been served.
LEMMA ConnsStay ==
  ASSUME Inv, UNCHANGED <<closing, drain, rpcs, bundle, old, closed>>,
         \A l \in Loops : wpc'[l] = "mark" <=> wpc[l] = "mark"
  PROVE  /\ \A g \in Gens : Served(g)' <=> Served(g)
         /\ CallInv' /\ FlagInv' /\ CountsAreCallers'
<1>1. \A g \in Gens : Served(g)' <=> Served(g)
  BY DEF Served
<1>2. at \in [Calls -> Gens]
  BY DEF Inv, TypeOK
<1> QED
  BY <1>1, <1>2, SameCounts DEF Inv, CallInv, FlagInv

\* GenInv speaks of the loops, their candidates and the bundles only.
LEMMA GensStay ==
  ASSUME Inv, UNCHANGED <<wpc, gen, old, staged, committed, bundle, drain>>
  PROVE  GenInv'
<1>1. \A g \in Gens : Served(g)' <=> Served(g)
  BY DEF Served
<1>2. \A l \in Loops : Holds(l)' <=> Holds(l)
  BY DEF Holds, Rotating
<1>3. gen \in [Loops -> Gens]
  BY DEF Inv, TypeOK
<1>4. \A l \in Loops : Holds(l)' /\ wpc'[l] # "mark" => ~Served(gen[l])'
  BY <1>1, <1>2, <1>3 DEF Inv, GenInv
<1>5. /\ \A g \in Gens : Served(g)' => g <= committed'
      /\ \A l \in Loops : Holds(l)' => gen'[l] <= staged'
      /\ \A l, k \in Loops : l # k /\ Holds(l)' /\ Holds(k)' => gen'[l] # gen'[k]
  BY <1>1, <1>2 DEF Inv, GenInv
<1>6. /\ committed' <= staged'
      /\ \A l \in Loops : wpc'[l] = "swap" => committed' = gen'[l] /\ bundle' < committed'
      /\ (\A l \in Loops : wpc'[l] # "swap") => bundle' = committed'
      /\ drain'[bundle'] = "none"
      /\ \A l \in Loops : wpc'[l] = "mark" =>
           gen'[l] = bundle' /\ old'[l] # bundle' /\ drain'[old'[l]] = "none"
  BY DEF Inv, GenInv
<1> QED
  BY <1>4, <1>5, <1>6 DEF GenInv

LEMMA EditStep ==
  ASSUME Inv, Edit
  PROVE  Inv'
<1>1. TypeOK'
  BY Numbers DEF Inv, TypeOK, Edit, Versions
<1>2. LockInv' /\ GenInv' /\ EndInv' /\ ConnInv' /\ CallInv' /\ FlagInv' /\ CountsAreCallers'
  BY SameCounts DEF Inv, Edit, LockInv, GenInv, EndInv, ConnInv, CallInv, FlagInv, Served,
     Holds, Rotating, Reading
<1>3. MatInv'
  <2>1. /\ disk \in Nat /\ disk' = disk + 1 /\ UNCHANGED <<wpc, stage>>
        /\ \A g \in Gens : mat[g].cert \in Nat /\ mat[g].ca \in Nat
        /\ \A l \in Loops : cert[l] \in Nat /\ ca[l] \in Nat
    BY DEF Inv, TypeOK, Edit, Versions
  <2>2. /\ \A g \in Gens : g <= staged => mat[g].cert <= disk' /\ mat[g].ca <= disk'
        /\ \A l \in Loops : Reading(l) => cert[l] <= disk'
        /\ \A l \in Loops : wpc[l] = "record" => ca[l] <= disk'
    BY <2>1 DEF Inv, MatInv
  <2> QED
    BY <2>1, <2>2 DEF Inv, MatInv, Reading
<1> QED
  BY <1>1, <1>2, <1>3 DEF Inv

LEMMA WakeStep ==
  ASSUME Inv, NEW l \in Loops, Wake(l) \/ Exit(l)
  PROVE  Inv'
<1>1. /\ wpc[l] = "idle" /\ UNCHANGED <<disk, stage, rotation, conns, rpcs, ends>>
      /\ \/ wpc' = [wpc EXCEPT ![l] = "stage"]
         \/ wclosed /\ wpc' = [wpc EXCEPT ![l] = "gone"]
      /\ wpc \in [Loops -> LoopSteps]
  BY DEF Inv, TypeOK, Wake, Exit
<1>2. TypeOK'
  BY ZenonT(60), <1>1 DEF Inv, TypeOK, Wake, Exit, LoopSteps
<1>3. \A k \in Loops : /\ Reading(k)' <=> Reading(k)
                       /\ Rotating(k)' <=> Rotating(k)
                       /\ Holds(k)' <=> Holds(k)
                       /\ \A s \in {"record", "mark", "swap"} : wpc'[k] = s <=> wpc[k] = s
  BY <1>1 DEF Reading, Rotating, Holds
<1>4. LockInv' /\ MatInv'
  BY <1>1, <1>3 DEF Inv, LockInv, MatInv
<1>5. /\ \A g \in Gens : Served(g)' <=> Served(g)
      /\ CallInv' /\ FlagInv' /\ CountsAreCallers'
  BY <1>1, <1>3, ConnsStay
<1>6. GenInv' /\ ConnInv'
  <2>1. \A k \in Loops : gen[k] \in Gens
    BY DEF Inv, TypeOK
  <2> QED
    BY <1>1, <1>3, <1>5, <2>1 DEF Inv, GenInv, ConnInv
<1>7. EndInv'
  BY <1>1 DEF Inv, EndInv
<1> QED
  BY <1>2, <1>4, <1>5, <1>6, <1>7 DEF Inv

LEMMA ReadPairStep ==
  ASSUME Inv, NEW l \in Loops, ReadPair(l)
  PROVE  Inv'
<1>1. /\ wpc[l] = "stage" /\ wpc' = [wpc EXCEPT ![l] = "ca"] /\ wpc \in [Loops -> LoopSteps]
      /\ reloadMu = NoOne /\ reloadMu' = l
      /\ cert' = [cert EXCEPT ![l] = disk] /\ cert \in [Loops -> Versions]
      /\ UNCHANGED <<files, ca, staged, mat, rotation, conns, rpcs, ends>>
  BY DEF Inv, TypeOK, ReadPair
<1>2. TypeOK'
  BY <1>1 DEF Inv, TypeOK, LoopSteps
<1>3. \A k \in Loops : /\ Rotating(k)' <=> Rotating(k)
                       /\ Holds(k)' <=> Holds(k)
                       /\ \A s \in {"mark", "swap", "gone"} : wpc'[k] = s <=> wpc[k] = s
                       /\ Reading(k)' <=> k = l
                       /\ wpc'[k] # "record"
  BY <1>1 DEF Reading, Rotating, Holds, Inv, LockInv, Loops, NoOne
<1>4. LockInv'
  BY <1>1, <1>3 DEF Inv, LockInv
<1>5. /\ \A g \in Gens : Served(g)' <=> Served(g)
      /\ CallInv' /\ FlagInv' /\ CountsAreCallers'
  BY <1>1, <1>3, ConnsStay
<1>6. GenInv'
  BY <1>1, <1>3, <1>5 DEF Inv, GenInv, TypeOK
<1>7. ConnInv' /\ EndInv'
  BY <1>1, <1>3, <1>5 DEF Inv, ConnInv, EndInv
<1>8. MatInv'
  <2>1. cert'[l] = disk /\ disk \in Nat /\ mat[staged].cert <= disk
    <3>1. staged \in Gens /\ staged \in Nat /\ disk \in Nat
      BY Numbers DEF Inv, TypeOK, Versions, Gens
    <3>2. mat[staged].cert <= disk
      BY <3>1 DEF Inv, MatInv
    <3>3. cert'[l] = disk
      BY <1>1
    <3> QED
      BY <3>1, <3>2, <3>3
  <2> QED
    BY <1>1, <1>3, <2>1 DEF Inv, MatInv
<1> QED
  BY <1>2, <1>4, <1>5, <1>6, <1>7, <1>8 DEF Inv

LEMMA ReadCAStep ==
  ASSUME Inv, NEW l \in Loops, ReadCA(l)
  PROVE  Inv'
<1>1. /\ wpc[l] = "ca" /\ Reading(l) /\ reloadMu = l
      /\ UNCHANGED <<files, staged, mat, rotation, conns, rpcs, ends>>
      /\ \/ /\ wpc' = [wpc EXCEPT ![l] = "record"] /\ UNCHANGED <<reloadMu, cert>>
            /\ ca' = [ca EXCEPT ![l] = disk]
         \/ /\ wpc' = [wpc EXCEPT ![l] = "idle"] /\ reloadMu' = NoOne /\ UNCHANGED ca
            /\ cert' = [cert EXCEPT ![l] = 0]
  BY DEF Inv, LockInv, ReadCA, Reading
<1>2. /\ wpc \in [Loops -> LoopSteps] /\ cert \in [Loops -> Versions]
      /\ ca \in [Loops -> Versions] /\ disk \in Versions /\ 0 \in Versions
  BY Numbers DEF Inv, TypeOK, Versions
<1>3. TypeOK'
  BY ZenonT(60), <1>1, <1>2 DEF Inv, TypeOK, LoopSteps
<1>4. \A k \in Loops : /\ Rotating(k)' <=> Rotating(k)
                       /\ Holds(k)' <=> Holds(k)
                       /\ \A s \in {"mark", "swap", "gone"} : wpc'[k] = s <=> wpc[k] = s
                       /\ Reading(k)' <=> k = l /\ wpc'[l] = "record"
                       /\ k # l => wpc'[k] # "record"
  BY <1>1, <1>2 DEF Reading, Rotating, Holds, Inv, LockInv
<1>5. LockInv'
  BY <1>1, <1>2, <1>4 DEF Inv, LockInv, Loops, NoOne
<1>6. /\ \A g \in Gens : Served(g)' <=> Served(g)
      /\ CallInv' /\ FlagInv' /\ CountsAreCallers'
  BY <1>1, <1>4, ConnsStay
<1>7. GenInv' /\ ConnInv' /\ EndInv'
  <2>1. GenInv'
    BY <1>1, <1>4, <1>6 DEF Inv, GenInv, TypeOK
  <2>2. ConnInv' /\ EndInv'
    BY <1>1, <1>4, <1>6 DEF Inv, ConnInv, EndInv
  <2> QED
    BY <2>1, <2>2
<1>8. MatInv'
  <2>1. CASE wpc'[l] = "record"
    <3>1. ca'[l] = disk /\ cert' = cert /\ disk \in Nat /\ mat[staged].ca <= disk
      <4>1. staged \in Gens /\ staged \in Nat /\ disk \in Nat
        BY Numbers DEF Inv, TypeOK, Versions, Gens
      <4>2. mat[staged].ca <= disk
        BY <4>1 DEF Inv, MatInv
      <4> QED
        BY <1>1, <1>2, <2>1, <4>1, <4>2
    <3> QED
      BY <1>1, <1>4, <3>1 DEF Inv, MatInv
  <2>2. CASE wpc'[l] # "record"
    BY <1>1, <1>4, <2>2 DEF Inv, MatInv
  <2> QED
    BY <2>1, <2>2
<1> QED
  BY <1>3, <1>5, <1>6, <1>7, <1>8 DEF Inv

LEMMA RecordStep ==
  ASSUME Inv, NEW l \in Loops, Record(l)
  PROVE  Inv'
<1>1. /\ wpc[l] = "record" /\ Reading(l) /\ reloadMu = l /\ reloadMu' = NoOne
      /\ wpc' = [wpc EXCEPT ![l] = "rotate"] /\ wpc \in [Loops -> LoopSteps]
      /\ gen' = [gen EXCEPT ![l] = staged + 1] /\ gen \in [Loops -> Gens]
      /\ staged' = staged + 1 /\ staged + 1 \in Gens /\ staged \in Gens
      /\ mat' = [mat EXCEPT ![staged + 1] = [cert |-> cert[l], ca |-> ca[l]]]
      /\ UNCHANGED <<disk, old, rotateMu, committed, bundle, conns, rpcs, ends>>
  BY Numbers DEF Inv, LockInv, TypeOK, Record, Reading, Gens
<1>2. TypeOK'
  <2>1. /\ cert[l] \in Versions /\ ca[l] \in Versions /\ 0 \in Versions
        /\ cert' = [cert EXCEPT ![l] = 0] /\ ca' = [ca EXCEPT ![l] = 0]
        /\ seen' = disk /\ UNCHANGED <<pending, unseen, refused>>
    BY Numbers DEF Inv, TypeOK, Record, Versions
  <2> QED
    BY <1>1, <2>1 DEF Inv, TypeOK, LoopSteps
<1>3. \A k \in Loops : /\ Rotating(k)' <=> Rotating(k)
                       /\ Holds(k)' <=> Holds(k) \/ k = l
                       /\ ~Holds(l)
                       /\ \A s \in {"mark", "swap", "gone"} : wpc'[k] = s <=> wpc[k] = s
                       /\ ~Reading(k)' /\ wpc'[k] # "record"
                       /\ k # l => gen'[k] = gen[k]
  BY <1>1 DEF Reading, Rotating, Holds, Inv, LockInv
<1>4. LockInv'
  BY <1>1, <1>3 DEF Inv, LockInv, Loops, NoOne
<1>5. /\ \A g \in Gens : Served(g)' <=> Served(g)
      /\ CallInv' /\ FlagInv' /\ CountsAreCallers'
  BY <1>1, <1>3, ConnsStay
<1>6. EndInv'
  BY <1>1, <1>3 DEF Inv, EndInv
<1>7. ConnInv'
  <2>1. \A k \in Loops : Rotating(k) => gen'[k] = gen[k]
    BY <1>3 DEF Holds
  <2> QED
    BY <1>1, <1>3, <1>5, <2>1 DEF Inv, ConnInv
<1>8. GenInv'
  <2>1. /\ gen'[l] = staged + 1 /\ staged \in Nat /\ committed \in Nat
        /\ \A k \in Loops : gen[k] \in Nat
    BY <1>1 DEF Inv, TypeOK, Gens
  <2>2. ~Served(gen'[l])
    BY <1>1, <2>1 DEF Inv, GenInv, Gens
  <2>3. wpc'[l] = "rotate"
    BY <1>1
  <2> QED
    BY <1>1, <1>3, <1>5, <2>1, <2>2, <2>3 DEF Inv, GenInv, Gens
<1>9. MatInv'
  <2>1. /\ \A g \in Gens : g \in Nat /\ mat[g].cert \in Nat /\ mat[g].ca \in Nat
        /\ staged \in Nat /\ cert[l] \in Nat /\ ca[l] \in Nat /\ disk \in Nat
    <3>1. \A g \in Gens : mat[g] \in [cert : Versions, ca : Versions]
      BY DEF Inv, TypeOK
    <3>2. cert[l] \in Versions /\ ca[l] \in Versions /\ disk \in Versions
      BY DEF Inv, TypeOK
    <3> QED
      BY <1>1, <3>1, <3>2, Numbers DEF Versions, Gens
  <2>2. \A g \in Gens : g <= staged => mat'[g] = mat[g]
    BY <1>1, <2>1 DEF Inv, TypeOK
  <2>3. mat'[staged + 1].cert = cert[l] /\ mat'[staged + 1].ca = ca[l]
    BY <1>1 DEF Inv, TypeOK
  <2>4. /\ mat[staged].cert <= cert[l] /\ cert[l] <= disk
        /\ mat[staged].ca <= ca[l] /\ ca[l] <= disk
    BY <1>1 DEF Inv, MatInv
  <2>5. \A g \in Gens : g <= staged => mat[g].cert <= cert[l] /\ mat[g].ca <= ca[l]
    <3>1. \A g \in Gens : g <= staged => mat[g].cert <= mat[staged].cert
                                         /\ mat[g].ca <= mat[staged].ca
      BY <1>1, <2>1 DEF Inv, MatInv
    <3> QED
      BY <1>1, <2>1, <2>4, <3>1
  <2>6. \A g \in Gens : g <= staged' => g <= staged \/ g = staged + 1
    BY <1>1, <2>1
  <2>7. ASSUME NEW g \in Gens, NEW h \in Gens, g <= h, h <= staged'
        PROVE  mat'[g].cert <= mat'[h].cert /\ mat'[g].ca <= mat'[h].ca
    <3>1. CASE h <= staged
      BY <2>1, <2>2, <2>7, <3>1 DEF Inv, MatInv
    <3>2. CASE h = staged + 1
      BY <2>1, <2>2, <2>3, <2>5, <2>6, <2>7, <3>2, <1>1
    <3> QED
      BY <2>6, <2>7, <3>1, <3>2
  <2>8. \A g \in Gens : g <= staged' => mat'[g].cert <= disk /\ mat'[g].ca <= disk
    BY <2>2, <2>3, <2>4, <2>6 DEF Inv, MatInv
  <2> QED
    BY <1>1, <1>3, <2>7, <2>8 DEF MatInv
<1> QED
  BY <1>2, <1>4, <1>5, <1>6, <1>7, <1>8, <1>9 DEF Inv

-----------------------------------------------------------------------------
(* The rotation.                                                           *)

\* What every step between Dial and MarkClosing leaves alone.
StageStays == UNCHANGED <<files, stage, rpcs, ends>>

\* Steps of a rotation do not disturb the parts about locks of Stage, files and
\* the end of the server.
LEMMA RotationFrame ==
  ASSUME Inv, NEW l \in Loops, StageStays, wpc[l] = "rotate" \/ Rotating(l),
         UNCHANGED bundle \/ Rotating(l),
         NEW s \in {"probe", "commit", "swap", "mark", "idle"},
         wpc' = [wpc EXCEPT ![l] = s],
         rotateMu' = IF s = "idle" THEN NoOne ELSE l,
         Rotating(l) \/ rotateMu = NoOne
  PROVE  /\ LockInv' /\ MatInv' /\ EndInv'
         /\ \A k \in Loops : Reading(k)' <=> Reading(k)
         /\ \A k \in Loops : k # l => ~Rotating(k) /\ ~Rotating(k)' /\ wpc'[k] = wpc[k]
         /\ \A k \in Loops : k # l => (Holds(k)' <=> Holds(k))
<1>1. wpc \in [Loops -> LoopSteps]
  BY DEF Inv, TypeOK
<1>2. \A k \in Loops : k # l => wpc'[k] = wpc[k] /\ ~Rotating(k)
  BY <1>1 DEF Inv, LockInv, Loops, NoOne
<1>3. \A k \in Loops : k # l => ~Rotating(k)' /\ (Holds(k)' <=> Holds(k))
  BY <1>2 DEF Rotating, Holds
<1>4. \A k \in Loops : (Reading(k)' <=> Reading(k)) /\ (wpc'[k] = "record" <=> wpc[k] = "record")
  BY <1>1 DEF Reading, Rotating
<1>5. Rotating(l)' <=> s # "idle"
  BY <1>1 DEF Rotating
<1>6. LockInv'
  BY <1>2, <1>3, <1>4, <1>5 DEF Inv, LockInv, StageStays, Loops, NoOne
<1>7. MatInv'
  BY <1>4 DEF Inv, MatInv, StageStays
<1>8. EndInv'
  BY DEF Inv, EndInv, StageStays, Rotating
<1> QED
  BY <1>2, <1>3, <1>4, <1>6, <1>7, <1>8

LEMMA DialStep ==
  ASSUME Inv, NEW l \in Loops, Dial(l)
  PROVE  Inv'
<1>1. /\ wpc[l] = "rotate" /\ Holds(l) /\ wpc' = [wpc EXCEPT ![l] = "probe"]
      /\ wpc \in [Loops -> LoopSteps] /\ rotateMu = NoOne /\ rotateMu' = l
      /\ conn' = [conn EXCEPT ![gen[l]] = "open"] /\ conn \in [Gens -> {"none", "open", "closed"}]
      /\ gen \in [Loops -> Gens]
      /\ StageStays /\ UNCHANGED <<gen, old, committed, bundle, refused, closing, drain>>
  BY DEF Inv, TypeOK, Dial, StageStays, Holds
<1>2. TypeOK'
  BY <1>1 DEF Inv, TypeOK, StageStays, LoopSteps
<1>3. /\ LockInv' /\ MatInv' /\ EndInv'
      /\ \A k \in Loops : k # l => ~Rotating(k) /\ ~Rotating(k)' /\ wpc'[k] = wpc[k]
      /\ \A k \in Loops : k # l => (Holds(k)' <=> Holds(k))
  BY <1>1, RotationFrame
<1>4. /\ wpc'[l] = "probe" /\ Holds(l)' /\ Rotating(l)' /\ ~Rotating(l)
  BY <1>1 DEF Holds, Rotating
<1>5. /\ \A g \in Gens : Served(g)' <=> Served(g)
      /\ CallInv' /\ FlagInv' /\ CountsAreCallers'
  <2>1. \A k \in Loops : wpc'[k] = "mark" <=> wpc[k] = "mark"
    BY <1>1
  <2> QED
    BY <1>1, <2>1, ConnsStay DEF StageStays
<1>6. GenInv'
  BY <1>1, <1>3, <1>4, <1>5 DEF Inv, GenInv, StageStays
<1>7. ConnInv'
  <2>1. \A g \in Gens : Served(g) => g # gen[l]
    BY <1>1, <1>4 DEF Inv, GenInv
  <2> QED
    BY <1>1, <1>3, <1>4, <1>5, <2>1 DEF Inv, ConnInv, StageStays
<1> QED
  BY <1>2, <1>3, <1>5, <1>6, <1>7 DEF Inv

LEMMA ProbePassesStep ==
  ASSUME Inv, NEW l \in Loops, ProbePasses(l)
  PROVE  Inv'
<1>1. /\ wpc[l] = "probe" /\ Rotating(l) /\ wpc' = [wpc EXCEPT ![l] = "commit"]
      /\ wpc \in [Loops -> LoopSteps] /\ rotateMu' = l /\ gen \in [Loops -> Gens]
      /\ StageStays /\ UNCHANGED <<rotation, conns>>
  BY DEF Inv, LockInv, TypeOK, ProbePasses, StageStays, Rotating
<1>2. TypeOK'
  BY <1>1 DEF Inv, TypeOK, StageStays, LoopSteps
<1>3. LockInv' /\ MatInv' /\ EndInv'
  BY <1>1, RotationFrame
<1>4. \A k \in Loops : /\ Rotating(k)' <=> Rotating(k)
                       /\ Holds(k)' <=> Holds(k)
                       /\ \A s \in {"mark", "swap"} : wpc'[k] = s <=> wpc[k] = s
  BY <1>1 DEF Rotating, Holds
<1>5. /\ \A g \in Gens : Served(g)' <=> Served(g)
      /\ CallInv' /\ FlagInv' /\ CountsAreCallers'
  BY <1>1, <1>4, ConnsStay DEF StageStays
<1>6. GenInv' /\ ConnInv'
  BY <1>1, <1>4, <1>5 DEF Inv, GenInv, ConnInv, StageStays
<1> QED
  BY <1>2, <1>3, <1>5, <1>6 DEF Inv

LEMMA GiveUpStep ==
  ASSUME Inv, NEW l \in Loops, ProbeFails(l) \/ CommitRefused(l)
  PROVE  Inv'
<1>1. /\ wpc[l] \in {"probe", "commit"} /\ Rotating(l)
      /\ wpc' = [wpc EXCEPT ![l] = "idle"]
      /\ wpc \in [Loops -> LoopSteps] /\ rotateMu = l /\ rotateMu' = NoOne
      /\ conn' = [conn EXCEPT ![gen[l]] = "closed"] /\ conn \in [Gens -> {"none", "open", "closed"}]
      /\ gen' = [gen EXCEPT ![l] = 1] /\ gen \in [Loops -> Gens]
      /\ StageStays /\ UNCHANGED <<old, committed, bundle, closing, drain>>
      /\ refused' \subseteq Versions
  BY DEF Inv, LockInv, TypeOK, ProbeFails, CommitRefused, GiveUp, StageStays, Rotating, Whole
<1>2. TypeOK'
  <2>1. 1 \in Gens
    BY Numbers DEF Gens
  <2> QED
    BY <1>1, <2>1 DEF Inv, TypeOK, StageStays, LoopSteps
<1>3. /\ LockInv' /\ MatInv' /\ EndInv'
      /\ \A k \in Loops : k # l => ~Rotating(k) /\ ~Rotating(k)' /\ wpc'[k] = wpc[k]
      /\ \A k \in Loops : k # l => (Holds(k)' <=> Holds(k))
  BY <1>1, RotationFrame
<1>4. wpc'[l] = "idle" /\ ~Holds(l)' /\ ~Rotating(l)' /\ Holds(l)
  BY <1>1 DEF Holds, Rotating
<1>5. \A k \in Loops : k # l => gen'[k] = gen[k]
  BY <1>1
<1>6. /\ \A g \in Gens : Served(g)' <=> Served(g)
      /\ CallInv' /\ FlagInv' /\ CountsAreCallers'
  <2>1. \A k \in Loops : wpc'[k] = "mark" <=> wpc[k] = "mark"
    BY <1>1
  <2> QED
    BY <1>1, <2>1, ConnsStay DEF StageStays
<1>7. GenInv'
  BY <1>1, <1>3, <1>4, <1>5, <1>6 DEF Inv, GenInv, StageStays
<1>8. ConnInv'
  <2>1. \A g \in Gens : Served(g) => g # gen[l]
    BY <1>1, <1>4 DEF Inv, GenInv
  <2>2. \A g \in Gens : g # gen[l] => conn'[g] = conn[g]
    BY <1>1
  <2>3. conn'[gen[l]] = "closed"
    BY <1>1
  <2> QED
    BY <1>1, <1>3, <1>4, <1>5, <1>6, <2>1, <2>2, <2>3 DEF Inv, ConnInv, StageStays
<1> QED
  BY <1>2, <1>3, <1>6, <1>7, <1>8 DEF Inv

LEMMA CommitStep ==
  ASSUME Inv, NEW l \in Loops, Commit(l)
  PROVE  Inv'
<1>1. /\ wpc[l] = "commit" /\ Rotating(l) /\ Holds(l)
      /\ wpc' = [wpc EXCEPT ![l] = "swap"]
      /\ wpc \in [Loops -> LoopSteps] /\ rotateMu' = l
      /\ committed' = gen[l] /\ gen[l] > committed /\ gen \in [Loops -> Gens]
      /\ StageStays /\ UNCHANGED <<gen, old, bundle, refused, conns>>
  BY DEF Inv, LockInv, TypeOK, Commit, Newer, StageStays, Rotating, Holds
<1>2. TypeOK'
  BY <1>1 DEF Inv, TypeOK, StageStays, LoopSteps
<1>3. /\ LockInv' /\ MatInv' /\ EndInv'
      /\ \A k \in Loops : k # l => ~Rotating(k) /\ ~Rotating(k)' /\ wpc'[k] = wpc[k]
      /\ \A k \in Loops : k # l => (Holds(k)' <=> Holds(k))
  BY <1>1, RotationFrame
<1>4. wpc'[l] = "swap" /\ Holds(l)' /\ Rotating(l)'
  BY <1>1 DEF Holds, Rotating
<1>5. /\ \A g \in Gens : Served(g)' <=> Served(g)
      /\ CallInv' /\ FlagInv' /\ CountsAreCallers'
  <2>1. \A k \in Loops : wpc'[k] = "mark" <=> wpc[k] = "mark"
    BY <1>1
  <2> QED
    BY <1>1, <2>1, ConnsStay DEF StageStays
<1>6. GenInv'
  <2>1. /\ committed \in Nat /\ gen[l] \in Nat /\ staged \in Nat /\ bundle \in Nat
        /\ \A g \in Gens : g \in Nat
    BY SMTT(30), <1>1 DEF Inv, TypeOK, Gens
  <2>2. \A k \in Loops : wpc[k] # "swap"
    BY <1>1, <1>3 DEF Rotating
  <2>3. bundle = committed
    BY <2>2 DEF Inv, GenInv
  <2>4. \A g \in Gens : Served(g) => g <= gen[l]
    BY <1>1, <2>1 DEF Inv, GenInv
  <2>5. \A k \in Loops : wpc'[k] = "swap" => k = l
    BY <1>3 DEF Rotating
  <2> QED
    BY <1>1, <1>3, <1>4, <1>5, <2>1, <2>3, <2>4, <2>5 DEF Inv, GenInv, StageStays
<1>7. ConnInv'
  BY <1>1, <1>3, <1>4, <1>5 DEF Inv, ConnInv, StageStays
<1> QED
  BY <1>2, <1>3, <1>5, <1>6, <1>7 DEF Inv

LEMMA SwapStep ==
  ASSUME Inv, NEW l \in Loops, Swap(l)
  PROVE  Inv'
<1>1. /\ wpc[l] = "swap" /\ Rotating(l) /\ Holds(l)
      /\ wpc' = [wpc EXCEPT ![l] = "mark"]
      /\ wpc \in [Loops -> LoopSteps] /\ rotateMu' = l
      /\ bundle' = gen[l] /\ gen \in [Loops -> Gens]
      /\ old' = [old EXCEPT ![l] = bundle] /\ old \in [Loops -> Gens] /\ bundle \in Gens
      /\ StageStays /\ UNCHANGED <<gen, committed, refused, conns>>
  BY DEF Inv, LockInv, TypeOK, Swap, StageStays, Rotating, Holds
<1>2. TypeOK'
  BY <1>1 DEF Inv, TypeOK, StageStays, LoopSteps
<1>3. /\ LockInv' /\ MatInv' /\ EndInv'
      /\ \A k \in Loops : k # l => ~Rotating(k) /\ ~Rotating(k)' /\ wpc'[k] = wpc[k]
      /\ \A k \in Loops : k # l => (Holds(k)' <=> Holds(k))
  BY <1>1, RotationFrame
<1>4. wpc'[l] = "mark" /\ Holds(l)' /\ Rotating(l)' /\ old'[l] = bundle
  BY <1>1 DEF Holds, Rotating
<1>5. committed = gen[l] /\ bundle < committed
  BY <1>1 DEF Inv, GenInv
<1>6. \A k \in Loops : k # l => wpc[k] # "mark" /\ wpc'[k] # "mark" /\ wpc'[k] # "swap"
  BY <1>3 DEF Rotating
<1>7. \A g \in Gens : Served(g)' <=> Served(g) \/ g = gen[l]
  BY <1>1, <1>4, <1>6 DEF Served
<1>8. CallInv' /\ FlagInv' /\ CountsAreCallers'
  <2>1. at \in [Calls -> Gens]
    BY DEF Inv, TypeOK
  <2> QED
    BY <1>1, <1>7, <2>1, SameCounts DEF Inv, CallInv, FlagInv, StageStays
<1>9. GenInv'
  <2>1. \A k \in Loops : k # l /\ Holds(k) => gen[k] # gen[l]
    BY <1>1 DEF Inv, GenInv
  <2>2. \A g \in Gens : Served(g)' => g <= committed
    BY <1>1, <1>5, <1>7 DEF Inv, GenInv, Gens
  <2>3. drain[gen[l]] = "none" /\ drain[bundle] = "none" /\ ~Served(gen[l]) /\ bundle # gen[l]
    BY <1>1 DEF Inv, GenInv, Served
  <2>4. \A k \in Loops : wpc'[k] = "mark" => k = l
    BY <1>6
  <2>5. \A k \in Loops : Holds(k)' /\ wpc'[k] # "mark" => k # l /\ Holds(k) /\ ~Served(gen[k])'
    BY <1>1, <1>3, <1>4, <1>6, <1>7, <2>1 DEF Inv, GenInv
  <2> QED
    BY <1>1, <1>3, <1>4, <1>5, <1>6, <2>1, <2>2, <2>3, <2>4, <2>5 DEF Inv, GenInv, StageStays
<1>10. ConnInv'
  <2>1. conn[gen[l]] = "open"
    BY <1>1 DEF Inv, ConnInv
  <2>2. \A g \in Gens : Served(g)' /\ drain'[g] \in {"none", "poll"} => conn'[g] = "open" \/ closed'
    BY <1>1, <1>7, <2>1 DEF Inv, ConnInv, StageStays
  <2>3. \A g \in Gens : conn'[g] = "open" =>
           \/ g = bundle'
           \/ drain'[g] \in {"poll", "close"}
           \/ \E k \in Loops : Rotating(k)' /\ gen'[k] = g
           \/ \E k \in Loops : wpc'[k] = "mark" /\ old'[k] = g
    BY <1>1, <1>3, <1>4, <1>6 DEF Inv, ConnInv
  <2> QED
    BY <1>1, <1>3, <1>4, <2>1, <2>2, <2>3 DEF Inv, ConnInv
<1> QED
  BY <1>2, <1>3, <1>8, <1>9, <1>10 DEF Inv

LEMMA MarkStep ==
  ASSUME Inv, NEW l \in Loops, MarkClosing(l)
  PROVE  Inv'
<1>1. /\ wpc[l] = "mark" /\ Rotating(l) /\ Holds(l)
      /\ wpc' = [wpc EXCEPT ![l] = "idle"]
      /\ wpc \in [Loops -> LoopSteps] /\ rotateMu' = NoOne
      /\ closing' = [closing EXCEPT ![old[l]] = TRUE] /\ closing \in [Gens -> BOOLEAN]
      /\ drain' = [drain EXCEPT ![old[l]] = "poll"]
      /\ drain \in [Gens -> {"none", "poll", "close", "done"}]
      /\ gen' = [gen EXCEPT ![l] = 1] /\ gen \in [Loops -> Gens]
      /\ old' = [old EXCEPT ![l] = 1] /\ old \in [Loops -> Gens]
      /\ StageStays /\ UNCHANGED <<committed, bundle, refused, conn>>
  BY DEF Inv, LockInv, TypeOK, MarkClosing, StageStays, Rotating, Holds
<1>2. TypeOK'
  <2>1. 1 \in Gens
    BY Numbers DEF Gens
  <2> QED
    BY <1>1, <2>1 DEF Inv, TypeOK, StageStays, LoopSteps
<1>3. /\ LockInv' /\ MatInv' /\ EndInv'
      /\ \A k \in Loops : k # l => ~Rotating(k) /\ ~Rotating(k)' /\ wpc'[k] = wpc[k]
      /\ \A k \in Loops : k # l => (Holds(k)' <=> Holds(k))
  BY <1>1, RotationFrame
<1>4. wpc'[l] = "idle" /\ ~Holds(l)' /\ ~Rotating(l)'
  BY <1>1 DEF Holds, Rotating
<1>5. \A k \in Loops : k # l => gen'[k] = gen[k] /\ wpc[k] # "mark" /\ wpc'[k] # "mark"
  BY <1>1, <1>3 DEF Rotating
<1>6. /\ \A g \in Gens : g # old[l] => drain'[g] = drain[g] /\ closing'[g] = closing[g]
      /\ drain'[old[l]] = "poll" /\ closing'[old[l]] = TRUE
      /\ old[l] \in Gens /\ Served(old[l])
  BY <1>1 DEF Served
<1>7. \A g \in Gens : Served(g)' <=> Served(g)
  BY <1>1, <1>4, <1>5, <1>6 DEF Served
<1>8. CallInv' /\ FlagInv' /\ CountsAreCallers'
  <2>1. at \in [Calls -> Gens]
    BY DEF Inv, TypeOK
  <2> QED
    BY <1>1, <1>6, <1>7, <2>1, SameCounts DEF Inv, CallInv, FlagInv, StageStays
<1>9. GenInv'
  <2>1. \A k \in Loops : wpc[k] # "swap" /\ wpc'[k] # "swap"
    BY <1>1, <1>3, <1>4 DEF Rotating
  <2> QED
    BY <1>1, <1>3, <1>4, <1>5, <1>7, <2>1 DEF Inv, GenInv, StageStays
<1>10. ConnInv'
  <2>1. conn[old[l]] = "open" \/ closed \/ drain[old[l]] \in {"close", "done"}
    BY <1>1, <1>6 DEF Inv, ConnInv
  <2>2. ~closed
    BY <1>1 DEF Inv, EndInv
  <2>3. drain[old[l]] \notin {"close", "done"}
    BY <1>1 DEF Inv, GenInv
  <2> QED
    <3>1. /\ \A g \in Gens : Served(g)' /\ drain'[g] \in {"none", "poll"} => conn'[g] = "open"
          /\ \A k \in Loops : Rotating(k)' => FALSE
      BY <1>1, <1>3, <1>4, <1>6, <1>7, <2>1, <2>2, <2>3 DEF Inv, ConnInv
    <3>2. \A g \in Gens : conn[g] = "open" =>
             g \in {bundle, old[l], gen[l]} \/ drain[g] \in {"poll", "close"}
      BY <1>1, <1>3, <1>5 DEF Inv, ConnInv
    <3>3. gen[l] = bundle
      BY <1>1 DEF Inv, GenInv
    <3> QED
      BY <1>1, <1>6, <3>1, <3>2, <3>3 DEF ConnInv
<1> QED
  BY <1>2, <1>3, <1>8, <1>9, <1>10 DEF Inv

-----------------------------------------------------------------------------
(* The drains and the end of the server.                                   *)

LEMMA DrainStep ==
  ASSUME Inv, NEW g \in Gens, Drain(g)
  PROVE  Inv'
<1>1. /\ UNCHANGED <<files, wpc, stage, rotation, closing, rpcs, ends>>
      /\ drain \in [Gens -> {"none", "poll", "close", "done"}]
      /\ conn \in [Gens -> {"none", "open", "closed"}]
      /\ \/ /\ drain[g] = "poll" /\ drain' = [drain EXCEPT ![g] = "close"]
            /\ inflight[g] = 0 \/ closed
            /\ UNCHANGED conn
         \/ /\ drain[g] = "close" /\ drain' = [drain EXCEPT ![g] = "done"]
            /\ conn' = [conn EXCEPT ![g] = "closed"]
  BY DEF Inv, TypeOK, Drain, DrainPoll, DrainClose
<1>2. TypeOK' /\ CountsAreCallers'
  BY ZenonT(60), <1>1, SameCounts DEF Inv, TypeOK
<1>3. \A h \in Gens : /\ drain[h] = "none" <=> drain'[h] = "none"
                      /\ Served(h)' <=> Served(h)
                      /\ h # g => drain'[h] = drain[h] /\ conn'[h] = conn[h]
  BY <1>1 DEF Served
<1>4. bundle \in Gens /\ old \in [Loops -> Gens] /\ gen \in [Loops -> Gens] /\ at \in [Calls -> Gens]
  BY DEF Inv, TypeOK
<1>5. LockInv' /\ MatInv' /\ FlagInv'
  BY <1>1, <1>3 DEF Inv, LockInv, MatInv, FlagInv, Reading, Rotating
<1>6. GenInv'
  BY <1>1, <1>3, <1>4 DEF Inv, GenInv, Holds, Rotating
<1>7. EndInv'
  BY <1>1, <1>3, <1>4 DEF Inv, EndInv
<1>8. ConnInv'
  <2>1. drain[bundle] = "none" /\ \A l \in Loops : Rotating(l) => drain[gen[l]] = "none"
    BY <1>4 DEF Inv, GenInv, Holds, Served
  <2>2. g # bundle /\ \A l \in Loops : Rotating(l) => g # gen[l]
    BY <1>1, <2>1
  <2>3. \A l \in Loops : Rotating(l)' <=> Rotating(l)
    BY <1>1 DEF Rotating
  <2> QED
    BY <1>1, <1>3, <1>4, <2>2, <2>3 DEF Inv, ConnInv
<1>9. CallInv'
  <2>1. ASSUME NEW c \in Calls, cpc[c] \in {"same", "running"}, at[c] = g, ~closed
        PROVE  inflight[g] # 0
    <3>1. c \in Counted(g)
      BY <2>1 DEF Counted
    <3>2. Cardinality(Counted(g)) # 0
      BY <3>1, CountedFinite, FS_EmptySet
    <3> QED
      BY <3>2 DEF Inv, CountsAreCallers
  <2>2. ASSUME NEW c \in Calls
        PROVE  cpc[c] \in {"same", "running"} => drain'[at[c]] \in {"none", "poll"} \/ closed
    <3>1. at[c] # g => drain'[at[c]] = drain[at[c]]
      BY <1>3, <1>4
    <3>2. cpc[c] \in {"same", "running"} => drain[at[c]] \in {"none", "poll"} \/ closed
      BY DEF Inv, CallInv
    <3> QED
      BY <1>1, <2>1, <3>1, <3>2
  <2> QED
    BY <1>1, <1>3, <1>4, <2>2 DEF Inv, CallInv
<1> QED
  BY <1>2, <1>5, <1>6, <1>7, <1>8, <1>9 DEF Inv

LEMMA EndStep ==
  ASSUME Inv, CloseWatcher \/ Closing
  PROVE  Inv'
<1>1. UNCHANGED <<files, wpc, stage, rotation, closing, drain, rpcs>>
  BY DEF CloseWatcher, Closing, JoinLoops, SetClosed, CloseConn
<1>2. bundle \in Gens /\ conn \in [Gens -> {"none", "open", "closed"}]
  BY DEF Inv, TypeOK
<1>3. TypeOK' /\ CountsAreCallers'
  BY <1>1, <1>2, SameCounts
     DEF Inv, TypeOK, CloseWatcher, Closing, JoinLoops, SetClosed, CloseConn
<1>4. /\ \A g \in Gens : Served(g)' <=> Served(g)
      /\ \A l \in Loops : (Rotating(l)' <=> Rotating(l)) /\ (Holds(l)' <=> Holds(l))
  BY <1>1 DEF Served, Rotating, Holds
<1>5. LockInv' /\ GenInv' /\ MatInv' /\ FlagInv'
  <2>1. LockInv' /\ MatInv' /\ FlagInv'
    BY <1>1, <1>4 DEF Inv, LockInv, MatInv, FlagInv, Reading
  <2>2. GenInv'
    BY <1>1, GensStay
  <2> QED
    BY <2>1, <2>2
<1>6. EndInv'
  BY <1>1, <1>2 DEF Inv, EndInv, CloseWatcher, Closing, JoinLoops, SetClosed, CloseConn
<1>7. closed => closed'
  BY DEF CloseWatcher, Closing, JoinLoops, SetClosed, CloseConn
<1>8. CallInv'
  <2>1. at \in [Calls -> Gens]
    BY DEF Inv, TypeOK
  <2> QED
    BY <1>1, <1>4, <1>7, <2>1 DEF Inv, CallInv
<1>9. ConnInv'
  <2>1. CASE CloseConn
    <3>1. /\ closed' /\ \A l \in Loops : wpc[l] = "gone"
          /\ conn' = [conn EXCEPT ![bundle] = "closed"]
      BY <2>1 DEF Inv, EndInv, CloseConn
    <3>2. \A l \in Loops : ~Rotating(l)
      BY <3>1 DEF Rotating
    <3> QED
      BY <1>1, <1>2, <1>4, <3>1, <3>2 DEF Inv, ConnInv
  <2>2. CASE UNCHANGED conn
    BY <1>1, <1>4, <1>7, <2>2 DEF Inv, ConnInv
  <2> QED
    BY <2>1, <2>2 DEF CloseWatcher, Closing, JoinLoops, SetClosed
<1> QED
  BY <1>3, <1>5, <1>6, <1>8, <1>9 DEF Inv

LEMMA StutterStep ==
  ASSUME Inv, UNCHANGED vars
  PROVE  Inv'
<1>1. TypeOK' /\ CountsAreCallers'
  BY SameCounts DEF Inv, TypeOK, vars
<1>2. /\ \A g \in Gens : Served(g)' <=> Served(g)
      /\ \A l \in Loops : /\ Rotating(l)' <=> Rotating(l)
                          /\ Holds(l)' <=> Holds(l)
                          /\ Reading(l)' <=> Reading(l)
  BY DEF vars, Served, Rotating, Holds, Reading
<1>3. at \in [Calls -> Gens]
  BY DEF Inv, TypeOK
<1>4. LockInv' /\ MatInv' /\ EndInv' /\ FlagInv'
  BY <1>2 DEF vars, Inv, LockInv, MatInv, EndInv, FlagInv
<1>5. GenInv' /\ CallInv'
  BY <1>2, <1>3, GensStay DEF vars, Inv, CallInv
<1>6. ConnInv'
  BY <1>2 DEF vars, Inv, ConnInv
<1> QED
  BY <1>1, <1>4, <1>5, <1>6 DEF Inv

LEMMA NextInv == Inv /\ [Next]_vars => Inv'
<1> SUFFICES ASSUME Inv, [Next]_vars PROVE Inv'
  OBVIOUS
<1>1. ASSUME NEW l \in Loops, Step(l) PROVE Inv'
  BY <1>1, WakeStep, ReadPairStep, ReadCAStep, RecordStep, DialStep, ProbePassesStep,
     GiveUpStep, CommitStep, SwapStep, MarkStep DEF Step
<1>2. ASSUME NEW c \in Calls, Begin(c) \/ CallStep(c) PROVE Inv'
  BY <1>2, CallInvs
<1>3. ASSUME NEW g \in Gens, Drain(g) PROVE Inv'
  BY <1>3, DrainStep
<1> QED
  BY <1>1, <1>2, <1>3, EditStep, EndStep, StutterStep DEF Next

LEMMA Invariance == Spec => []Inv
BY InitInv, NextInv, PTL DEF Spec

-----------------------------------------------------------------------------
\* The types of the watcher and the client, the range of the counts included.
THEOREM TypeCorrect == Spec => []TypeOK
<1>1. Inv => TypeOK
  BY DEF Inv
<1> QED
  BY <1>1, Invariance, PTL

\* A bundle's count is the number of the callers that are between the increment
\* of acquire and their release.
THEOREM CountsStayExact == Spec => []CountsAreCallers
<1>1. Inv => CountsAreCallers
  BY DEF Inv
<1> QED
  BY <1>1, Invariance, PTL

\* No rotation closes a connection under a call that acquire has let through.
THEOREM CallsKeepTheirConn == Spec => []RunningCallsKeepTheirConn
<1>1. Inv => RunningCallsKeepTheirConn
  BY DEF Inv, TypeOK, CallInv, ConnInv, RunningCallsKeepTheirConn
<1> QED
  BY <1>1, Invariance, PTL

\* Outside a rotation the client serves what the watcher reports as committed.
THEOREM ServesWhatIsCommitted == Spec => []ServedIsCommitted
<1>1. Inv => ServedIsCommitted
  <2>1. ASSUME Inv, rotateMu = NoOne PROVE \A l \in Loops : wpc[l] # "swap"
    BY <2>1 DEF Inv, LockInv, Rotating, Loops, NoOne
  <2> QED
    BY <2>1 DEF Inv, GenInv, ServedIsCommitted
<1> QED
  BY <1>1, Invariance, PTL

\* The shutdown sequence leaves no connection that nobody will close.
THEOREM ShutdownLeaksNothing == Spec => []NothingLeaks
<1>1. Inv => NothingLeaks
  <2>1. ASSUME Inv, main = "done" PROVE \A l \in Loops : ~Rotating(l) /\ wpc[l] # "mark"
    BY <2>1 DEF Inv, EndInv, Rotating
  <2> QED
    BY <2>1 DEF Inv, EndInv, ConnInv, NothingLeaks
<1> QED
  BY <1>1, Invariance, PTL

\* Material that serves is replaced only by material at least as new.
THEOREM MaterialNeverAges == Spec => NeverOlder
<1>1. Inv /\ [Next]_vars =>
        [/\ mat[bundle'].cert >= mat[bundle].cert /\ mat[bundle'].ca >= mat[bundle].ca]_bundle
  <2> SUFFICES ASSUME Inv, Next, bundle' # bundle
               PROVE  mat[bundle'].cert >= mat[bundle].cert /\ mat[bundle'].ca >= mat[bundle].ca
    BY DEF vars
  <2>1. PICK l \in Loops : Swap(l)
    BY DEF Next, Step, Edit, Wake, Exit, ReadPair, ReadCA, Record, Dial, ProbePasses, ProbeFails,
       Commit, CommitRefused, MarkClosing, Begin, CallStep, LoadBundle, CountIn, TestClosing,
       TestSame, CountOut, Release, CallMoves, Drain, DrainPoll, DrainClose, CloseWatcher,
       Closing, JoinLoops, SetClosed, CloseConn
  <2>2. /\ bundle' = gen[l] /\ bundle < gen[l] /\ gen[l] <= staged
        /\ gen[l] \in Gens /\ bundle \in Gens /\ staged \in Gens
    BY <2>1 DEF Inv, GenInv, TypeOK, Swap, Holds, Rotating
  <2>3. \A g \in Gens : mat[g] \in [cert : Versions, ca : Versions]
    BY DEF Inv, TypeOK
  <2>4. mat[bundle].cert <= mat[gen[l]].cert /\ mat[bundle].ca <= mat[gen[l]].ca
    BY <2>2 DEF Inv, MatInv, Gens
  <2> QED
    BY <2>2, <2>3, <2>4, Numbers DEF Versions
<1> QED
  BY <1>1, Invariance, PTL DEF Spec, NeverOlder

-----------------------------------------------------------------------------
(* What was put on disk last is served in the end.                         *)

\* A Stage that goes on has read something that is no longer on disk.
Stale(l) == Reading(l) /\ (cert[l] # disk \/ (wpc[l] = "record" /\ ca[l] # disk))

\* Why the version on disk will still be served: an event waits; the poll will
\* find it, since no Stage is about to store its time without having read it; a
\* loop is about to read it, has read it, or has it in hand; or it is served.
OnItsWay ==
  \/ pending
  \/ seen < disk /\ \A l \in Loops : ~Stale(l)
  \/ \E l \in Loops : wpc[l] = "stage"
  \/ \E l \in Loops : Reading(l) /\ ~Stale(l)
  \/ \E l \in Loops : wpc[l] \in {"rotate", "probe", "commit", "swap"}
                      /\ mat[gen[l]] = [cert |-> disk, ca |-> disk]
  \/ Fresh

FreshInv ==
  /\ seen <= disk
  /\ ~unseen /\ ~wclosed /\ disk \notin Invalid \cup refused => OnItsWay

LEMMA EditKeepsFresh ==
  ASSUME Inv, FreshInv, Edit
  PROVE  FreshInv'
<1>1. /\ disk' = disk + 1 /\ disk \in Nat /\ seen \in Nat /\ seen' = seen
      /\ UNCHANGED <<wpc, stage, rotation>>
  BY DEF Inv, TypeOK, Edit, Versions
<1>2. seen' < disk' /\ seen' <= disk'
  BY <1>1 DEF FreshInv
<1>3. ASSUME ~unseen', ~pending' PROVE \A l \in Loops : ~Stale(l)'
  <2>1. \A l \in Loops : ~Reading(l)
    BY <1>3 DEF Edit
  <2> QED
    BY <1>1, <2>1 DEF Stale, Reading
<1> QED
  BY <1>2, <1>3 DEF FreshInv, OnItsWay

LEMMA LoopKeepsFresh ==
  ASSUME Inv, FreshInv, NEW l \in Loops, Step(l)
  PROVE  FreshInv'
<1>0. /\ UNCHANGED <<disk, unseen, wclosed>> /\ refused \subseteq refused'
      /\ seen' \in {seen, disk} /\ (seen' = seen \/ Record(l))
      /\ disk \in Nat /\ seen \in Nat /\ seen <= disk
  BY DEF Inv, TypeOK, Versions, FreshInv, Step, Wake, Exit, ReadPair, ReadCA, Record, Dial,
     ProbePasses, ProbeFails, GiveUp, Commit, CommitRefused, Swap, MarkClosing
<1>1. seen' <= disk'
  BY <1>0
<1> SUFFICES ASSUME ~unseen', ~wclosed', disk' \notin Invalid \cup refused'
             PROVE  OnItsWay'
  BY <1>1 DEF FreshInv
<1>2. OnItsWay /\ ~wclosed /\ disk \notin Invalid /\ disk \notin refused
  BY <1>0 DEF FreshInv
<1>3. /\ wpc \in [Loops -> LoopSteps] /\ gen \in [Loops -> Gens]
      /\ cert \in [Loops -> Versions] /\ ca \in [Loops -> Versions]
      /\ mat \in [Gens -> [cert : Versions, ca : Versions]] /\ disk \in Versions
      /\ staged \in Gens /\ committed \in Gens /\ bundle \in Gens
  BY DEF Inv, TypeOK
<1>4. CASE Wake(l)
  <2>1. wpc'[l] = "stage"
    BY <1>3, <1>4 DEF Wake
  <2> QED
    BY <2>1 DEF OnItsWay
<1>5. CASE Exit(l)
  BY <1>2, <1>5 DEF Exit
<1>6. CASE ReadPair(l)
  <2>1. wpc'[l] = "ca" /\ cert'[l] = disk'
    BY <1>3, <1>6 DEF ReadPair
  <2> QED
    BY <2>1 DEF OnItsWay, Stale, Reading
<1>7. CASE ReadCA(l)
  <2>1. /\ wpc[l] = "ca" /\ UNCHANGED <<files, mat, bundle, gen>>
        /\ \A k \in Loops : k # l => UNCHANGED <<wpc[k], cert[k], ca[k]>>
    BY <1>3, <1>7 DEF ReadCA
  <2>2. \A k \in Loops : Reading(k) => k = l
    BY <2>1 DEF Inv, LockInv, Reading
  <2>3. CASE Stale(l)
    <3>1. /\ ~(seen < disk /\ \A k \in Loops : ~Stale(k))
          /\ ~\E k \in Loops : Reading(k) /\ ~Stale(k)
      BY <2>2, <2>3
    <3> QED
      BY <1>2, <2>1, <3>1 DEF OnItsWay, Fresh
  <2>4. CASE ~Stale(l)
    <3>1. cert[l] = disk
      BY <2>1, <2>4 DEF Stale, Reading
    <3>2. wpc'[l] = "record" /\ cert'[l] = disk' /\ ca'[l] = disk'
      BY <1>2, <1>3, <1>7, <3>1 DEF ReadCA
    <3> QED
      BY <3>2 DEF OnItsWay, Stale, Reading
  <2> QED
    BY <2>3, <2>4
<1>8. CASE Record(l)
  <2>1. /\ wpc[l] = "record" /\ Reading(l) /\ wpc'[l] = "rotate"
        /\ gen'[l] = staged + 1 /\ staged + 1 \in Gens /\ staged \in Nat
        /\ mat' = [mat EXCEPT ![staged + 1] = [cert |-> cert[l], ca |-> ca[l]]]
        /\ UNCHANGED <<disk, pending, bundle>>
        /\ \A k \in Loops : k # l => UNCHANGED <<wpc[k], gen[k]>>
    BY <1>3, <1>8, Numbers DEF Record, Reading, Gens
  <2>2. \A k \in Loops : Reading(k) => k = l
    BY <2>1 DEF Inv, LockInv
  <2>3. CASE Stale(l)
    <3>1. /\ ~(seen < disk /\ \A k \in Loops : ~Stale(k))
          /\ ~\E k \in Loops : Reading(k) /\ ~Stale(k)
      BY <2>2, <2>3
    <3>2. \A g \in Gens : g <= staged => mat'[g] = mat[g]
      BY <1>3, <2>1 DEF Gens
    <3>3. bundle <= staged /\ \A k \in Loops : Holds(k) => gen[k] <= staged
      BY <1>3 DEF Inv, GenInv, Served, Gens
    <3>4. Fresh => Fresh'
      BY <1>3, <2>1, <3>2, <3>3 DEF Fresh
    <3>5. \A k \in Loops : wpc[k] \in {"rotate", "probe", "commit", "swap"} =>
             wpc'[k] = wpc[k] /\ mat'[gen'[k]] = mat[gen[k]]
      BY <1>3, <2>1, <3>2, <3>3 DEF Holds, Rotating
    <3> QED
      BY <1>2, <2>1, <3>1, <3>4, <3>5 DEF OnItsWay
  <2>4. CASE ~Stale(l)
    <3>1. mat'[gen'[l]] = [cert |-> disk', ca |-> disk']
      BY <1>3, <2>1, <2>4 DEF Stale
    <3> QED
      BY <2>1, <3>1 DEF OnItsWay
  <2> QED
    BY <2>3, <2>4
<1>9. CASE Dial(l) \/ ProbePasses(l) \/ Commit(l)
  <2>1. /\ wpc[l] \in {"rotate", "probe", "commit"} /\ wpc'[l] \in {"probe", "commit", "swap"}
        /\ \A k \in Loops : k # l => wpc'[k] = wpc[k]
        /\ UNCHANGED <<files, stage, gen, bundle>>
    BY <1>3, <1>9 DEF Dial, ProbePasses, Commit
  <2>2. \A k \in Loops : (Stale(k)' <=> Stale(k)) /\ (Reading(k)' <=> Reading(k))
    BY <2>1 DEF Stale, Reading
  <2> QED
    BY <1>2, <2>1, <2>2 DEF OnItsWay, Fresh
<1>10. CASE ProbeFails(l) \/ CommitRefused(l)
  <2>1. /\ wpc[l] \in {"probe", "commit"} /\ wpc'[l] = "idle" /\ Rotating(l)
        /\ \A k \in Loops : k # l => wpc'[k] = wpc[k] /\ gen'[k] = gen[k]
        /\ UNCHANGED <<files, stage, bundle>>
    BY <1>3, <1>10 DEF ProbeFails, CommitRefused, GiveUp, Rotating
  <2>2. \A k \in Loops : (Stale(k)' <=> Stale(k)) /\ (Reading(k)' <=> Reading(k))
    BY <2>1 DEF Stale, Reading
  <2>3. CASE mat[gen[l]] = [cert |-> disk, ca |-> disk]
    <3>1. CASE ProbeFails(l)
      <4>1. disk \in Whole(gen[l])
        BY <1>3, <2>3 DEF Whole
      <4>2. disk \in refused'
        BY <3>1, <4>1 DEF ProbeFails
      <4> QED
        BY <1>0, <4>2
    <3>2. CASE CommitRefused(l)
      <4>1. gen[l] <= committed /\ bundle = committed /\ committed <= staged
        <5>1. gen[l] <= committed
          BY <1>2, <1>3, <3>2 DEF CommitRefused, Newer, Gens
        <5>2. \A k \in Loops : wpc[k] # "swap"
          BY <2>1, <3>2 DEF Inv, LockInv, Rotating, CommitRefused
        <5> QED
          BY <5>1, <5>2 DEF Inv, GenInv
      <4>2. mat[gen[l]].cert <= mat[bundle].cert /\ mat[gen[l]].ca <= mat[bundle].ca
        BY <1>3, <4>1 DEF Inv, MatInv
      <4>3. mat[bundle].cert <= disk /\ mat[bundle].ca <= disk
        BY <1>3, <4>1 DEF Inv, MatInv
      <4>4. mat[bundle] \in [cert : Nat, ca : Nat]
        BY <1>3 DEF Versions
      <4>5. mat[bundle].cert = disk /\ mat[bundle].ca = disk
        BY <1>0, <2>3, <4>2, <4>3, <4>4
      <4>6. mat[bundle] = [cert |-> disk, ca |-> disk]
        BY <4>4, <4>5
      <4> QED
        BY <2>1, <4>6 DEF OnItsWay, Fresh
    <3> QED
      BY <1>10, <3>1, <3>2
  <2>4. CASE mat[gen[l]] # [cert |-> disk, ca |-> disk]
    <3>1. \A k \in Loops : wpc[k] \in {"stage", "rotate", "probe", "commit", "swap"} /\ k # l =>
             wpc'[k] = wpc[k] /\ gen'[k] = gen[k]
      BY <2>1
    <3> QED
      BY <1>2, <2>1, <2>2, <2>4, <3>1 DEF OnItsWay, Fresh
  <2> QED
    BY <2>3, <2>4
<1>11. CASE Swap(l) \/ MarkClosing(l)
  <2>1. /\ wpc[l] \in {"swap", "mark"} /\ wpc'[l] \in {"idle", "mark"} /\ Holds(l)
        /\ \A k \in Loops : k # l => wpc'[k] = wpc[k] /\ gen'[k] = gen[k]
        /\ UNCHANGED <<files, stage>>
        /\ bundle' = IF Swap(l) THEN gen[l] ELSE bundle
    BY <1>3, <1>11 DEF Swap, MarkClosing, Holds, Rotating
  <2>2. \A k \in Loops : (Stale(k)' <=> Stale(k)) /\ (Reading(k)' <=> Reading(k))
    BY <2>1 DEF Stale, Reading
  <2>3. CASE Swap(l) /\ (Fresh \/ mat[gen[l]] = [cert |-> disk, ca |-> disk])
    <3>1. mat[gen[l]] \in [cert : Nat, ca : Nat] /\ mat[bundle] \in [cert : Nat, ca : Nat]
      BY <1>3 DEF Versions
    <3>2. bundle < gen[l] /\ gen[l] <= staged /\ bundle \in Nat /\ gen[l] \in Nat
      BY <1>3, <2>1, <2>3 DEF Inv, GenInv, Swap, Gens
    <3>3. /\ mat[bundle].cert <= mat[gen[l]].cert /\ mat[bundle].ca <= mat[gen[l]].ca
          /\ mat[gen[l]].cert <= disk /\ mat[gen[l]].ca <= disk
      BY <1>3, <3>2 DEF Inv, MatInv
    <3>4. mat[gen[l]].cert = disk /\ mat[gen[l]].ca = disk
      BY <1>0, <2>3, <3>1, <3>3 DEF Fresh
    <3>5. mat[gen[l]] = [cert |-> disk, ca |-> disk]
      BY <3>1, <3>4
    <3> QED
      BY <2>1, <2>3, <3>5 DEF OnItsWay, Fresh
  <2>4. CASE ~(Swap(l) /\ (Fresh \/ mat[gen[l]] = [cert |-> disk, ca |-> disk]))
    <3>1. \A k \in Loops : wpc[k] \in {"stage", "rotate", "probe", "commit"} =>
             wpc'[k] = wpc[k] /\ gen'[k] = gen[k]
      BY <2>1
    <3>2. wpc[l] = "swap" => Swap(l)
      BY <1>11 DEF MarkClosing
    <3>3. \A k \in Loops : wpc[k] = "swap" => k = l
      BY <2>1, <1>11 DEF Inv, LockInv, Rotating
    <3> QED
      BY <1>2, <2>1, <2>2, <2>4, <3>1, <3>2, <3>3 DEF OnItsWay, Fresh
  <2> QED
    BY <2>3, <2>4
<1> QED
  BY <1>4, <1>5, <1>6, <1>7, <1>8, <1>9, <1>10, <1>11 DEF Step

\* The other processes do not touch what FreshInv speaks of.
LEMMA OthersKeepFresh ==
  ASSUME FreshInv, UNCHANGED <<files, wpc, stage, rotation>>, wclosed => wclosed'
  PROVE  FreshInv'
<1>1. \A l \in Loops : (Stale(l)' <=> Stale(l)) /\ (Reading(l)' <=> Reading(l))
  BY DEF Stale, Reading
<1> QED
  BY <1>1 DEF FreshInv, OnItsWay, Fresh

\* When both loops rest and have no reason to wake, the last version is served, with
\* the exceptions that RestsWhenFresh names.
THEOREM LastVersionIsServed == Spec => []RestsWhenFresh
<1>1. Init => FreshInv
  BY Numbers DEF Init, FreshInv, OnItsWay, Fresh, Gens
<1>2. Inv /\ FreshInv /\ [Next]_vars => FreshInv'
  <2> SUFFICES ASSUME Inv, FreshInv, [Next]_vars PROVE FreshInv'
    OBVIOUS
  <2>1. ASSUME NEW c \in Calls, Begin(c) \/ CallStep(c) PROVE FreshInv'
    BY <2>1, OthersKeepFresh DEF Begin, CallStep, LoadBundle, CountIn, TestClosing, TestSame,
       CountOut, Release, CallMoves
  <2>2. ASSUME NEW g \in Gens, Drain(g) PROVE FreshInv'
    BY <2>2, OthersKeepFresh DEF Drain, DrainPoll, DrainClose
  <2>3. CASE CloseWatcher \/ Closing
    BY <2>3, OthersKeepFresh DEF CloseWatcher, Closing, JoinLoops, SetClosed, CloseConn
  <2>4. CASE UNCHANGED vars
    BY <2>4, OthersKeepFresh DEF vars
  <2> QED
    BY <2>1, <2>2, <2>3, <2>4, EditKeepsFresh, LoopKeepsFresh DEF Next
<1>3. Inv /\ FreshInv => RestsWhenFresh
  <2> SUFFICES ASSUME Inv, FreshInv, \A l \in Loops : wpc[l] = "idle", ~pending,
                      ~MtimeAdvanced, ~wclosed, ~unseen, disk \notin Invalid \cup refused
               PROVE  Fresh
    BY DEF RestsWhenFresh
  <2>1. OnItsWay
    BY DEF FreshInv
  <2>2. ~(seen < disk)
    BY DEF MtimeAdvanced, Inv, TypeOK, Versions
  <2> QED
    BY <2>1, <2>2 DEF OnItsWay, Reading
<1> QED
  BY <1>1, <1>2, <1>3, Invariance, PTL DEF Spec

-----------------------------------------------------------------------------
(* The steps of ConnHandover, seen from here.                              *)

AbstractStep == [Promise!Next]_(Promise!vars)

\* A loop has a connection that does not serve yet.
InHand(l) == wpc[l] \in {"probe", "commit", "swap"}

LEMMA ServiceIs ==
  \A g : g \in InService <=>
           g \in Gens /\ conn[g] = "open" /\ \A l \in Loops : InHand(l) => gen[l] # g
BY DEF InService, Candidates, InHand

LEMMA ServiceIsAfter ==
  \A g : g \in InService' <=>
           g \in Gens /\ conn'[g] = "open" /\ \A l \in Loops : InHand(l)' => gen'[l] # g
BY DEF InService, Candidates, InHand

LEMMA Stutters ==
  ASSUME UNCHANGED <<bundle, InService, User, closed>>
  PROVE  AbstractStep
BY DEF AbstractStep, Promise!vars

\* What is in service changes only with a connection or with what is in hand.
LEMMA ServiceFrame ==
  ASSUME UNCHANGED conn,
         \A l \in Loops : (InHand(l)' <=> InHand(l)) /\ (InHand(l) => gen'[l] = gen[l])
  PROVE  InService' = InService
BY ServiceIs, ServiceIsAfter

\* Nobody runs on a connection in hand, nor has it ever served; and only one loop
\* has one.
LEMMA InHandIsNew ==
  ASSUME Inv, NEW l \in Loops, InHand(l)
  PROVE  /\ gen[l] \in Gens /\ conn[gen[l]] = "open" /\ ~Served(gen[l])
         /\ \A k \in Loops : InHand(k) => k = l
BY DEF Inv, TypeOK, LockInv, GenInv, ConnInv, InHand, Holds, Rotating

\* The connection that serves is open while the client is.
LEMMA ServingIsOpen ==
  ASSUME Inv
  PROVE  bundle \in InService \/ closed
<1>1. bundle \in Gens /\ Served(bundle) /\ drain[bundle] = "none"
  BY DEF Inv, TypeOK, GenInv, Served
<1>2. conn[bundle] = "open" \/ closed
  BY <1>1 DEF Inv, ConnInv
<1> QED
  BY <1>1, <1>2, InHandIsNew, ServiceIs

-----------------------------------------------------------------------------
\* A call is on its connection from the second test of acquire to release.
LEMMA CallRefines ==
  ASSUME Inv, NEW c \in Calls, Begin(c) \/ CallStep(c)
  PROVE  AbstractStep
<1>1. UNCHANGED <<wpc, gen, conn, bundle, closed>>
  BY DEF Begin, CallStep, LoadBundle, CountIn, TestClosing, TestSame, CountOut, Release,
     CallMoves
<1>2. InService' = InService
  BY <1>1, ServiceFrame DEF InHand
<1>3. cpc \in [Calls -> CallSteps] /\ at \in [Calls -> Gens] /\ 0 \notin Gens
  BY DEF Inv, TypeOK, Gens
<1>4. CASE TestSame(c) /\ bundle = at[c]
  <2>1. User[c] = 0 /\ User' = [User EXCEPT ![c] = bundle]
    BY <1>3, <1>4 DEF User, TestSame, CallMoves
  <2>2. Promise!Start(c)
    BY <1>1, <1>2, <2>1, ServingIsOpen DEF Promise!Start
  <2> QED
    BY <2>2 DEF AbstractStep, Promise!Next
<1>5. CASE Release(c)
  <2>1. User[c] # 0 /\ User' = [User EXCEPT ![c] = 0]
    BY <1>3, <1>5 DEF User, Release, CallMoves
  <2>2. Promise!Return(c)
    BY <1>1, <1>2, <2>1 DEF Promise!Return
  <2> QED
    BY <2>2 DEF AbstractStep, Promise!Next
<1>6. CASE \/ Begin(c) \/ LoadBundle(c) \/ CountIn(c) \/ TestClosing(c) \/ CountOut(c)
           \/ TestSame(c) /\ bundle # at[c]
  <2>1. /\ cpc[c] # "running" /\ cpc'[c] # "running"
        /\ \A d \in Calls : d # c => cpc'[d] = cpc[d] /\ at'[d] = at[d]
    BY <1>3, <1>6 DEF Begin, LoadBundle, CountIn, TestClosing, CountOut, TestSame, CallMoves
  <2>2. User' = User
    BY <2>1 DEF User
  <2> QED
    BY <1>1, <1>2, <2>2, Stutters
<1> QED
  BY <1>4, <1>5, <1>6 DEF CallStep

-----------------------------------------------------------------------------
\* Staging, probing, committing and flagging move no connection into service or out.
LEMMA QuietLoopRefines ==
  ASSUME Inv, NEW l \in Loops,
         \/ Wake(l) \/ Exit(l) \/ ReadPair(l) \/ ReadCA(l) \/ Record(l)
         \/ ProbePasses(l) \/ Commit(l) \/ MarkClosing(l)
  PROVE  AbstractStep
<1>1. UNCHANGED <<conn, bundle, rpcs, closed>>
  BY DEF Wake, Exit, ReadPair, ReadCA, Record, ProbePasses, Commit, MarkClosing
<1>2. wpc \in [Loops -> LoopSteps] /\ gen \in [Loops -> Gens]
  BY DEF Inv, TypeOK
<1>3. \A k \in Loops : (InHand(k)' <=> InHand(k)) /\ (InHand(k) => gen'[k] = gen[k])
  BY <1>2 DEF InHand, Wake, Exit, ReadPair, ReadCA, Record, ProbePasses, Commit, MarkClosing
<1>4. InService' = InService
  BY <1>1, <1>3, ServiceFrame
<1>5. User' = User
  BY <1>1 DEF User
<1> QED
  BY <1>1, <1>4, <1>5, Stutters

\* The connection of a candidate opens and, when it is refused, closes out of service.
LEMMA CandidateRefines ==
  ASSUME Inv, NEW l \in Loops, Dial(l) \/ ProbeFails(l) \/ CommitRefused(l)
  PROVE  AbstractStep
<1>1. UNCHANGED <<bundle, rpcs, closed>>
  BY DEF Dial, ProbeFails, CommitRefused
<1>2. /\ wpc \in [Loops -> LoopSteps] /\ gen \in [Loops -> Gens]
      /\ conn \in [Gens -> {"none", "open", "closed"}]
  BY DEF Inv, TypeOK
<1>3. /\ \A k \in Loops : k # l => (InHand(k)' <=> InHand(k)) /\ gen'[k] = gen[k]
      /\ \A g \in Gens : g # gen[l] => conn'[g] = conn[g]
  BY <1>2 DEF InHand, Dial, ProbeFails, CommitRefused, GiveUp
<1>4. gen[l] \notin InService
  <2>1. CASE Dial(l)
    <3>1. Holds(l) /\ wpc[l] = "rotate" /\ \A k \in Loops : ~Rotating(k)
      BY <2>1 DEF Dial, Holds, Inv, LockInv, Loops, NoOne
    <3>2. ~Served(gen[l])
      BY <3>1 DEF Inv, GenInv
    <3>3. conn[gen[l]] # "open"
      BY <1>2, <3>1, <3>2 DEF Inv, ConnInv, Served
    <3> QED
      BY <3>3, ServiceIs
  <2>2. CASE ProbeFails(l) \/ CommitRefused(l)
    BY <2>2, ServiceIs DEF InHand, ProbeFails, CommitRefused
  <2> QED
    BY <2>1, <2>2
<1>5. gen[l] \notin InService'
  <2>1. CASE Dial(l)
    <3>1. InHand(l)' /\ gen'[l] = gen[l]
      BY <1>2, <2>1 DEF InHand, Dial
    <3> QED
      BY <3>1, ServiceIsAfter
  <2>2. CASE ProbeFails(l) \/ CommitRefused(l)
    <3>1. conn'[gen[l]] = "closed"
      BY <1>2, <2>2 DEF ProbeFails, CommitRefused, GiveUp
    <3> QED
      BY <3>1, ServiceIsAfter
  <2> QED
    BY <2>1, <2>2
<1>6. ASSUME NEW g \in Gens, g # gen[l] PROVE g \in InService' <=> g \in InService
  <2>1. InHand(l)' => gen'[l] = gen[l]
    BY <1>2 DEF InHand, Dial, ProbeFails, CommitRefused, GiveUp
  <2> QED
    BY <1>3, <1>6, <2>1, ServiceIs, ServiceIsAfter
<1>7. InService' = InService
  BY <1>4, <1>5, <1>6, ServiceIs, ServiceIsAfter
<1>8. User' = User
  BY <1>1 DEF User
<1> QED
  BY <1>1, <1>7, <1>8, Stutters

\* The swap of the pointer is the moment of the handover.
LEMMA SwapRefines ==
  ASSUME Inv, NEW l \in Loops, Swap(l)
  PROVE  AbstractStep
<1>1. /\ wpc \in [Loops -> LoopSteps] /\ InHand(l) /\ wpc' = [wpc EXCEPT ![l] = "mark"]
      /\ UNCHANGED <<gen, conn, rpcs, closed>> /\ bundle' = gen[l]
  BY DEF Inv, TypeOK, Swap, InHand
<1>2. gen[l] > bundle
  BY DEF Inv, TypeOK, GenInv, Swap, Gens
<1>3. ~closed
  BY DEF Inv, EndInv, Swap
<1>4. gen[l] \in Gens /\ conn[gen[l]] = "open" /\ \A k \in Loops : InHand(k) => k = l
  BY <1>1, InHandIsNew
<1>5. \A k \in Loops : ~InHand(k)'
  BY <1>1, <1>4 DEF InHand
<1>6. InService' = InService \cup {gen[l]}
  BY <1>1, <1>4, <1>5, ServiceIs, ServiceIsAfter
<1>7. User' = User
  BY <1>1 DEF User
<1>8. Promise!TakeOver(gen[l])
  BY <1>1, <1>2, <1>3, <1>6, <1>7 DEF Promise!TakeOver
<1> QED
  BY <1>4, <1>8 DEF AbstractStep, Promise!Next

-----------------------------------------------------------------------------
\* A step that closes one connection and does nothing else takes it out of service.
LEMMA ClosingOne ==
  ASSUME Inv, NEW g \in Gens, conn' = [conn EXCEPT ![g] = "closed"], UNCHANGED <<wpc, gen>>
  PROVE  InService' = InService \ {g}
<1>1. conn'[g] = "closed" /\ \A h \in Gens : h # g => conn'[h] = conn[h]
  BY DEF Inv, TypeOK
<1>2. \A k \in Loops : (InHand(k)' <=> InHand(k)) /\ gen'[k] = gen[k]
  BY DEF InHand
<1> QED
  BY <1>1, <1>2, ServiceIs, ServiceIsAfter

\* A drain closes behind the last call: who is still running keeps it polling.
LEMMA DrainRefines ==
  ASSUME Inv, NEW g \in Gens, Drain(g)
  PROVE  AbstractStep
<1>1. UNCHANGED <<wpc, gen, bundle, rpcs, closed>>
  BY DEF Drain, DrainPoll, DrainClose
<1>2. User' = User
  BY <1>1 DEF User
<1>3. CASE DrainPoll(g)
  <2>1. InService' = InService
    BY <1>1, <1>3, ServiceFrame DEF DrainPoll, InHand
  <2> QED
    BY <1>1, <1>2, <2>1, Stutters
<1>4. CASE DrainClose(g)
  <2>1. InService' = InService \ {g}
    BY <1>1, <1>4, ClosingOne DEF DrainClose
  <2>2. CASE g \in InService
    <3>1. drain[g] = "close" /\ g # bundle
      BY <1>4 DEF DrainClose, Inv, GenInv
    <3>2. (\A c \in Calls : User[c] # g) \/ closed
      <4>1. \A c \in Calls : cpc[c] = "running" /\ at[c] = g => closed
        BY <3>1 DEF Inv, CallInv
      <4>2. 0 \notin Gens
        BY DEF Gens
      <4> QED
        BY <4>1, <4>2 DEF User
    <3>3. Promise!Retire(g)
      BY <1>1, <1>2, <2>1, <2>2, <3>1, <3>2 DEF Promise!Retire
    <3> QED
      BY <3>3 DEF AbstractStep, Promise!Next
  <2>3. CASE g \notin InService
    <3>1. InService' = InService
      BY <2>1, <2>3
    <3> QED
      BY <1>1, <1>2, <3>1, Stutters
  <2> QED
    BY <2>2, <2>3
<1> QED
  BY <1>3, <1>4 DEF Drain

LEMMA EndRefines ==
  ASSUME Inv, Edit \/ CloseWatcher \/ Closing
  PROVE  AbstractStep
<1>1. UNCHANGED <<wpc, gen, bundle, rpcs>>
  BY DEF Edit, CloseWatcher, Closing, JoinLoops, SetClosed, CloseConn
<1>2. User' = User
  BY <1>1 DEF User
<1>3. CASE Edit \/ CloseWatcher \/ JoinLoops
  <2>1. UNCHANGED <<conn, closed>>
    BY <1>3 DEF Edit, CloseWatcher, JoinLoops
  <2>2. InService' = InService
    BY <1>1, <2>1, ServiceFrame DEF InHand
  <2> QED
    BY <1>1, <1>2, <2>1, <2>2, Stutters
<1>4. CASE SetClosed
  <2>1. InService' = InService
    BY <1>1, <1>4, ServiceFrame DEF SetClosed, InHand
  <2>2. Promise!End
    BY <1>1, <1>2, <1>4, <2>1 DEF SetClosed, Promise!End
  <2> QED
    BY <2>2 DEF AbstractStep, Promise!Next
<1>5. CASE CloseConn
  <2>1. bundle \in Gens /\ closed
    BY <1>5 DEF CloseConn, Inv, TypeOK, EndInv
  <2>2. InService' = InService \ {bundle}
    BY <1>1, <1>5, <2>1, ClosingOne DEF CloseConn
  <2>3. Promise!CloseLast
    BY <1>1, <1>2, <1>5, <2>1, <2>2 DEF CloseConn, Promise!CloseLast
  <2> QED
    BY <2>3 DEF AbstractStep, Promise!Next
<1> QED
  BY <1>3, <1>4, <1>5 DEF Closing

\* Two loops that stage, dial, probe, commit and swap, and callers that count
\* themselves into bundles under them, hand one connection over to the next.
THEOREM RotationHandsOver == Spec => HandsOver
<1>1. Init => Promise!Init
  <2> SUFFICES ASSUME Init PROVE Promise!Init
    OBVIOUS
  <2>1. \A l \in Loops : ~InHand(l)
    BY DEF Init, InHand
  <2>2. InService = {1}
    <3>1. 1 \in Gens /\ \A g \in Gens : conn[g] = "open" <=> g = 1
      BY Numbers DEF Init, Gens
    <3> QED
      BY <2>1, <3>1, ServiceIs
  <2>3. User = [c \in Calls |-> 0]
    BY DEF Init, User
  <2> QED
    BY <2>2, <2>3 DEF Init, Promise!Init
<1>2. Inv /\ [Next]_vars => AbstractStep
  <2> SUFFICES ASSUME Inv, [Next]_vars PROVE AbstractStep
    OBVIOUS
  <2>1. ASSUME NEW l \in Loops, Step(l) PROVE AbstractStep
    BY <2>1, QuietLoopRefines, CandidateRefines, SwapRefines DEF Step
  <2>2. CASE UNCHANGED vars
    <3>1. InService' = InService /\ User' = User
      BY <2>2, ServiceFrame DEF vars, InHand, User
    <3> QED
      BY <2>2, <3>1, Stutters DEF vars
  <2> QED
    BY <2>1, <2>2, CallRefines, DrainRefines, EndRefines DEF Next
<1> QED
  BY <1>1, <1>2, Invariance, PTL DEF Spec, HandsOver, Promise!Spec, AbstractStep
=============================================================================
