--------------------------- MODULE ProfileProofs ---------------------------
(***************************************************************************)
(* Proofs about ProfileMirror, for any number of pods, profiles, requests  *)
(* and calls of Resolve.  A step either leaves the settings row alone or   *)
(* moves its version (Dichotomy); what was read before a move carries a    *)
(* version that is never current again, and what is read between two moves *)
(* stays true, but for a row that was written in between.                  *)
(***************************************************************************)
EXTENDS ProfileMirror, TLAPS

\* Nobody has seen a version that does not exist yet.
ObsInv ==
  /\ \A r \in Resolves : local[r].obs <= version
  /\ \A h \in Pods : cacheVer[h] <= version

\* What a Resolve has read at the current version is still so.
FetchInv ==
  \A r \in Resolves : local[r].obs = version =>
    /\ pc[r] \in {"profile", "reconcile"} => local[r].tgt = active /\ local[r].copy = legacy
    /\ pc[r] = "reconcile" => Behind
    /\ pc[r] = "store" /\ ~edited => local[r].copy = Effective

Inv == TypeOK /\ PointerHolds /\ WatermarkTells /\ MirrorAgrees /\ ObsInv /\ FetchInv
       /\ CacheIsCoherent

Still ==
  /\ UNCHANGED <<version, legacy, active, byOld>>
  /\ active # Nobody => /\ active \in rows' /\ watermark'[active] = watermark[active]
                        /\ content'[active] = content[active] \/ (edited' /\ apart')
  /\ edited => edited'
  /\ apart => apart'

Moves ==
  /\ version' = version + 1 /\ edited' = FALSE
  /\ PointerHolds' /\ WatermarkTells' /\ MirrorAgrees'

\* The steps of an admin's request that leave the settings row alone.
Plain(a) ==
  \/ \E p \in Profiles : StartUpdate(a, p) \/ StartDelete(a, p) \/ StartActivate(a, p)
  \/ \E c \in Contents : StartPut(a, c)
  \/ Load(a) \/ Observe(a) \/ Retry(a) \/ Stops(a) \/ Forget(a)

LEMMA ActorFacts ==
  /\ Pods \subseteq Actors /\ Admins \subseteq Actors /\ Resolves \subseteq Actors
  /\ \A a \in Admins \cup Resolves : Home[a] \in Pods
  /\ NoLocal \in Locals
BY SMTT(30), ProfileAssumption DEF ProfileAssumption, Actors, NoLocal, Locals, Ops, Versions, Values

-----------------------------------------------------------------------------
(* Types *)

LEMMA LocalType ==
  ASSUME NEW l \in Locals
  PROVE  /\ \A v \in Versions : [l EXCEPT !.obs = v] \in Locals
         /\ \A c \in Values : [l EXCEPT !.copy = c] \in Locals
         /\ \A v \in Versions : [l EXCEPT !.mark = v] \in Locals
         /\ \A p \in Profiles \cup {Nobody} : [l EXCEPT !.tgt = p] \in Locals
         /\ \A o \in Ops : [l EXCEPT !.op = o] \in Locals
BY SMTT(30) DEF Locals

\* Several fields at once are one after the other.
LEMMA TwoFields ==
  ASSUME NEW l \in Locals, NEW o \in Ops, NEW p \in Profiles \cup {Nobody}
  PROVE  [l EXCEPT !.op = o, !.tgt = p] \in Locals /\ [l EXCEPT !.tgt = p, !.op = o] \in Locals
<1>1. [l EXCEPT !.op = o] \in Locals /\ [l EXCEPT !.tgt = p] \in Locals
  BY LocalType
<1>2. [[l EXCEPT !.op = o] EXCEPT !.tgt = p] \in Locals
      /\ [[l EXCEPT !.tgt = p] EXCEPT !.op = o] \in Locals
  BY <1>1, LocalType
<1> QED BY <1>2, Zenon

LEMMA MoreFields ==
  ASSUME NEW l \in Locals, NEW o \in Ops, NEW p \in Profiles \cup {Nobody}, NEW v \in Versions,
         NEW c \in Values
  PROVE  /\ [l EXCEPT !.op = o, !.tgt = p, !.copy = c] \in Locals
         /\ [l EXCEPT !.tgt = p, !.obs = v, !.copy = c] \in Locals
         /\ [l EXCEPT !.obs = v, !.copy = c] \in Locals
<1>1. [l EXCEPT !.op = o, !.tgt = p] \in Locals /\ [l EXCEPT !.tgt = p] \in Locals
      /\ [l EXCEPT !.obs = v] \in Locals
  BY LocalType, TwoFields
<1>2. [[l EXCEPT !.tgt = p] EXCEPT !.obs = v] \in Locals
  BY <1>1, LocalType
<1>3. [[l EXCEPT !.op = o, !.tgt = p] EXCEPT !.copy = c] \in Locals
      /\ [[[l EXCEPT !.tgt = p] EXCEPT !.obs = v] EXCEPT !.copy = c] \in Locals
      /\ [[l EXCEPT !.obs = v] EXCEPT !.copy = c] \in Locals
  BY <1>1, <1>2, LocalType
<1> QED BY <1>3, Zenon

LEMMA Keeping ==
  ASSUME TypeOK, NEW a \in Actors, NEW s \in Steps, NEW l \in Locals, Keeps(a, s, l)
  PROVE  pc' \in [Actors -> Steps] /\ local' \in [Actors -> Locals]
BY SMTT(30) DEF Keeps, Goes, TypeOK

LEMMA Ending ==
  ASSUME TypeOK, NEW a \in Actors, NEW s \in Steps, Ends(a, s)
  PROVE  pc' \in [Actors -> Steps] /\ local' \in [Actors -> Locals]
BY SMTT(30), ActorFacts DEF Ends, Goes, TypeOK

\* Nothing shared but the caches may have changed.
LEMMA QuietTypes ==
  ASSUME TypeOK, pc' \in [Actors -> Steps], local' \in [Actors -> Locals],
         UNCHANGED <<settings, profiles, history>>,
         cache' \in [Pods -> Values], cacheVer' \in [Pods -> Versions]
  PROVE  TypeOK'
BY SMTT(30) DEF TypeOK, settings, profiles, history

LEMMA BumpTypes ==
  ASSUME TypeOK, Bumped
  PROVE  /\ version' \in Versions /\ version + 1 \in Versions /\ edited' \in BOOLEAN
         /\ \A p \in Profiles : Consumed(p) => watermark' \in [Profiles -> Versions]
         /\ ConsumesByActive => watermark' \in [Profiles -> Versions]
<1>1. version' \in Versions /\ version + 1 \in Versions /\ edited' \in BOOLEAN
  <2>1. MaxVersion \in Nat /\ version \in 0 .. MaxVersion /\ version < MaxVersion
        /\ version' = version + 1 /\ edited' = FALSE
    BY ProfileAssumption DEF ProfileAssumption, TypeOK, Bumped, Versions
  <2>2. version' \in Versions /\ version + 1 \in Versions
    BY <2>1, SMTT(30) DEF Versions
  <2> QED BY <2>1, <2>2
<1>2. ASSUME NEW p \in Profiles, Consumed(p)
      PROVE  watermark' \in [Profiles -> Versions]
  BY <1>1, <1>2, SMTT(30) DEF Consumed, TypeOK
<1>3. ASSUME ConsumesByActive
      PROVE  watermark' \in [Profiles -> Versions]
  BY <1>1, <1>3, SMTT(30) DEF ConsumesByActive, TypeOK
<1> QED BY <1>1, <1>2, <1>3

LEMMA PlainTypes ==
  ASSUME TypeOK, NEW a \in Admins, Plain(a)
  PROVE  TypeOK'
<1> DEFINE Typed == pc' \in [Actors -> Steps] /\ local' \in [Actors -> Locals]
<1>a. a \in Actors /\ local[a] \in Locals /\ version \in Versions /\ active \in Profiles \cup {Nobody}
      /\ content \in [Profiles -> Values] /\ pc \in [Actors -> Steps] /\ local \in [Actors -> Locals]
  BY ActorFacts DEF TypeOK
<1>1. ASSUME NEW p \in Profiles, StartUpdate(a, p)
      PROVE  Typed
  <2> DEFINE l == [NoLocal EXCEPT !.tgt = p, !.op = IF p = active THEN "mirror" ELSE "bump"]
  <2>1. l \in Locals
    BY ActorFacts, TwoFields DEF Ops
  <2>2. "row" \in Steps /\ Keeps(a, "row", l)
    BY <1>1 DEF StartUpdate, Steps
  <2> HIDE DEF l
  <2> QED BY <1>a, <2>1, <2>2, Keeping
<1>2. ASSUME NEW p \in Profiles, StartDelete(a, p)
      PROVE  Typed
  <2> DEFINE l == [NoLocal EXCEPT !.op = "delete", !.tgt = p]
  <2>1. l \in Locals
    BY ActorFacts, TwoFields DEF Ops
  <2>2. "observe" \in Steps /\ Keeps(a, "observe", l)
    BY <1>2 DEF StartDelete, Steps
  <2> HIDE DEF l
  <2> QED BY <1>a, <2>1, <2>2, Keeping
<1>3. ASSUME NEW p \in Profiles, StartActivate(a, p)
      PROVE  Typed
  <2> DEFINE l == [NoLocal EXCEPT !.op = "activate", !.tgt = p]
  <2>1. l \in Locals
    BY ActorFacts, TwoFields DEF Ops
  <2>2. "observe" \in Steps /\ Keeps(a, "observe", l)
    BY <1>3 DEF StartActivate, Steps
  <2> HIDE DEF l
  <2> QED BY <1>a, <2>1, <2>2, Keeping
<1>4. ASSUME NEW c \in Contents, StartPut(a, c)
      PROVE  Typed
  <2> DEFINE l == [NoLocal EXCEPT !.op = "mirror", !.tgt = active, !.copy = c]
  <2>1. l \in Locals
    BY <1>a, ActorFacts, MoreFields DEF Ops, Values
  <2>2. "observe" \in Steps /\ Keeps(a, "observe", l)
    BY <1>4 DEF StartPut, Steps
  <2> HIDE DEF l
  <2> QED BY <1>a, <2>1, <2>2, Keeping
<1>5. ASSUME Load(a)
      PROVE  Typed
  <2> DEFINE l == [local[a] EXCEPT !.copy = content[local[a].tgt]]
  <2>1. content[local[a].tgt] \in Values
    BY SMTT(30), <1>5, <1>a DEF Load, TypeOK
  <2>2. l \in Locals
    BY <1>a, <2>1, LocalType
  <2>3. "observe" \in Steps /\ Keeps(a, "observe", l)
    BY <1>5 DEF Load, Steps
  <2> HIDE DEF l
  <2> QED BY <1>a, <2>2, <2>3, Keeping
<1>6. ASSUME Observe(a)
      PROVE  Typed
  <2> DEFINE l == [local[a] EXCEPT !.obs = version]
  <2>1. l \in Locals
    BY <1>a, LocalType
  <2>2. "commit" \in Steps /\ Keeps(a, "commit", l)
    BY <1>6 DEF Observe, Steps
  <2> HIDE DEF l
  <2> QED BY <1>a, <2>1, <2>2, Keeping
<1>7. ASSUME Retry(a)
      PROVE  Typed
  <2>1. pc' = [pc EXCEPT ![a] = "observe"] /\ "observe" \in Steps /\ local' = local
    BY <1>7 DEF Retry, Goes, Steps
  <2> QED BY <1>a, <2>1
<1>8. ASSUME Stops(a) \/ Forget(a)
      PROVE  Typed
  <2>1. "idle" \in Steps /\ "forget" \in Steps
    BY DEF Steps
  <2>2. Ends(a, "idle") \/ Ends(a, "forget")
    BY <1>8 DEF Stops, Forget
  <2> QED BY <1>a, <2>1, <2>2, Ending
<1>9. Typed
  BY <1>1, <1>2, <1>3, <1>4, <1>5, <1>6, <1>7, <1>8 DEF Plain
<1>10. UNCHANGED <<settings, profiles, history>>
  BY DEF Plain, StartUpdate, StartDelete, StartActivate, StartPut, Load, Observe, Retry, Stops, Forget
<1>11. cache' \in [Pods -> Values] /\ cacheVer' \in [Pods -> Versions]
  <2>1. CASE Forget(a)
    BY <2>1, ProfileAssumption, SMTT(30) DEF ProfileAssumption, Forget, TypeOK, Values, Versions
  <2>2. CASE ~Forget(a)
    <3>1. UNCHANGED caches
      BY <2>2 DEF Plain, StartUpdate, StartDelete, StartActivate, StartPut, Load, Observe, Retry, Stops
    <3> QED BY <3>1 DEF TypeOK, caches
  <2> QED BY <2>1, <2>2
<1> QED BY <1>9, <1>10, <1>11, QuietTypes

LEMMA AdminTypes ==
  ASSUME TypeOK, NEW a \in Admins, Admin(a)
  PROVE  TypeOK'
<1> DEFINE Typed == pc' \in [Actors -> Steps] /\ local' \in [Actors -> Locals]
<1>a. a \in Actors /\ local[a] \in Locals /\ NoLocal \in Locals
      /\ local[a].tgt \in Profiles \cup {Nobody} /\ local[a].copy \in Values
  BY ActorFacts, SMTT(30) DEF TypeOK, Locals
<1>b. [NoLocal EXCEPT !.op = "bump"] \in Locals
  BY <1>a, LocalType DEF Ops
<1>c. {"idle", "load", "observe", "forget"} \subseteq Steps
  BY DEF Steps
<1>1. CASE Plain(a)
  BY <1>1, PlainTypes
<1>2. ASSUME NEW c \in Contents, WriteRow(a, c)
      PROVE  TypeOK'
  <2>1. Typed
    BY <1>2, <1>a, <1>b, <1>c, Keeping DEF WriteRow
  <2> QED BY <1>2, <2>1, SMTT(30) DEF WriteRow, TypeOK, settings, caches, Values
<1>3. ASSUME NEW p \in Profiles, NEW c \in Contents, CreateRow(a, p, c)
      PROVE  TypeOK'
  <2>1. Typed
    BY <1>3, <1>a, <1>b, <1>c, Keeping DEF CreateRow
  <2>2. 0 \in Versions
    BY ProfileAssumption DEF ProfileAssumption, Versions
  <2> QED BY <1>3, <2>1, <2>2, SMTT(30) DEF CreateRow, TypeOK, settings, caches, history, Values
<1>4. CASE CommitMirror(a)
  <2>1. Typed
    BY <1>4, <1>a, <1>c, Ending DEF CommitMirror
  <2>2. local[a].tgt \in Profiles
    BY <1>4 DEF CommitMirror, TypeOK
  <2>3. version' \in Versions /\ edited' \in BOOLEAN /\ watermark' \in [Profiles -> Versions]
    BY <1>4, <2>2, BumpTypes DEF CommitMirror
  <2>8. byOld' \in BOOLEAN /\ apart' \in BOOLEAN
    BY <1>4 DEF CommitMirror, InStep
  <2>9. /\ legacy' \in Values /\ active' \in Profiles \cup {Nobody}
        /\ rows' \subseteq drawn' /\ drawn' \subseteq Profiles /\ content' \in [Profiles -> Values]
        /\ cache' \in [Pods -> Values] /\ cacheVer' \in [Pods -> Versions]
    BY <1>4, <1>a, <2>2, SMTT(30) DEF CommitMirror, TypeOK, caches
  <2> QED BY <2>1, <2>3, <2>8, <2>9 DEF TypeOK
<1>5. CASE CommitBump(a)
  <2>1. Typed
    BY <1>5, <1>a, <1>c, Ending DEF CommitBump
  <2>2. version' \in Versions /\ edited' \in BOOLEAN /\ watermark' \in [Profiles -> Versions]
    BY <1>5, BumpTypes DEF CommitBump
  <2>8. byOld' \in BOOLEAN /\ apart' \in BOOLEAN
    BY <1>5 DEF CommitBump, TypeOK, Behind
  <2>9. /\ legacy' \in Values /\ active' \in Profiles \cup {Nobody}
        /\ rows' \subseteq drawn' /\ drawn' \subseteq Profiles /\ content' \in [Profiles -> Values]
        /\ cache' \in [Pods -> Values] /\ cacheVer' \in [Pods -> Versions]
    BY <1>5, SMTT(30) DEF CommitBump, TypeOK, caches
  <2> QED BY <2>1, <2>2, <2>8, <2>9 DEF TypeOK
<1>6. CASE CommitDelete(a)
  <2>1. Typed
    BY <1>6, <1>a, <1>c, Ending DEF CommitDelete
  <2>2. version' \in Versions /\ edited' \in BOOLEAN /\ watermark' \in [Profiles -> Versions]
    BY <1>6, BumpTypes DEF CommitDelete
  <2>8. byOld' \in BOOLEAN /\ apart' \in BOOLEAN
    BY <1>6 DEF CommitDelete, TypeOK, Behind
  <2>9. /\ legacy' \in Values /\ active' \in Profiles \cup {Nobody}
        /\ rows' \subseteq drawn' /\ drawn' \subseteq Profiles /\ content' \in [Profiles -> Values]
        /\ cache' \in [Pods -> Values] /\ cacheVer' \in [Pods -> Versions]
    <3> DEFINE p == local[a].tgt
    <3>1. content' = [content EXCEPT ![p] = Unset] /\ Unset \in Values
          /\ content \in [Profiles -> Values]
      BY <1>6 DEF CommitDelete, Values, TypeOK
    <3> HIDE DEF p
    <3>2. content' \in [Profiles -> Values]
      BY <3>1
    <3> QED BY <1>6, <3>2, SMTT(30) DEF CommitDelete, TypeOK, caches
  <2> QED BY <2>1, <2>2, <2>8, <2>9 DEF TypeOK
<1>7. CASE CommitActivate(a)
  <2>1. Typed
    BY <1>7, <1>a, <1>c, Ending DEF CommitActivate
  <2>2. local[a].tgt \in Profiles
    BY <1>7 DEF CommitActivate, TypeOK
  <2>3. version' \in Versions /\ edited' \in BOOLEAN /\ watermark' \in [Profiles -> Versions]
    BY <1>7, <2>2, BumpTypes DEF CommitActivate
  <2>8. byOld' \in BOOLEAN /\ apart' \in BOOLEAN
    BY <1>7 DEF CommitActivate, InStep
  <2>9. /\ legacy' \in Values /\ active' \in Profiles \cup {Nobody}
        /\ rows' \subseteq drawn' /\ drawn' \subseteq Profiles /\ content' \in [Profiles -> Values]
        /\ cache' \in [Pods -> Values] /\ cacheVer' \in [Pods -> Versions]
    BY <1>7, <2>2, SMTT(30) DEF CommitActivate, MirrorOf, TypeOK, caches
  <2> QED BY <2>1, <2>3, <2>8, <2>9 DEF TypeOK
<1> QED BY <1>1, <1>2, <1>3, <1>4, <1>5, <1>6, <1>7 DEF Admin, Plain

LEMMA ResolveTypes ==
  ASSUME TypeOK, NEW r \in Resolves, Resolve(r)
  PROVE  TypeOK'
<1> DEFINE Typed == pc' \in [Actors -> Steps] /\ local' \in [Actors -> Locals]
<1>a. r \in Actors /\ local[r] \in Locals /\ NoLocal \in Locals /\ Home[r] \in Pods
      /\ local[r].tgt \in Profiles \cup {Nobody} /\ local[r].copy \in Values
      /\ local[r].obs \in Versions
  BY ActorFacts, SMTT(30) DEF TypeOK, Locals
<1>c. {"idle", "snapshot", "profile", "reconcile", "store"} \subseteq Steps
  BY DEF Steps
<1>d. ASSUME NEW c \in Values
      PROVE  Answer(r, c) \in Locals
  BY <1>a, MoreFields DEF Answer, Ops
<1>e. cache \in [Pods -> Values] /\ cacheVer \in [Pods -> Versions] /\ legacy \in Values
      /\ watermark \in [Profiles -> Versions] /\ content \in [Profiles -> Values]
      /\ rows \subseteq Profiles /\ version \in Versions /\ active \in Profiles \cup {Nobody}
  BY DEF TypeOK
<1>1. CASE Miss(r) \/ GoWithout(r)
  <2>1. Typed
    BY <1>1, <1>a, <1>c, Keeping, Ending DEF Miss, GoWithout
  <2> QED BY <1>1, <1>e, <2>1, QuietTypes DEF Miss, GoWithout, caches
<1>2. CASE Snapshot(r)
  <2> DEFINE l == [NoLocal EXCEPT !.tgt = active, !.obs = version, !.copy = legacy]
  <2>1. l \in Locals
    BY <1>a, <1>e, MoreFields DEF Ops
  <2>2. Keeps(r, "profile", l) /\ "profile" \in Steps
    BY <1>2 DEF Snapshot, Steps
  <2> HIDE DEF l
  <2>3. Typed
    BY <1>a, <2>1, <2>2, Keeping
  <2> QED BY <1>2, <1>e, <2>3, QuietTypes DEF Snapshot, caches
<1>3. CASE ReadProfile(r)
  <2> DEFINE p == local[r].tgt
  <2>1. p \in Profiles
    BY <1>3, <1>e DEF ReadProfile
  <2>2. watermark[p] \in Versions /\ content[p] \in Values
    BY <2>1, <1>e
  <2>3. [local[r] EXCEPT !.mark = watermark[p]] \in Locals /\ Answer(r, content[p]) \in Locals
    BY <2>2, <1>a, <1>d, LocalType
  <2>4. Typed
    BY <1>3, <1>a, <1>c, <2>3, Keeping DEF ReadProfile
  <2> QED BY <1>3, <1>e, <2>4, QuietTypes DEF ReadProfile, caches
<1>4. CASE Reconcile(r)
  <2>1. Typed
    BY <1>4, <1>a, <1>c, <1>d, Keeping DEF Reconcile
  <2>2. local[r].tgt \in Profiles
    BY <1>4, <1>e DEF Reconcile
  <2>3. version' \in Versions /\ edited' \in BOOLEAN /\ watermark' \in [Profiles -> Versions]
    BY <1>4, <2>2, BumpTypes DEF Reconcile
  <2>8. byOld' \in BOOLEAN /\ apart' \in BOOLEAN
    BY <1>4 DEF Reconcile, InStep
  <2>9. /\ legacy' \in Values /\ active' \in Profiles \cup {Nobody}
        /\ rows' \subseteq drawn' /\ drawn' \subseteq Profiles /\ content' \in [Profiles -> Values]
        /\ cache' \in [Pods -> Values] /\ cacheVer' \in [Pods -> Versions]
    BY <1>4, <2>2, SMTT(30) DEF Reconcile, TypeOK, caches
  <2> QED BY <2>1, <2>3, <2>8, <2>9 DEF TypeOK
<1>5. CASE SkipReconcile(r)
  <2>1. Typed
    BY <1>5, <1>a, <1>c, <1>d, Keeping DEF SkipReconcile
  <2> QED BY <1>5, <1>e, <2>1, QuietTypes DEF SkipReconcile, caches
<1>6. CASE Store(r)
  <2>1. Typed
    BY <1>6, <1>a, <1>c, Ending DEF Store
  <2>2. cache' \in [Pods -> Values] /\ cacheVer' \in [Pods -> Versions]
    BY <1>6, <1>a, <1>e, SMTT(30) DEF Store, Stamp
  <2>3. UNCHANGED <<settings, profiles, history>>
    BY <1>6 DEF Store
  <2> QED BY <2>1, <2>2, <2>3, QuietTypes
<1> QED BY <1>1, <1>2, <1>3, <1>4, <1>5, <1>6 DEF Resolve

LEMMA PodTypes ==
  ASSUME TypeOK, NEW h \in Pods, Boot(h) \/ Restart(h)
  PROVE  TypeOK'
<1> DEFINE Typed == pc' \in [Actors -> Steps] /\ local' \in [Actors -> Locals]
<1>a. h \in Actors /\ NoLocal \in Locals /\ local[h] \in Locals /\ local[h].copy \in Values
  BY ActorFacts, SMTT(30) DEF TypeOK, Locals
<1>c. {"probe", "check", "read", "batch", "serving", "idle"} \subseteq Steps
  BY DEF Steps
<1>e. cache \in [Pods -> Values] /\ cacheVer \in [Pods -> Versions] /\ legacy \in Values
      /\ version \in Versions /\ active \in Profiles \cup {Nobody} /\ EnvBoot \in Values
      /\ 0 \in Versions /\ Unset \in Values /\ Migrated \in Profiles
  BY ProfileAssumption DEF ProfileAssumption, TypeOK, Versions, Values
<1>1. CASE Restart(h)
  <2>1. Typed
    BY <1>1, <1>a, <1>c, SMTT(30) DEF Restart, TypeOK
  <2>2. cache' \in [Pods -> Values] /\ cacheVer' \in [Pods -> Versions]
    BY <1>1, <1>e, SMTT(30) DEF Restart
  <2>3. UNCHANGED <<settings, profiles, history>>
    BY <1>1 DEF Restart
  <2> QED BY <2>1, <2>2, <2>3, QuietTypes
<1>2. CASE Boot(h) /\ Bumped /\ Consumed(Migrated) /\ InStep
           /\ active' = Migrated /\ legacy' = local[h].copy
           /\ rows' = rows \cup {Migrated} /\ drawn' = drawn \cup {Migrated}
           /\ content' = [content EXCEPT ![Migrated] = local[h].copy]
           /\ Ends(h, "serving") /\ UNCHANGED caches
  <2>1. Typed
    BY <1>2, <1>a, <1>c, Ending
  <2>2. version' \in Versions /\ edited' \in BOOLEAN /\ watermark' \in [Profiles -> Versions]
    BY <1>2, <1>e, BumpTypes
  <2>8. byOld' \in BOOLEAN /\ apart' \in BOOLEAN
    BY <1>2 DEF InStep
  <2>9. /\ legacy' \in Values /\ active' \in Profiles \cup {Nobody}
        /\ rows' \subseteq drawn' /\ drawn' \subseteq Profiles /\ content' \in [Profiles -> Values]
        /\ cache' \in [Pods -> Values] /\ cacheVer' \in [Pods -> Versions]
    BY <1>2, <1>a, <1>e, SMTT(30) DEF TypeOK, caches
  <2> QED BY <2>1, <2>2, <2>8, <2>9 DEF TypeOK
<1>3. CASE Boot(h) /\ UNCHANGED <<settings, profiles, caches, history>>
  <2>1. [NoLocal EXCEPT !.tgt = active] \in Locals /\ [NoLocal EXCEPT !.copy = EnvBoot] \in Locals
    BY <1>a, <1>e, LocalType
  <2>2. [NoLocal EXCEPT !.obs = version,
           !.copy = IF legacy = Unset THEN EnvBoot ELSE legacy] \in Locals
    BY <1>a, <1>e, MoreFields DEF Ops
  <2>3. Typed
    <3>1. CASE Ends(h, "serving") \/ Ends(h, "read") \/ Ends(h, "probe")
      BY <3>1, <1>a, <1>c, Ending
    <3>2. CASE Keeps(h, "read", [NoLocal EXCEPT !.tgt = active])
               \/ Keeps(h, "check", [NoLocal EXCEPT !.tgt = active])
               \/ Keeps(h, "batch", [NoLocal EXCEPT !.copy = EnvBoot])
               \/ Keeps(h, "batch", [NoLocal EXCEPT !.obs = version,
                     !.copy = IF legacy = Unset THEN EnvBoot ELSE legacy])
      BY <3>2, <1>a, <1>c, <2>1, <2>2, Keeping
    <3> QED
      BY <1>3, <3>1, <3>2 DEF Boot
  <2> QED BY <1>3, <1>e, <2>3, QuietTypes DEF caches
<1> QED BY <1>1, <1>2, <1>3 DEF Boot

\* Types are kept by every step.
LEMMA TypeStep ==
  ASSUME TypeOK, [Next]_vars
  PROVE  TypeOK'
<1>1. ASSUME NEW c \in Contents, OldWrite(c)
      PROVE  TypeOK'
  <2>1. version' \in Versions /\ edited' \in BOOLEAN
    BY <1>1, BumpTypes DEF OldWrite
  <2> QED BY <1>1, <2>1, SMTT(30) DEF OldWrite, TypeOK, profiles, caches, Values
<1>2. CASE UNCHANGED vars
  BY <1>2 DEF vars, settings, profiles, caches, history, TypeOK
<1> QED BY <1>1, <1>2, AdminTypes, ResolveTypes, PodTypes DEF Next
-----------------------------------------------------------------------------
(* What was read is not ahead of the row *)

\* A call of Resolve that does not read: it stands, or it is at its beginning.
Stands(r) ==
  \/ local'[r] = local[r] /\ pc'[r] = pc[r]
  \/ local'[r] = NoLocal /\ pc'[r] \in {"idle", "snapshot"}

\* The steps of a Resolve that read or store, one by one, with what they leave in its locals.
LEMMA ResolveReads ==
  ASSUME TypeOK, NEW q \in Resolves, Resolve(q)
  PROVE  /\ \A r \in Resolves \ {q} : local'[r] = local[r] /\ pc'[r] = pc[r]
         /\ \/ Stands(q) /\ (UNCHANGED caches \/ Store(q))
            \/ /\ UNCHANGED <<settings, profiles, caches, history>>
               /\ pc'[q] = "profile" /\ local'[q].obs = version
               /\ local'[q].tgt = active /\ local'[q].copy = legacy
            \/ /\ UNCHANGED <<settings, profiles, caches, history>>
               /\ pc[q] = "profile" /\ pc'[q] = "reconcile" /\ local'[q].obs = local[q].obs
               /\ local'[q].tgt = local[q].tgt /\ local'[q].copy = local[q].copy
               /\ local[q].tgt \in rows /\ local[q].obs > watermark[local[q].tgt]
            \/ /\ UNCHANGED <<settings, profiles, caches, history>>
               /\ pc[q] = "profile" /\ pc'[q] = "store" /\ local'[q].obs = local[q].obs
               /\ local'[q].copy = content[local[q].tgt]
               /\ local[q].tgt \in rows /\ local[q].obs <= watermark[local[q].tgt]
            \/ /\ UNCHANGED caches /\ (Bumped \/ UNCHANGED <<settings, profiles, history>>)
               /\ pc[q] = "reconcile" /\ pc'[q] = "store" /\ local'[q].obs = local[q].obs
               /\ local'[q].copy = local[q].copy
<1>a. q \in Actors /\ Resolves \subseteq Actors /\ local \in [Actors -> Locals]
      /\ pc \in [Actors -> Steps] /\ local[q] \in Locals
  BY ActorFacts DEF TypeOK
<1>b. ASSUME NEW c
      PROVE  Answer(q, c).obs = local[q].obs /\ Answer(q, c).copy = c
  BY SMTT(30) DEF Answer, NoLocal
<1>c. \A r \in Resolves \ {q} : local'[r] = local[r] /\ pc'[r] = pc[r]
  BY <1>a DEF Resolve, Miss, Snapshot, ReadProfile, Reconcile, SkipReconcile, Store, GoWithout,
     Keeps, Ends, Goes
<1>1. CASE Miss(q) \/ GoWithout(q) \/ Store(q)
  BY <1>1, <1>a, <1>c DEF Miss, GoWithout, Store, Keeps, Ends, Goes, Stands
<1>2. CASE Snapshot(q)
  <2> DEFINE l == [NoLocal EXCEPT !.tgt = active, !.obs = version, !.copy = legacy]
  <2>1. l.tgt = active /\ l.obs = version /\ l.copy = legacy
    BY SMTT(30) DEF NoLocal
  <2>2. Keeps(q, "profile", l) /\ UNCHANGED <<settings, profiles, caches, history>>
    BY <1>2 DEF Snapshot
  <2> HIDE DEF l
  <2>3. pc'[q] = "profile" /\ local'[q] = l
    BY <1>a, <2>2 DEF Keeps, Goes
  <2> QED BY <1>c, <2>1, <2>2, <2>3
<1>3. CASE ReadProfile(q)
  <2>1. CASE local[q].obs > watermark[local[q].tgt]
    <3> DEFINE l == [local[q] EXCEPT !.mark = watermark[local[q].tgt]]
    <3>1. l.tgt = local[q].tgt /\ l.obs = local[q].obs /\ l.copy = local[q].copy
      BY <1>a, SMTT(30) DEF Locals
    <3>2. Keeps(q, "reconcile", l) /\ UNCHANGED <<settings, profiles, caches, history>>
          /\ pc[q] = "profile" /\ local[q].tgt \in rows
      <4>1. ~(local[q].obs <= watermark[local[q].tgt])
        <5>1. local[q].obs \in Nat /\ watermark[local[q].tgt] \in Nat
          BY <1>3, <1>a, SMTT(30) DEF ReadProfile, TypeOK, Locals, Versions
        <5> QED BY <5>1, <2>1, SMTT(30)
      <4> QED BY <1>3, <4>1 DEF ReadProfile
    <3> HIDE DEF l
    <3>3. pc'[q] = "reconcile" /\ local'[q] = l
      BY <1>a, <3>2 DEF Keeps, Goes
    <3> QED BY <1>c, <2>1, <3>1, <3>2, <3>3
  <2>2. CASE ~(local[q].obs > watermark[local[q].tgt])
    <3>1. Keeps(q, "store", Answer(q, content[local[q].tgt]))
          /\ UNCHANGED <<settings, profiles, caches, history>>
          /\ pc[q] = "profile" /\ local[q].tgt \in rows
          /\ local[q].obs <= watermark[local[q].tgt]
      BY <1>3, <2>2 DEF ReadProfile
    <3>2. pc'[q] = "store" /\ local'[q] = Answer(q, content[local[q].tgt])
      BY <1>a, <3>1 DEF Keeps, Goes
    <3> QED BY <1>b, <1>c, <3>1, <3>2
  <2> QED BY <2>1, <2>2
<1>4. CASE Reconcile(q) \/ SkipReconcile(q)
  <2>1. Keeps(q, "store", Answer(q, local[q].copy)) /\ UNCHANGED caches /\ pc[q] = "reconcile"
        /\ (Bumped \/ UNCHANGED <<settings, profiles, history>>)
    BY <1>4 DEF Reconcile, SkipReconcile
  <2>2. pc'[q] = "store" /\ local'[q] = Answer(q, local[q].copy)
    BY <1>a, <2>1 DEF Keeps, Goes
  <2> QED BY <1>b, <1>c, <2>1, <2>2
<1> QED BY <1>1, <1>2, <1>3, <1>4 DEF Resolve

\* The steps of everyone else.
LEMMA RestReads ==
  ASSUME TypeOK, [Next]_vars, \A q \in Resolves : ~Resolve(q)
  PROVE  /\ \A r \in Resolves : Stands(r)
         /\ \/ UNCHANGED caches
            \/ \E h \in Pods : /\ cache' = [cache EXCEPT ![h] = Unset]
                              /\ cacheVer' = [cacheVer EXCEPT ![h] = 0]
<1>a. /\ Pods \subseteq Actors /\ Admins \subseteq Actors /\ Resolves \subseteq Actors
      /\ \A a \in Admins : Home[a] \in Pods
      /\ Pods \cap Resolves = {} /\ Admins \cap Resolves = {}
      /\ local \in [Actors -> Locals] /\ pc \in [Actors -> Steps]
  BY ActorFacts, ProfileAssumption DEF ProfileAssumption, TypeOK
<1>1. CASE UNCHANGED vars \/ \E c \in Contents : OldWrite(c)
  BY <1>1 DEF vars, OldWrite, Stands, caches
<1>2. ASSUME NEW h \in Pods, Boot(h)
      PROVE  UNCHANGED caches /\ \A r \in Resolves : Stands(r)
  BY <1>2, <1>a DEF Boot, Keeps, Ends, Goes, Stands
<1>3. ASSUME NEW h \in Pods, Restart(h)
      PROVE  /\ \A r \in Resolves : Stands(r)
             /\ cache' = [cache EXCEPT ![h] = Unset] /\ cacheVer' = [cacheVer EXCEPT ![h] = 0]
  BY <1>3, <1>a DEF Restart, Stands
<1>4. ASSUME NEW a \in Admins, Admin(a)
      PROVE  /\ \A r \in Resolves : Stands(r)
             /\ \/ UNCHANGED caches
                \/ /\ cache' = [cache EXCEPT ![Home[a]] = Unset]
                   /\ cacheVer' = [cacheVer EXCEPT ![Home[a]] = 0]
  <2>1. CASE Plain(a)
    BY <1>a, <2>1 DEF Plain, StartUpdate, StartDelete, StartActivate, StartPut, Load, Observe, Retry,
       Stops, Forget, Keeps, Ends, Goes, Stands, caches
  <2>2. CASE \/ \E c \in Contents : WriteRow(a, c)
             \/ \E p \in Profiles, c \in Contents : CreateRow(a, p, c)
    BY <1>a, <2>2 DEF WriteRow, CreateRow, Keeps, Goes, Stands, caches
  <2>3. CASE CommitMirror(a) \/ CommitBump(a) \/ CommitDelete(a) \/ CommitActivate(a)
    BY <1>a, <2>3 DEF CommitMirror, CommitBump, CommitDelete, CommitActivate, Ends, Goes, Stands, caches
  <2> QED BY <1>4, <2>1, <2>2, <2>3 DEF Admin, Plain
<1> QED BY <1>a, <1>1, <1>2, <1>3, <1>4 DEF Next
-----------------------------------------------------------------------------
(* The row stands still or its version moves *)

LEMMA CommitsMove ==
  ASSUME Inv, NEW a \in Admins,
         CommitMirror(a) \/ CommitBump(a) \/ CommitDelete(a) \/ CommitActivate(a)
  PROVE  Moves
<1>a. /\ version \in Nat /\ version + 1 \in Nat /\ content \in [Profiles -> Values]
      /\ watermark \in [Profiles -> Versions] /\ rows \subseteq Profiles
      /\ active \in Profiles \cup {Nobody} /\ Nobody \notin Profiles
      /\ active # Nobody => active \in rows /\ active \in Profiles
  BY SMTT(30), ProfileAssumption DEF ProfileAssumption, Inv, TypeOK, Versions, PointerHolds
<1>b. ASSUME Bumped
      PROVE  version' = version + 1 /\ edited' = FALSE
  BY <1>b DEF Bumped
<1>1. CASE CommitMirror(a)
  <2> DEFINE p == local[a].tgt
  <2>1. /\ active = p /\ active' = p /\ p \in rows /\ rows' = rows /\ p \in Profiles
        /\ version' = version + 1 /\ edited' = FALSE /\ byOld' = FALSE /\ apart' = FALSE
        /\ watermark' = [watermark EXCEPT ![p] = version + 1]
        /\ content' = [content EXCEPT ![p] = local[a].copy] /\ legacy' = local[a].copy
    BY <1>1, <1>a, <1>b DEF CommitMirror, Consumed, InStep, Bumped
  <2> HIDE DEF p
  <2>2. watermark'[p] = version' /\ content'[p] = legacy'
    BY <1>a, <2>1
  <2>3. ~(watermark'[p] < version') /\ watermark'[p] <= version'
    BY <1>a, <2>1, <2>2, SMTT(30)
  <2> QED BY <2>1, <2>2, <2>3 DEF Moves, PointerHolds, WatermarkTells, MirrorAgrees
<1>2. CASE CommitActivate(a)
  <2> DEFINE p == local[a].tgt
  <2>1. /\ active' = p /\ p \in rows /\ rows' = rows /\ p \in Profiles
        /\ version' = version + 1 /\ edited' = FALSE /\ byOld' = FALSE /\ apart' = FALSE
        /\ watermark' = [watermark EXCEPT ![p] = version + 1]
        /\ content' = content /\ legacy' = content[p]
    BY <1>2, <1>a, <1>b DEF CommitActivate, MirrorOf, Consumed, InStep, Bumped
  <2> HIDE DEF p
  <2>2. watermark'[p] = version' /\ content'[p] = legacy'
    BY <1>a, <2>1
  <2>3. ~(watermark'[p] < version') /\ watermark'[p] <= version'
    BY <1>a, <2>1, <2>2, SMTT(30)
  <2> QED BY <2>1, <2>2, <2>3 DEF Moves, PointerHolds, WatermarkTells, MirrorAgrees
<1>3. CASE CommitBump(a) \/ CommitDelete(a)
  <2>1. /\ active' = active /\ legacy' = legacy
        /\ version' = version + 1 /\ edited' = FALSE /\ byOld' = FALSE
        /\ apart' = (apart \/ Behind)
        /\ active # Nobody => watermark' = [watermark EXCEPT ![active] = version + 1]
    BY <1>3, <1>b DEF CommitBump, CommitDelete, ConsumesByActive, Bumped
  <2>2. active # Nobody => active \in rows' /\ content'[active] = content[active]
    BY <1>3, <1>a DEF CommitBump, CommitDelete, MayDelete
  <2>3. active # Nobody => watermark'[active] = version + 1
    BY <1>a, <2>1
  <2>4. active # Nobody => ~(watermark'[active] < version') /\ watermark'[active] <= version'
    BY <1>a, <2>1, <2>3, SMTT(30)
  <2>5. active # Nobody /\ ~apart' => legacy = content[active]
    <3> SUFFICES ASSUME active # Nobody, ~apart'
                 PROVE  legacy = content[active]
      OBVIOUS
    <3>1. ~apart /\ ~(version > watermark[active])
      BY <2>1 DEF Behind
    <3>2. watermark[active] \in Nat
      BY <1>a, SMTT(30) DEF Versions
    <3>3. ~(watermark[active] < version)
      BY <1>a, <3>1, <3>2, SMTT(30)
    <3> QED BY <3>1, <3>3 DEF Inv, WatermarkTells, MirrorAgrees
  <2> QED BY <2>1, <2>2, <2>4, <2>5 DEF Moves, PointerHolds, WatermarkTells, MirrorAgrees
<1> QED BY <1>1, <1>2, <1>3

LEMMA OthersMove ==
  ASSUME Inv, NEW x,
         \/ \E c \in Contents : OldWrite(c)
         \/ x \in Pods /\ Boot(x) /\ Bumped
         \/ x \in Resolves /\ Reconcile(x)
  PROVE  Moves
<1>a. /\ version \in Nat /\ version + 1 \in Nat /\ content \in [Profiles -> Values]
      /\ watermark \in [Profiles -> Versions] /\ rows \subseteq Profiles
      /\ active \in Profiles \cup {Nobody} /\ Migrated \in Profiles
      /\ active # Nobody => active \in rows /\ active \in Profiles
  BY SMTT(30), ProfileAssumption DEF ProfileAssumption, Inv, TypeOK, Versions, PointerHolds
<1>1. CASE \E c \in Contents : OldWrite(c)
  <2>1. /\ active' = active /\ rows' = rows /\ watermark' = watermark
        /\ version' = version + 1 /\ edited' = FALSE /\ byOld' = TRUE
    BY <1>1 DEF OldWrite, Bumped, profiles
  <2>2. active # Nobody => watermark[active] < version' /\ watermark[active] <= version'
    <3> SUFFICES ASSUME active # Nobody
                 PROVE  watermark[active] < version' /\ watermark[active] <= version'
      OBVIOUS
    <3>1. watermark[active] \in Nat
      BY <1>a, SMTT(30) DEF Versions
    <3>2. watermark[active] <= version
      BY DEF Inv, WatermarkTells
    <3> QED BY <1>a, <2>1, <3>1, <3>2, SMTT(30)
  <2> QED BY <1>a, <2>1, <2>2 DEF Moves, PointerHolds, WatermarkTells, MirrorAgrees
<1>2. ASSUME NEW p \in Profiles,
             /\ active' = p /\ p \in rows'
             /\ version' = version + 1 /\ edited' = FALSE /\ byOld' = FALSE /\ apart' = FALSE
             /\ watermark' = [watermark EXCEPT ![p] = version + 1]
             /\ content' = [content EXCEPT ![p] = legacy']
      PROVE  Moves
  <2>1. watermark'[p] = version' /\ content'[p] = legacy'
    BY <1>a, <1>2
  <2>2. ~(watermark'[p] < version') /\ watermark'[p] <= version'
    BY <1>a, <1>2, <2>1, SMTT(30)
  <2> QED BY <1>2, <2>1, <2>2 DEF Moves, PointerHolds, WatermarkTells, MirrorAgrees
<1>3. CASE x \in Pods /\ Boot(x) /\ Bumped
  <2>1. ~UNCHANGED <<settings, profiles, caches, history>>
    <3>1. version' = version + 1
      BY <1>3 DEF Bumped
    <3>2. version' # version
      BY <1>a, <3>1, SMTT(30)
    <3> QED BY <3>2 DEF settings
  <2>2. /\ active' = Migrated /\ Migrated \in rows'
        /\ version' = version + 1 /\ edited' = FALSE /\ byOld' = FALSE /\ apart' = FALSE
        /\ watermark' = [watermark EXCEPT ![Migrated] = version + 1]
        /\ content' = [content EXCEPT ![Migrated] = legacy']
    BY <1>3, <2>1 DEF Boot, Bumped, Consumed, InStep
  <2> QED BY <1>2, <1>a, <2>2
<1>4. CASE x \in Resolves /\ Reconcile(x)
  <2> DEFINE p == local[x].tgt
  <2>1. active = p
    BY <1>4 DEF Inv, FetchInv, Reconcile, Reconciles, Unmoved
  <2>2. /\ active' = p /\ p \in rows' /\ p \in Profiles /\ legacy' = legacy
        /\ version' = version + 1 /\ edited' = FALSE /\ byOld' = FALSE /\ apart' = FALSE
        /\ watermark' = [watermark EXCEPT ![p] = version + 1]
        /\ content' = [content EXCEPT ![p] = legacy]
    BY <1>4, <1>a, <2>1 DEF Reconcile, Bumped, Consumed, InStep
  <2> HIDE DEF p
  <2> QED BY <1>2, <2>2
<1> QED BY <1>1, <1>3, <1>4

LEMMA Dichotomy ==
  ASSUME Inv, [Next]_vars
  PROVE  Still \/ Moves
<1> DEFINE Quiet == UNCHANGED <<settings, profiles, history>>
<1>a. /\ content \in [Profiles -> Values] /\ watermark \in [Profiles -> Versions]
      /\ rows \subseteq drawn
      /\ active # Nobody => active \in rows /\ active \in Profiles
  BY DEF Inv, TypeOK, PointerHolds
<1>b. ASSUME Quiet
      PROVE  Still
  <2>1. /\ UNCHANGED <<version, legacy, active, byOld, edited, apart>>
        /\ rows' = rows /\ content' = content /\ watermark' = watermark
    BY <1>b DEF settings, profiles, history
  <2>2. active # Nobody => /\ active \in rows' /\ watermark'[active] = watermark[active]
                           /\ content'[active] = content[active]
    BY <1>a, <2>1
  <2> QED BY <2>1, <2>2, Zenon DEF Still
<1>1. CASE UNCHANGED vars
  BY <1>1, <1>b DEF vars
<1>2. CASE \E c \in Contents : OldWrite(c)
  BY <1>2, OthersMove
<1>3. ASSUME NEW h \in Pods, Boot(h) \/ Restart(h)
      PROVE  Quiet \/ Moves
  <2>1. Quiet \/ (Boot(h) /\ Bumped)
    BY <1>3 DEF Boot, Restart
  <2> QED BY <2>1, OthersMove
<1>4. ASSUME NEW a \in Admins, Admin(a)
      PROVE  Still \/ Moves
  <2>1. CASE Plain(a)
    BY <2>1, <1>b DEF Plain, StartUpdate, StartDelete, StartActivate, StartPut, Load, Observe, Retry,
       Stops, Forget
  <2>2. ASSUME NEW c \in Contents, WriteRow(a, c)
        PROVE  Still
    <3>1. UNCHANGED <<version, legacy, active, byOld, rows, watermark>>
      BY <2>2 DEF WriteRow, settings
    <3>2. (edited => edited') /\ (apart => apart')
      BY <2>2 DEF WriteRow
    <3>3. active # Nobody => content'[active] = content[active] \/ (edited' /\ apart')
      <4>1. CASE content' = content
        BY <4>1
      <4>2. CASE local[a].tgt \in rows /\ content' = [content EXCEPT ![local[a].tgt] = c]
        <5>1. CASE local[a].tgt = active
          BY <2>2, <4>2, <5>1 DEF WriteRow
        <5>2. CASE local[a].tgt # active
          BY <1>a, <4>2, <5>2
        <5> QED BY <5>1, <5>2
      <4> QED BY <2>2, <4>1, <4>2 DEF WriteRow
    <3>4. active # Nobody => active \in rows' /\ watermark'[active] = watermark[active]
      BY <1>a, <3>1
    <3> QED BY <3>1, <3>2, <3>3, <3>4, Zenon DEF Still
  <2>3. ASSUME NEW p \in Profiles, NEW c \in Contents, CreateRow(a, p, c)
        PROVE  Still
    <3>1. UNCHANGED <<version, legacy, active, byOld, edited, apart>>
      BY <2>3 DEF CreateRow, settings, history
    <3>2. active # Nobody => active # p /\ active \in rows'
      BY <2>3, <1>a DEF CreateRow
    <3>3. active # Nobody => watermark'[active] = watermark[active]
                         /\ content'[active] = content[active]
      BY <2>3, <1>a, <3>2 DEF CreateRow
    <3> QED BY <3>1, <3>2, <3>3 DEF Still
  <2>4. CASE CommitMirror(a) \/ CommitBump(a) \/ CommitDelete(a) \/ CommitActivate(a)
    BY <2>4, CommitsMove
  <2> QED BY <1>4, <2>1, <2>2, <2>3, <2>4 DEF Admin, Plain
<1>5. ASSUME NEW r \in Resolves, Resolve(r)
      PROVE  Quiet \/ Moves
  <2>1. CASE Reconcile(r)
    BY <2>1, OthersMove
  <2>2. CASE ~Reconcile(r)
    BY <1>5, <2>2 DEF Resolve, Miss, Snapshot, ReadProfile, SkipReconcile, Store, GoWithout
  <2> QED BY <2>1, <2>2
<1> QED BY <1>b, <1>1, <1>2, <1>3, <1>4, <1>5 DEF Next
-----------------------------------------------------------------------------
(* What was read stays true until the version moves *)

\* Versions only grow, and nobody runs ahead of them.
LEMMA ObsStep ==
  ASSUME Inv, [Next]_vars
  PROVE  /\ \A r \in Resolves : local'[r].obs <= version
         /\ \A h \in Pods : cacheVer'[h] <= version
<1>a. /\ version \in Nat /\ version <= version /\ 0 <= version
      /\ cacheVer \in [Pods -> Versions] /\ cache \in [Pods -> Values]
      /\ NoLocal.obs <= version
      /\ \A r \in Resolves : local[r].obs <= version
      /\ \A h \in Pods : cacheVer[h] <= version
      /\ \A r \in Resolves : Home[r] \in Pods
  <2>1. version \in Nat
    BY SMTT(30), ProfileAssumption DEF ProfileAssumption, Inv, TypeOK, Versions
  <2>2. NoLocal.obs = 0
    BY SMTT(30) DEF NoLocal
  <2>3. version <= version /\ 0 <= version
    BY <2>1, SMTT(30)
  <2> QED BY <2>1, <2>2, <2>3, ActorFacts DEF Inv, TypeOK, ObsInv
<1>1. ASSUME NEW r \in Resolves, Stands(r)
      PROVE  local'[r].obs <= version
  BY <1>a, <1>1 DEF Stands
<1>2. CASE \A q \in Resolves : ~Resolve(q)
  <2>1. \A r \in Resolves : local'[r].obs <= version
    BY <1>1, <1>2, RestReads DEF Inv
  <2>2. ASSUME UNCHANGED caches
        PROVE  \A h \in Pods : cacheVer'[h] <= version
    BY <1>a, <2>2 DEF caches
  <2>3. ASSUME NEW g \in Pods, cacheVer' = [cacheVer EXCEPT ![g] = 0]
        PROVE  \A h \in Pods : cacheVer'[h] <= version
    BY <1>a, <2>3
  <2> QED BY <1>2, <2>1, <2>2, <2>3, RestReads DEF Inv
<1>3. ASSUME NEW q \in Resolves, Resolve(q)
      PROVE  /\ \A r \in Resolves : local'[r].obs <= version
             /\ \A h \in Pods : cacheVer'[h] <= version
  <2>1. \A r \in Resolves \ {q} : local'[r].obs <= version
    BY <1>3, <1>a, ResolveReads DEF Inv
  <2>2. local'[q].obs <= version
    BY <1>3, <1>1, <1>a, ResolveReads DEF Inv
  <2>3. ASSUME Store(q)
        PROVE  \A h \in Pods : cacheVer'[h] <= version
    <3>1. cacheVer' = [cacheVer EXCEPT ![Home[q]] = local[q].obs]
      BY <2>3 DEF Store, Stamp
    <3>2. local[q].obs <= version /\ Home[q] \in Pods
      BY <1>a
    <3> QED BY <1>a, <3>1, <3>2
  <2>4. UNCHANGED caches \/ Store(q)
    BY <1>3, ResolveReads DEF Inv, caches
  <2> QED BY <1>a, <2>1, <2>2, <2>3, <2>4 DEF caches
<1> QED BY <1>2, <1>3

\* After a move every fetch and every cached record is of an older version.
LEMMA MovesKeep ==
  ASSUME Inv, [Next]_vars, Moves
  PROVE  ObsInv' /\ FetchInv' /\ CacheIsCoherent'
<1>1. version \in Nat /\ version' = version + 1
  BY SMTT(30), ProfileAssumption DEF ProfileAssumption, Inv, TypeOK, Versions, Moves
<1>2. /\ \A r \in Resolves : local'[r].obs \in Nat
      /\ \A h \in Pods : cacheVer'[h] \in Nat
  <2>1. TypeOK'
    BY TypeStep DEF Inv
  <2>2. /\ \A r \in Resolves : local'[r] \in Locals
        /\ \A h \in Pods : cacheVer'[h] \in Versions
    BY <2>1, ActorFacts DEF TypeOK
  <2>3. \A v \in Versions : v \in Nat
    BY SMTT(30) DEF Versions
  <2>4. \A l \in Locals : l.obs \in Versions
    BY SMTT(30) DEF Locals
  <2> QED BY <2>2, <2>3, <2>4
<1>3. /\ \A r \in Resolves : local'[r].obs <= version' /\ local'[r].obs # version'
      /\ \A h \in Pods : cacheVer'[h] <= version' /\ cacheVer'[h] # version'
  BY <1>1, <1>2, ObsStep, SMTT(30)
<1> QED BY <1>3 DEF ObsInv, FetchInv, CacheIsCoherent

\* What a Resolve would find does not change between two moves, but by a write of the row.
LEMMA StillEffective ==
  ASSUME Inv, Still
  PROVE  /\ Behind' <=> Behind
         /\ ~edited' => ~edited /\ Effective' = Effective
<1>1. Behind' <=> Behind
  BY DEF Still, Behind
<1>2. ASSUME ~edited'
      PROVE  ~edited /\ Effective' = Effective
  <2>1. active # Nobody => content'[active] = content[active]
    BY <1>2 DEF Still
  <2> QED BY <1>1, <1>2, <2>1 DEF Still, Effective
<1> QED BY <1>1, <1>2

LEMMA StillFetch ==
  ASSUME Inv, [Next]_vars, Still
  PROVE  FetchInv'
<1> DEFINE Fetched(r) ==
      local[r].obs = version =>
        /\ pc[r] \in {"profile", "reconcile"} => local[r].tgt = active /\ local[r].copy = legacy
        /\ pc[r] = "reconcile" => Behind
        /\ pc[r] = "store" /\ ~edited => local[r].copy = Effective
<1>a. /\ version' = version /\ active' = active /\ legacy' = legacy
      /\ Behind' <=> Behind
      /\ ~edited' => ~edited /\ Effective' = Effective
  BY StillEffective DEF Still
<1>c. rows \subseteq Profiles /\ Nobody \notin Profiles
  BY ProfileAssumption DEF ProfileAssumption, Inv, TypeOK
<1>b. \A r \in Resolves : Fetched(r)
  BY DEF Inv, FetchInv
<1>1. ASSUME NEW r \in Resolves, Stands(r)
      PROVE  Fetched(r)'
  BY <1>1, <1>a, <1>b DEF Stands
<1>2. CASE \A q \in Resolves : ~Resolve(q)
  BY <1>1, <1>2, RestReads DEF Inv, FetchInv
<1>3. ASSUME NEW q \in Resolves, Resolve(q)
      PROVE  FetchInv'
  <2>1. \A r \in Resolves \ {q} : Fetched(r)'
    <3>1. \A r \in Resolves \ {q} : Stands(r)
      BY <1>3, ResolveReads DEF Inv, Stands
    <3> QED BY <1>1, <3>1
  <2>2. Fetched(q)'
    <3>1. CASE Stands(q)
      BY <1>1, <3>1
    <3>2. CASE /\ pc'[q] = "profile" /\ local'[q].obs = version
               /\ local'[q].tgt = active /\ local'[q].copy = legacy
      BY <3>2, <1>a
    <3>3. CASE /\ UNCHANGED <<settings, profiles, caches, history>>
               /\ pc[q] = "profile" /\ pc'[q] = "reconcile" /\ local'[q].obs = local[q].obs
               /\ local'[q].tgt = local[q].tgt /\ local'[q].copy = local[q].copy
               /\ local[q].tgt \in rows /\ local[q].obs > watermark[local[q].tgt]
      <4> SUFFICES ASSUME local[q].obs = version
                   PROVE  local[q].tgt = active /\ local[q].copy = legacy /\ Behind
        BY <1>a, <3>3
      <4>1. local[q].tgt = active /\ local[q].copy = legacy
        BY <1>b, <3>3
      <4>2. version > watermark[active]
        BY <3>3, <4>1
      <4>3. active # Nobody
        BY <1>c, <3>3, <4>1
      <4> QED BY <4>1, <4>2, <4>3 DEF Behind
    <3>4. CASE /\ UNCHANGED <<settings, profiles, caches, history>>
               /\ pc[q] = "profile" /\ pc'[q] = "store" /\ local'[q].obs = local[q].obs
               /\ local'[q].copy = content[local[q].tgt]
               /\ local[q].tgt \in rows /\ local[q].obs <= watermark[local[q].tgt]
      <4> SUFFICES ASSUME local[q].obs = version
                   PROVE  local'[q].copy = Effective
        BY <1>a, <3>4
      <4>1. local[q].tgt = active
        BY <1>b, <3>4
      <4>2. active # Nobody /\ active \in Profiles
        BY <1>c, <3>4, <4>1
      <4>3. version <= watermark[active] /\ version \in Nat /\ watermark[active] \in Nat
        BY <3>4, <4>1, <4>2, ProfileAssumption, SMTT(30) DEF ProfileAssumption, Inv, TypeOK, Versions
      <4>4. ~(version > watermark[active])
        BY <4>3, SMTT(30)
      <4> QED BY <3>4, <4>1, <4>2, <4>4 DEF Effective, Behind
    <3>5. CASE /\ pc[q] = "reconcile" /\ pc'[q] = "store" /\ local'[q].obs = local[q].obs
               /\ local'[q].copy = local[q].copy
      <4>1. local[q].obs = version => Behind /\ local[q].copy = legacy
        BY <1>b, <3>5
      <4> QED BY <1>a, <3>5, <4>1 DEF Effective
    <3> QED BY <1>3, <3>1, <3>2, <3>3, <3>4, <3>5, ResolveReads DEF Inv
  <2> QED BY <2>1, <2>2 DEF FetchInv
<1> QED BY <1>2, <1>3

LEMMA StillCoherent ==
  ASSUME Inv, [Next]_vars, Still
  PROVE  CacheIsCoherent'
<1>a. /\ version' = version /\ ~edited' => ~edited /\ Effective' = Effective
  BY StillEffective DEF Still
<1>b. cache \in [Pods -> Values] /\ cacheVer \in [Pods -> Versions] /\ version' = version
      /\ \A r \in Resolves : Home[r] \in Pods
  BY ActorFacts DEF Inv, TypeOK, Still
<1>c. \A h \in Pods : cacheVer[h] = version /\ version # 0 /\ ~edited => cache[h] = Effective
  BY DEF Inv, CacheIsCoherent
<1>1. CASE UNCHANGED caches
  BY <1>1, <1>a, <1>b, <1>c DEF CacheIsCoherent, caches
<1>2. ASSUME NEW g \in Pods, cache' = [cache EXCEPT ![g] = Unset],
             cacheVer' = [cacheVer EXCEPT ![g] = 0]
      PROVE  CacheIsCoherent'
  BY <1>2, <1>a, <1>b, <1>c DEF CacheIsCoherent
<1>3. ASSUME NEW q \in Resolves, Store(q)
      PROVE  CacheIsCoherent'
  <2> DEFINE g == Home[q]
  <2>1. cache' = [cache EXCEPT ![g] = local[q].copy]
        /\ cacheVer' = [cacheVer EXCEPT ![g] = local[q].obs] /\ g \in Pods
    BY <1>3, <1>b DEF Store, Stamp
  <2>2. local[q].obs = version /\ ~edited => local[q].copy = Effective
    BY <1>3 DEF Inv, FetchInv, Store
  <2> HIDE DEF g
  <2> QED BY <1>a, <1>b, <1>c, <2>1, <2>2 DEF CacheIsCoherent
<1>4. UNCHANGED caches \/ (\E q \in Resolves : Store(q))
      \/ \E h \in Pods : /\ cache' = [cache EXCEPT ![h] = Unset]
                       /\ cacheVer' = [cacheVer EXCEPT ![h] = 0]
  <2>1. CASE \A q \in Resolves : ~Resolve(q)
    BY <2>1, RestReads DEF Inv
  <2>2. ASSUME NEW q \in Resolves, Resolve(q)
        PROVE  UNCHANGED caches \/ Store(q)
    BY <2>2, ResolveReads DEF Inv, caches
  <2> QED BY <2>1, <2>2
<1> QED BY <1>1, <1>2, <1>3, <1>4

LEMMA StillKeeps ==
  ASSUME Inv, [Next]_vars, Still
  PROVE  PointerHolds' /\ WatermarkTells' /\ MirrorAgrees' /\ ObsInv'
<1>1. PointerHolds'
  BY DEF Inv, PointerHolds, Still
<1>2. WatermarkTells'
  BY DEF Inv, WatermarkTells, Still
<1>3. MirrorAgrees'
  BY DEF Inv, MirrorAgrees, Still
<1>4. ObsInv'
  BY ObsStep DEF ObsInv, Still
<1> QED BY <1>1, <1>2, <1>3, <1>4

-----------------------------------------------------------------------------
(* The invariant *)

LEMMA InvInit ==
  ASSUME Init
  PROVE  Inv
<1>a. /\ version = 0 /\ active = Nobody /\ cache = [h \in Pods |-> Unset]
      /\ local = [a \in Actors |-> NoLocal] /\ cacheVer = [h \in Pods |-> 0]
      /\ pc = [a \in Actors |-> IF a \in Pods THEN "probe" ELSE "idle"]
  BY DEF Init
<1>1. TypeOK
  <2>1. 0 \in Versions /\ Unset \in Values
    BY ProfileAssumption, SMTT(30) DEF ProfileAssumption, Versions, Values
  <2>2. pc \in [Actors -> Steps]
    BY <1>a DEF Steps
  <2>3. byOld \in BOOLEAN /\ edited \in BOOLEAN /\ apart \in BOOLEAN
    BY DEF Init
  <2>4. content \in [Profiles -> Values] /\ watermark \in [Profiles -> Versions]
        /\ cache \in [Pods -> Values] /\ cacheVer \in [Pods -> Versions]
        /\ local \in [Actors -> Locals]
    BY <2>1, ActorFacts DEF Init
  <2>5. version \in Versions /\ legacy \in Values /\ active \in Profiles \cup {Nobody}
        /\ rows \subseteq drawn /\ drawn \subseteq Profiles
    BY <2>1 DEF Init
  <2> QED BY <2>2, <2>3, <2>4, <2>5 DEF TypeOK
<1>2. ObsInv
  <2>1. NoLocal.obs <= version /\ 0 <= version
    BY <1>a, SMTT(30) DEF NoLocal
  <2> QED BY <1>a, <2>1, ActorFacts DEF ObsInv
<1>3. FetchInv
  <2>1. \A r \in Resolves : pc[r] = "idle"
    BY <1>a, ActorFacts, ProfileAssumption DEF ProfileAssumption
  <2> QED BY <2>1 DEF FetchInv
<1>4. PointerHolds /\ WatermarkTells /\ MirrorAgrees /\ CacheIsCoherent
  BY <1>a DEF PointerHolds, WatermarkTells, MirrorAgrees, CacheIsCoherent
<1> QED BY <1>1, <1>2, <1>3, <1>4 DEF Inv

LEMMA InvStep ==
  ASSUME Inv, [Next]_vars
  PROVE  Inv'
<1>1. TypeOK'
  BY TypeStep DEF Inv
<1>2. CASE Still
  BY <1>1, <1>2, StillKeeps, StillFetch, StillCoherent DEF Inv
<1>3. CASE Moves
  BY <1>1, <1>3, MovesKeep DEF Inv, Moves
<1> QED BY <1>2, <1>3, Dichotomy

LEMMA Always == Spec => []Inv
BY InvInit, InvStep, PTL DEF Spec

\* Types, for every number of pods, requests and profiles.
THEOREM TypeCorrect == Spec => []TypeOK
<1>1. Inv => TypeOK
  BY DEF Inv
<1> QED BY <1>1, Always, PTL

\* No order of deletions, activations, boots and retries leaves active_profile_id without a row.
THEOREM PointerAlwaysHolds == Spec => []PointerHolds
<1>1. Inv => PointerHolds
  BY DEF Inv
<1> QED BY <1>1, Always, PTL

\* The watermark of the active profile tells an old pod's write from all others, and is never
\* ahead of the version it is compared with.
THEOREM WatermarkAlwaysTells == Spec => []WatermarkTells
<1>1. Inv => WatermarkTells
  BY DEF Inv
<1> QED BY <1>1, Always, PTL

\* The legacy fields an old pod reads are the active profile's, but for the two known gaps.
THEOREM MirrorStaysInStep == Spec => []MirrorAgrees
<1>1. Inv => MirrorAgrees
  BY DEF Inv
<1> QED BY <1>1, Always, PTL

\* A record cached under the current version is the database's, on every pod, although the
\* snapshot and the profile's row are two reads.
THEOREM CachesStayCoherent == Spec => []CacheIsCoherent
<1>1. Inv => CacheIsCoherent
  BY DEF Inv
<1> QED BY <1>1, Always, PTL
=============================================================================
