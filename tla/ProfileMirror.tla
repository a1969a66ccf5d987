--------------------------- MODULE ProfileMirror ---------------------------
(***************************************************************************)
(* The saved LLM profiles and their mirror, the one settings row that pods *)
(* of the release before profiles still read and write.  Writers: the      *)
(* migration of a pod that boots, admin requests in two phases or in       *)
(* version-guarded transactions, old pods, and the resolver, which adopts  *)
(* what an old pod wrote.  Readers: the resolver's cache on each pod.      *)
(*                                                                         *)
(* A step is one query, one transaction or one critical section.  The      *)
(* settings of a row (provider, key, models) are one value.                *)
(***************************************************************************)
EXTENDS Naturals

CONSTANTS
  Profiles,    \* record ids of ca_llm_profile, drawn or not yet drawn
  Migrated,    \* MigratedProfileRecordID, the one the migration writes
  Contents,    \* settings
  Unset,       \* settings without a provider
  EnvBoot,     \* what cfg.LLM held at boot
  Pods,        \* pods of this release
  Admins,      \* admin requests that may be under way at a time
  Resolves,    \* calls of Resolve that may be under way at a time
  Home,        \* the pod each of them runs on
  Nobody,
  MaxVersion   \* bound: how often the settings row is written

Values == Contents \cup {Unset}
Actors == Pods \cup Admins \cup Resolves
Versions == 0 .. MaxVersion

ASSUME ProfileAssumption ==
  /\ Migrated \in Profiles /\ Nobody \notin Profiles
  /\ Unset \notin Contents /\ EnvBoot \in Values
  /\ Pods \cap Admins = {} /\ Pods \cap Resolves = {} /\ Admins \cap Resolves = {}
  /\ Home \in [Admins \cup Resolves -> Pods]
  /\ MaxVersion \in Nat \ {0}

VARIABLES
  \* ca_llm_config:default
  version, legacy, active,
  \* ca_llm_profile: which rows exist, their settings, last_legacy_version_consumed
  rows, content, watermark,
  \* where each actor is, and its locals
  pc, local,
  \* DefaultResolver: cache and cacheVer of each pod
  cache, cacheVer,
  \* history: ids that were drawn; the newest version is an old pod's; the active row was
  \* written since the version moved; the mirror is known to lag (see MirrorAgrees)
  drawn, byOld, edited, apart

settings == <<version, legacy, active>>
profiles == <<rows, content, watermark, drawn>>
caches   == <<cache, cacheVer>>
history  == <<byOld, edited, apart>>
vars     == <<settings, profiles, pc, local, caches, history>>

Steps == {"probe", "check", "read", "batch", "serving",                    \* boot
          "idle", "row", "load", "observe", "commit", "forget",            \* admins
          "snapshot", "profile", "reconcile", "store"}                     \* resolver
Ops == {"none", "mirror", "bump", "delete", "activate"}
NoLocal == [op |-> "none", tgt |-> Nobody, obs |-> 0, copy |-> Unset, mark |-> 0]
Locals == [op : Ops, tgt : Profiles \cup {Nobody}, obs : Versions, copy : Values,
           mark : Versions]

TypeOK ==
  /\ version \in Versions /\ legacy \in Values /\ active \in Profiles \cup {Nobody}
  /\ rows \subseteq drawn /\ drawn \subseteq Profiles
  /\ content \in [Profiles -> Values] /\ watermark \in [Profiles -> Versions]
  /\ pc \in [Actors -> Steps] /\ local \in [Actors -> Locals]
  /\ cache \in [Pods -> Values] /\ cacheVer \in [Pods -> Versions]
  /\ byOld \in BOOLEAN /\ edited \in BOOLEAN /\ apart \in BOOLEAN

\* Neither release has written anything yet.
Init ==
  /\ version = 0 /\ legacy = Unset
  /\ active = Nobody /\ rows = {} /\ drawn = {}
  /\ content = [p \in Profiles |-> Unset] /\ watermark = [p \in Profiles |-> 0]
  /\ pc = [a \in Actors |-> IF a \in Pods THEN "probe" ELSE "idle"]
  /\ local = [a \in Actors |-> NoLocal]
  /\ cache = [h \in Pods |-> Unset] /\ cacheVer = [h \in Pods |-> 0]
  /\ byOld = FALSE /\ edited = FALSE /\ apart = FALSE
-----------------------------------------------------------------------------
(* Parts of steps *)

Goes(a, step) == pc' = [pc EXCEPT ![a] = step]
\* The call is over and its locals are dead.
Ends(a, step) == Goes(a, step) /\ local' = [local EXCEPT ![a] = NoLocal]
Keeps(a, step, l) == Goes(a, step) /\ local' = [local EXCEPT ![a] = l]

\* The guard of every transaction: workspace.version is what the caller has read.
Unmoved(a) == version = local[a].obs
Bumped ==
  /\ version < MaxVersion
  /\ version' = version + 1
  /\ edited' = FALSE
\* Mutant: off by one.
ConsumedAhead(p) == watermark' = [watermark EXCEPT ![p] = version + 2]

\* The transaction also says that the profile has seen the new version.
Consumed(p) == watermark' = [watermark EXCEPT ![p] = version + 1]
\* Both copies are written.
InStep == byOld' = FALSE /\ apart' = FALSE

\* What an old pod wrote has not been adopted yet.
Behind == active # Nobody /\ version > watermark[active]
\* What a Resolve of now would find.
Effective == IF active = Nobody \/ Behind THEN legacy ELSE content[active]
-----------------------------------------------------------------------------
(* Old pods, and the migration of a pod that boots *)

\* SaveLLMConfig of the release before profiles: legacy fields and version, no more.
OldWrite(c) ==
  /\ Bumped /\ legacy' = c
  /\ byOld' = TRUE
  /\ UNCHANGED <<active, profiles, pc, local, caches, apart>>

Boot(h) ==
  \* The pointer; empty before the first migration.
  \/ /\ pc[h] = "probe"
     /\ Keeps(h, IF active = Nobody THEN "read" ELSE "check", [NoLocal EXCEPT !.tgt = active])
     /\ UNCHANGED <<settings, profiles, caches, history>>
  \* Its row.  Only the deterministic id is healed, another pointer is left to an admin.
  \/ /\ pc[h] = "check"
     /\ Ends(h, IF local[h].tgt \in rows \/ local[h].tgt # Migrated THEN "serving" ELSE "read")
     /\ UNCHANGED <<settings, profiles, caches, history>>
  \* The legacy fields and their version; a failing query reads as no row at all.
  \/ /\ pc[h] = "read"
     /\ \/ Keeps(h, "batch", [NoLocal EXCEPT !.obs = version,
                                 !.copy = IF legacy = Unset THEN EnvBoot ELSE legacy])
        \/ Keeps(h, "batch", [NoLocal EXCEPT !.copy = EnvBoot])
     /\ UNCHANGED <<settings, profiles, caches, history>>
  \/ /\ pc[h] = "batch" /\ Unmoved(h)
     /\ Bumped /\ Consumed(Migrated) /\ InStep
     /\ active' = Migrated /\ legacy' = local[h].copy
     /\ rows' = rows \cup {Migrated} /\ drawn' = drawn \cup {Migrated}
     /\ content' = [content EXCEPT ![Migrated] = local[h].copy]
     /\ Ends(h, "serving")
     /\ UNCHANGED caches
  \* ErrLegacyChanged: from the start.
  \/ /\ pc[h] = "batch" /\ ~Unmoved(h)
     /\ Ends(h, "probe")
     /\ UNCHANGED <<settings, profiles, caches, history>>

\* The process dies, at any moment, with its requests and its cache; it boots again.
Restart(h) ==
  LET gone == {a \in Admins \cup Resolves : Home[a] = h} IN
  /\ pc' = [a \in Actors |-> IF a = h THEN "probe" ELSE IF a \in gone THEN "idle" ELSE pc[a]]
  /\ local' = [a \in Actors |-> IF a = h \/ a \in gone THEN NoLocal ELSE local[a]]
  /\ cache' = [cache EXCEPT ![h] = Unset] /\ cacheVer' = [cacheVer EXCEPT ![h] = 0]
  /\ UNCHANGED <<settings, profiles, history>>
-----------------------------------------------------------------------------
(* Admin requests *)

Begins(a) == a \in Admins /\ pc[a] = "idle" /\ pc[Home[a]] = "serving"

\* UpdateProfile chooses its way by whether the profile is active now.
StartUpdate(a, p) ==
  /\ Begins(a) /\ p \in rows
  /\ Keeps(a, "row", [NoLocal EXCEPT !.tgt = p, !.op = IF p = active THEN "mirror" ELSE "bump"])
  /\ UNCHANGED <<settings, profiles, caches, history>>

\* First phase: the row.  An UPDATE of a row that was deleted meanwhile does nothing.
WriteRow(a, c) ==
  LET p == local[a].tgt
      hit == p \in rows
  IN
  /\ pc[a] = "row"
  /\ content' = IF hit THEN [content EXCEPT ![p] = c] ELSE content
  /\ edited' = (edited \/ (hit /\ p = active))
  /\ apart' = (apart \/ (hit /\ p = active))
  /\ IF local[a].op = "mirror" THEN Keeps(a, "load", local[a])
     ELSE Keeps(a, "observe", [NoLocal EXCEPT !.op = "bump"])
  /\ UNCHANGED <<settings, rows, watermark, drawn, caches, byOld>>

\* What the mirror will get is read back.
Load(a) ==
  /\ pc[a] = "load" /\ local[a].tgt \in rows
  /\ Keeps(a, "observe", [local[a] EXCEPT !.copy = content[local[a].tgt]])
  /\ UNCHANGED <<settings, profiles, caches, history>>

\* PUT /admin/llm-config of this release: the same transaction without the first phase.
StartPut(a, c) ==
  /\ Begins(a)
  /\ Keeps(a, "observe", [NoLocal EXCEPT !.op = "mirror", !.tgt = active, !.copy = c])
  /\ UNCHANGED <<settings, profiles, caches, history>>

CreateRow(a, p, c) ==
  /\ Begins(a) /\ p \notin drawn /\ p # Migrated
  /\ rows' = rows \cup {p} /\ drawn' = drawn \cup {p}
  /\ content' = [content EXCEPT ![p] = c] /\ watermark' = [watermark EXCEPT ![p] = 0]
  /\ Keeps(a, "observe", [NoLocal EXCEPT !.op = "bump"])
  /\ UNCHANGED <<settings, caches, history>>

StartDelete(a, p) ==
  /\ Begins(a) /\ p \in rows /\ p # active
  /\ Keeps(a, "observe", [NoLocal EXCEPT !.op = "delete", !.tgt = p])
  /\ UNCHANGED <<settings, profiles, caches, history>>

StartActivate(a, p) ==
  /\ Begins(a) /\ p \in rows
  /\ Keeps(a, "observe", [NoLocal EXCEPT !.op = "activate", !.tgt = p])
  /\ UNCHANGED <<settings, profiles, caches, history>>

\* ErrTargetNoLongerActive is for mirror writes only.
StillTarget(a) == local[a].op = "mirror" => active = local[a].tgt

Observe(a) ==
  /\ pc[a] = "observe" /\ StillTarget(a)
  /\ Keeps(a, "commit", [local[a] EXCEPT !.obs = version])
  /\ UNCHANGED <<settings, profiles, caches, history>>

CommitMirror(a) ==
  LET p == local[a].tgt IN
  /\ pc[a] = "commit" /\ local[a].op = "mirror"
  /\ Unmoved(a) /\ active = p /\ p \in rows
  /\ Bumped /\ Consumed(p) /\ InStep
  /\ content' = [content EXCEPT ![p] = local[a].copy] /\ legacy' = local[a].copy
  /\ Ends(a, "forget")
  /\ UNCHANGED <<active, rows, drawn, caches>>

\* Mutant: version alone, as an old pod does it.
ConsumesNothing == UNCHANGED watermark

\* Bumps and deletions carry the active profile's watermark along, over an old pod's write too.
ConsumesByActive ==
  watermark' = IF active = Nobody THEN watermark
               ELSE [watermark EXCEPT ![active] = version + 1]

CommitBump(a) ==
  /\ pc[a] = "commit" /\ local[a].op = "bump" /\ Unmoved(a)
  /\ Bumped /\ ConsumesByActive
  /\ byOld' = FALSE /\ apart' = (apart \/ Behind)
  /\ Ends(a, "forget")
  /\ UNCHANGED <<legacy, active, rows, content, drawn, caches>>

\* Mutant: the test of the request's start is trusted.
MayDeleteAnyway(a) == TRUE

MayDelete(a) == local[a].tgt # active

CommitDelete(a) ==
  /\ pc[a] = "commit" /\ local[a].op = "delete" /\ Unmoved(a) /\ MayDelete(a)
  /\ Bumped /\ ConsumesByActive
  /\ byOld' = FALSE /\ apart' = (apart \/ Behind)
  /\ rows' = rows \ {local[a].tgt}
  /\ content' = [content EXCEPT ![local[a].tgt] = Unset]
  /\ Ends(a, "forget")
  /\ UNCHANGED <<legacy, active, drawn, caches>>

\* Mutant: the pointer moves and the mirror stays.
MirrorForgotten(a) == legacy

MirrorOf(a) == content[local[a].tgt]

CommitActivate(a) ==
  LET p == local[a].tgt IN
  /\ pc[a] = "commit" /\ local[a].op = "activate" /\ Unmoved(a) /\ p \in rows
  /\ Bumped /\ Consumed(p) /\ InStep
  /\ active' = p /\ legacy' = MirrorOf(a)
  /\ Ends(a, "forget")
  /\ UNCHANGED <<rows, content, drawn, caches>>

\* The version has moved: observe again, up to helperRetryCap times; Stops is giving up.
Retry(a) ==
  /\ pc[a] = "commit" /\ ~Unmoved(a)
  /\ Goes(a, "observe")
  /\ UNCHANGED <<settings, profiles, local, caches, history>>

\* A guard of the request or of its transaction refuses, a call of the store fails, the retries
\* are used up or the client is gone.  A failing bump is only logged: the request goes on.
Stops(a) ==
  /\ pc[a] \in {"row", "load", "observe", "commit", "forget"}
  /\ \/ Ends(a, "idle")
     \/ local[a].op = "bump" /\ pc[a] \in {"observe", "commit"} /\ Ends(a, "forget")
  /\ UNCHANGED <<settings, profiles, caches, history>>

\* InvalidateLocal, after a request that succeeded.
Forget(a) ==
  /\ pc[a] = "forget"
  /\ cache' = [cache EXCEPT ![Home[a]] = Unset] /\ cacheVer' = [cacheVer EXCEPT ![Home[a]] = 0]
  /\ Ends(a, "idle")
  /\ UNCHANGED <<settings, profiles, history>>

Admin(a) ==
  \/ \E p \in Profiles : StartUpdate(a, p) \/ StartDelete(a, p) \/ StartActivate(a, p)
  \/ \E c \in Contents : WriteRow(a, c) \/ StartPut(a, c)
  \/ \E p \in Profiles, c \in Contents : CreateRow(a, p, c)
  \/ Load(a) \/ Observe(a) \/ Retry(a) \/ Stops(a) \/ Forget(a)
  \/ CommitMirror(a) \/ CommitBump(a) \/ CommitDelete(a) \/ CommitActivate(a)
-----------------------------------------------------------------------------
(* Resolve *)

\* The version probe, then a cache that does not have that version.
Miss(r) ==
  /\ r \in Resolves /\ pc[r] = "idle" /\ pc[Home[r]] = "serving"
  /\ version # 0 /\ cacheVer[Home[r]] # version
  /\ Keeps(r, "snapshot", NoLocal)
  /\ UNCHANGED <<settings, profiles, caches, history>>

\* What is left to remember once the record is built.
Answer(r, c) == [NoLocal EXCEPT !.obs = local[r].obs, !.copy = c]

\* LoadConfigSnapshot: pointer, version and legacy fields in one query.  A pod serves after its
\* migration only, so the pointer is set.
Snapshot(r) ==
  /\ pc[r] = "snapshot" /\ active # Nobody
  /\ Keeps(r, "profile", [NoLocal EXCEPT !.tgt = active, !.obs = version, !.copy = legacy])
  /\ UNCHANGED <<settings, profiles, caches, history>>

\* The profile's row; ahead of it, the snapshot's legacy fields count.
ReadProfile(r) ==
  LET p == local[r].tgt IN
  /\ pc[r] = "profile" /\ p \in rows
  /\ \/ /\ local[r].obs > watermark[p]
        /\ Keeps(r, "reconcile", [local[r] EXCEPT !.mark = watermark[p]])
     \/ /\ local[r].obs <= watermark[p]
        /\ Keeps(r, "store", Answer(r, content[p]))
  /\ UNCHANGED <<settings, profiles, caches, history>>

Reconciles(r) == Unmoved(r) /\ watermark[local[r].tgt] = local[r].mark

Reconcile(r) ==
  LET p == local[r].tgt IN
  /\ pc[r] = "reconcile" /\ p \in rows /\ Reconciles(r)
  /\ Bumped /\ Consumed(p) /\ InStep
  /\ content' = [content EXCEPT ![p] = legacy]
  /\ Keeps(r, "store", Answer(r, local[r].copy))
  /\ UNCHANGED <<legacy, active, rows, drawn, caches>>

\* A conflict, or a failing call: the next Resolve will see to it.
SkipReconcile(r) ==
  /\ pc[r] = "reconcile"
  /\ Keeps(r, "store", Answer(r, local[r].copy))
  /\ UNCHANGED <<settings, profiles, caches, history>>

\* Mutant: the record is stored under the version of now.
StampOfNow(r) == version

Stamp(r) == local[r].obs

Store(r) ==
  /\ pc[r] = "store"
  /\ cache' = [cache EXCEPT ![Home[r]] = local[r].copy]
  /\ cacheVer' = [cacheVer EXCEPT ![Home[r]] = Stamp(r)]
  /\ Ends(r, "idle")
  /\ UNCHANGED <<settings, profiles, history>>

\* A failing read or a missing profile: the cached record serves, or the environment.
GoWithout(r) ==
  /\ pc[r] \in {"snapshot", "profile"}
  /\ Ends(r, "idle")
  /\ UNCHANGED <<settings, profiles, caches, history>>

Resolve(r) ==
  \/ Miss(r) \/ Snapshot(r) \/ ReadProfile(r) \/ Reconcile(r) \/ SkipReconcile(r)
  \/ Store(r) \/ GoWithout(r)

Next ==
  \/ \E c \in Contents : OldWrite(c)
  \/ \E h \in Pods : Boot(h) \/ Restart(h)
  \/ \E a \in Admins : Admin(a)
  \/ \E r \in Resolves : Resolve(r)

Spec == Init /\ [][Next]_vars
-----------------------------------------------------------------------------
(* Properties *)

\* The active profile exists: "active_profile_id points at a missing row", for which the adapter
\* has an error and the UI a banner, cannot come from racing deletions, activations and boots.
PointerHolds == active # Nobody => active \in rows

\* The watermark scheme: version is ahead of the active profile exactly when the newest write was
\* an old pod's, and the watermark is never ahead ("legacy_watermark_inversion ... impossible by
\* construction").  So no new-code write is taken for an old pod's, and none is missed at once.
WatermarkTells ==
  active # Nobody => watermark[active] <= version /\ (byOld <=> watermark[active] < version)

\* What old pods read is what the active profile says, unless the newest write is theirs or it is
\* known why not (apart): a row written in the first phase of an update and not mirrored since, or
\* an old pod's write that a bump or a deletion has covered with its watermark.
MirrorAgrees ==
  active # Nobody /\ ~byOld /\ ~apart => legacy = content[active]

\* A cached record of the current version is what the database says, on every pod, as long as the
\* active row was not written since the version moved ("any subsequent profile write heals").
CacheIsCoherent ==
  \A h \in Pods : cacheVer[h] = version /\ version # 0 /\ ~edited => cache[h] = Effective
=============================================================================
