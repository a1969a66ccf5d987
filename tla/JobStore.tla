------------------------------ MODULE JobStore ------------------------------
(***************************************************************************)
(* The persistence contract of LLM jobs, reduced to what decides a job's   *)
(* fate: which status a write leaves behind.  Two implementations exist,   *)
(* internal/llm/memstore.go (no database configured) and                   *)
(* internal/db/llm_job_store.go (SurrealDB).  They agree on every write    *)
(* except one: the WHERE clause of the SurrealDB SetStatus refuses any     *)
(* write that leaves a terminal status, the MemStore guard refuses only    *)
(* writes from one terminal status to a different terminal status.         *)
(***************************************************************************)

CONSTANT
    Persistent  \* TRUE: llm_job_store.go (SurrealDB); FALSE: memstore.go

ASSUME PersistentAssumption == Persistent \in BOOLEAN

Active   == {"pending", "generating"}
Terminal == {"ready", "failed", "cancelled"}

\* "absent": the id has been drawn but no row was created for it.
Status == {"absent"} \cup Active \cup Terminal

AfterBlindSetStatus(cur, new) == new      \* mutant: no terminal-status guard

\* SetStatus: the status a row holds after a write of "new" over "cur".
AfterSetStatus(cur, new) ==
    IF /\ cur \in Terminal
       /\ new # cur
       /\ Persistent \/ new \in Terminal
    THEN cur
    ELSE new

\* SetError also moves the row to failed, unless it is ready or cancelled.
AfterSetError(cur) ==
    IF cur \in Terminal \ {"failed"} THEN cur ELSE "failed"
=============================================================================
