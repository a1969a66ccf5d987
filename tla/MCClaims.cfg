\* Two calls on one key, retries, user cancellation, reaper; no crash, no store failure.
SPECIFICATION Spec
CONSTANTS
    KeyA = KeyA
    LaneI = LaneI
    NoJob = NoJob
    Jobs = {J1, J2}
    Keys = {KeyA}
    Lanes = {LaneI}
    KeyOf <- OneKey
    LaneOf <- OneLane
    MaxAttempts = 2
    MaxConcurrency = 1
    QueueCapacity = 1
    SyncCalls = {J2}
    Cancellable = {J1}
    Hung = {}
    Reissue = TRUE
    Admin <- NoAdmin
    MaxAge = 2
    MaxFailures = 0
    MaxRestarts = 0
    Persistent = TRUE
INVARIANTS
    TypeOK
    ClaimExclusive
    VerdictLands
    NoOrphanedClaim
    FailureReportedOnce
\* All calls made and all jobs ended: nothing is left to do.
CHECK_DEADLOCK FALSE
