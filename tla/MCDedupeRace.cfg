\* Two calls race for one key; nothing fails, nothing is cancelled.
SPECIFICATION Spec
CONSTANTS
    KeyA = KeyA
    LaneI = LaneI
    NoJob = NoJob
    Jobs = {J1, J2}
    Keys = {KeyA}
    Lanes = {LaneI}
    KeyOf <- OneKey
    LaneOf <- OneLane
    MaxAttempts = 1
    MaxConcurrency = 1
    QueueCapacity = 1
    SyncCalls = {}
    Cancellable = {}
    Hung = {}
    Reissue = FALSE
    Admin <- NoAdmin
    MaxAge = 0
    MaxFailures = 0
    MaxRestarts = 0
    Persistent = TRUE
INVARIANT
    OneActivePerKey
\* All calls made and all jobs ended: nothing is left to do.
CHECK_DEADLOCK FALSE
