\* A closure that hangs, a crash, and the reaper that must clear both.
SPECIFICATION FairSpec
CONSTANTS
    KeyA = KeyA
    LaneI = LaneI
    NoJob = NoJob
    Jobs = {J1, J2}
    Keys = {KeyA}
    Lanes = {LaneI}
    KeyOf <- OneKey
    LaneOf <- OneLane
    MaxAttempts = 1
    MaxConcurrency = 1
    QueueCapacity = 1
    SyncCalls = {}
    Cancellable = {}
    Hung = {J1}
    Reissue = FALSE
    Admin <- NoAdmin
    MaxAge = 3
    MaxFailures = 0
    MaxRestarts = 1
    Persistent = TRUE
PROPERTIES
    JobEnds
    FailureIsReported
\* All calls made and all jobs ended: nothing is left to do.
CHECK_DEADLOCK FALSE
