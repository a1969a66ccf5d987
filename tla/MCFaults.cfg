\* One call with everything that can go wrong: retries, cancellation, a client that leaves,
\* two failing store calls, pause, drain, stop, one crash, all ages.
SPECIFICATION Spec
CONSTANTS
    KeyA = KeyA
    LaneI = LaneI
    NoJob = NoJob
    Jobs = {J1}
    Keys = {KeyA}
    Lanes = {LaneI}
    KeyOf <- OneKey
    LaneOf <- OneLane
    MaxAttempts = 2
    MaxConcurrency = 1
    QueueCapacity = 1
    SyncCalls = {J1}
    Cancellable = {J1}
    Hung = {}
    Reissue = FALSE
    Admin <- AllAdmin
    MaxAge = 3
    MaxFailures = 2
    MaxRestarts = 1
    Persistent = TRUE
PROPERTIES
    TerminalIsFinal
    ImplementsClaim
\* All calls made and all jobs ended: nothing is left to do.
CHECK_DEADLOCK FALSE
