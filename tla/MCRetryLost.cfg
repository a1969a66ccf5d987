\* The provider delivers each event again.
SPECIFICATION Spec
CONSTANTS
    R = R
    Push = Push
    Merge = Merge
    Reject = Reject
    Refresh = Refresh
    NoSha = NoSha
    Nothing = Nothing
    Repos = {R}
    Spare = {S1}
    Events = {Refresh, Merge}
    KindOf <- Names
    RepoOf <- OneRepo
    ShaOf <- OwnSha
    PrOf <- OwnPr
    DiffProvider = TRUE
    QueueCap = 1
    TimesOf <- Twice
    Expiring = {}
    MaxBadReads = 0
    MaxBadWrites = 0
    MaxRestarts = 0
INVARIANTS
    DuplicateWasAccepted
\* All events handled and the dispatcher stopped: nothing is left to do.
CHECK_DEADLOCK FALSE
