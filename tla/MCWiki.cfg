\* A push whose context may end, a merge and a refresh, one failing write, one crash, Stop at any moment.
SPECIFICATION FairSpec
CONSTANTS
    R = R
    Push = Push
    Merge = Merge
    Reject = Reject
    Refresh = Refresh
    NoSha = NoSha
    Nothing = Nothing
    Repos = {R}
    Spare = {S1}
    Events = {Push, Merge, Refresh}
    KindOf <- Names
    RepoOf <- OneRepo
    ShaOf <- OwnSha
    PrOf <- OwnPr
    DiffProvider = TRUE
    QueueCap = 1
    TimesOf <- Once
    Expiring = {Push}
    MaxBadReads = 0
    MaxBadWrites = 1
    MaxRestarts = 1
INVARIANTS
    TypeOK
    PublishedIsPromoted
    ReadsAreCurrent
    CleanStopKeepsPromise
PROPERTIES
    PublishedOnlyByMerge
    AcceptedIsHandled
    StopCompletes
\* All events handled and the dispatcher stopped: nothing is left to do.
CHECK_DEADLOCK FALSE
