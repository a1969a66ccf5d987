\* One file, two contents, a call beside the watcher; one refusal, one failure.
SPECIFICATION FairSpec
CONSTANTS
    A = A
    B = B
    Absent = Absent
    Files = {F}
    Contents = {A, B}
    SaveOps = {"added", "modified"}
    Slots = {G1, G2}
    Debounce = 2
    DedupWindow = 3
    MaxSubmit = 1
    MaxEdits = 2
    MaxCalls = 1
    MaxRefusals = 1
    MaxFailures = 1
    InitialDisk <- AllHaveA
INVARIANTS
    TypeOK
    NothingSlipsThrough
PROPERTIES
    EventsSettle
CHECK_DEADLOCK FALSE
