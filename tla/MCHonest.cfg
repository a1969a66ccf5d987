\* The watcher alone, nothing fails; files are saved by renaming a new one over the old.
SPECIFICATION Spec
CONSTANTS
    A = A
    B = B
    Absent = Absent
    Files = {F}
    Contents = {A, B}
    SaveOps = {"added"}
    Slots = {G1}
    Debounce = 1
    DedupWindow = 5
    MaxSubmit = 0
    MaxEdits = 2
    MaxCalls = 0
    MaxRefusals = 0
    MaxFailures = 0
    InitialDisk <- AllHaveA
INVARIANTS
    FreshIsHonest
CHECK_DEADLOCK FALSE
