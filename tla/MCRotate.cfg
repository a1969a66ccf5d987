\* Three replacements of the files, one caller, up to five candidates.
SPECIFICATION Spec
CONSTANTS
    Calls = {c1}
    MaxEdits = 3
    MaxGen = 5
    Invalid <- InvalidFiles
INVARIANTS
    TypeOK
    RunningCallsKeepTheirConn
    ServedIsCommitted
    NothingLeaks
    CountsAreCallers
    RestsWhenFresh
PROPERTIES
    NeverOlder
    HandsOver
CHECK_DEADLOCK FALSE
