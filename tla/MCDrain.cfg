\* preStop hook against SIGTERM, two clients, two jobs; one of each may hang, an operator
\* who pauses and resumes intake at will.
SPECIFICATION FairSpec
CONSTANTS
    Prestop = Prestop
    Term = Term
    R1 = R1
    R2 = R2
    J1 = J1
    J2 = J2
    Triggers <- BothTriggers
    Sigterm = Term
    Reqs = {R1, R2}
    Jobs = {J1, J2}
    Stuck <- OneStuckEach
INVARIANTS
    TypeOK
    CleanDrainIsQuiet
    NoMissedWakeup
PROPERTIES
    ImplementsDrain
    ShutdownCompletes
\* The process has stopped.
CHECK_DEADLOCK FALSE
