SPECIFICATION Spec
CONSTANTS
    Threads = {t1, t2}
    Loop = loop
    Modes = {"auto"}
    MaxJobs = 2
    MaxRuns = 3
    NSteps = 2
    Real = TRUE
    Faults = TRUE
SYMMETRY Symmetry
INVARIANTS
    TypeOK
    StepsInOrder
    RunningIsFollowed
    SucceededIsDone
    ActiveIsProvisioned
PROPERTY OverIsFinal
\* Once every job id is used and the IPC is deleted there is nothing left to do.
CHECK_DEADLOCK FALSE
