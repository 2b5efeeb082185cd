SPECIFICATION EndingSpec
CONSTANTS
    None = None
    Requests <- EveryKind
    MaxOut = 1
    PipeCap = 1
    Faults = {"disconnect", "slowStart", "startFails", "linkLost"}
INVARIANTS TypeOK WellFramed EndIsLast AllOutputSent
PROPERTY CallEnds
CHECK_DEADLOCK FALSE
