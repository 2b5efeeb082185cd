SPECIFICATION FairSpec
CONSTANTS
    None = None
    Requests <- LocalTimed
    MaxOut = 1
    PipeCap = 1
    Faults = {}
PROPERTIES TimeoutReturns
CHECK_DEADLOCK FALSE
