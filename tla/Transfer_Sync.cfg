SPECIFICATION Spec
CONSTANTS
    Transfers = {x1, x2}
    Paths <- DeepPaths
    LocalDirs <- TheDir
    Sizes = {1, 2}
    FaultSets <- ToleratedFaults
    MaxClock = 2
    MaxRequests = 3
SYMMETRY Symmetry
INVARIANTS TypeOK SkipIsSound OkMeansSynced FailsOnConflictOnly
CHECK_DEADLOCK FALSE
