SPECIFICATION FairSpec
CONSTANTS
    k1 = k1
    k2 = k2
    NoPack = NoPack
    NumFiles = 3
    Packs <- MCPacks
    Chunks <- MCChunks
    MayBeGone <- MCGone
    MayExist = {}
    Modes = {"replace"}
    Permits = 2
    BatchSize = 2
    Unsyncable = {}
    MaxRuns = 1
    MaxFaults = 0
    WholeFrom = 2
    MaxStuck = 1
INVARIANTS
    TypeOK
    OkMeansRestored
PROPERTIES
    ImplementsRestoreRun
    CancelEndsTheRun
    RunEnds
CHECK_DEADLOCK FALSE
