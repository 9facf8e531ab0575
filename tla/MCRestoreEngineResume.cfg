SPECIFICATION Spec
CONSTANTS
    k1 = k1
    k2 = k2
    NoPack = NoPack
    NumFiles = 2
    Packs <- MCPacks
    Chunks <- MCTwoChunks
    MayBeGone = {}
    MayExist = {1}
    Modes = {"skip", "replace", "rename"}
    Permits = 2
    BatchSize = 2
    Unsyncable = {2}
    MaxRuns = 2
    MaxFaults = 2
    WholeFrom = 2
    MaxStuck = 0
INVARIANTS
    OkMeansRestored
    RowsAreDurable
    ProgressIsKept
CHECK_DEADLOCK FALSE
