SPECIFICATION Spec
CONSTANTS
    k1 = k1
    k2 = k2
    NoPack = NoPack
    NumFiles = 2
    Packs <- MCPacks
    Chunks <- MCTwoChunks
    MayBeGone = {}
    MayExist = {}
    Modes = {"skip"}
    Permits = 2
    BatchSize = 2
    Unsyncable = {}
    MaxRuns = 2
    MaxFaults = 0
    WholeFrom = 2
    MaxStuck = 0
INVARIANT NoPartialFile
CHECK_DEADLOCK FALSE
