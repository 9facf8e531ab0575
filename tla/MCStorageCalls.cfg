SPECIFICATION Spec
CONSTANTS
    IdCodes = {}
    MaxFaults = 2
    MaxDeaths = 1
    Worlds <- MCWorlds
INVARIANTS
    TypeOK
    ErrorsTellTheTruth
    ListsAreWhole
    OutagesAreRiddenOut
    CriticalReads
    SetsAreAccounted
    PackMapIsWhole
    ChunksAreRepaired
    ConnectedMeansReached
PROPERTIES
    EveryCallEnds
