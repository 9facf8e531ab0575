SPECIFICATION Spec
CONSTANTS
    IdCodes = {}
    MaxFaults = 2
    MaxDeaths = 1
    Worlds <- MCWorlds
INVARIANTS
    MissingMeansBothMissing
