SPECIFICATION Spec
CONSTANTS
    Endpoints <- MCEndpoints
    Snapshots <- MCSnapshots
    Holds <- MCHolds
    Newest <- MCNewest
    Trees <- MCTrees
    MaxConnects = 1
    MaxReading = 2
    MaxKills = 0
INVARIANTS
    DrivesStayApart
