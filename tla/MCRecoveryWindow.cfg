SPECIFICATION Spec
CONSTANTS
    Endpoints <- MCEndpoints
    Snapshots <- MCSnapshots
    Holds <- MCHolds
    Newest <- MCNewest
    Trees <- MCTrees
    MaxConnects = 2
    MaxReading = 2
    MaxKills = 1
INVARIANTS
    TypeOK
    ScreenTellsTheRestore
    TreeIsOfThePick
    BrowsedIsConnected
    CheckpointFollowsTheRestore
PROPERTIES
    ToggleTakesTheSubtree
    EveryPickIsShown
