SPECIFICATION RepairSpec
CONSTANTS
    NumRobots = 3
    NumCells = 2
    Truth <- MCTruth
    Windows <- MCWindows
    DataCap = 60
    ControlCap = 50
    Delay = 1
    Lossy = TRUE
    Horizon = 2
    Policies = {"one_shot"}
    AttemptCap = 2
    QuerySets <- MCQuerySets
    QueryInterval = 2
    PeerLimit = 2
    Regimes = {TRUE, FALSE}
INVARIANTS RepairTypeOK RepairInTime
PROPERTY RepairImplementsSharing
