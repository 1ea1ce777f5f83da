SPECIFICATION MismatchFairSpec
CONSTANTS
    NumRobots = 2
    NumCells = 1
    Truth <- SingleTruth
    Windows <- SingleWindows
    DataCap = 26
    ControlCap = 54
    Delay = 0
    Lossy = TRUE
    Horizon = 2
    Policies = {"one_shot"}
    AttemptCap = 2
    Methods = {"mismatch"}
    RepairInterval = 1
    PeerLimit = 1
    Partitions = 1
    IbltCells = 4
    IbltHashes = 2
    Indices <- MCIndices
PROPERTY MismatchRepaired
