SPECIFICATION SummaryFairSpec
CONSTANTS
    NumRobots = 2
    NumCells = 5
    Truth <- PairTruth
    Windows <- PairWindows
    DataCap = 26
    ControlCap = 100
    Delay = 0
    Lossy = TRUE
    Horizon = 1
    Policies = {"one_shot"}
    AttemptCap = 2
    Methods = {"mismatch", "iblt"}
    RepairInterval = 1
    PeerLimit = 1
    Partitions = 2
    IbltCells = 4
    IbltHashes = 2
    Indices <- MCIndices
INVARIANT SummaryTypeOK
PROPERTIES SummaryImplementsSharing SummaryConverges
