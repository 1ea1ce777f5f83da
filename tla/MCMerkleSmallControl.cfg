SPECIFICATION MerkleFairSpec
CONSTANTS
    NumRobots = 2
    NumCells = 3
    Truth <- MCTruth
    Windows <- Apart
    DataCap = 17
    ControlCap = 36
    Delay = 0
    Lossy = TRUE
    Horizon = 2
    Policies = {"one_shot"}
    AttemptCap = 2
    MerkleInterval = 1
    PeerLimit = 1
    Fanout = 2
    Learners = {0, 1}
PROPERTY DifferencesRepaired
