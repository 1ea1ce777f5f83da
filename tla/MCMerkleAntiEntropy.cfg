SPECIFICATION MerkleFairSpec
CONSTANTS
    NumRobots = 2
    NumCells = 3
    Truth <- MCTruth
    Windows <- Crossing
    DataCap = 17
    ControlCap = 56
    Delay = 1
    Lossy = TRUE
    Horizon = 2
    Policies = {"one_shot"}
    AttemptCap = 2
    MerkleInterval = 1
    PeerLimit = 1
    Fanout = 2
    Learners = {1}
INVARIANTS MerkleTypeOK NoBranchLost
PROPERTIES MerkleConverges MerkleImplementsSharing
