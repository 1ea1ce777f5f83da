SPECIFICATION ScuttleFairSpec
CONSTANTS
    NumRobots = 3
    NumCells = 2
    Truth <- MCTruth
    Windows <- TeamWindows
    DataCap = 27
    ControlCap = 19
    Delay = 1
    Lossy = TRUE
    Horizon = 2
    DigestInterval = 2
    PeerLimit = 1
    Links <- MCLinks
INVARIANTS ScuttleTypeOK NoGaps ArchiveMatchesBelief
PROPERTIES ImplementsSharing ScuttleConverges
