SPECIFICATION FairSpec
CONSTANTS
    NumRobots = 2
    NumCells = 3
    Truth <- MCTruth
    Windows <- PairWindows
    DataCap = 26
    ControlCap = 8
    Delay = 1
    Lossy = TRUE
    Horizon = 2
    Policies = {"one_shot", "retry_all", "path_weighted"}
    AttemptCap = 2
INVARIANTS TypeOK NoLostUpdate QuiescentAgreement RetryAllIsFair
PROPERTIES ImplementsSharing Converges
