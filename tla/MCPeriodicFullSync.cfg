SPECIFICATION SyncFairSpec
CONSTANTS
    NumRobots = 3
    NumCells = 2
    Truth <- AmpleTruth
    Windows <- AmpleWindows
    DataCap = 39
    ControlCap = 0
    Delay = 1
    Lossy = TRUE
    Horizon = 2
    Policies = {"one_shot"}
    AttemptCap = 2
    SyncInterval = 2
    RoundCycle = 2
INVARIANTS SyncTypeOK RoundIsEven
PROPERTIES SyncConverges SyncImplementsSharing
