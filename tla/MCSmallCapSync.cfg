SPECIFICATION RunningSpec
CONSTANTS
    NumRobots = 4
    NumCells = 3
    Truth <- SmallTruth
    Windows <- SmallWindows
    DataCap = 26
    ControlCap = 0
    Delay = 1
    Lossy = FALSE
    Horizon = 2
    Policies = {"one_shot"}
    AttemptCap = 2
    SyncInterval = 1
    RoundCycle = 6
PROPERTY NoStarvation
