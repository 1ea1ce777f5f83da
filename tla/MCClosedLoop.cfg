SPECIFICATION Spec
CONSTANTS
    Rows = 3
    Cols = 4
    Horizon = 4
    Radius = 1
    DigestCells = 7
    MaxCells = 2
    Multiplier = 2
    RoundTrip = 2
    Kernel <- MCKernel
    Start <- MCStart
    Goal <- MCGoal
    Walls <- MCWalls
    Doubtful <- MCDoubtful
    TeamCells <- MCTeamCells
    SensorRadius = 1
    Delay = 1
    RepairInterval = 2
    TeamAt <- MCTeamAt
    PeerLimit = 1
    MaxSteps = 9
    MaxJams = 1
    PlannerNames = {"astar", "dstar_lite"}
INVARIANTS
    TypeOK
    SearchConsistent
    PathsAreShortest
    AnswerBeforeEntry
    AsksOnPath
    RotationsComplete
    LatenciesAccountForErrors
PROPERTY ReachesGoal
