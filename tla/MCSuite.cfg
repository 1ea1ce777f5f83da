SPECIFICATION Spec
CONSTANTS
    Rows = 6
    Cols = 6
    Crc <- MCCrc
    GoalDistances <- MCGoalDistances
    SeekerSteps <- MCSeekerSteps
    ObserverSteps <- MCObserverSteps
    ObstacleGap = 3
    MinimumSizes <- MCMinimumSizes
    MinimumSteps = 8
    Suites = {"a", "b"}
    Starts <- MCStarts
    Bitmaps <- MCBitmaps
    Draws <- MCDraws
INVARIANTS
    OutputsConsistent
    AuditsDecide
    NoLateRefusal
    DecisionsNeedHelp
CHECK_DEADLOCK FALSE
