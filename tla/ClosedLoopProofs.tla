--------------------------- MODULE ClosedLoopProofs ---------------------------
(***************************************************************************)
(* The step of a robot, for every map, team, question, delay and horizon.  *)
(* LoopInv says what kind of data everything is, that every planner keeps  *)
(* the invariant of its search, and what is known of the paths of the step;*)
(* CountsInv is the account of path errors and recovery latencies;         *)
(* AnswersInv dates the question of the step.  The rotations of teammates  *)
(* and chunks are facts about operators, and need no invariant, and what   *)
(* the planners ask for that weigh a cell by blocking it needs only that   *)
(* the path is the one A* finds on the map of the moment.                  *)
(***************************************************************************)
EXTENDS ClosedLoop, PlannerProofs

-----------------------------------------------------------------------------
\* The maps and the robot.

MapsInv ==
    /\ truth \in SUBSET Positions /\ known \in SUBSET Positions
    /\ newer \subseteq spotted /\ spotted \subseteq TeamCells
    /\ position \in Positions
    /\ planner \in PlannerNames
    /\ phase \in {"arrivals", "sensed", "first_plan", "cautious", "dispatched",
                  "second_plan", "planned", "over"}
    /\ phase \notin {"arrivals", "over"} => Window(position) \subseteq known

\* The planner of a reading of the map is in the middle of a call on this map.
Ready(kind) ==
    LET p == planners[kind]
    IN  p.ready /\ p.start = position /\ p.grid = PlanningMap(kind) /\ p.goal = Goal

PlannersInv ==
    /\ planners \in [Kinds -> DStarPlanners]
    /\ \A kind \in Kinds : planners[kind].ready => DStarInv(planners[kind])
    /\ /\ phase \in {"first_plan", "cautious", "second_plan"}
       /\ planner = "dstar_lite"
       /\ ~Fails(PlanningMap(KindOf), position, Goal)
       => Ready(KindOf)

PathInv ==
    /\ path \in Seq(Positions)
    /\ phase \in {"dispatched", "cautious", "planned"} =>
            BestPath(path, position, Goal, PlanningMap("optimistic"))
    /\ position \notin truth

LoopInv == MapsInv /\ PlannersInv /\ PathInv

LEMMA AssumedPositions ==
    /\ Start \in Positions /\ Goal \in Positions /\ TeamCells \subseteq Positions
    /\ Walls \subseteq Positions /\ Doubtful \subseteq Positions
    /\ Start \notin Walls /\ Start \notin Doubtful
    /\ SensorRadius \in Nat /\ SensorRadius >= 1
    /\ MaxSteps \in Nat /\ MaxSteps >= 1 /\ MaxJams \in Nat
    /\ RoundTrip \in Nat
    /\ PlannerNames \subseteq {"astar", "dstar_lite"}
  BY EpisodeAssumption

LEMMA PlanningMapIsMap ==
    ASSUME MapsInv, NEW kind
    PROVE  PlanningMap(kind) \in SUBSET Positions
  BY DEF MapsInv, PlanningMap, Unknown

LEMMA InitMaps == Init => MapsInv
  <1> SUFFICES ASSUME Init PROVE MapsInv
    OBVIOUS
  <1>1. truth \in SUBSET Positions
    BY AssumedPositions DEF Init
  <1>2. QED
    BY <1>1, AssumedPositions DEF Init, MapsInv

\* The cell a robot moves to when its path has been made.
LEMMA TargetIsNext ==
    ASSUME MapsInv, PathInv, phase = "planned"
    PROVE  /\ Target \in Positions \ truth
           /\ Target = position \/ Target \in Neighbours(position)
  <1>1. position \in Positions \ truth
    BY DEF MapsInv, PathInv
  <1>2. CASE Target = position
    BY <1>1, <1>2
  <1>3. CASE Target # position
    <2>1. Len(path) > 1 /\ Target = path[2]
      BY <1>3 DEF Target, NextOn
    <2>2. path # <<>> /\ BestPath(path, position, Goal, PlanningMap("optimistic"))
      BY <2>1 DEF PathInv
    <2>3. Walk(path, position, Goal, PlanningMap("optimistic"))
      BY <2>2 DEF BestPath
    <2>4. /\ path \in Seq(Positions) /\ path[1] = position
          /\ \A i \in 1 .. Len(path) : path[i] \in Positions \ PlanningMap("optimistic")
          /\ \A i \in 1 .. Len(path) - 1 : Manhattan(path[i], path[i + 1]) = 1
      BY <2>3 DEF Walk, ValidPath
    <2>5. 2 \in 1 .. Len(path) /\ 1 \in 1 .. Len(path) - 1 /\ 1 + 1 = 2
      BY <2>1, <2>4
    <2>6. Target \in Positions \ PlanningMap("optimistic") /\ Manhattan(position, Target) = 1
      BY <2>1, <2>4, <2>5
    <2>7. Target \in Neighbours(position)
      BY <1>1, <2>6, NeighboursAreAdjacent
    <2>8. Target \in Window(position)
      <3>1. /\ position[1] \in Nat /\ position[2] \in Nat
            /\ Target[1] \in Nat /\ Target[2] \in Nat
        BY <1>1, <2>6, PositionIsPair
      <3>2. /\ Abs(Target[1] - position[1]) \in Nat /\ Abs(Target[2] - position[2]) \in Nat
            /\ Abs(position[1] - Target[1]) + Abs(position[2] - Target[2]) = 1
            /\ Abs(Target[1] - position[1]) = Abs(position[1] - Target[1])
            /\ Abs(Target[2] - position[2]) = Abs(position[2] - Target[2])
        <4> DEFINE dx == Abs(position[1] - Target[1])
                   dy == Abs(position[2] - Target[2])
        <4>1. dx + dy = 1
          BY <2>6 DEF Manhattan
        <4> HIDE DEF dx, dy
        <4>2. /\ Abs(Target[1] - position[1]) = dx /\ dx \in Nat
              /\ Abs(Target[2] - position[2]) = dy /\ dy \in Nat
          <5>1. \A a, b \in Int : Abs(a - b) \in Nat /\ Abs(a - b) = Abs(b - a)
            BY AbsFacts
          <5>2. /\ Target[1] \in Int /\ position[1] \in Int
                /\ Target[2] \in Int /\ position[2] \in Int
            BY <3>1
          <5>3. QED
            BY <5>1, <5>2 DEF dx, dy
        <4>3. QED
          BY <4>1, <4>2 DEF dx, dy
      <3>3. Abs(Target[1] - position[1]) <= 1 /\ Abs(Target[2] - position[2]) <= 1
        BY <3>2
      <3>4. QED
        BY <2>6, <3>2, <3>3, AssumedPositions DEF Window
    <2>9. Target \in known
      BY <2>8 DEF MapsInv
    <2>10. Target \notin truth
      BY <2>6, <2>9 DEF PlanningMap
    <2>11. QED
      BY <2>6, <2>7, <2>10
  <1>4. QED
    BY <1>2, <1>3

LEMMA NextMaps ==
    ASSUME LoopInv, [Next]_vars
    PROVE  MapsInv'
  <1>1. MapsInv
    BY DEF LoopInv
  <1>2. ASSUME NEW arrived \in SUBSET newer, NEW fresh \in SUBSET (TeamCells \ spotted),
               ArriveAndSense(arrived, fresh)
        PROVE  MapsInv'
    <2>1. arrived \subseteq Positions /\ Window(position) \subseteq Positions
      BY <1>1, AssumedPositions DEF MapsInv, Window
    <2>2. known' \in SUBSET Positions /\ Window(position) \subseteq known'
      BY <1>1, <1>2, <2>1 DEF ArriveAndSense, MapsInv
    <2>3. newer' \subseteq spotted' /\ spotted' \subseteq TeamCells
      BY <1>1, <1>2 DEF ArriveAndSense, MapsInv
    <2>4. Window(position)' = Window(position)
      BY <1>2 DEF ArriveAndSense, Window
    <2>5. QED
      BY <1>1, <1>2, <2>2, <2>3, <2>4 DEF ArriveAndSense, MapsInv
  <1>3. CASE StartFirstPlan
    BY <1>1, <1>3 DEF StartFirstPlan, MapsInv, Window
  <1>4. CASE Search
    BY <1>1, <1>4 DEF Search, MapsInv, Window
  <1>5. CASE FirstPlan
    BY <1>1, <1>5 DEF FirstPlan, MapsInv, Window
  <1>6. CASE Query
    BY <1>1, <1>6 DEF Query, MapsInv, Window
  <1>7. ASSUME NEW arrived \in SUBSET newer, SettleAndPlan(arrived)
        PROVE  MapsInv'
    <2>1. arrived \subseteq Positions
      BY <1>1, AssumedPositions DEF MapsInv
    <2>2. QED
      BY <1>1, <1>7, <2>1 DEF SettleAndPlan, MapsInv, Window
  <1>8. CASE SecondPlan
    BY <1>1, <1>8 DEF SecondPlan, MapsInv, Window
  <1>9. ASSUME NEW refused \in BOOLEAN, NEW others \in BOOLEAN, Act(refused, others)
        PROVE  MapsInv'
    <2>1. position' \in Positions
      <3>1. Target \in Positions
        BY <1>9, TargetIsNext DEF Act, LoopInv
      <3>2. QED
        BY <1>1, <1>9, <3>1 DEF Act, MapsInv
    <2>2. QED
      BY <1>1, <1>9, <2>1 DEF Act, MapsInv
  <1>10. CASE UNCHANGED vars
    BY <1>1, <1>10 DEF vars, MapsInv, Window
  <1>11. QED
    BY <1>2, <1>3, <1>4, <1>5, <1>6, <1>7, <1>8, <1>9, <1>10 DEF Next, Over

-----------------------------------------------------------------------------
\* The planners.

LEMMA InitPlanners == Init => PlannersInv
  <1> SUFFICES ASSUME Init PROVE PlannersInv
    OBVIOUS
  <1>1. planners \in [Kinds -> DStarPlanners] /\ \A kind \in Kinds : ~planners[kind].ready
    BY UnplannedIsPlanner DEF Init
  <1>2. phase = "arrivals"
    BY DEF Init
  <1>3. QED
    BY <1>1, <1>2 DEF PlannersInv

\* A call leaves its planner ready.
LEMMA CallReadies ==
    ASSUME PlannersInv, NEW kind \in Kinds, NEW grid \in SUBSET Positions,
           position \in Positions, Call(kind, grid)
    PROVE  /\ planners' \in [Kinds -> DStarPlanners]
           /\ \A k \in Kinds : planners'[k].ready => DStarInv(planners'[k])
           /\ planner = "dstar_lite" /\ ~Fails(grid, position, Goal) =>
                /\ planners'[kind].ready /\ planners'[kind].start = position
                /\ planners'[kind].grid = grid /\ planners'[kind].goal = Goal
  <1>1. planners \in [Kinds -> DStarPlanners]
        /\ \A k \in Kinds : planners[k].ready => DStarInv(planners[k])
    BY DEF PlannersInv
  <1>2. CASE planner # "dstar_lite"
    <2>1. planners' = planners
      BY <1>2 DEF Call
    <2>2. QED
      BY <1>1, <1>2, <2>1
  <1>3. CASE planner = "dstar_lite"
    <2> DEFINE u == Called(planners[kind], grid, position, Goal)
    <2>1. planners' = [planners EXCEPT ![kind] = u]
      BY <1>3 DEF Call
    <2>2. /\ u \in DStarPlanners /\ (u.ready => DStarInv(u))
          /\ ~Fails(grid, position, Goal) =>
                u.ready /\ u.grid = grid /\ u.start = position /\ u.goal = Goal
      BY <1>1, AssumedPositions, CalledInv
    <2> HIDE DEF u
    <2>3. /\ planners' \in [Kinds -> DStarPlanners] /\ planners'[kind] = u
          /\ \A k \in Kinds : k # kind => planners'[k] = planners[k]
      BY <1>1, <2>1, <2>2
    <2>4. QED
      BY <1>1, <2>2, <2>3
  <1>4. QED
    BY <1>2, <1>3

\* PlannersInv does not depend on what these steps change.
LEMMA PlannersKept ==
    ASSUME PlannersInv, planners' = planners,
           phase' \notin {"first_plan", "cautious", "second_plan"}
    PROVE  PlannersInv'
  BY DEF PlannersInv

LEMMA KindOfIsKind == KindOf \in Kinds /\ "optimistic" \in Kinds /\ "pessimistic" \in Kinds
  BY DEF KindOf, Kinds

LEMMA NextPlanners ==
    ASSUME LoopInv, [Next]_vars
    PROVE  PlannersInv'
  <1>1. MapsInv /\ PlannersInv /\ position \in Positions
    BY DEF LoopInv, MapsInv
  <1>2. /\ planners \in [Kinds -> DStarPlanners]
        /\ \A k \in Kinds : planners[k].ready => DStarInv(planners[k])
    BY <1>1 DEF PlannersInv
  <1>3. ASSUME NEW arrived \in SUBSET newer, NEW fresh \in SUBSET (TeamCells \ spotted),
               ArriveAndSense(arrived, fresh)
        PROVE  PlannersInv'
    BY <1>1, <1>3, PlannersKept DEF ArriveAndSense
  <1>4. CASE StartFirstPlan
    <2>1. /\ Call("optimistic", PlanningMap("optimistic")) /\ phase' = "first_plan"
          /\ PlanningMap("optimistic")' = PlanningMap("optimistic")
          /\ position' = position /\ planner' = planner
      BY <1>4 DEF StartFirstPlan, PlanningMap
    <2>2. PlanningMap("optimistic") \in SUBSET Positions
      BY <1>1, PlanningMapIsMap
    <2>3. /\ planners' \in [Kinds -> DStarPlanners]
          /\ \A k \in Kinds : planners'[k].ready => DStarInv(planners'[k])
          /\ planner = "dstar_lite" /\ ~Fails(PlanningMap("optimistic"), position, Goal) =>
                /\ planners'["optimistic"].ready /\ planners'["optimistic"].start = position
                /\ planners'["optimistic"].grid = PlanningMap("optimistic")
                /\ planners'["optimistic"].goal = Goal
      BY <1>1, <2>1, <2>2, KindOfIsKind, CallReadies
    <2>4. KindOf' = "optimistic"
      BY <2>1 DEF KindOf
    <2>5. QED
      BY <2>1, <2>3, <2>4 DEF PlannersInv, Ready
  <1>5. CASE Search
    <2> DEFINE u == Iterated(planners[KindOf])
    <2>1. /\ phase \in {"first_plan", "cautious", "second_plan"} /\ Searching(KindOf)
          /\ planners' = [planners EXCEPT ![KindOf] = u]
          /\ \A k : PlanningMap(k)' = PlanningMap(k)
          /\ KindOf' = KindOf /\ position' = position /\ planner' = planner
      BY <1>5 DEF Search, PlanningMap, Unknown, KindOf
    <2>2. /\ planner = "dstar_lite" /\ ~Fails(PlanningMap(KindOf), position, Goal)
          /\ Unfinished(planners[KindOf])
      BY <2>1 DEF Searching
    <2>3. Ready(KindOf)
      BY <1>1, <2>1, <2>2 DEF PlannersInv
    <2>4. KindOf \in Kinds /\ DStarInv(planners[KindOf])
      BY <1>2, <2>3, KindOfIsKind DEF Ready
    <2>5. /\ DStarInv(u) /\ u.ready = planners[KindOf].ready /\ u.grid = planners[KindOf].grid
          /\ u.start = planners[KindOf].start /\ u.goal = planners[KindOf].goal
      BY <2>2, <2>4, IteratedInv
    <2> HIDE DEF u
    <2>6. u \in DStarPlanners
      BY <2>5 DEF DStarInv
    <2>7. /\ planners' \in [Kinds -> DStarPlanners] /\ planners'[KindOf] = u
          /\ \A k \in Kinds : k # KindOf => planners'[k] = planners[k]
      BY <1>2, <2>1, <2>4, <2>6
    <2>8. \A k \in Kinds : planners'[k].ready => DStarInv(planners'[k])
      BY <1>2, <2>5, <2>7
    <2>9. Ready(KindOf)'
      BY <2>1, <2>3, <2>5, <2>7 DEF Ready
    <2>10. QED
      BY <2>7, <2>8, <2>9 DEF PlannersInv
  <1>6. CASE FirstPlan
    <2>1. CASE step % RepairInterval = 0
      <3>1. /\ Call("pessimistic", PlanningMap("pessimistic")) /\ phase' = "cautious"
            /\ PlanningMap("pessimistic")' = PlanningMap("pessimistic")
            /\ position' = position /\ planner' = planner
        BY <1>6, <2>1 DEF FirstPlan, PlanningMap, Unknown
      <3>2. PlanningMap("pessimistic") \in SUBSET Positions
        BY <1>1, PlanningMapIsMap
      <3>3. /\ planners' \in [Kinds -> DStarPlanners]
            /\ \A k \in Kinds : planners'[k].ready => DStarInv(planners'[k])
            /\ planner = "dstar_lite" /\ ~Fails(PlanningMap("pessimistic"), position, Goal) =>
                  /\ planners'["pessimistic"].ready /\ planners'["pessimistic"].start = position
                  /\ planners'["pessimistic"].grid = PlanningMap("pessimistic")
                  /\ planners'["pessimistic"].goal = Goal
        BY <1>1, <3>1, <3>2, KindOfIsKind, CallReadies
      <3>4. KindOf' = "pessimistic"
        BY <3>1 DEF KindOf
      <3>5. QED
        BY <3>1, <3>3, <3>4 DEF PlannersInv, Ready
    <2>2. CASE step % RepairInterval # 0
      <3>1. planners' = planners /\ phase' = "dispatched"
        BY <1>6, <2>2 DEF FirstPlan
      <3>2. QED
        BY <1>1, <3>1, PlannersKept
    <2>3. QED
      BY <2>1, <2>2
  <1>7. CASE Query
    BY <1>1, <1>7, PlannersKept DEF Query
  <1>8. ASSUME NEW arrived \in SUBSET newer, SettleAndPlan(arrived)
        PROVE  PlannersInv'
    <2> DEFINE grid == (known \cup arrived) \cap truth
    <2>1. /\ Call("optimistic", grid) /\ phase' = "second_plan"
          /\ PlanningMap("optimistic")' = grid
          /\ position' = position /\ planner' = planner
      BY <1>8 DEF SettleAndPlan, PlanningMap
    <2>2. grid \in SUBSET Positions
      BY <1>1 DEF MapsInv
    <2> HIDE DEF grid
    <2>3. /\ planners' \in [Kinds -> DStarPlanners]
          /\ \A k \in Kinds : planners'[k].ready => DStarInv(planners'[k])
          /\ planner = "dstar_lite" /\ ~Fails(grid, position, Goal) =>
                /\ planners'["optimistic"].ready /\ planners'["optimistic"].start = position
                /\ planners'["optimistic"].grid = grid
                /\ planners'["optimistic"].goal = Goal
      BY <1>1, <2>1, <2>2, KindOfIsKind, CallReadies
    <2>4. KindOf' = "optimistic"
      BY <2>1 DEF KindOf
    <2>5. QED
      BY <2>1, <2>3, <2>4 DEF PlannersInv, Ready
  <1>9. CASE SecondPlan
    BY <1>1, <1>9, PlannersKept DEF SecondPlan
  <1>10. ASSUME NEW refused \in BOOLEAN, NEW others \in BOOLEAN, Act(refused, others)
         PROVE  PlannersInv'
    BY <1>1, <1>10, PlannersKept DEF Act
  <1>11. CASE UNCHANGED vars
    BY <1>1, <1>11 DEF vars, PlannersInv, Ready, KindOf, PlanningMap, Unknown
  <1>12. QED
    BY <1>3, <1>4, <1>5, <1>6, <1>7, <1>8, <1>9, <1>10, <1>11 DEF Next, Over

-----------------------------------------------------------------------------
\* The paths.

\* What a call returns when its search is over.
LEMMA PlannedIsBest ==
    ASSUME MapsInv, PlannersInv, phase \in {"first_plan", "cautious", "second_plan"},
           ~Searching(KindOf)
    PROVE  BestPath(Planned(KindOf), position, Goal, PlanningMap(KindOf))
  <1> DEFINE grid == PlanningMap(KindOf)
  <1>1. position \in Positions /\ Goal \in Positions /\ planner \in {"astar", "dstar_lite"}
    BY AssumedPositions DEF MapsInv
  <1>2. CASE planner = "astar"
    BY <1>1, <1>2, AStarIsShortest DEF Planned
  <1>3. CASE planner = "dstar_lite" /\ Fails(grid, position, Goal)
    <2>1. Planned(KindOf) = <<>>
      BY <1>3 DEF Planned
    <2>2. \A q : ~Walk(q, position, Goal, grid)
      <3> HIDE DEF grid
      <3>1. SUFFICES ASSUME NEW q, Walk(q, position, Goal, grid) PROVE FALSE
        OBVIOUS
      <3>2. /\ Len(q) \in Nat \ {0} /\ q[1] = position /\ q[Len(q)] = Goal
            /\ \A i \in 1 .. Len(q) : q[i] \notin grid
        BY <3>1 DEF Walk, ValidPath
      <3>3. 1 \in 1 .. Len(q) /\ Len(q) \in 1 .. Len(q)
        BY <3>2
      <3>4. QED
        BY <1>3, <3>2, <3>3 DEF Fails
    <2>3. QED
      BY <2>1, <2>2 DEF BestPath
  <1>4. CASE planner = "dstar_lite" /\ ~Fails(grid, position, Goal) /\ position = Goal
    <2>1. Planned(KindOf) = <<position>>
      BY <1>4 DEF Planned
    <2>2. position \notin grid
      BY <1>4 DEF Fails
    <2>3. Walk(<<position>>, position, Goal, grid) /\ Len(<<position>>) = 1
      BY <1>1, <1>4, <2>2, WalkOfOne
    <2>4. 1 <= Inf
      BY InfIsPositive
    <2>5. \A q : Walk(q, position, Goal, grid) => 1 <= Len(q)
      BY DEF Walk, ValidPath
    <2>6. <<position>> # <<>>
      OBVIOUS
    <2>7. QED
      BY <2>1, <2>3, <2>4, <2>5, <2>6 DEF BestPath
  <1>5. CASE planner = "dstar_lite" /\ ~Fails(grid, position, Goal) /\ position # Goal
    <2> DEFINE p == planners[KindOf]
    <2>1. Planned(KindOf) = ExtractedPath(p)
      BY <1>5 DEF Planned
    <2>2. ~Unfinished(p)
      BY <1>5 DEF Searching
    <2>3. p.ready /\ p.start = position /\ p.grid = grid /\ p.goal = Goal
      BY <1>5 DEF PlannersInv, Ready
    <2>4. DStarInv(p)
      BY <2>3, KindOfIsKind DEF PlannersInv
    <2>5. position \notin grid
      BY <1>5 DEF Fails
    <2> HIDE DEF p
    <2>6. BestPath(ExtractedPath(p), p.start, p.goal, p.grid)
      BY <2>2, <2>3, <2>4, <2>5, FinishedSearchIsShortest
    <2>7. QED
      BY <2>1, <2>3, <2>6
  <1>6. QED
    BY <1>1, <1>2, <1>3, <1>4, <1>5

LEMMA BestPathIsPath ==
    ASSUME NEW p, NEW a, NEW b, NEW blocked, BestPath(p, a, b, blocked)
    PROVE  p \in Seq(Positions)
  <1>1. CASE p = <<>>
    BY <1>1
  <1>2. CASE p # <<>>
    BY <1>2 DEF BestPath, Walk
  <1>3. QED
    BY <1>1, <1>2

LEMMA InitPath == Init => PathInv
  BY AssumedPositions DEF Init, PathInv

LEMMA NextPath ==
    ASSUME LoopInv, [Next]_vars
    PROVE  PathInv'
  <1>1. MapsInv /\ PlannersInv /\ PathInv
    BY DEF LoopInv
  <1>2. ASSUME NEW arrived \in SUBSET newer, NEW fresh \in SUBSET (TeamCells \ spotted),
               ArriveAndSense(arrived, fresh)
        PROVE  PathInv'
    BY <1>1, <1>2 DEF ArriveAndSense, PathInv
  <1>3. CASE StartFirstPlan
    BY <1>1, <1>3 DEF StartFirstPlan, PathInv
  <1>4. CASE Search
    BY <1>1, <1>4 DEF Search, PathInv, PlanningMap
  <1>5. CASE FirstPlan
    <2>1. KindOf = "optimistic" /\ path' = Planned("optimistic") /\ ~Searching("optimistic")
          /\ phase = "first_plan"
      BY <1>5 DEF FirstPlan, KindOf
    <2>2. BestPath(path', position, Goal, PlanningMap("optimistic"))
      BY <1>1, <2>1, PlannedIsBest
    <2>3. PlanningMap("optimistic")' = PlanningMap("optimistic") /\ position' = position
          /\ truth' = truth
      BY <1>5 DEF FirstPlan, PlanningMap
    <2>4. path' \in Seq(Positions)
      BY <2>2, BestPathIsPath
    <2>5. QED
      BY <1>1, <2>2, <2>3, <2>4 DEF PathInv
  <1>6. CASE Query
    BY <1>1, <1>6 DEF Query, PathInv, PlanningMap
  <1>7. ASSUME NEW arrived \in SUBSET newer, SettleAndPlan(arrived)
        PROVE  PathInv'
    BY <1>1, <1>7 DEF SettleAndPlan, PathInv
  <1>8. CASE SecondPlan
    <2>1. KindOf = "optimistic" /\ path' = Planned("optimistic") /\ ~Searching("optimistic")
          /\ phase = "second_plan"
      BY <1>8 DEF SecondPlan, KindOf
    <2>2. BestPath(path', position, Goal, PlanningMap("optimistic"))
      BY <1>1, <2>1, PlannedIsBest
    <2>3. PlanningMap("optimistic")' = PlanningMap("optimistic") /\ position' = position
          /\ truth' = truth
      BY <1>8 DEF SecondPlan, PlanningMap
    <2>4. path' \in Seq(Positions)
      BY <2>2, BestPathIsPath
    <2>5. QED
      BY <1>1, <2>2, <2>3, <2>4 DEF PathInv
  <1>9. ASSUME NEW refused \in BOOLEAN, NEW others \in BOOLEAN, Act(refused, others)
        PROVE  PathInv'
    <2>1. position' \notin truth
      BY <1>1, <1>9 DEF Act, PathInv
    <2>2. QED
      BY <1>1, <1>9, <2>1 DEF Act, PathInv
  <1>10. CASE UNCHANGED vars
    BY <1>1, <1>10 DEF vars, PathInv, PlanningMap
  <1>11. QED
    BY <1>2, <1>3, <1>4, <1>5, <1>6, <1>7, <1>8, <1>9, <1>10 DEF Next, Over

LEMMA LoopInvariant == Spec => []LoopInv
  <1>1. Init => LoopInv
    BY InitMaps, InitPlanners, InitPath DEF LoopInv
  <1>2. LoopInv /\ [Next]_vars => LoopInv'
    BY NextMaps, NextPlanners, NextPath DEF LoopInv
  <1>3. QED
    BY <1>1, <1>2, PTL DEF Spec

\* A planner lives for a whole episode: however the robot has moved and what has
\* become known between its calls, in every state, also between two iterations
\* of _compute_shortest_path, every rhs is the one-step lookahead, the queue
\* holds exactly the inconsistent cells, and none later than its key.
THEOREM SearchesAreConsistent == Spec => []SearchConsistent
  <1>1. LoopInv => SearchConsistent
    BY DEF LoopInv, PlannersInv, DStarInv, SearchConsistent
  <1>2. QED
    BY <1>1, LoopInvariant, PTL

\* In every call of an episode both planners return a path exactly if there is
\* one on the map the call was made with, and none is shorter: what
\* test_dstar_lite compares on samples, for every grid and every history.
THEOREM AllPathsAreShortest == Spec => []PathsAreShortest
  <1>1. LoopInv => PathsAreShortest
    <2> SUFFICES ASSUME LoopInv PROVE PathsAreShortest
      OBVIOUS
    <2>1. MapsInv /\ PlannersInv /\ PathInv /\ position \in Positions
      BY DEF LoopInv, MapsInv
    <2>2. \A route, kind : BestPath(route, position, Goal, PlanningMap(kind)) =>
                                Shortest(route, PlanningMap(kind))
      BY <2>1, AssumedPositions, BestPathIsShortest DEF Shortest
    <2>3. phase \in {"dispatched", "cautious", "planned"} =>
                Shortest(path, PlanningMap("optimistic"))
      BY <2>1, <2>2 DEF PathInv
    <2>4. phase = "cautious" /\ ~Searching("pessimistic") =>
                Shortest(Planned("pessimistic"), PlanningMap("pessimistic"))
      <3>1. SUFFICES ASSUME phase = "cautious", ~Searching("pessimistic")
                     PROVE  Shortest(Planned("pessimistic"), PlanningMap("pessimistic"))
        OBVIOUS
      <3>2. KindOf = "pessimistic"
        BY <3>1 DEF KindOf
      <3>3. BestPath(Planned("pessimistic"), position, Goal, PlanningMap("pessimistic"))
        BY <2>1, <3>1, <3>2, PlannedIsBest
      <3>4. QED
        BY <2>2, <3>3
    <2>5. QED
      BY <2>3, <2>4 DEF PathsAreShortest
  <1>2. QED
    BY <1>1, LoopInvariant, PTL

-----------------------------------------------------------------------------
\* The bookkeeping.

CountsInv ==
    /\ step \in Nat /\ step <= MaxSteps /\ (phase # "over" => step < MaxSteps)
    /\ since = None \/ (since \in Nat /\ since <= step)
    /\ recovered \in Nat /\ erroneous \in Nat /\ erroneous <= step
    /\ erroneous = recovered + (IF since = None THEN 0 ELSE step - since)
    /\ jams \in 0 .. MaxJams

LEMMA InitCounts == Init => CountsInv
  BY AssumedPositions DEF Init, CountsInv, None

LEMMA ActCounts ==
    ASSUME CountsInv, NEW refused \in BOOLEAN, NEW others \in BOOLEAN, Act(refused, others)
    PROVE  CountsInv'
  <1>1. /\ step' = step + 1 /\ step \in Nat /\ step < MaxSteps
        /\ phase' = IF step + 1 = MaxSteps \/ (completed' /\ others) THEN "over" ELSE "arrivals"
    BY DEF Act, CountsInv
  <1>2. step' \in Nat /\ step' <= MaxSteps /\ (phase' # "over" => step' < MaxSteps)
    BY <1>1, AssumedPositions
  <1>3. jams' \in 0 .. MaxJams
    BY AssumedPositions DEF Act, CountsInv
  <1>4. /\ since = None \/ (since \in Nat /\ since <= step)
        /\ recovered \in Nat /\ erroneous \in Nat /\ erroneous <= step
        /\ erroneous = recovered + (IF since = None THEN 0 ELSE step - since)
        /\ Measured
    BY DEF Act, CountsInv
  <1>5. None \notin Nat
    BY DEF None
  <1> DEFINE Counted == /\ since' = None \/ (since' \in Nat /\ since' <= step')
                        /\ recovered' \in Nat /\ erroneous' \in Nat /\ erroneous' <= step'
                        /\ erroneous' = recovered' + (IF since' = None THEN 0 ELSE step' - since')
  <1>6. CASE Behind /\ since = None
    <2>1. erroneous' = erroneous + 1 /\ since' = step /\ recovered' = recovered
      BY <1>4, <1>6 DEF Measured
    <2>2. step' - since' = 1 /\ since' # None
      BY <1>1, <1>5, <2>1
    <2>3. Counted
      BY <1>1, <1>4, <1>6, <2>1, <2>2
    <2>4. QED
      BY <1>2, <1>3, <2>3 DEF CountsInv
  <1>7. CASE Behind /\ since # None
    <2>1. erroneous' = erroneous + 1 /\ since' = since /\ recovered' = recovered
      BY <1>4, <1>7 DEF Measured
    <2>2. step' - since' = (step - since) + 1 /\ since \in Nat
      BY <1>1, <1>4, <1>7, <2>1
    <2>3. Counted
      BY <1>1, <1>4, <1>7, <2>1, <2>2
    <2>4. QED
      BY <1>2, <1>3, <2>3 DEF CountsInv
  <1>8. CASE ~Behind /\ since # None
    <2>1. erroneous' = erroneous /\ since' = None /\ recovered' = recovered + (step - since)
      BY <1>4, <1>8 DEF Measured
    <2>2. Counted
      BY <1>1, <1>4, <1>8, <2>1
    <2>3. QED
      BY <1>2, <1>3, <2>2 DEF CountsInv
  <1>9. CASE ~Behind /\ since = None
    <2>1. erroneous' = erroneous /\ since' = since /\ recovered' = recovered
      BY <1>4, <1>9 DEF Measured
    <2>2. Counted
      BY <1>1, <1>4, <1>9, <2>1
    <2>3. QED
      BY <1>2, <1>3, <2>2 DEF CountsInv
  <1>10. QED
    BY <1>6, <1>7, <1>8, <1>9

LEMMA NextCounts ==
    ASSUME CountsInv, [Next]_vars
    PROVE  CountsInv'
  <1>1. ASSUME phase # "over", phase' # "over", step' = step, since' = since,
               recovered' = recovered, erroneous' = erroneous, jams' = jams
        PROVE  CountsInv'
    BY <1>1 DEF CountsInv
  <1>2. ASSUME NEW arrived \in SUBSET newer, NEW fresh \in SUBSET (TeamCells \ spotted),
               ArriveAndSense(arrived, fresh)
        PROVE  CountsInv'
    BY <1>1, <1>2 DEF ArriveAndSense
  <1>3. CASE StartFirstPlan
    BY <1>1, <1>3 DEF StartFirstPlan
  <1>4. CASE Search
    BY <1>1, <1>4 DEF Search
  <1>5. CASE FirstPlan
    BY <1>1, <1>5 DEF FirstPlan
  <1>6. CASE Query
    BY <1>1, <1>6 DEF Query
  <1>7. ASSUME NEW arrived \in SUBSET newer, SettleAndPlan(arrived)
        PROVE  CountsInv'
    BY <1>1, <1>7 DEF SettleAndPlan
  <1>8. CASE SecondPlan
    BY <1>1, <1>8 DEF SecondPlan
  <1>9. ASSUME NEW refused \in BOOLEAN, NEW others \in BOOLEAN, Act(refused, others)
        PROVE  CountsInv'
    BY <1>9, ActCounts
  <1>10. CASE UNCHANGED vars
    BY <1>10 DEF vars, CountsInv
  <1>11. QED
    BY <1>2, <1>3, <1>4, <1>5, <1>6, <1>7, <1>8, <1>9, <1>10 DEF Next, Over

LEMMA CountsInvariant == Spec => []CountsInv
  <1>1. Init => CountsInv
    BY InitCounts
  <1>2. CountsInv /\ [Next]_vars => CountsInv'
    BY NextCounts
  <1>3. QED
    BY <1>1, <1>2, PTL DEF Spec

\* The recovery latencies an episode records add up to the steps in which the
\* corridor of the path was behind the team, but for the one still open.
THEOREM LatenciesAccount == Spec => []LatenciesAccountForErrors
  <1>1. CountsInv => LatenciesAccountForErrors
    BY DEF CountsInv, LatenciesAccountForErrors
  <1>2. QED
    BY <1>1, CountsInvariant, PTL

\* Every variable has its type, and the move a robot tries never leads into an
\* obstacle: its next cell lies in the window its sensor has shown before the
\* plan was made.
THEOREM LoopTypeCorrect == Spec => []TypeOK
  <1>1. LoopInv /\ CountsInv => TypeOK
    <2> SUFFICES ASSUME LoopInv, CountsInv PROVE TypeOK
      OBVIOUS
    <2>1. MapsInv /\ PathInv
      BY DEF LoopInv
    <2>2. phase = "planned" => Target \notin truth
      BY <2>1, TargetIsNext
    <2>3. CellsOf(path) \subseteq Positions
      BY <2>1 DEF PathInv, CellsOf
    <2>4. /\ step \in 0 .. MaxSteps /\ since \in None .. MaxSteps
          /\ recovered \in 0 .. MaxSteps /\ erroneous \in 0 .. MaxSteps
      <3>1. /\ step \in Nat /\ step <= MaxSteps /\ MaxSteps \in Nat
            /\ since = None \/ (since \in Nat /\ since <= step)
            /\ recovered \in Nat /\ erroneous \in Nat /\ erroneous <= step
            /\ erroneous = recovered + (IF since = None THEN 0 ELSE step - since)
        BY AssumedPositions DEF CountsInv
      <3>2. recovered <= erroneous
        BY <3>1
      <3>3. QED
        BY <3>1, <3>2 DEF None
    <2>5. QED
      BY <2>1, <2>2, <2>3, <2>4 DEF TypeOK, MapsInv, PathInv, CountsInv
  <1>2. QED
    BY <1>1, LoopInvariant, CountsInvariant, PTL

-----------------------------------------------------------------------------
\* The answers.

\* Two walks, one after the other.
LEMMA WalksJoin ==
    ASSUME NEW p, NEW q, NEW a, NEW b, NEW c, NEW blocked,
           Walk(p, a, b, blocked), Walk(q, b, c, blocked)
    PROVE  \E r : Walk(r, a, c, blocked) /\ Len(r) = (Len(p) + Len(q)) - 1
  <1> DEFINE t == Tail(q)
             r == p \o t
  <1>1. /\ p \in Seq(Positions) /\ Len(p) \in Nat \ {0} /\ p[1] = a /\ p[Len(p)] = b
        /\ \A i \in 1 .. Len(p) : p[i] \in Positions \ blocked
        /\ \A i \in 1 .. Len(p) - 1 : Manhattan(p[i], p[i + 1]) = 1
    BY DEF Walk, ValidPath
  <1>2. /\ q \in Seq(Positions) /\ q # <<>> /\ Len(q) \in Nat \ {0} /\ q[1] = b /\ q[Len(q)] = c
        /\ \A i \in 1 .. Len(q) : q[i] \in Positions \ blocked
        /\ \A i \in 1 .. Len(q) - 1 : Manhattan(q[i], q[i + 1]) = 1
    BY DEF Walk, ValidPath
  <1>3. t \in Seq(Positions) /\ Len(t) = Len(q) - 1 /\ \A i \in 1 .. Len(q) - 1 : t[i] = q[i + 1]
    BY <1>2
  <1> HIDE DEF t
  <1>4. /\ r \in Seq(Positions) /\ Len(r) = (Len(p) + Len(q)) - 1
        /\ \A i \in 1 .. Len(p) + Len(t) : r[i] = IF i <= Len(p) THEN p[i] ELSE t[i - Len(p)]
    <2>1. /\ r \in Seq(Positions) /\ Len(r) = Len(p) + Len(t)
          /\ \A i \in 1 .. Len(p) + Len(t) : r[i] = IF i <= Len(p) THEN p[i] ELSE t[i - Len(p)]
      BY <1>1, <1>3, ConcatProperties
    <2>2. QED
      BY <1>1, <1>2, <1>3, <2>1
  <1> HIDE DEF r
  \* From where the first ends, what follows is the second.
  <1>5. /\ \A i \in 1 .. Len(p) : r[i] = p[i]
        /\ \A i \in 1 .. Len(q) : (Len(p) - 1) + i \in 1 .. Len(r) /\ r[(Len(p) - 1) + i] = q[i]
    <2>1. \A i \in 1 .. Len(p) : r[i] = p[i]
      BY <1>1, <1>3, <1>4
    <2>2. SUFFICES ASSUME NEW i \in 1 .. Len(q)
                   PROVE  (Len(p) - 1) + i \in 1 .. Len(r) /\ r[(Len(p) - 1) + i] = q[i]
      BY <2>1
    <2>3. CASE i = 1
      <3>1. (Len(p) - 1) + i = Len(p) /\ Len(p) \in 1 .. Len(r)
        BY <1>1, <1>2, <1>4, <2>3
      <3>2. r[Len(p)] = b
        BY <1>1, <2>1
      <3>3. QED
        BY <1>2, <2>3, <3>1, <3>2
    <2>4. CASE i # 1
      <3> DEFINE j == (Len(p) - 1) + i
      <3>1. /\ j \in 1 .. Len(p) + Len(t) /\ j \in 1 .. Len(r) /\ ~(j <= Len(p))
            /\ j - Len(p) = i - 1 /\ i - 1 \in 1 .. Len(q) - 1 /\ (i - 1) + 1 = i
        BY <1>1, <1>2, <1>3, <1>4, <2>4
      <3> HIDE DEF j
      <3>2. r[j] = t[i - 1] /\ t[i - 1] = q[(i - 1) + 1]
        BY <1>3, <1>4, <3>1
      <3>3. QED
        BY <3>1, <3>2 DEF j
    <2>5. QED
      BY <2>3, <2>4
  <1>6. r[1] = a /\ r[Len(r)] = c /\ r # <<>>
    <2>1. 1 \in 1 .. Len(p) /\ Len(q) \in 1 .. Len(q) /\ (Len(p) - 1) + Len(q) = Len(r)
      BY <1>1, <1>2, <1>4
    <2>2. r[1] = a
      BY <1>1, <1>5, <2>1
    <2>3. r[Len(r)] = q[Len(q)]
      <3>1. r[(Len(p) - 1) + Len(q)] = q[Len(q)]
        BY <1>5, <2>1
      <3>2. QED
        BY <2>1, <3>1
    <2>4. Len(r) \in Nat \ {0}
      BY <1>1, <1>2, <1>4
    <2>5. r # <<>>
      BY <2>4
    <2>6. QED
      BY <1>2, <2>2, <2>3, <2>5
  <1>7. \A i \in 1 .. Len(r) : r[i] \in Positions \ blocked
    <2>1. SUFFICES ASSUME NEW i \in 1 .. Len(r) PROVE r[i] \in Positions \ blocked
      OBVIOUS
    <2>2. CASE i <= Len(p)
      <3>1. i \in 1 .. Len(p)
        BY <1>1, <2>2
      <3>2. QED
        BY <1>1, <1>5, <3>1
    <2>3. CASE ~(i <= Len(p))
      <3> DEFINE j == i - (Len(p) - 1)
      <3>1. j \in 1 .. Len(q) /\ (Len(p) - 1) + j = i
        BY <1>1, <1>2, <1>4, <2>3
      <3> HIDE DEF j
      <3>2. QED
        BY <1>2, <1>5, <3>1
    <2>4. QED
      BY <2>2, <2>3
  <1>8. \A i \in 1 .. Len(r) - 1 : Manhattan(r[i], r[i + 1]) = 1
    <2>1. SUFFICES ASSUME NEW i \in 1 .. Len(r) - 1 PROVE Manhattan(r[i], r[i + 1]) = 1
      OBVIOUS
    <2>2. CASE i < Len(p)
      <3>1. i \in 1 .. Len(p) - 1 /\ i \in 1 .. Len(p) /\ i + 1 \in 1 .. Len(p)
        BY <1>1, <2>2
      <3>2. r[i] = p[i] /\ r[i + 1] = p[i + 1] /\ Manhattan(p[i], p[i + 1]) = 1
        BY <1>1, <1>5, <3>1
      <3>3. QED
        BY <3>2
    <2>3. CASE ~(i < Len(p))
      <3> DEFINE j == i - (Len(p) - 1)
      <3>1. /\ j \in 1 .. Len(q) - 1 /\ j \in 1 .. Len(q) /\ j + 1 \in 1 .. Len(q)
            /\ (Len(p) - 1) + j = i /\ (Len(p) - 1) + (j + 1) = i + 1
        BY <1>1, <1>2, <1>4, <2>3
      <3> HIDE DEF j
      <3>2. r[i] = q[j] /\ r[i + 1] = q[j + 1] /\ Manhattan(q[j], q[j + 1]) = 1
        BY <1>2, <1>5, <3>1
      <3>3. QED
        BY <3>2
    <2>4. QED
      BY <2>2, <2>3
  <1>9. Walk(r, a, c, blocked)
    BY <1>4, <1>6, <1>7, <1>8 DEF Walk, ValidPath
  <1>10. QED
    BY <1>4, <1>9

\* What is left of a walk from one of its cells on.
LEMMA RestOfWalk ==
    ASSUME NEW p, NEW a, NEW b, NEW blocked, Walk(p, a, b, blocked), NEW k \in 1 .. Len(p)
    PROVE  \E r : Walk(r, p[k], b, blocked) /\ Len(r) = (Len(p) - k) + 1
  <1> DEFINE r == SubSeq(p, k, Len(p))
  <1>1. /\ p \in Seq(Positions) /\ Len(p) \in Nat \ {0} /\ p[1] = a /\ p[Len(p)] = b
        /\ \A i \in 1 .. Len(p) : p[i] \in Positions \ blocked
        /\ \A i \in 1 .. Len(p) - 1 : Manhattan(p[i], p[i + 1]) = 1
    BY DEF Walk, ValidPath
  <1>2. /\ r \in Seq(Positions) /\ Len(r) = (Len(p) - k) + 1
        /\ \A i \in 1 .. (Len(p) - k) + 1 : r[i] = p[(k + i) - 1]
    BY <1>1
  <1> HIDE DEF r
  <1>3. Len(r) \in Nat \ {0} /\ r # <<>>
    BY <1>1, <1>2
  <1>4. r[1] = p[k] /\ r[Len(r)] = b
    <2>1. /\ 1 \in 1 .. (Len(p) - k) + 1 /\ (k + 1) - 1 = k
          /\ Len(r) \in 1 .. (Len(p) - k) + 1 /\ (k + Len(r)) - 1 = Len(p)
      BY <1>1, <1>2
    <2>2. QED
      BY <1>1, <1>2, <2>1
  <1>5. \A i \in 1 .. Len(r) : r[i] \in Positions \ blocked
    <2>1. SUFFICES ASSUME NEW i \in 1 .. Len(r) PROVE r[i] \in Positions \ blocked
      OBVIOUS
    <2>2. (k + i) - 1 \in 1 .. Len(p) /\ i \in 1 .. (Len(p) - k) + 1
      BY <1>1, <1>2
    <2>3. QED
      BY <1>1, <1>2, <2>2
  <1>6. \A i \in 1 .. Len(r) - 1 : Manhattan(r[i], r[i + 1]) = 1
    <2>1. SUFFICES ASSUME NEW i \in 1 .. Len(r) - 1 PROVE Manhattan(r[i], r[i + 1]) = 1
      OBVIOUS
    <2> DEFINE j == (k + i) - 1
    <2>2. /\ j \in 1 .. Len(p) - 1 /\ (k + (i + 1)) - 1 = j + 1
          /\ i \in 1 .. (Len(p) - k) + 1 /\ i + 1 \in 1 .. (Len(p) - k) + 1
      BY <1>1, <1>2
    <2>3. r[i] = p[j] /\ r[i + 1] = p[j + 1]
      <3>1. r[i] = p[(k + i) - 1]
        BY <1>2, <2>2
      <3>2. r[i + 1] = p[(k + (i + 1)) - 1]
        BY <1>2, <2>2
      <3>3. QED
        BY <2>2, <3>1, <3>2
    <2> HIDE DEF j
    <2>4. QED
      BY <1>1, <2>2, <2>3
  <1>7. QED
    BY <1>2, <1>3, <1>4, <1>5, <1>6 DEF Walk, ValidPath

\* The first unknown cell of a path within the horizon is on the path.
LEMMA FirstUnknownIsOnPath ==
    ASSUME NEW p \in Seq(Positions), NEW unknown, FirstUnknown(unknown, p) # Inf
    PROVE  FirstUnknown(unknown, p) \in 1 .. Len(p) - 1
  <1> DEFINE S == {i \in 1 .. Len(Bounded(p)) - 1 : p[i + 1] \in unknown}
             f == FirstUnknown(unknown, p)
  <1>1. Len(Bounded(p)) \in Nat /\ Len(Bounded(p)) <= Len(p) /\ Len(p) \in Nat
    <2>1. Horizon + 1 \in Nat
      BY PlanAssumption
    <2> DEFINE n == Horizon + 1
               m == IF n < Len(p) THEN n ELSE Len(p)
    <2>2. m \in 0 .. Len(p)
      BY <2>1
    <2>3. Bounded(p) = SubSeq(p, 1, m)
      BY DEF Bounded, Prefix
    <2> HIDE DEF n, m
    <2>4. QED
      BY <2>2, <2>3
  <1>2. S \cup {Inf} \in SUBSET Nat /\ S \cup {Inf} # {}
    BY <1>1, InfIsPositive
  <1>3. PICK m \in S \cup {Inf} : \A n \in S \cup {Inf} : m <= n
    <2> HIDE DEF S
    <2>1. QED
      BY <1>2, LeastNumber
  <1>4. f = Min(S \cup {Inf})
    BY DEF FirstUnknown
  <1>5. f \in S \cup {Inf}
    <2> HIDE DEF S, f
    <2>1. QED
      BY <1>3, <1>4 DEF Min
  <1>6. f \in S
    BY <1>5
  <1>7. QED
    BY <1>1, <1>6

\* No cell of a shortest path that is some steps away can be reached in fewer.
LEMMA NoShortCut ==
    ASSUME NEW p, NEW a, NEW b, NEW blocked, BestPath(p, a, b, blocked), p # <<>>,
           NEW f \in 1 .. Len(p) - 1, NEW q, NEW more, blocked \subseteq more,
           Walk(q, a, p[f + 1], more)
    PROVE  Len(q) > f
  <1>1. /\ Walk(p, a, b, blocked) /\ Len(p) <= Inf /\ p \in Seq(Positions) /\ Len(p) \in Nat
    BY DEF BestPath, Walk
  <1>2. f + 1 \in 1 .. Len(p)
    BY <1>1
  <1>3. PICK r : Walk(r, p[f + 1], b, blocked) /\ Len(r) = (Len(p) - (f + 1)) + 1
    BY <1>1, <1>2, RestOfWalk
  <1>4. Walk(q, a, p[f + 1], blocked) /\ Len(q) \in Nat
    BY DEF Walk, ValidPath
  <1>5. PICK w : Walk(w, a, b, blocked) /\ Len(w) = (Len(q) + Len(r)) - 1
    BY <1>3, <1>4, WalksJoin
  <1>6. ASSUME Len(q) <= f PROVE FALSE
    <2>1. Len(w) = (Len(q) + ((Len(p) - (f + 1)) + 1)) - 1
      BY <1>3, <1>5
    <2>2. Len(w) < Len(p)
      BY <1>1, <1>4, <1>6, <2>1
    <2>3. Len(w) <= Inf /\ Len(w) \in Nat
      BY <1>1, <1>4, <1>6, <2>1, <2>2, InfIsPositive
    <2>4. Len(p) <= Len(w)
      BY <1>5, <2>3 DEF BestPath
    <2>5. QED
      BY <1>1, <2>2, <2>3, <2>4
  <1>7. QED
    BY <1>1, <1>4, <1>6

\* The cell of a query under way cannot be reached before the answer is there,
\* not even along cells of which the robot does not know that they are free.
AnswersInv ==
    \A a \in awaited :
        /\ a \in [cell : Positions, left : 0 .. RoundTrip]
        /\ \A q : Walk(q, position, a.cell, truth) => Len(q) > a.left + 1

\* A query is sent only if its answer can be there in time.
LEMMA QueryAnswers ==
    ASSUME LoopInv, AnswersInv, Query
    PROVE  AnswersInv'
  <1>1. /\ phase = "cautious" /\ position' = position /\ truth' = truth
        /\ truth \in SUBSET Positions
    BY DEF Query, LoopInv, MapsInv
  <1>2. CASE DeadlineCells(Unknown, path, Planned("pessimistic")) = <<>>
    <2>1. awaited' = awaited
      BY <1>2 DEF Query
    <2>2. QED
      BY <1>1, <2>1 DEF AnswersInv
  <1>3. CASE DeadlineCells(Unknown, path, Planned("pessimistic")) # <<>>
    <2> DEFINE f == FirstUnknown(Unknown, path)
               new == [cell |-> path[f + 1], left |-> RoundTrip]
    <2>1. awaited' = awaited \cup {new}
      BY <1>3 DEF Query
    <2>2. f # Inf /\ Feasible(f)
      BY <1>3 DEF DeadlineCells
    <2>3. /\ path \in Seq(Positions)
          /\ BestPath(path, position, Goal, PlanningMap("optimistic"))
      BY <1>1 DEF LoopInv, PathInv
    <2>4. f \in 1 .. Len(path) - 1 /\ Len(path) \in Nat
      BY <2>2, <2>3, FirstUnknownIsOnPath
    <2>5. RoundTrip \in Nat /\ f >= RoundTrip + 1
      <3>1. RoundTrip \in Nat
        BY PlanAssumption
      <3>2. (IF f > 1 THEN f - 1 ELSE 0) >= RoundTrip
        BY <2>2 DEF Feasible
      <3>3. f \in Nat /\ f >= 1
        BY <2>4
      <3> HIDE DEF f
      <3>4. QED
        BY <3>1, <3>2, <3>3
    <2> HIDE DEF f
    <2>6. path # <<>> /\ path[f + 1] \in Positions
      BY <2>3, <2>4
    <2>7. PlanningMap("optimistic") \subseteq truth
      BY DEF PlanningMap
    <2>8. \A q : Walk(q, position, path[f + 1], truth) => Len(q) > f
      <3>1. SUFFICES ASSUME NEW q, Walk(q, position, path[f + 1], truth) PROVE Len(q) > f
        OBVIOUS
      <3>2. QED
        BY <2>3, <2>4, <2>6, <2>7, <3>1, NoShortCut
    <2>9. /\ new \in [cell : Positions, left : 0 .. RoundTrip]
          /\ \A q : Walk(q, position, new.cell, truth) => Len(q) > new.left + 1
      <3>1. \A q : Walk(q, position, path[f + 1], truth) => Len(q) > RoundTrip + 1
        <4>1. \A q : Walk(q, position, path[f + 1], truth) => Len(q) \in Nat
          BY DEF Walk
        <4>2. f \in Nat
          BY <2>4
        <4>3. QED
          BY <2>5, <2>8, <4>1, <4>2
      <3>2. QED
        BY <2>5, <2>6, <3>1
    <2> HIDE DEF new
    <2>10. QED
      BY <1>1, <2>1, <2>9 DEF AnswersInv
  <1>4. QED
    BY <1>2, <1>3

\* A move brings the robot one step nearer to the cell, and the answer too.
LEMMA ActAnswers ==
    ASSUME LoopInv, AnswersInv, NEW refused \in BOOLEAN, NEW others \in BOOLEAN,
           Act(refused, others)
    PROVE  AnswersInv'
  <1>1. MapsInv /\ PathInv /\ phase = "planned" /\ truth' = truth
    BY DEF LoopInv, Act
  <1>2. position \in Positions /\ position \notin truth
    BY <1>1 DEF MapsInv, PathInv
  <1>3. /\ Target \in Positions \ truth
        /\ Target = position \/ Target \in Neighbours(position)
    BY <1>1, TargetIsNext
  <1>4. position' = position \/ (position' = Target /\ Target \in Neighbours(position))
    BY <1>3 DEF Act
  <1>5. awaited' = {[a EXCEPT !.left = @ - 1] : a \in {b \in awaited : b.left > 0}}
    BY DEF Act
  <1>6. SUFFICES ASSUME NEW e \in awaited'
                 PROVE  /\ e \in [cell : Positions, left : 0 .. RoundTrip]
                        /\ \A q : Walk(q, position', e.cell, truth) => Len(q) > e.left + 1
    BY <1>1 DEF AnswersInv
  <1>7. PICK a \in awaited : a.left > 0 /\ e = [a EXCEPT !.left = @ - 1]
    BY <1>5
  <1>8. /\ a \in [cell : Positions, left : 0 .. RoundTrip]
        /\ \A q : Walk(q, position, a.cell, truth) => Len(q) > a.left + 1
    BY DEF AnswersInv
  <1>9. /\ e.cell = a.cell /\ e.left = a.left - 1 /\ a.left \in Nat /\ RoundTrip \in Nat
        /\ e \in [cell : Positions, left : 0 .. RoundTrip]
    BY <1>7, <1>8, AssumedPositions
  <1>10. ASSUME NEW q, Walk(q, position', e.cell, truth) PROVE Len(q) > e.left + 1
    <2>1. Len(q) \in Nat
      BY <1>10 DEF Walk
    <2>2. CASE position' = position
      <3>1. Len(q) > a.left + 1
        BY <1>8, <1>9, <1>10, <2>2
      <3>2. QED
        BY <1>9, <2>1, <3>1
    <2>3. CASE position' = Target /\ Target \in Neighbours(position)
      <3>1. Walk(q, Target, a.cell, truth) /\ a.cell \in Positions /\ Target \in Positions
        BY <1>3, <1>8, <1>9, <1>10, <2>3
      <3>2. Walk(<<position>> \o q, position, a.cell, truth) /\ Len(<<position>> \o q) = Len(q) + 1
        BY <1>2, <2>3, <3>1, WalkFromBefore
      <3>3. Len(q) + 1 > a.left + 1
        BY <1>8, <3>2
      <3>4. QED
        BY <1>9, <2>1, <3>3
    <2>4. QED
      BY <1>4, <2>2, <2>3
  <1>11. QED
    BY <1>9, <1>10

LEMMA AnswersInvariant == Spec => []AnswersInv
  <1>1. Init => AnswersInv
    BY DEF Init, AnswersInv
  <1>2. LoopInv /\ AnswersInv /\ [Next]_vars => AnswersInv'
    <2>1. SUFFICES ASSUME LoopInv, AnswersInv, [Next]_vars PROVE AnswersInv'
      OBVIOUS
    <2>2. CASE Query
      BY <2>1, <2>2, QueryAnswers
    <2>3. ASSUME NEW refused \in BOOLEAN, NEW others \in BOOLEAN, Act(refused, others)
          PROVE  AnswersInv'
      BY <2>1, <2>3, ActAnswers
    <2>4. CASE UNCHANGED <<awaited, position, truth>>
      BY <2>1, <2>4 DEF AnswersInv
    <2>5. QED
      BY <2>1, <2>2, <2>3, <2>4
        DEF Next, Over, vars, ArriveAndSense, StartFirstPlan, Search, FirstPlan,
            SettleAndPlan, SecondPlan
  <1>3. QED
    BY <1>1, <1>2, LoopInvariant, PTL DEF Spec

\* The slack of _deadline_plan is enough, for every delay and map: when the
\* answer to a query can first be there, the robot does not yet stand on the
\* unknown cell that made it ask, however it has planned and moved since.
THEOREM AnswersComeBeforeEntry == Spec => []AnswerBeforeEntry
  <1>1. LoopInv /\ AnswersInv => AnswerBeforeEntry
    <2>1. SUFFICES ASSUME LoopInv, AnswersInv, NEW a \in awaited, position = a.cell
                   PROVE  FALSE
      BY DEF AnswerBeforeEntry
    <2>2. position \in Positions /\ position \notin truth
      BY <2>1 DEF LoopInv, MapsInv, PathInv
    <2>3. Walk(<<position>>, position, a.cell, truth) /\ Len(<<position>>) = 1
      BY <2>1, <2>2, WalkOfOne
    <2>4. /\ a \in [cell : Positions, left : 0 .. RoundTrip]
          /\ \A q : Walk(q, position, a.cell, truth) => Len(q) > a.left + 1
      BY <2>1 DEF AnswersInv
    <2>5. Len(<<position>>) > a.left + 1
      BY <2>3, <2>4
    <2>6. a.left \in Nat
      BY <2>4, AssumedPositions
    <2>7. QED
      BY <2>3, <2>5, <2>6
  <1>2. QED
    BY <1>1, LoopInvariant, AnswersInvariant, PTL

-----------------------------------------------------------------------------
\* The rotations.

LEMMA QuotientAndRest ==
    ASSUME NEW m \in Nat \ {0}, NEW a \in Int
    PROVE  a \div m \in Int /\ a % m \in 0 .. m - 1 /\ a = m * (a \div m) + (a % m)
  OBVIOUS

LEMMA RestOfSum ==
    ASSUME NEW m \in Nat \ {0}, NEW q \in Int, NEW r \in 0 .. m - 1
    PROVE  (m * q + r) % m = r
  OBVIOUS

LEMMA SmallMultiple ==
    ASSUME NEW m \in Nat \ {0}, NEW k \in Int, m * k < m, -m < m * k
    PROVE  k = 0
  <1>1. ~(k >= 1)
    <2>1. k >= 1 => m * k >= m
      OBVIOUS
    <2>2. QED
      BY <2>1
  <1>2. ~(k <= -1)
    <2>1. k <= -1 => m * k <= -m
      OBVIOUS
    <2>2. QED
      BY <2>1
  <1>3. QED
    BY <1>1, <1>2

\* Among as many numbers in a row as the modulus, one leaves every rest.
LEMMA EveryRestOccurs ==
    ASSUME NEW m \in Nat \ {0}, NEW s \in Nat, NEW j \in 0 .. m - 1
    PROVE  \E r \in {s + k : k \in 0 .. m - 1} : r \in Nat /\ r % m = j /\ (j - r) % m = 0
  <1> DEFINE t == (j - s) % m
             q == (j - s) \div m
             r == s + t
  <1>1. j - s \in Int
    OBVIOUS
  <1>2. q \in Int /\ t \in 0 .. m - 1 /\ j - s = m * q + t
    BY <1>1, QuotientAndRest
  <1> HIDE DEF q, t
  <1>3. r \in {s + k : k \in 0 .. m - 1} /\ r \in Nat
    BY <1>2
  <1> DEFINE u == m * q
  <1>4. u \in Int /\ m * (-q) = -u /\ -q \in Int
    BY <1>2
  <1>5. j - s = u + t
    BY <1>2
  <1>6. (m * (-q) + j) % m = j /\ (m * q + 0) % m = 0
    <2>1. 0 \in 0 .. m - 1
      OBVIOUS
    <2>2. QED
      BY <1>2, <1>4, <2>1, RestOfSum
  <1>7. m * q + 0 = u /\ u % m = 0 /\ (-u + j) % m = j
    BY <1>2, <1>4, <1>6
  <1> HIDE DEF u
  <1>8. r = -u + j /\ j - r = u
    BY <1>2, <1>4, <1>5
  <1>9. QED
    BY <1>3, <1>7, <1>8

\* What leaves a rest differs from it by a multiple.
LEMMA RestIsCongruent ==
    ASSUME NEW m \in Nat \ {0}, NEW x \in Int
    PROVE  ((x % m) - x) % m = 0
  <1> DEFINE q == x \div m
             t == x % m
             u == m * q
  <1>1. q \in Int /\ t \in 0 .. m - 1 /\ x = u + t
    BY QuotientAndRest
  <1> HIDE DEF q, t
  <1>2. u \in Int /\ m * (-q) = -u /\ -q \in Int
    BY <1>1
  <1>3. (m * (-q) + 0) % m = 0
    <2>1. 0 \in 0 .. m - 1
      OBVIOUS
    <2>2. QED
      BY <1>2, <2>1, RestOfSum
  <1> HIDE DEF u
  <1>4. t - x = m * (-q) + 0
    BY <1>1, <1>2
  <1>5. (t - x) % m = 0
    BY <1>3, <1>4
  <1>6. QED
    BY <1>5 DEF t

\* Numbers that leave the same rest differ by a multiple.
LEMMA SameRest ==
    ASSUME NEW m \in Nat \ {0}, NEW x \in Int, NEW y \in Int, x % m = y % m
    PROVE  (y - x) % m = 0
  <1> DEFINE u == x \div m
             v == y \div m
             a == m * u
             b == m * v
  <1>1. /\ u \in Int /\ x % m \in 0 .. m - 1 /\ x = a + (x % m)
        /\ v \in Int /\ y % m \in 0 .. m - 1 /\ y = b + (y % m)
    BY QuotientAndRest
  <1> HIDE DEF u, v
  <1>2. a \in Int /\ b \in Int /\ v - u \in Int /\ m * (v - u) = b - a
    BY <1>1
  <1>3. (m * (v - u) + 0) % m = 0
    <2>1. 0 \in 0 .. m - 1
      OBVIOUS
    <2>2. QED
      BY <1>2, <2>1, RestOfSum
  <1> HIDE DEF a, b
  <1>4. y - x = m * (v - u) + 0
    BY <1>1, <1>2
  <1>5. QED
    BY <1>3, <1>4

\* One of as many numbers from s on as the product of two moduli leaves the rests
\* a and b.
Meet(m, n, s, a, b) ==
    \E k \in 0 .. (m * n) - 1 : (s + k) % m = a /\ (s + k) % n = b

\* Among as many numbers in a row as the product of two moduli, one leaves any
\* two rests, if no smaller number is a multiple of both: no two of the numbers
\* leave the same two rests, and there are as many pairs of rests.
LEMMA RestsMeet ==
    ASSUME NEW m \in Nat \ {0}, NEW n \in Nat \ {0}, NEW s \in Nat,
           NEW a \in 0 .. m - 1, NEW b \in 0 .. n - 1, ~InLockStep(m, n)
    PROVE  Meet(m, n, s, a, b)
  <1> DEFINE N == m * n
             S == 0 .. N - 1
             T == (0 .. m - 1) \X (0 .. n - 1)
             f == [k \in S |-> <<(s + k) % m, (s + k) % n>>]
  <1>1. N \in Nat \ {0}
    <2>1. m * n \in Nat /\ m * n # 0
      OBVIOUS
    <2>2. QED
      BY <2>1
  <1>2. /\ IsFiniteSet(0 .. m - 1) /\ Cardinality(0 .. m - 1) = m
        /\ IsFiniteSet(0 .. n - 1) /\ Cardinality(0 .. n - 1) = n
    <2>1. 0 \in Int /\ m - 1 \in Int /\ ~(0 > m - 1) /\ (m - 1) - 0 + 1 = m
      OBVIOUS
    <2>2. n - 1 \in Int /\ ~(0 > n - 1) /\ (n - 1) - 0 + 1 = n
      OBVIOUS
    <2>3. IsFiniteSet(0 .. m - 1) /\ Cardinality(0 .. m - 1) = m
      BY <2>1, FS_Interval
    <2>4. IsFiniteSet(0 .. n - 1) /\ Cardinality(0 .. n - 1) = n
      BY <2>1, <2>2, FS_Interval
    <2>5. QED
      BY <2>3, <2>4
  <1>3. IsFiniteSet(T) /\ Cardinality(T) = N
    BY <1>2, FS_Product
  <1>4. ~\E k \in 1 .. N - 1 : k % m = 0 /\ k % n = 0
    BY DEF InLockStep
  <1> HIDE DEF N
  <1>5. IsFiniteSet(S) /\ Cardinality(S) = N
    <2>1. 0 \in Int /\ N - 1 \in Int /\ ~(0 > N - 1) /\ (N - 1) - 0 + 1 = N
      BY <1>1
    <2>2. QED
      BY <2>1, FS_Interval
  <1>6. f \in [S -> T]
    <2>1. SUFFICES ASSUME NEW k \in S
                   PROVE  (s + k) % m \in 0 .. m - 1 /\ (s + k) % n \in 0 .. n - 1
      OBVIOUS
    <2>2. s + k \in Int
      BY <1>1
    <2>3. QED
      BY <2>2, QuotientAndRest
  <1>7. ASSUME NEW k \in S, NEW l \in S, f[k] = f[l], k < l
        PROVE  FALSE
    <2>1. k \in Int /\ l \in Int /\ s + k \in Int /\ s + l \in Int
      BY <1>1
    <2>2. (s + k) % m = (s + l) % m /\ (s + k) % n = (s + l) % n
      BY <1>7
    <2>3. ((s + l) - (s + k)) % m = 0 /\ ((s + l) - (s + k)) % n = 0
      BY <2>1, <2>2, SameRest
    <2>4. (s + l) - (s + k) = l - k
      BY <2>1
    <2>5. l - k \in 1 .. N - 1
      BY <1>1, <1>7
    <2>6. QED
      BY <1>4, <2>3, <2>4, <2>5
  <1>8. \A k, l \in S : f[k] = f[l] => k = l
    <2>1. SUFFICES ASSUME NEW k \in S, NEW l \in S, f[k] = f[l], k # l PROVE FALSE
      OBVIOUS
    <2>2. k < l \/ l < k
      BY <1>1, <2>1
    <2>3. QED
      BY <1>7, <2>1, <2>2
  <1>9. f \in Surjection(S, T)
    <2>1. f \in Injection(S, T)
      BY <1>6, <1>8 DEF Injection, IsInjective
    <2>2. QED
      BY <1>3, <1>5, <2>1, FS_Injection
  <1>10. PICK k \in S : f[k] = <<a, b>>
    <2>1. <<a, b>> \in T
      OBVIOUS
    <2>2. QED
      BY <1>9, <2>1 DEF Surjection
  <1>11. \E l \in 0 .. N - 1 : (s + l) % m = a /\ (s + l) % n = b
    BY <1>10
  <1>12. QED
    BY <1>11 DEF Meet, N

\* The first of some tuples in order is the one that is less than all others,
\* where there is such a one.
LEMMA FirstInOrder ==
    ASSUME NEW S, IsFiniteSet(S), NEW a \in S,
           \A b \in S : ~Less(b, a) /\ (b # a => Less(a, b))
    PROVE  /\ DOMAIN Ascending(S) = 1 .. Cardinality(S)
           /\ Cardinality(S) \in Nat \ {0}
           /\ Ascending(S)[1] = a
  <1>1. DOMAIN Ascending(S) = 1 .. Cardinality(S)
    BY DEF Ascending
  <1>2. Cardinality(S) \in Nat \ {0}
    BY FS_CardinalityType, FS_EmptySet
  <1>3. 1 \in 1 .. Cardinality(S)
    BY <1>2
  <1>4. Ascending(S)[1] = CHOOSE c \in S : Cardinality({b \in S : Less(b, c)}) = 1 - 1
    BY <1>3 DEF Ascending
  <1>5. {b \in S : Less(b, a)} = {}
    OBVIOUS
  <1>6. Cardinality({b \in S : Less(b, a)}) = 1 - 1
    BY <1>5, FS_EmptySet
  <1>7. ASSUME NEW c \in S, Cardinality({b \in S : Less(b, c)}) = 1 - 1
        PROVE  c = a
    <2>1. IsFiniteSet({b \in S : Less(b, c)})
      BY FS_Subset
    <2>2. {b \in S : Less(b, c)} = {}
      BY <1>7, <2>1, FS_EmptySet
    <2>3. QED
      BY <2>2
  <1>8. (CHOOSE c \in S : Cardinality({b \in S : Less(b, c)}) = 1 - 1) = a
    BY <1>6, <1>7
  <1>9. QED
    BY <1>1, <1>2, <1>4, <1>8

\* Who comes first in the order of the peers is asked, however few are.
LEMMA FirstIsAsked ==
    ASSUME NEW n \in Nat \ {0}, NEW order, DOMAIN order = 1 .. n, NEW limit \in Nat \ {0}
    PROVE  order[1][3] \in CellsOf(Prefix([i \in DOMAIN order |-> order[i][3]], limit))
  <1> DEFINE s == [i \in DOMAIN order |-> order[i][3]]
             T == {order[i][3] : i \in 1 .. n}
             m == IF limit < Len(s) THEN limit ELSE Len(s)
  <1>1. s \in Seq(T)
    <2>1. s \in [1 .. n -> T]
      OBVIOUS
    <2>2. QED
      BY <2>1, SeqDef
  <1>2. DOMAIN s = 1 .. n /\ s[1] = order[1][3]
    OBVIOUS
  <1> HIDE DEF s, T
  <1>3. Len(s) = n
    BY <1>1, <1>2
  <1>4. m \in 1 .. Len(s)
    BY <1>3
  <1>5. Prefix(s, limit) = SubSeq(s, 1, m)
    BY DEF Prefix
  <1> HIDE DEF m
  <1>6. 1 \in DOMAIN SubSeq(s, 1, m) /\ SubSeq(s, 1, m)[1] = s[1]
    BY <1>1, <1>3, <1>4
  <1>7. s[1] \in CellsOf(Prefix(s, limit))
    BY <1>5, <1>6 DEF CellsOf
  <1>8. QED
    BY <1>2, <1>7 DEF s

LEMMA LessOfTriples ==
    ASSUME NEW a1 \in Nat, NEW a2 \in Nat, NEW a3 \in Nat,
           NEW b1 \in Nat, NEW b2 \in Nat, NEW b3 \in Nat, a1 <= b1, a2 < b2
    PROVE  Less(<<a1, a2, a3>>, <<b1, b2, b3>>) /\ ~Less(<<b1, b2, b3>>, <<a1, a2, a3>>)
  <1> DEFINE a == <<a1, a2, a3>>
             b == <<b1, b2, b3>>
  <1>1. /\ DOMAIN a = {1, 2, 3} /\ DOMAIN b = {1, 2, 3}
        /\ a[1] = a1 /\ a[2] = a2 /\ a[3] = a3 /\ b[1] = b1 /\ b[2] = b2 /\ b[3] = b3
    OBVIOUS
  <1> HIDE DEF a, b
  <1>2. Less(a, b)
    <2>1. CASE a1 < b1
      <3>1. 1 \in DOMAIN a /\ a[1] < b[1] /\ \A j \in 1 .. 1 - 1 : a[j] = b[j]
        BY <1>1, <2>1
      <3>2. QED
        BY <3>1 DEF Less
    <2>2. CASE a1 = b1
      <3>1. 2 \in DOMAIN a /\ a[2] < b[2] /\ \A j \in 1 .. 2 - 1 : a[j] = b[j]
        BY <1>1, <2>2
      <3>2. QED
        BY <3>1 DEF Less
    <2>3. QED
      BY <2>1, <2>2
  <1>3. ~Less(b, a)
    <2>1. SUFFICES ASSUME NEW i \in {1, 2, 3}, b[i] < a[i], \A j \in 1 .. i - 1 : b[j] = a[j]
                   PROVE  FALSE
      BY <1>1 DEF Less
    <2>2. ~(b[1] < a[1]) /\ ~(b[2] < a[2])
      BY <1>1
    <2>3. i = 3
      BY <2>1, <2>2
    <2>4. b[2] = a[2]
      BY <2>1, <2>3
    <2>5. QED
      BY <1>1, <2>4
  <1>4. QED
    BY <1>2, <1>3 DEF a, b

\* Among teammates who are equally near, the round has one that is asked first.
LEMMA NearestIsAsked ==
    ASSUME NEW last \in Nat, NEW at \in [0 .. last -> Positions], NEW r \in Nat,
           NEW p \in 1 .. last,
           \A q \in 1 .. last : Manhattan(at[p], at[0]) <= Manhattan(at[q], at[0]),
           r % (last + 1) = p - 1
    PROVE  p \in CellsOf(OrderedDigestPeers(0, at, r, PeerLimit))
  <1> DEFINE m == last + 1
             D(q) == Manhattan(at[q], at[0])
  <1>1. m \in Nat \ {0} /\ p - 1 \in 0 .. m - 1
    OBVIOUS
  <1>2. Cardinality(DOMAIN at) = m /\ DOMAIN at = 0 .. last /\ DOMAIN at \ {0} = 1 .. last
    <2>1. Cardinality(0 .. last) = (last - 0) + 1
      BY FS_Interval
    <2>2. QED
      BY <2>1
  <1>3. \A q \in 1 .. last : D(q) \in Nat
    <2>1. SUFFICES ASSUME NEW q \in 1 .. last PROVE D(q) \in Nat
      OBVIOUS
    <2>2. at[q] \in Positions /\ at[0] \in Positions
      OBVIOUS
    <2>3. QED
      BY <2>2, ManhattanIsMetric
  <1>4. ((p - 1) - r) % m = 0
    <2>1. r % m = p - 1
      BY DEF m
    <2> HIDE DEF m
    <2>2. ((r % m) - r) % m = 0
      <3>1. r \in Int
        OBVIOUS
      <3>2. QED
        BY <1>1, <3>1, RestIsCongruent
    <2>3. QED
      BY <2>1, <2>2
  <1> HIDE DEF m
  <1> DEFINE T(q) == (((q - 0) - 1) - r) % m
             key(q) == <<D(q), T(q), q>>
             S == {key(q) : q \in DOMAIN at \ {0}}
  <1>5. T(p) = 0
    <2>1. ((p - 0) - 1) - r = (p - 1) - r
      BY <1>4
    <2>2. QED
      BY <1>4, <2>1
  <1>6. ASSUME NEW q \in 1 .. last, q # p PROVE T(q) \in Nat /\ 0 < T(q)
    <2> DEFINE x == ((q - 0) - 1) - r
               y == ((p - 0) - 1) - r
               u == x \div m
               v == y \div m
    <2>1. x \in Int /\ y \in Int /\ x - y = q - p
      BY <1>4
    <2>2. y % m = 0 /\ T(q) = x % m
      BY <1>5
    <2> HIDE DEF x, y
    <2>3. /\ u \in Int /\ x % m \in 0 .. m - 1 /\ x = m * u + (x % m)
          /\ v \in Int /\ y = m * v + (y % m)
      BY <1>1, <2>1, QuotientAndRest
    <2> HIDE DEF u, v
    <2>4. ASSUME x % m = 0 PROVE FALSE
      <3>1. x = m * u + 0 /\ y = m * v + 0
        BY <2>2, <2>3, <2>4
      <3>2. m * (u - v) = m * u - m * v /\ m * u \in Int /\ m * v \in Int /\ u - v \in Int
        BY <1>1, <2>3
      <3>3. m * (u - v) = q - p
        BY <2>1, <3>1, <3>2
      <3>4. q - p < m /\ -m < q - p
        BY DEF m
      <3>5. m * (u - v) < m /\ -m < m * (u - v)
        BY <3>3, <3>4
      <3>6. u - v = 0
        BY <1>1, <3>2, <3>5, SmallMultiple
      <3>7. m * (u - v) = 0
        BY <1>1, <3>6
      <3>8. QED
        BY <1>6, <3>3, <3>7
    <2>5. QED
      BY <1>1, <2>2, <2>3, <2>4
  <1> HIDE DEF T
  <1>7. \A q \in 1 .. last : q # p =>
            Less(key(p), key(q)) /\ ~Less(key(q), key(p)) /\ key(q) # key(p)
    <2>1. SUFFICES ASSUME NEW q \in 1 .. last, q # p
                   PROVE  Less(key(p), key(q)) /\ ~Less(key(q), key(p)) /\ key(q) # key(p)
      OBVIOUS
    <2>2. D(p) \in Nat /\ D(q) \in Nat /\ D(p) <= D(q) /\ p \in Nat /\ q \in Nat
      BY <1>3
    <2>3. T(p) \in Nat /\ T(q) \in Nat /\ T(p) < T(q)
      BY <1>5, <1>6, <2>1
    <2> HIDE DEF D
    <2>4. Less(key(p), key(q)) /\ ~Less(key(q), key(p))
      BY <2>2, <2>3, LessOfTriples
    <2>5. key(p)[3] = p /\ key(q)[3] = q
      OBVIOUS
    <2>6. QED
      BY <2>1, <2>4, <2>5
  <1>8. ~Less(key(p), key(p))
    <2>1. D(p) \in Nat /\ T(p) \in Nat /\ p \in Nat
      BY <1>3, <1>5
    <2> DEFINE a == key(p)
    <2>2. a[1] \in Nat /\ a[2] \in Nat /\ a[3] \in Nat /\ DOMAIN a = {1, 2, 3}
      BY <2>1
    <2> HIDE DEF a
    <2>3. ~Less(a, a)
      BY <2>2 DEF Less
    <2>4. QED
      BY <2>3 DEF a
  <1> HIDE DEF key
  <1>9. S = {key(q) : q \in 1 .. last} /\ key(p) \in S
    BY <1>2
  <1>10. IsFiniteSet(S)
    <2>1. IsFiniteSet(1 .. last)
      <3>1. 1 \in Int /\ last \in Int
        OBVIOUS
      <3>2. QED
        BY <3>1, FS_Interval
    <2> DEFINE f == [q \in 1 .. last |-> key(q)]
    <2>2. f \in Surjection(1 .. last, S)
      BY <1>9 DEF Surjection
    <2>3. QED
      BY <2>1, <2>2, FS_Surjection
  <1>11. \A b \in S : ~Less(b, key(p)) /\ (b # key(p) => Less(key(p), b))
    BY <1>7, <1>8, <1>9
  <1> DEFINE order == Ascending(S)
  <1>12. DOMAIN order = 1 .. Cardinality(S) /\ Cardinality(S) \in Nat \ {0} /\ order[1] = key(p)
    <2> HIDE DEF S
    <2>1. QED
      BY <1>9, <1>10, <1>11, FirstInOrder
  <1>13. OrderedDigestPeers(0, at, r, PeerLimit)
            = Prefix([i \in DOMAIN order |-> order[i][3]], PeerLimit)
    BY <1>2 DEF OrderedDigestPeers, key, T
  <1> HIDE DEF order, S
  <1>14. PeerLimit \in Nat \ {0}
    BY EpisodeAssumption
  <1>15. order[1][3] \in CellsOf(OrderedDigestPeers(0, at, r, PeerLimit))
    BY <1>12, <1>13, <1>14, FirstIsAsked
  <1>16. order[1][3] = p
    BY <1>12 DEF key
  <1>17. QED
    BY <1>15, <1>16

\* Each of them is asked in one of as many rounds as there are robots.
LEMMA EveryNearestIsAsked ==
    ASSUME NEW last \in Nat, NEW at \in [0 .. last -> Positions], NEW s \in Nat,
           NEW p \in 1 .. last,
           \A q \in 1 .. last : Manhattan(at[p], at[0]) <= Manhattan(at[q], at[0])
    PROVE  \E r \in {s + k : k \in 0 .. (last + 1) - 1} :
                p \in CellsOf(OrderedDigestPeers(0, at, r, PeerLimit))
  <1> DEFINE m == last + 1
  <1>1. m \in Nat \ {0} /\ p - 1 \in 0 .. m - 1
    OBVIOUS
  <1> HIDE DEF m
  <1>2. PICK r \in {s + k : k \in 0 .. m - 1} : r \in Nat /\ r % m = p - 1
    <2> DEFINE j == p - 1
    <2>1. j \in 0 .. m - 1
      BY <1>1
    <2> HIDE DEF j
    <2>2. \E r \in {s + k : k \in 0 .. m - 1} : r \in Nat /\ r % m = j /\ (j - r) % m = 0
      BY <1>1, <2>1, EveryRestOccurs
    <2>3. QED
      BY <2>2 DEF j
  <1>3. p \in CellsOf(OrderedDigestPeers(0, at, r, PeerLimit))
    BY <1>2, NearestIsAsked DEF m
  <1>4. QED
    BY <1>2, <1>3 DEF m

\* The number of a cell in row-major order is less than there are cells.
LEMMA RowMajor ==
    ASSUME NEW c \in Positions
    PROVE  c[1] * Cols + c[2] \in 0 .. (Rows * Cols) - 1
  <1> DEFINE x == c[1]
             y == c[2]
  <1>1. x \in 0 .. Rows - 1 /\ y \in 0 .. Cols - 1 /\ Rows \in Nat \ {0} /\ Cols \in Nat \ {0}
    BY GridAssumption DEF Positions
  <1> HIDE DEF x, y
  <1>2. x * Cols \in Nat /\ Rows * Cols \in Nat
    BY <1>1
  <1>3. (x + 1) * Cols = x * Cols + Cols /\ (x + 1) * Cols <= Rows * Cols
    <2> DEFINE z == Rows - (x + 1)
    <2>1. z \in Nat /\ Rows = (x + 1) + z
      BY <1>1
    <2> HIDE DEF z
    <2>2. ((x + 1) + z) * Cols = (x + 1) * Cols + z * Cols /\ z * Cols \in Nat
      BY <1>1, <2>1
    <2>3. (x + 1) * Cols = x * Cols + Cols
      BY <1>1
    <2>4. QED
      BY <1>1, <1>2, <2>1, <2>2, <2>3
  <1>4. x * Cols + y \in 0 .. (Rows * Cols) - 1
    BY <1>1, <1>2, <1>3
  <1>5. QED
    BY <1>4 DEF x, y

\* The chunk a cell is in has a number less than there are chunks.
LEMMA ChunkOfCell ==
    ASSUME NEW n \in Nat, NEW k \in 0 .. n - 1, NEW d \in Nat \ {0}
    PROVE  /\ k \div d \in 0 .. ((n + (d - 1)) \div d) - 1
           /\ (n + (d - 1)) \div d \in Nat \ {0}
           /\ k \in (k \div d) * d .. (k \div d) * d + (d - 1)
  <1> DEFINE j == k \div d
             e == k % d
             all == n + (d - 1)
             h == all \div d
             l == all % d
  <1>1. j \in Int /\ e \in 0 .. d - 1 /\ k = d * j + e
    BY QuotientAndRest
  <1>2. all \in Int
    OBVIOUS
  <1>3. h \in Int /\ l \in 0 .. d - 1 /\ all = d * h + l
    BY <1>2, QuotientAndRest
  <1>4. all = n + (d - 1)
    OBVIOUS
  <1> HIDE DEF j, e, h, l, all
  <1>5. ~(j < 0)
    <2>1. j < 0 => d * j <= -d
      BY <1>1
    <2>2. QED
      BY <1>1, <2>1
  <1>6. ~(h <= j)
    <2>1. h <= j => d * h <= d * j
      BY <1>1, <1>3
    <2>2. d * h \in Int /\ d * j \in Int
      BY <1>1, <1>3
    <2>3. QED
      BY <1>1, <1>3, <1>4, <2>1, <2>2
  <1>7. j \in 0 .. h - 1 /\ h \in Nat \ {0}
    BY <1>1, <1>3, <1>5, <1>6
  <1>8. j * d = d * j /\ d * j \in Int
    BY <1>1
  <1>9. k \in j * d .. j * d + (d - 1)
    BY <1>1, <1>8
  <1>10. QED
    BY <1>7, <1>9 DEF j, h, all

\* Every cell is in the chunk of the rounds that leave one rest.
LEMMA CellIsInChunk ==
    ASSUME DigestCells >= 1, NEW c \in Positions
    PROVE  /\ Chunks \in Nat \ {0}
           /\ \E j \in 0 .. Chunks - 1 : \A r \in Nat :
                r % Chunks = j => c \in FullReplicaChunk(r)
  <1> DEFINE k == c[1] * Cols + c[2]
             n == Rows * Cols
             j == k \div DigestCells
  <1>1. DigestCells \in Nat \ {0}
    BY PlanAssumption
  <1>2. n \in Nat /\ k \in 0 .. n - 1
    <2>1. n \in Nat
      BY GridAssumption
    <2>2. QED
      BY <2>1, RowMajor
  <1>3. Chunks = (n + (DigestCells - 1)) \div DigestCells
    BY DEF Chunks
  <1> HIDE DEF n, k
  <1>4. /\ j \in 0 .. Chunks - 1 /\ Chunks \in Nat \ {0}
        /\ k \in j * DigestCells .. j * DigestCells + (DigestCells - 1)
    <2>1. /\ j \in 0 .. ((n + (DigestCells - 1)) \div DigestCells) - 1
          /\ (n + (DigestCells - 1)) \div DigestCells \in Nat \ {0}
          /\ k \in j * DigestCells .. j * DigestCells + (DigestCells - 1)
      BY <1>1, <1>2, ChunkOfCell
    <2>2. QED
      BY <1>3, <2>1
  <1> HIDE DEF j
  <1>5. ASSUME NEW r \in Nat, r % Chunks = j
        PROVE  c \in FullReplicaChunk(r)
    <2>1. ~(DigestCells < 1)
      BY <1>1
    <2>2. k \in (r % Chunks) * DigestCells
                    .. (r % Chunks) * DigestCells + (DigestCells - 1)
      BY <1>4, <1>5
    <2>3. QED
      BY <2>1, <2>2 DEF FullReplicaChunk, k
  <1>6. QED
    BY <1>4, <1>5

\* As many chunks in a row as there are hold every cell.
LEMMA EveryCellIsSent ==
    ASSUME DigestCells >= 1, NEW c \in Positions, NEW s \in Nat
    PROVE  \E r \in {s + k : k \in 0 .. Chunks - 1} : c \in FullReplicaChunk(r)
  <1> DEFINE m == Chunks
  <1>1. m \in Nat \ {0}
    BY CellIsInChunk
  <1>2. PICK j \in 0 .. m - 1 : \A r \in Nat : r % m = j => c \in FullReplicaChunk(r)
    BY CellIsInChunk
  <1> HIDE DEF m
  <1>3. PICK r \in {s + i : i \in 0 .. m - 1} : r \in Nat /\ r % m = j
    BY <1>1, EveryRestOccurs
  <1>4. QED
    BY <1>2, <1>3 DEF m

\* In as many rounds as the two rotations have combinations, each of the nearest
\* teammates is asked about each cell, if the rotations are not in lock step.
LEMMA EveryNearestIsAskedForAll ==
    ASSUME DigestCells >= 1,
           NEW last \in Nat, NEW at \in [0 .. last -> Positions], NEW s \in Nat,
           NEW p \in 1 .. last,
           \A q \in 1 .. last : Manhattan(at[p], at[0]) <= Manhattan(at[q], at[0]),
           NEW c \in Positions, ~InLockStep(last + 1, Chunks)
    PROVE  \E r \in {s + k : k \in 0 .. ((last + 1) * Chunks) - 1} :
                /\ p \in CellsOf(OrderedDigestPeers(0, at, r, PeerLimit))
                /\ c \in FullReplicaChunk(r)
  <1> DEFINE m == last + 1
             n == Chunks
             i == p - 1
  <1>1. m \in Nat \ {0} /\ i \in 0 .. m - 1
    OBVIOUS
  <1>2. n \in Nat \ {0}
    BY CellIsInChunk
  <1>3. PICK j \in 0 .. n - 1 : \A r \in Nat : r % n = j => c \in FullReplicaChunk(r)
    BY CellIsInChunk
  <1>4. ~InLockStep(m, n)
    OBVIOUS
  <1> HIDE DEF m, n, i
  <1>5. Meet(m, n, s, i, j)
    BY <1>1, <1>2, <1>3, <1>4, RestsMeet, Zenon
  <1>6. PICK k \in 0 .. (m * n) - 1 : (s + k) % m = i /\ (s + k) % n = j
    BY <1>5 DEF Meet
  <1> DEFINE r == s + k
  <1>7. p \in CellsOf(OrderedDigestPeers(0, at, r, PeerLimit))
    <2>1. r % (last + 1) = p - 1 /\ r \in Nat
      BY <1>6 DEF m, i
    <2> HIDE DEF r
    <2>2. QED
      BY <2>1, NearestIsAsked
  <1>8. c \in FullReplicaChunk(r)
    <2>1. r \in Nat /\ r % n = j
      BY <1>6
    <2>2. QED
      BY <1>3, <2>1
  <1>9. r \in {s + l : l \in 0 .. ((last + 1) * Chunks) - 1}
    BY <1>6 DEF m, n
  <1>10. QED
    BY <1>7, <1>8, <1>9

\* No bounded rotation leaves anyone or anything out, for every team, grid and
\* bound, wherever in it a robot starts: ordered_digest_peers asks each of the
\* teammates that are nearest in one of as many rounds as there are robots, as
\* many rounds of full_replica_chunk as there are chunks send every cell, and if
\* the two are not in lock step, each of those teammates is asked about each cell.
THEOREM AllRotationsAreComplete == Spec => []RotationsComplete
  <1>1. LoopInv /\ CountsInv => RotationsComplete
    <2> DEFINE at == [TeamAt EXCEPT ![0] = position]
               s == step \div RepairInterval
               nearest == {p \in DOMAIN at \ {0} : \A q \in DOMAIN at \ {0} :
                               Manhattan(at[p], position) <= Manhattan(at[q], position)}
    <2>1. SUFFICES ASSUME LoopInv, CountsInv
                   PROVE  /\ \A p \in nearest : \E r \in Rounds(Cardinality(DOMAIN at)) :
                                p \in CellsOf(OrderedDigestPeers(0, at, r, PeerLimit))
                          /\ DigestCells >= 1 => \A c \in Positions :
                                \E r \in Rounds(Chunks) : c \in FullReplicaChunk(r)
                          /\ (DigestCells >= 1 /\ ~InLockStep(Cardinality(DOMAIN at), Chunks)) =>
                                \A p \in nearest, c \in Positions :
                                    \E r \in Rounds(Cardinality(DOMAIN at) * Chunks) :
                                        /\ p \in CellsOf(OrderedDigestPeers(0, at, r, PeerLimit))
                                        /\ c \in FullReplicaChunk(r)
      BY DEF RotationsComplete
    <2>2. s \in Nat /\ \A n : Rounds(n) = {s + k : k \in 0 .. n - 1}
      <3>1. step \in Nat /\ RepairInterval \in Nat \ {0}
        BY <2>1, EpisodeAssumption DEF CountsInv
      <3>2. QED
        BY <3>1 DEF Rounds
    <2> HIDE DEF s
    <2>3. ASSUME NEW p \in nearest
          PROVE  /\ \E r \in Rounds(Cardinality(DOMAIN at)) :
                        p \in CellsOf(OrderedDigestPeers(0, at, r, PeerLimit))
                 /\ (DigestCells >= 1 /\ ~InLockStep(Cardinality(DOMAIN at), Chunks)) =>
                        \A c \in Positions :
                            \E r \in Rounds(Cardinality(DOMAIN at) * Chunks) :
                                /\ p \in CellsOf(OrderedDigestPeers(0, at, r, PeerLimit))
                                /\ c \in FullReplicaChunk(r)
      <3>1. PICK last \in DOMAIN TeamAt : TeamAt \in [0 .. last -> Positions]
        BY EpisodeAssumption
      <3>2. last \in Nat /\ 0 \in 0 .. last /\ position \in Positions
        BY <2>1, <3>1 DEF LoopInv, MapsInv
      <3>3. at \in [0 .. last -> Positions] /\ at[0] = position
        BY <3>1, <3>2
      <3>4. DOMAIN at = 0 .. last /\ DOMAIN at \ {0} = 1 .. last
        BY <3>2, <3>3
      <3>5. /\ p \in 1 .. last
            /\ \A q \in 1 .. last : Manhattan(at[p], at[0]) <= Manhattan(at[q], at[0])
        BY <3>3, <3>4
      <3> HIDE DEF at
      <3>6. \E r \in {s + k : k \in 0 .. (last + 1) - 1} :
                p \in CellsOf(OrderedDigestPeers(0, at, r, PeerLimit))
        BY <2>2, <3>2, <3>3, <3>5, EveryNearestIsAsked
      <3>7. Cardinality(DOMAIN at) = last + 1
        <4>1. 0 \in Int /\ last \in Int /\ ~(0 > last) /\ (last - 0) + 1 = last + 1
          BY <3>2
        <4>2. QED
          BY <3>4, <4>1, FS_Interval
      <3>8. ASSUME DigestCells >= 1, ~InLockStep(last + 1, Chunks), NEW c \in Positions
            PROVE  \E r \in {s + k : k \in 0 .. ((last + 1) * Chunks) - 1} :
                        /\ p \in CellsOf(OrderedDigestPeers(0, at, r, PeerLimit))
                        /\ c \in FullReplicaChunk(r)
        BY <2>2, <3>2, <3>3, <3>5, <3>8, EveryNearestIsAskedForAll
      <3>9. QED
        BY <2>2, <3>6, <3>7, <3>8
    <2>4. ASSUME DigestCells >= 1, NEW c \in Positions
          PROVE  \E r \in Rounds(Chunks) : c \in FullReplicaChunk(r)
      BY <2>2, <2>4, EveryCellIsSent
    <2>5. QED
      BY <2>3, <2>4
  <1>2. QED
    BY <1>1, LoopInvariant, CountsInvariant, PTL

-----------------------------------------------------------------------------
\* What the planners that weigh cells ask for.

\* Each place in the order of some tuples is that of one of them: as many are less
\* than a tuple as there are places before its own.
LEMMA PlacesAreTaken ==
    ASSUME NEW N \in Nat, NEW S \in SUBSET [1 .. N -> Int], IsFiniteSet(S)
    PROVE  /\ Cardinality(S) \in Nat
           /\ DOMAIN Ascending(S) = 1 .. Cardinality(S)
           /\ \A i \in 1 .. Cardinality(S) : Ascending(S)[i] \in S
  <1> DEFINE n == Cardinality(S)
             Below(a) == {b \in S : Less(b, a)}
             rank == [a \in S |-> Cardinality(Below(a))]
  <1>1. n \in Nat
    BY FS_CardinalityType
  <1>2. \A a \in S : IsFiniteSet(Below(a)) /\ Cardinality(Below(a)) \in Nat
    BY FS_Subset, FS_CardinalityType
  <1>3. \A a \in S : Cardinality(Below(a)) < n
    <2>1. SUFFICES ASSUME NEW a \in S PROVE Cardinality(Below(a)) < n
      OBVIOUS
    <2>2. Below(a) \in SUBSET S /\ a \notin Below(a)
      BY LessIsOrder
    <2> HIDE DEF Below
    <2>3. Cardinality(Below(a)) <= n /\ (n = Cardinality(Below(a)) => S = Below(a))
      BY <2>2, FS_Subset
    <2>4. QED
      BY <1>1, <1>2, <2>2, <2>3
  <1>4. ASSUME NEW a \in S, NEW b \in S, Less(a, b)
        PROVE  Cardinality(Below(a)) < Cardinality(Below(b))
    <2>1. a \in [1 .. N -> Int] /\ b \in [1 .. N -> Int]
      OBVIOUS
    <2>2. Below(a) \in SUBSET Below(b)
      <3>1. ASSUME NEW c \in S, Less(c, a) PROVE Less(c, b)
        <4>1. c \in [1 .. N -> Int]
          OBVIOUS
        <4>2. QED
          BY <1>4, <2>1, <3>1, <4>1, LessIsOrder
      <3>2. QED
        BY <3>1
    <2>3. a \in Below(b) /\ a \notin Below(a)
      BY <1>4, <2>1, LessIsOrder
    <2> HIDE DEF Below
    <2>4. /\ Cardinality(Below(a)) <= Cardinality(Below(b))
          /\ Cardinality(Below(b)) = Cardinality(Below(a)) => Below(b) = Below(a)
      BY <1>2, <2>2, FS_Subset
    <2>5. QED
      BY <1>2, <2>3, <2>4
  <1> HIDE DEF Below
  <1>5. CASE n = 0
    BY <1>5 DEF Ascending
  <1>6. CASE n # 0
    <2> DEFINE T == 0 .. n - 1
    <2>1. IsFiniteSet(T) /\ Cardinality(T) = n
      <3>1. 0 \in Int /\ n - 1 \in Int /\ ~(0 > n - 1) /\ (n - 1) - 0 + 1 = n
        BY <1>1, <1>6
      <3> HIDE DEF n
      <3>2. QED
        BY <3>1, FS_Interval
    <2>2. rank \in [S -> T]
      BY <1>1, <1>2, <1>3
    <2>3. \A a, b \in S : rank[a] = rank[b] => a = b
      <3>1. SUFFICES ASSUME NEW a \in S, NEW b \in S, a # b PROVE rank[a] # rank[b]
        OBVIOUS
      <3>2. Less(a, b) \/ Less(b, a)
        BY <3>1, LessIsOrder
      <3>3. Cardinality(Below(a)) # Cardinality(Below(b))
        BY <1>2, <1>4, <3>2
      <3>4. QED
        BY <3>3
    <2> HIDE DEF rank, T
    <2>4. rank \in Injection(S, T)
      BY <2>2, <2>3 DEF Injection, IsInjective
    <2>5. rank \in Surjection(S, T)
      BY <2>1, <2>4, FS_Injection
    <2>6. ASSUME NEW i \in 1 .. n PROVE Ascending(S)[i] \in S
      <3>1. i - 1 \in T
        BY <1>1 DEF T
      <3>2. PICK a \in S : rank[a] = i - 1
        BY <2>5, <3>1 DEF Surjection
      <3>3. Cardinality({b \in S : Less(b, a)}) = i - 1
        BY <3>2 DEF rank, Below
      <3>4. Ascending(S)[i] = CHOOSE c \in S : Cardinality({b \in S : Less(b, c)}) = i - 1
        BY DEF Ascending
      <3>5. QED
        BY <3>3, <3>4
    <2>7. QED
      BY <1>1, <2>6 DEF Ascending
  <1>7. QED
    BY <1>5, <1>6

\* What is left of a sequence that has been cut.
LEMMA PrefixIsPart ==
    ASSUME NEW V, NEW s \in Seq(V), NEW n \in Nat
    PROVE  /\ Prefix(s, n) \in Seq(V)
           /\ CellsOf(Prefix(s, n)) \subseteq CellsOf(s)
  <1> DEFINE m == IF n < Len(s) THEN n ELSE Len(s)
  <1>1. m \in Nat /\ m <= Len(s) /\ Len(s) \in Nat
    OBVIOUS
  <1>2. Prefix(s, n) = SubSeq(s, 1, m)
    BY DEF Prefix
  <1> HIDE DEF m
  <1>3. /\ SubSeq(s, 1, m) \in Seq(V) /\ Len(SubSeq(s, 1, m)) = m
        /\ \A i \in 1 .. m : SubSeq(s, 1, m)[i] = s[i]
    BY <1>1
  <1>4. \A i \in 1 .. m : i \in DOMAIN s
    BY <1>1
  <1>5. DOMAIN SubSeq(s, 1, m) = 1 .. m
    BY <1>3
  <1>6. QED
    BY <1>2, <1>3, <1>4, <1>5 DEF CellsOf

\* Cells picked by the second component of tuples in order are the cells of tuples.
LEMMA PickedIsRanked ==
    ASSUME NEW candidates, NEW S \in SUBSET [1 .. 2 -> Int], IsFiniteSet(S), NEW n \in Nat
    PROVE  \A c \in CellsOf(Prefix([i \in DOMAIN Ascending(S) |->
                                        candidates[Ascending(S)[i][2]]], n)) :
                \E d \in S : c = candidates[d[2]]
  <1> DEFINE m == Cardinality(S)
             V == {candidates[d[2]] : d \in S}
             p == [i \in DOMAIN Ascending(S) |-> candidates[Ascending(S)[i][2]]]
  <1>1. /\ m \in Nat /\ DOMAIN Ascending(S) = 1 .. m
        /\ \A i \in 1 .. m : Ascending(S)[i] \in S
    <2>1. 2 \in Nat
      OBVIOUS
    <2>2. QED
      BY <2>1, PlacesAreTaken
  <1>2. p \in [1 .. m -> V]
    BY <1>1
  <1>3. p \in Seq(V)
    BY <1>1, <1>2, SeqDef
  <1>4. DOMAIN p = 1 .. m
    BY <1>1
  <1> HIDE DEF p, m
  <1>5. CellsOf(Prefix(p, n)) \subseteq CellsOf(p)
    <2> HIDE DEF V
    <2>1. QED
      BY <1>3, PrefixIsPart
  <1>6. CellsOf(p) \subseteq V
    BY <1>2, <1>4 DEF CellsOf
  <1>7. QED
    BY <1>5, <1>6 DEF p

\* A set of as many tuples as there are numbers of candidates is finite.
LEMMA ImageIsFinite ==
    ASSUME NEW I, IsFiniteSet(I), NEW f, DOMAIN f = I
    PROVE  IsFiniteSet({f[i] : i \in I})
  <1> DEFINE T == {f[i] : i \in I}
             g == [i \in I |-> f[i]]
  <1>1. g \in Surjection(I, T)
    BY DEF Surjection
  <1>2. QED
    BY <1>1, FS_Surjection

LEMMA GridIsFinite == IsFiniteSet(Positions)
  <1> DEFINE R == 0 .. Rows - 1
             C == 0 .. Cols - 1
  <1>1. Rows - 1 \in Int /\ Cols - 1 \in Int /\ 0 \in Int
    BY GridAssumption
  <1>2. IsFiniteSet(R) /\ IsFiniteSet(C)
    BY <1>1, FS_Interval
  <1> HIDE DEF R, C
  <1>3. IsFiniteSet(R \X C)
    BY <1>2, FS_Product
  <1>4. QED
    BY <1>3 DEF Positions, R, C

LEMMA BoundedIsPath ==
    ASSUME NEW q \in Seq(Positions)
    PROVE  Bounded(q) \in Seq(Positions) /\ (q # <<>> => Bounded(q) # <<>>)
  <1>1. Horizon + 1 \in Nat
    BY PlanAssumption
  <1>2. Bounded(q) \in Seq(Positions)
    BY <1>1, PrefixIsPart DEF Bounded
  <1>3. ASSUME q # <<>> PROVE Bounded(q) # <<>>
    <2> DEFINE m == IF Horizon + 1 < Len(q) THEN Horizon + 1 ELSE Len(q)
    <2>1. m \in Nat \ {0} /\ m <= Len(q)
      BY <1>3, PlanAssumption
    <2>2. Bounded(q) = SubSeq(q, 1, m)
      BY DEF Bounded, Prefix
    <2> HIDE DEF m
    <2>3. Len(SubSeq(q, 1, m)) = m
      BY <2>1
    <2>4. QED
      BY <2>1, <2>2, <2>3
  <1>4. QED
    BY <1>2, <1>3

\* The candidates are a sequence, whatever its members are.
LEMMA CandidatesAreListed ==
    ASSUME NEW unknown \in SUBSET Positions, NEW q \in Seq(Positions)
    PROVE  \E V : DecisionCandidates(unknown, q) \in Seq(V)
  <1> DEFINE cells == IF q = <<>> THEN <<>> ELSE Tail(Bounded(q))
             near == {n \in (DOMAIN cells) \X unknown : Manhattan(n[2], cells[n[1]]) <= 1}
             key(n) == <<n[1], Manhattan(n[2], cells[n[1]])>> \o n[2]
             keys == {key(n) : n \in near}
             least == {k \in keys : \A other \in keys :
                            (other[3] = k[3] /\ other[4] = k[4]) => ~Less(other, k)}
             order == Ascending(least)
             V == {<<order[i][3], order[i][4]>> : i \in DOMAIN order}
             p == [i \in DOMAIN order |-> <<order[i][3], order[i][4]>>]
  <1>1. Bounded(q) \in Seq(Positions) /\ (q # <<>> => Bounded(q) # <<>>)
    BY BoundedIsPath
  <1>2. cells \in Seq(Positions)
    BY <1>1
  <1>3. IsFiniteSet(DOMAIN cells)
    <2> HIDE DEF cells
    <2>1. DOMAIN cells = 1 .. Len(cells) /\ 1 \in Int /\ Len(cells) \in Int
      BY <1>2
    <2>2. QED
      BY <2>1, FS_Interval
  <1> HIDE DEF cells
  <1>4. IsFiniteSet(near)
    <2>1. IsFiniteSet(unknown)
      BY GridIsFinite, FS_Subset
    <2>2. IsFiniteSet((DOMAIN cells) \X unknown)
      BY <1>3, <2>1, FS_Product
    <2>3. near \in SUBSET ((DOMAIN cells) \X unknown)
      OBVIOUS
    <2> HIDE DEF near
    <2>4. QED
      BY <2>2, <2>3, FS_Subset
  <1> HIDE DEF near
  <1>5. IsFiniteSet(keys)
    <2> DEFINE f == [n \in near |-> key(n)]
    <2>1. keys = {f[n] : n \in near}
      OBVIOUS
    <2>2. DOMAIN f = near
      OBVIOUS
    <2> HIDE DEF f, keys
    <2>3. QED
      BY <1>4, <2>1, <2>2, ImageIsFinite
  <1> HIDE DEF keys
  <1>6. IsFiniteSet(least)
    BY <1>5, FS_Subset
  <1> HIDE DEF least
  <1>7. Cardinality(least) \in Nat
    BY <1>6, FS_CardinalityType
  <1>8. DOMAIN order = 1 .. Cardinality(least)
    BY DEF Ascending
  <1>9. DecisionCandidates(unknown, q) = p
    BY DEF DecisionCandidates, InfluenceOrder, cells, near, keys, least
  <1> HIDE DEF order
  <1>10. p \in [1 .. Cardinality(least) -> V]
    BY <1>8
  <1>11. p \in Seq(V)
    BY <1>7, <1>10, SeqDef
  <1>12. QED
    BY <1>9, <1>11

LEMMA ProgressIsNumber ==
    ASSUME NEW q \in Seq(Positions), NEW world
    PROVE  SafeProgress(q, world) \in Nat
  <1> DEFINE way == Tail(Bounded(q))
             F == {i - 1 : i \in {j \in DOMAIN way : way[j] \in world}} \cup {Len(way)}
  <1>1. CASE q = <<>>
    BY <1>1 DEF SafeProgress
  <1>2. CASE q # <<>>
    <2>1. way \in Seq(Positions)
      BY <1>2, BoundedIsPath
    <2> HIDE DEF way
    <2>2. F \in SUBSET Nat /\ F # {}
      <3>1. Len(way) \in Nat /\ DOMAIN way = 1 .. Len(way)
        BY <2>1
      <3>2. \A i \in DOMAIN way : i - 1 \in Nat
        BY <3>1
      <3>3. QED
        BY <3>1, <3>2
    <2> HIDE DEF F
    <2>3. \E m \in F : \A n \in F : m <= n
      BY <2>2, LeastNumber
    <2>4. Min(F) \in Nat
      BY <2>2, <2>3 DEF Min
    <2>5. Horizon \in Nat
      BY PlanAssumption
    <2>6. SafeProgress(q, world) = IF q = <<>> THEN 0
                ELSE IF Len(q) - 1 <= Horizon /\ Min(F) = Len(q) - 1 THEN Horizon
                ELSE Min(F)
      BY DEF SafeProgress, F, way
    <2>7. QED
      BY <2>4, <2>5, <2>6
  <1>3. QED
    BY <1>1, <1>2

\* What is summed over the worlds in which a cell is blocked is a number, and it
\* is nothing for a plan that is the old one.
TotalGain(route, base, worlds) ==
    MapThenSumSet(LAMBDA world : Gain(SafeProgress(route, world), SafeProgress(base, world)),
                  worlds)

\* A step repeated from a first value.
Repeats(f, first, next) == f[0] = first /\ \A n \in Nat : f[n + 1] = next[f[n]]

LEMMA RepeatsExist ==
    ASSUME NEW V, NEW first \in V, NEW next \in [V -> V]
    PROVE  \E f \in [Nat -> V] : Repeats(f, first, next)
  BY IterationExists DEF Repeats

LEMMA GainsAddUp ==
    ASSUME NEW W, IsFiniteSet(W), NEW route \in Seq(Positions), NEW base \in Seq(Positions)
    PROVE  /\ TotalGain(route, base, W) \in Nat
           /\ route = base => TotalGain(route, base, W) = 0
  <1> DEFINE gain(w) == Gain(SafeProgress(route, w), SafeProgress(base, w))
             pick(s) == CHOOSE x \in s : TRUE
             Body(f) == [s \in SUBSET W |->
                            IF s = {} THEN 0 ELSE gain(pick(s)) + f[s \ {pick(s)}]]
             V == [SUBSET W -> Nat]
             first == [s \in SUBSET W |-> 0]
             next == [v \in V |-> Body(v)]
  <1>1. \A w : gain(w) \in Nat /\ (route = base => gain(w) = 0)
    <2>1. \A w : SafeProgress(route, w) \in Nat /\ SafeProgress(base, w) \in Nat
      BY ProgressIsNumber
    <2>2. QED
      BY <2>1 DEF Gain
  <1>2. TotalGain(route, base, W) = (CHOOSE f : f = Body(f))[W]
    BY DEF TotalGain, MapThenSumSet, MapThenFoldSet
  <1> HIDE DEF gain
  <1>3. ASSUME NEW s \in SUBSET W
        PROVE  Cardinality(s) \in Nat /\ (s = {} <=> Cardinality(s) = 0)
    BY FS_Subset, FS_CardinalityType, FS_EmptySet
  <1>4. ASSUME NEW s \in SUBSET W, s # {}
        PROVE  /\ pick(s) \in s /\ s \ {pick(s)} \in SUBSET W
               /\ Cardinality(s \ {pick(s)}) = Cardinality(s) - 1
    <2>1. IsFiniteSet(s)
      BY FS_Subset
    <2>2. pick(s) \in s
      BY <1>4
    <2> HIDE DEF pick
    <2>3. Cardinality(s \ {pick(s)}) = Cardinality(s) - 1
      BY <2>1, <2>2, FS_RemoveElement
    <2>4. QED
      BY <2>2, <2>3
  <1> HIDE DEF pick
  <1>5. first \in V /\ next \in [V -> V]
    <2>1. ASSUME NEW v \in V PROVE Body(v) \in V
      <3>1. ASSUME NEW s \in SUBSET W
            PROVE  (IF s = {} THEN 0 ELSE gain(pick(s)) + v[s \ {pick(s)}]) \in Nat
        BY <1>1, <1>4
      <3>2. QED
        BY <3>1
    <2> HIDE DEF Body
    <2>2. QED
      BY <2>1
  <1>6. \E f \in [Nat -> V] : Repeats(f, first, next)
    <2>1. first \in V
      BY <1>5
    <2>2. next \in [V -> V]
      BY <1>5
    <2> HIDE DEF Body, V, first, next
    <2>3. QED
      BY <2>1, <2>2, RepeatsExist
  <1>7. PICK f \in [Nat -> V] : f[0] = first /\ \A n \in Nat : f[n + 1] = next[f[n]]
    <2> HIDE DEF V, first, next
    <2>1. QED
      BY <1>6 DEF Repeats
  <1> DEFINE e == [s \in SUBSET W |-> f[Cardinality(s)][s]]
  <1>8. \A n \in Nat : f[n + 1] = Body(f[n])
    <2> HIDE DEF Body
    <2>1. QED
      BY <1>7
  <1>9. e = Body(e)
    <2>1. ASSUME NEW s \in SUBSET W
          PROVE  e[s] = IF s = {} THEN 0 ELSE gain(pick(s)) + e[s \ {pick(s)}]
      <3>1. CASE s = {}
        <4>1. Cardinality(s) = 0 /\ f[0] = first
          BY <1>3, <1>7, <3>1
        <4>2. QED
          BY <3>1, <4>1
      <3>2. CASE s # {}
        <4> DEFINE k == Cardinality(s) - 1
        <4>1. k \in Nat /\ k + 1 = Cardinality(s) /\ Cardinality(s \ {pick(s)}) = k
              /\ s \ {pick(s)} \in SUBSET W
          <5>1. Cardinality(s) \in Nat /\ Cardinality(s) # 0
            BY <1>3, <3>2
          <5>2. s \ {pick(s)} \in SUBSET W /\ Cardinality(s \ {pick(s)}) = k
            BY <1>4, <3>2
          <5>3. QED
            BY <5>1, <5>2
        <4> HIDE DEF k
        <4>2. f[k + 1] = Body(f[k])
          BY <1>8, <4>1
        <4>3. f[k + 1][s] = gain(pick(s)) + f[k][s \ {pick(s)}]
          BY <3>2, <4>2
        <4>4. e[s] = f[k + 1][s] /\ e[s \ {pick(s)}] = f[k][s \ {pick(s)}]
          BY <4>1
        <4>5. QED
          BY <3>2, <4>3, <4>4
      <3>3. QED
        BY <3>1, <3>2
    <2>2. e = [s \in SUBSET W |-> e[s]]
      OBVIOUS
    <2> HIDE DEF e
    <2>3. QED
      BY <2>1, <2>2
  <1> HIDE DEF e
  <1> DEFINE iter == CHOOSE g : g = Body(g)
  <1>10. iter = Body(iter)
    <2> HIDE DEF Body
    <2>1. QED
      BY <1>9
  <1> HIDE DEF iter
  <1>11. \A s \in SUBSET W :
            iter[s] = IF s = {} THEN 0 ELSE gain(pick(s)) + iter[s \ {pick(s)}]
    BY <1>10
  <1> DEFINE Good(s) == iter[s] \in Nat /\ (route = base => iter[s] = 0)
             S == {n \in Nat : \A s \in SUBSET W : Cardinality(s) = n => Good(s)}
  <1>12. 0 \in S
    BY <1>3, <1>11
  <1>13. ASSUME NEW n \in Nat, n \in S PROVE n + 1 \in S
    <2>1. SUFFICES ASSUME NEW s \in SUBSET W, Cardinality(s) = n + 1 PROVE Good(s)
      OBVIOUS
    <2>2. s # {} /\ s \ {pick(s)} \in SUBSET W /\ Cardinality(s \ {pick(s)}) = n
      <3>1. s # {}
        BY <1>3, <2>1
      <3>2. s \ {pick(s)} \in SUBSET W /\ Cardinality(s \ {pick(s)}) = Cardinality(s) - 1
        BY <1>4, <3>1
      <3>3. QED
        BY <2>1, <3>1, <3>2
    <2>3. Good(s \ {pick(s)})
      BY <1>13, <2>2
    <2>4. iter[s] = gain(pick(s)) + iter[s \ {pick(s)}]
      BY <1>11, <2>2
    <2>5. gain(pick(s)) \in Nat /\ (route = base => gain(pick(s)) = 0)
      BY <1>1
    <2>6. QED
      BY <2>3, <2>4, <2>5
  <1>14. \A n \in Nat : n \in S
    <2> HIDE DEF S
    <2>1. QED
      BY <1>12, <1>13, InductionInSet
  <1>15. W \in SUBSET W /\ Cardinality(W) \in Nat
    BY <1>3
  <1>16. Good(W)
    BY <1>14, <1>15
  <1>17. TotalGain(route, base, W) = iter[W]
    BY <1>2 DEF iter
  <1>18. QED
    BY <1>16, <1>17

\* A cell that is ranked has a positive score.
LEMMA RankedHasGain ==
    ASSUME NEW candidates, NEW m \in Nat, DOMAIN candidates = 1 .. m,
           NEW score \in [1 .. m -> Int]
    PROVE  \A c \in CellsOf(Ranked(candidates, {<<score[i], i>> : i \in DOMAIN candidates})) :
                \E i \in 1 .. m : c = candidates[i] /\ score[i] > 0
  <1> DEFINE scores == {<<score[i], i>> : i \in 1 .. m}
             S == {<<-s[1], s[2]>> : s \in {t \in scores : t[1] > 0}}
  <1>1. \A d \in S : d \in [1 .. 2 -> Int] /\ \E i \in 1 .. m : d = <<-score[i], i>> /\ score[i] > 0
    <2>1. SUFFICES ASSUME NEW s \in scores, s[1] > 0
                   PROVE  /\ <<-s[1], s[2]>> \in [1 .. 2 -> Int]
                          /\ \E i \in 1 .. m : /\ <<-s[1], s[2]>> = <<-score[i], i>>
                                               /\ score[i] > 0
      OBVIOUS
    <2>2. PICK i \in 1 .. m : s = <<score[i], i>>
      OBVIOUS
    <2>3. score[i] \in Int /\ -score[i] \in Int /\ i \in Int
      OBVIOUS
    <2>4. QED
      BY <2>1, <2>2, <2>3
  <1>2. IsFiniteSet(S)
    <2> DEFINE f == [i \in 1 .. m |-> <<-score[i], i>>]
               I == {i \in 1 .. m : score[i] > 0}
               g == [i \in I |-> f[i]]
    <2>1. IsFiniteSet(1 .. m)
      <3>1. 1 \in Int /\ m \in Int
        OBVIOUS
      <3>2. QED
        BY <3>1, FS_Interval
    <2>2. I \in SUBSET (1 .. m)
      OBVIOUS
    <2>3. IsFiniteSet(I)
      <3> HIDE DEF I
      <3>1. QED
        BY <2>1, <2>2, FS_Subset
    <2>4. S \in SUBSET {g[i] : i \in I}
      BY <1>1
    <2>5. DOMAIN g = I
      OBVIOUS
    <2> HIDE DEF g, I, S
    <2>6. IsFiniteSet({g[i] : i \in I})
      BY <2>3, <2>5, ImageIsFinite
    <2>7. QED
      BY <2>4, <2>6, FS_Subset
  <1>3. QueryCap \in Nat
    BY PlanAssumption DEF QueryCap, Smaller
  <1>4. Ranked(candidates, {<<score[i], i>> : i \in DOMAIN candidates})
            = Prefix([i \in DOMAIN Ascending(S) |-> candidates[Ascending(S)[i][2]]], QueryCap)
    BY DEF Ranked
  <1> HIDE DEF S
  <1>5. \A c \in CellsOf(Prefix([i \in DOMAIN Ascending(S) |->
                                        candidates[Ascending(S)[i][2]]], QueryCap)) :
                \E d \in S : c = candidates[d[2]]
    <2>1. S \in SUBSET [1 .. 2 -> Int]
      BY <1>1
    <2>2. QED
      BY <1>2, <1>3, <2>1, PickedIsRanked
  <1>6. ASSUME NEW d \in S PROVE \E i \in 1 .. m : candidates[d[2]] = candidates[i] /\ score[i] > 0
    <2>1. PICK i \in 1 .. m : d = <<-score[i], i>> /\ score[i] > 0
      BY <1>1
    <2>2. d[2] = i
      BY <2>1
    <2>3. QED
      BY <2>1, <2>2
  <1>7. QED
    BY <1>4, <1>5, <1>6

\* Blocking a cell off the path of A* is no counterfactual at all.
LEMMA OffPathCounterfactual ==
    ASSUME NEW blocked, NEW start \in Positions, NEW goal \in Positions,
           NEW x, x \notin CellsOf(AStarPath(blocked, start, goal))
    PROVE  BlockedPath(blocked, x, start, goal) = Bounded(AStarPath(blocked, start, goal))
  <1>1. ~Passes(AStarPath(blocked, start, goal), x)
    BY DEF Passes, CellsOf
  <1>2. AStarPath(blocked \cup {x}, start, goal) = AStarPath(blocked, start, goal)
    BY <1>1, OffPathIsIrrelevant
  <1>3. QED
    BY <1>2 DEF BlockedPath

LEMMA AStarPathIsPath ==
    ASSUME NEW blocked, NEW start \in Positions, NEW goal \in Positions
    PROVE  AStarPath(blocked, start, goal) \in Seq(Positions)
  BY AStarIsShortest, BestPathIsPath

LEMMA NeverDiverges ==
    ASSUME NEW q
    PROVE  FirstDivergence(q, q) = Inf
  <1>1. Min({Inf}) = Inf
    BY InfIsPositive DEF Min
  <1>2. \A first, last : {k \in first .. last :
                After(q, first, k + 1) # After(q, first, k + 1)} = {}
    OBVIOUS
  <1>3. \A origin, last : {k \in 0 .. last :
                After(q, origin, k + 1) # After(q, origin, k + 1)} \cup {Inf} = {Inf}
    OBVIOUS
  <1>4. QED
    BY <1>1, <1>3 DEF FirstDivergence

LEMMA SensitivityOnPath ==
    ASSUME NEW unknown \in SUBSET Positions, NEW blocked,
           NEW start \in Positions, NEW goal \in Positions,
           NEW q, q = AStarPath(blocked, start, goal)
    PROVE  CellsOf(SingleCellSensitivity(unknown, blocked, q, start, goal)) \subseteq CellsOf(q)
  <1> DEFINE all == DecisionCandidates(unknown, q)
             candidates == Prefix(all, QueryCap)
             parts(i) == FirstDivergence(Bounded(q),
                            BlockedPath(blocked, candidates[i], start, goal))
             diverges == {<<parts(i), i>> : i \in DOMAIN candidates}
             S == {d \in diverges : d[1] \in RoundTrip .. Inf - 1}
  <1>1. QueryCap \in Nat /\ Inf \in Nat /\ RoundTrip \in Nat
    BY PlanAssumption, InfIsPositive DEF QueryCap, Smaller
  <1>2. q \in Seq(Positions)
    BY AStarPathIsPath
  <1>3. PICK V : all \in Seq(V)
    BY <1>2, CandidatesAreListed
  <1>4. candidates \in Seq(V)
    <2> HIDE DEF all
    <2>1. QED
      BY <1>1, <1>3, PrefixIsPart
  <1>5. Len(candidates) \in Nat /\ DOMAIN candidates = 1 .. Len(candidates)
    BY <1>4
  <1>6. SingleCellSensitivity(unknown, blocked, q, start, goal)
            = Prefix([i \in DOMAIN Ascending(S) |-> candidates[Ascending(S)[i][2]]], QueryCap)
    BY DEF SingleCellSensitivity
  <1> HIDE DEF candidates
  <1>7. \A d \in S : \E i \in DOMAIN candidates : d = <<parts(i), i>> /\ parts(i) # Inf
    BY <1>1
  <1>8. S \in SUBSET [1 .. 2 -> Int]
    <2>1. ASSUME NEW d \in S PROVE d \in [1 .. 2 -> Int]
      <3>1. PICK i \in DOMAIN candidates : d = <<parts(i), i>>
        BY <1>7
      <3>2. d[1] \in Int /\ i \in Int
        BY <1>1, <1>5
      <3> HIDE DEF parts
      <3>3. QED
        BY <3>1, <3>2
    <2>2. QED
      BY <2>1
  <1>9. IsFiniteSet(S)
    <2> DEFINE f == [i \in DOMAIN candidates |-> <<parts(i), i>>]
    <2>1. IsFiniteSet(DOMAIN candidates)
      <3>1. 1 \in Int /\ Len(candidates) \in Int
        BY <1>5
      <3>2. QED
        BY <1>5, <3>1, FS_Interval
    <2>2. diverges = {f[i] : i \in DOMAIN candidates} /\ DOMAIN f = DOMAIN candidates
      OBVIOUS
    <2>3. S \in SUBSET diverges
      OBVIOUS
    <2> HIDE DEF f, diverges, S
    <2>4. IsFiniteSet(diverges)
      BY <2>1, <2>2, ImageIsFinite
    <2>5. QED
      BY <2>3, <2>4, FS_Subset
  <1>10. \A c \in CellsOf(Prefix([i \in DOMAIN Ascending(S) |->
                                        candidates[Ascending(S)[i][2]]], QueryCap)) :
                \E d \in S : c = candidates[d[2]]
    <2> HIDE DEF S
    <2>1. QED
      BY <1>1, <1>8, <1>9, PickedIsRanked
  <1>11. ASSUME NEW d \in S PROVE candidates[d[2]] \in CellsOf(q)
    <2>1. PICK i \in DOMAIN candidates : d = <<parts(i), i>> /\ parts(i) # Inf
      BY <1>7
    <2>2. SUFFICES ASSUME candidates[i] \notin CellsOf(q) PROVE FALSE
      BY <2>1
    <2>3. BlockedPath(blocked, candidates[i], start, goal) = Bounded(q)
      BY <2>2, OffPathCounterfactual
    <2>4. FirstDivergence(Bounded(q), Bounded(q)) = Inf
      BY NeverDiverges
    <2>5. QED
      BY <2>1, <2>3, <2>4
  <1> HIDE DEF S
  <1>12. QED
    BY <1>6, <1>10, <1>11

LEMMA ExternalCandidatesAreListed ==
    ASSUME NEW unknown \in SUBSET Positions, NEW q \in Seq(Positions)
    PROVE  LET candidates == ExternalCandidates(unknown, q)
           IN  Len(candidates) \in Nat /\ DOMAIN candidates = 1 .. Len(candidates)
  <1> DEFINE all == DecisionCandidates(unknown, q)
             most == QueryCap * Multiplier
  <1>1. most \in Nat
    <2>1. QueryCap \in Nat /\ Multiplier \in Nat
      BY PlanAssumption DEF QueryCap, Smaller
    <2>2. \A a, b \in Nat : a * b \in Nat
      OBVIOUS
    <2>3. QED
      BY <2>1, <2>2
  <1>2. PICK V : all \in Seq(V)
    BY CandidatesAreListed
  <1>3. ExternalCandidates(unknown, q) = Prefix(all, most)
    BY DEF ExternalCandidates
  <1> HIDE DEF all, most
  <1>4. Prefix(all, most) \in Seq(V)
    BY <1>1, <1>2, PrefixIsPart
  <1>5. QED
    BY <1>3, <1>4

LEMMA CounterfactualIsPath ==
    ASSUME NEW blocked, NEW start \in Positions, NEW goal \in Positions, NEW x
    PROVE  BlockedPath(blocked, x, start, goal) \in Seq(Positions)
  <1>1. AStarPath(blocked \cup {x}, start, goal) \in Seq(Positions)
    BY AStarPathIsPath
  <1>2. QED
    BY <1>1, BoundedIsPath DEF BlockedPath

\* What is ranked by a score that is nothing for cells off a path is on it.
LEMMA RankedOnPath ==
    ASSUME NEW candidates, NEW m \in Nat, DOMAIN candidates = 1 .. m,
           NEW score \in [1 .. m -> Int], NEW q,
           \A i \in 1 .. m : candidates[i] \notin CellsOf(q) => score[i] = 0
    PROVE  CellsOf(Ranked(candidates, {<<score[i], i>> : i \in DOMAIN candidates}))
                \subseteq CellsOf(q)
  <1>1. \A c \in CellsOf(Ranked(candidates, {<<score[i], i>> : i \in DOMAIN candidates})) :
                \E i \in 1 .. m : c = candidates[i] /\ score[i] > 0
    BY RankedHasGain
  <1>2. QED
    BY <1>1

LEMMA VoiOnPath ==
    ASSUME NEW unknown \in SUBSET Positions, NEW blocked,
           NEW start \in Positions, NEW goal \in Positions,
           NEW q, q = AStarPath(blocked, start, goal)
    PROVE  CellsOf(VoiPerByte(unknown, blocked, q, start, goal)) \subseteq CellsOf(q)
  <1> DEFINE candidates == ExternalCandidates(unknown, q)
             m == Len(candidates)
             informed(i) == BlockedPath(blocked, candidates[i], start, goal)
             gain(i) == Gain(SafeProgress(informed(i), {candidates[i]}),
                             SafeProgress(Bounded(q), {candidates[i]}))
             score == [i \in 1 .. m |-> gain(i)]
  <1>1. q \in Seq(Positions)
    BY AStarPathIsPath
  <1>2. Bounded(q) \in Seq(Positions)
    BY <1>1, BoundedIsPath
  <1>3. m \in Nat /\ DOMAIN candidates = 1 .. m
    BY <1>1, ExternalCandidatesAreListed
  <1>4. VoiPerByte(unknown, blocked, q, start, goal)
            = Ranked(candidates, {<<score[i], i>> : i \in DOMAIN candidates})
    <2>1. \A i \in DOMAIN candidates : score[i] = gain(i)
      BY <1>3
    <2>2. {<<score[i], i>> : i \in DOMAIN candidates} = {<<gain(i), i>> : i \in DOMAIN candidates}
      BY <2>1
    <2>3. QED
      BY <2>2 DEF VoiPerByte
  <1> HIDE DEF candidates, m
  <1>5. \A i \in 1 .. m : gain(i) \in Int /\ (candidates[i] \notin CellsOf(q) => gain(i) = 0)
    <2>1. SUFFICES ASSUME NEW i \in 1 .. m
                   PROVE  /\ gain(i) \in Int
                          /\ candidates[i] \notin CellsOf(q) => gain(i) = 0
      OBVIOUS
    <2>2. informed(i) \in Seq(Positions)
      BY CounterfactualIsPath
    <2>3. candidates[i] \notin CellsOf(q) => informed(i) = Bounded(q)
      BY OffPathCounterfactual
    <2> HIDE DEF informed
    <2>4. /\ SafeProgress(informed(i), {candidates[i]}) \in Nat
          /\ SafeProgress(Bounded(q), {candidates[i]}) \in Nat
      BY <1>2, <2>2, ProgressIsNumber
    <2>5. QED
      BY <2>3, <2>4 DEF Gain
  <1> HIDE DEF gain
  <1>6. /\ score \in [1 .. m -> Int]
        /\ \A i \in 1 .. m : candidates[i] \notin CellsOf(q) => score[i] = 0
    BY <1>5
  <1> HIDE DEF score
  <1>7. CellsOf(Ranked(candidates, {<<score[i], i>> : i \in DOMAIN candidates}))
            \subseteq CellsOf(q)
    BY <1>3, <1>6, RankedOnPath
  <1>8. QED
    BY <1>4, <1>7

LEMMA OcbcOnPath ==
    ASSUME NEW unknown \in SUBSET Positions, NEW blocked,
           NEW start \in Positions, NEW goal \in Positions,
           NEW q, q = AStarPath(blocked, start, goal),
           NEW worlds, IsFiniteSet(worlds)
    PROVE  CellsOf(OcbcForwardSimulation(unknown, blocked, q, start, goal, worlds))
                \subseteq CellsOf(q)
  <1> DEFINE candidates == ExternalCandidates(unknown, q)
             m == Len(candidates)
             informed(i) == BlockedPath(blocked, candidates[i], start, goal)
             concerned(i) == {world \in worlds : candidates[i] \in world}
             gain(i) == TotalGain(informed(i), Bounded(q), concerned(i))
             score == [i \in 1 .. m |-> gain(i)]
  <1>1. q \in Seq(Positions)
    BY AStarPathIsPath
  <1>2. Bounded(q) \in Seq(Positions)
    BY <1>1, BoundedIsPath
  <1>3. m \in Nat /\ DOMAIN candidates = 1 .. m
    BY <1>1, ExternalCandidatesAreListed
  <1>4. OcbcForwardSimulation(unknown, blocked, q, start, goal, worlds)
            = Ranked(candidates, {<<score[i], i>> : i \in DOMAIN candidates})
    <2>1. \A i \in DOMAIN candidates : score[i] = gain(i)
      BY <1>3
    <2>2. {<<score[i], i>> : i \in DOMAIN candidates} = {<<gain(i), i>> : i \in DOMAIN candidates}
      BY <2>1
    <2>3. QED
      BY <2>2 DEF OcbcForwardSimulation, TotalGain
  <1> HIDE DEF candidates, m
  <1>5. \A i \in 1 .. m : gain(i) \in Int /\ (candidates[i] \notin CellsOf(q) => gain(i) = 0)
    <2>1. SUFFICES ASSUME NEW i \in 1 .. m
                   PROVE  /\ gain(i) \in Int
                          /\ candidates[i] \notin CellsOf(q) => gain(i) = 0
      OBVIOUS
    <2>2. informed(i) \in Seq(Positions)
      BY CounterfactualIsPath
    <2>3. candidates[i] \notin CellsOf(q) => informed(i) = Bounded(q)
      BY OffPathCounterfactual
    <2>4. IsFiniteSet(concerned(i))
      BY FS_Subset
    <2> HIDE DEF informed, concerned
    <2>5. /\ TotalGain(informed(i), Bounded(q), concerned(i)) \in Nat
          /\ informed(i) = Bounded(q) => TotalGain(informed(i), Bounded(q), concerned(i)) = 0
      BY <1>2, <2>2, <2>4, GainsAddUp
    <2>6. QED
      BY <2>3, <2>5
  <1> HIDE DEF gain
  <1>6. /\ score \in [1 .. m -> Int]
        /\ \A i \in 1 .. m : candidates[i] \notin CellsOf(q) => score[i] = 0
    BY <1>5
  <1> HIDE DEF score
  <1>7. CellsOf(Ranked(candidates, {<<score[i], i>> : i \in DOMAIN candidates}))
            \subseteq CellsOf(q)
    BY <1>3, <1>6, RankedOnPath
  <1>8. QED
    BY <1>4, <1>7

-----------------------------------------------------------------------------
\* Between the second plan of a step and the move the path is the one A* finds
\* on the map as it still is.
AskInv ==
    phase = "planned" /\ planner = "astar" =>
        path = AStarPath(PlanningMap("optimistic"), position, Goal)

LEMMA AskInvariant == Spec => []AskInv
  <1>1. Init => AskInv
    BY DEF Init, AskInv
  <1>2. ASSUME AskInv, [Next]_vars PROVE AskInv'
    <2>1. ASSUME NEW arrived \in SUBSET newer, NEW fresh \in SUBSET (TeamCells \ spotted),
                 ArriveAndSense(arrived, fresh)
          PROVE  AskInv'
      BY <2>1 DEF ArriveAndSense, AskInv
    <2>2. ASSUME StartFirstPlan PROVE AskInv'
      BY <2>2 DEF StartFirstPlan, AskInv
    <2>3. ASSUME Search PROVE AskInv'
      BY <2>3 DEF Search, AskInv
    <2>4. ASSUME FirstPlan PROVE AskInv'
      BY <2>4 DEF FirstPlan, AskInv
    <2>5. ASSUME Query PROVE AskInv'
      BY <2>5 DEF Query, AskInv
    <2>6. ASSUME NEW arrived \in SUBSET newer, SettleAndPlan(arrived) PROVE AskInv'
      BY <2>6 DEF SettleAndPlan, AskInv
    <2>7. ASSUME SecondPlan PROVE AskInv'
      <3>1. /\ planner = "astar" =>
                    path' = AStarPath(PlanningMap("optimistic"), position, Goal)
            /\ UNCHANGED <<known, truth, position, planner>>
        BY <2>7 DEF SecondPlan, Planned
      <3>2. PlanningMap("optimistic")' = PlanningMap("optimistic")
        BY <3>1 DEF PlanningMap
      <3>3. QED
        BY <3>1, <3>2 DEF AskInv
    <2>8. ASSUME NEW refused \in BOOLEAN, NEW others \in BOOLEAN, Act(refused, others)
          PROVE  AskInv'
      BY <2>8 DEF Act, AskInv
    <2>9. ASSUME UNCHANGED vars PROVE AskInv'
      <3>1. UNCHANGED <<phase, planner, path, known, truth, position>>
        BY <2>9 DEF vars
      <3>2. PlanningMap("optimistic")' = PlanningMap("optimistic")
        BY <3>1 DEF PlanningMap
      <3>3. QED
        BY <1>2, <3>1, <3>2 DEF AskInv
    <2>10. QED
      BY <1>2, <2>1, <2>2, <2>3, <2>4, <2>5, <2>6, <2>7, <2>8, <2>9 DEF Next, Over
  <1>3. QED
    BY <1>1, <1>2, PTL DEF Spec

\* Whatever a robot with A* knows and wherever it stands, each of the three
\* planners that plan again with one more cell blocked asks only for cells of
\* the robot's own path, whatever the sizes of the grid, horizon and messages:
\* the plan for any other cell is the same, and so its divergence is none and
\* its gain is nothing.
THEOREM AllAsksAreOnPath == Spec => []AsksOnPath
  <1>1. LoopInv /\ AskInv => AsksOnPath
    <2>1. SUFFICES ASSUME LoopInv, AskInv, phase = "planned", planner = "astar"
                   PROVE  LET blocked == known \cap truth
                              worlds == {Unknown, Unknown \cap Doubtful, Unknown \cap truth}
                          IN  /\ CellsOf(SingleCellSensitivity(
                                        Unknown, blocked, path, position, Goal))
                                    \subseteq CellsOf(path)
                              /\ CellsOf(VoiPerByte(Unknown, blocked, path, position, Goal))
                                    \subseteq CellsOf(path)
                              /\ CellsOf(OcbcForwardSimulation(
                                        Unknown, blocked, path, position, Goal, worlds))
                                    \subseteq CellsOf(path)
      BY DEF AsksOnPath
    <2> DEFINE blocked == known \cap truth
               worlds == {Unknown, Unknown \cap Doubtful, Unknown \cap truth}
    <2>2. path = AStarPath(blocked, position, Goal)
      BY <2>1 DEF AskInv, PlanningMap
    <2>3. position \in Positions /\ Goal \in Positions
      BY <2>1, AssumedPositions DEF LoopInv, MapsInv
    <2>4. Unknown \in SUBSET Positions
      BY DEF Unknown
    <2>5. IsFiniteSet(worlds)
      <3>1. IsFiniteSet({Unknown})
        BY FS_Singleton
      <3>2. IsFiniteSet({Unknown} \cup {Unknown \cap Doubtful})
        BY <3>1, FS_AddElement
      <3>3. IsFiniteSet(({Unknown} \cup {Unknown \cap Doubtful}) \cup {Unknown \cap truth})
        BY <3>2, FS_AddElement
      <3>4. worlds = ({Unknown} \cup {Unknown \cap Doubtful}) \cup {Unknown \cap truth}
        OBVIOUS
      <3>5. QED
        BY <3>3, <3>4
    <2> HIDE DEF blocked, worlds
    <2>6. CellsOf(SingleCellSensitivity(Unknown, blocked, path, position, Goal))
                \subseteq CellsOf(path)
      BY <2>2, <2>3, <2>4, SensitivityOnPath
    <2>7. CellsOf(VoiPerByte(Unknown, blocked, path, position, Goal)) \subseteq CellsOf(path)
      BY <2>2, <2>3, <2>4, VoiOnPath
    <2>8. CellsOf(OcbcForwardSimulation(Unknown, blocked, path, position, Goal, worlds))
                \subseteq CellsOf(path)
      BY <2>2, <2>3, <2>4, <2>5, OcbcOnPath
    <2>9. QED
      BY <2>6, <2>7, <2>8 DEF blocked, worlds
  <1>2. QED
    BY <1>1, LoopInvariant, AskInvariant, PTL

=============================================================================
