------------------------------ MODULE ClosedLoop ------------------------------
(***************************************************************************)
(* An episode as one robot lives it: updates arrive, it looks around,      *)
(* plans, asks its teammates, takes what else has arrived, plans again and *)
(* moves.  Its team-mates are what they mean to it: the cells they hold a  *)
(* newer stamp of, any of which may arrive in any drain (a delta or a      *)
(* patch) or never.  The obstacle map does not change and every cell has   *)
(* one version, so that an update only ever adds a cell to what is known.  *)
(*                                                                         *)
(* plan is not interleaved with anything, but its search is one action per *)
(* iteration, to be able to talk about it while it runs.                   *)
(***************************************************************************)
EXTENDS RepairPlans, DStarLite

CONSTANTS
    Start, Goal,
    Walls,           \* cells blocked in every map considered
    Doubtful,        \* cells that may be blocked
    TeamCells,       \* cells teammates may see
    SensorRadius,    \* observation_radius
    Delay,           \* delay_steps
    RepairInterval,  \* repair_interval_steps
    TeamAt,          \* [robots -> Positions], of whom 0 is this one, at first
    PeerLimit,       \* max_digest_peers
    MaxSteps,        \* max_episode_steps
    MaxJams,         \* model bound: how often another robot is in the way
    PlannerNames     \* the values of `planner' under study

ASSUME EpisodeAssumption ==
    /\ {Start, Goal} \subseteq Positions \ (Walls \cup Doubtful)
    /\ Walls \cup Doubtful \cup TeamCells \subseteq Positions
    /\ Delay \in Nat /\ RoundTrip = 2 * Delay
    /\ {SensorRadius, RepairInterval, PeerLimit, MaxSteps} \subseteq Nat \ {0}
    /\ \E last \in DOMAIN TeamAt : TeamAt \in [0 .. last -> Positions]
    /\ MaxJams \in Nat
    /\ PlannerNames \subseteq {"astar", "dstar_lite"}

None == -1

VARIABLES
    truth,     \* the blocked cells of the instance
    known,     \* the cells this robot's replica holds
    spotted,   \* the cells teammates have seen
    newer,     \* the cells of which some teammate holds a newer stamp
    position,
    step,
    phase,     \* where in the body of the loop the runner is
    planner,   \* the name the runner was made with
    planners,  \* the robot's optimistic and pessimistic D* Lite planners
    path,      \* the optimistic path of the last plan
    awaited,   \* history: the first unknown cell of each query under way
    since,     \* active_repair_start
    recovered, \* the sum of recovery_latencies
    erroneous, \* history: the steps in which the path's replica was behind
    completed,
    jams       \* history: moves the environment has refused

vars == <<truth, known, spotted, newer, position, step, phase, planner, planners, path,
          awaited, since, recovered, erroneous, completed, jams>>

Kinds == {"optimistic", "pessimistic"}

Unknown == Positions \ known

\* to_planning_map of the two adapters.
PlanningMap(kind) ==
    IF kind = "optimistic" THEN known \cap truth ELSE (known \cap truth) \cup Unknown

\* Mutant of Window: the outermost ring is left out.
InnerWindow(at) ==
    {c \in Positions : Abs(c[1] - at[1]) < SensorRadius /\ Abs(c[2] - at[2]) < SensorRadius}

\* _sensor_contains: what a sensor at a position shows.
Window(at) ==
    {c \in Positions : Abs(c[1] - at[1]) <= SensorRadius /\ Abs(c[2] - at[2]) <= SensorRadius}

Init ==
    /\ \E blocked \in SUBSET Doubtful : truth = Walls \cup blocked
    /\ known = {} /\ spotted = {} /\ newer = {}
    /\ position = Start
    /\ step = 0
    /\ phase = "arrivals"
    /\ planner \in PlannerNames
    /\ planners = [kind \in Kinds |-> Unplanned]
    /\ path = <<>>
    /\ awaited = {}
    /\ since = None /\ recovered = 0 /\ erroneous = 0
    /\ completed = FALSE
    /\ jams = 0

-----------------------------------------------------------------------------
\* The start of a call of a planner, up to its search.
Call(kind, grid) ==
    planners' = IF planner = "dstar_lite"
        THEN [planners EXCEPT ![kind] = Called(@, grid, position, Goal)]
        ELSE planners

\* Whether the search of the call under way has another iteration.
Searching(kind) ==
    /\ planner = "dstar_lite"
    /\ ~Fails(PlanningMap(kind), position, Goal) /\ position # Goal
    /\ Unfinished(planners[kind])

\* The path the call returns.
Planned(kind) ==
    IF planner = "astar" THEN AStarPath(PlanningMap(kind), position, Goal)
    ELSE IF Fails(PlanningMap(kind), position, Goal) THEN <<>>
    ELSE IF position = Goal THEN <<position>>
    ELSE ExtractedPath(planners[kind])

KindOf == IF phase = "cautious" THEN "pessimistic" ELSE "optimistic"

\* One iteration of _compute_shortest_path.
Search ==
    /\ phase \in {"first_plan", "cautious", "second_plan"}
    /\ Searching(KindOf)
    /\ planners' = [planners EXCEPT ![KindOf] = Iterated(@)]
    /\ UNCHANGED <<truth, known, spotted, newer, position, step, phase, planner, path,
                   awaited, since, recovered, erroneous, completed, jams>>

-----------------------------------------------------------------------------
\* _drain_arrivals at the start of a step, then the observations of all robots:
\* an own one is newer than what teammates hold, unless they see the cell now.
ArriveAndSense(arrived, fresh) ==
    LET held == known \cup arrived
        seen == Window(position) \ held
    IN  /\ phase = "arrivals"
        /\ known' = held \cup seen
        /\ spotted' = spotted \cup fresh
        /\ newer' = ((newer \ arrived) \ seen) \cup fresh
        /\ phase' = "sensed"
        /\ UNCHANGED <<truth, position, step, planner, planners, path,
                       awaited, since, recovered, erroneous, completed, jams>>

\* The first _paths of a step.
StartFirstPlan ==
    /\ phase = "sensed"
    /\ Call("optimistic", PlanningMap("optimistic"))
    /\ phase' = "first_plan"
    /\ UNCHANGED <<truth, known, spotted, newer, position, step, planner, path,
                   awaited, since, recovered, erroneous, completed, jams>>

\* The path is there; in a repair step the deadline planner also plans on the
\* pessimistic map.
FirstPlan ==
    /\ phase = "first_plan"
    /\ ~Searching("optimistic")
    /\ path' = Planned("optimistic")
    /\ IF step % RepairInterval = 0
       THEN Call("pessimistic", PlanningMap("pessimistic")) /\ phase' = "cautious"
       ELSE UNCHANGED planners /\ phase' = "dispatched"
    /\ UNCHANGED <<truth, known, spotted, newer, position, step, planner, awaited,
                   since, recovered, erroneous, completed, jams>>

\* _deadline_plan and the query it leads to.
Query ==
    /\ phase = "cautious"
    /\ ~Searching("pessimistic")
    /\ awaited' = IF DeadlineCells(Unknown, path, Planned("pessimistic")) = <<>>
            THEN awaited
            ELSE awaited \cup {[cell |-> path[FirstUnknown(Unknown, path) + 1],
                                left |-> RoundTrip]}
    /\ phase' = "dispatched"
    /\ UNCHANGED <<truth, known, spotted, newer, position, step, planner, planners, path,
                   since, recovered, erroneous, completed, jams>>

\* The second drain of a step and the second _paths.
SettleAndPlan(arrived) ==
    /\ phase = "dispatched"
    /\ known' = known \cup arrived
    /\ newer' = newer \ arrived
    /\ Call("optimistic", (known \cup arrived) \cap truth)
    /\ phase' = "second_plan"
    /\ UNCHANGED <<truth, spotted, position, step, planner, path, awaited,
                   since, recovered, erroneous, completed, jams>>

SecondPlan ==
    /\ phase = "second_plan"
    /\ ~Searching("optimistic")
    /\ path' = Planned("optimistic")
    /\ phase' = "planned"
    /\ UNCHANGED <<truth, known, spotted, newer, position, step, planner, planners,
                   awaited, since, recovered, erroneous, completed, jams>>

-----------------------------------------------------------------------------
\* _path_errors: whether some teammate holds a newer stamp of a cell of the
\* corridor of the path.
Behind == Corridor(path) \cap newer # {}

\* Mutant of Measured: a repair that has begun is never closed.
MeasuredOpen ==
    /\ erroneous' = IF Behind THEN erroneous + 1 ELSE erroneous
    /\ IF Behind /\ since = None
       THEN since' = step /\ UNCHANGED recovered
       ELSE IF ~Behind /\ since # None
       THEN recovered' = recovered + (step - since) /\ UNCHANGED since
       ELSE UNCHANGED <<since, recovered>>

\* The bookkeeping of recovery latencies.
Measured ==
    /\ erroneous' = IF Behind THEN erroneous + 1 ELSE erroneous
    /\ IF Behind /\ since = None
       THEN since' = step /\ UNCHANGED recovered
       ELSE IF ~Behind /\ since # None
       THEN recovered' = recovered + (step - since) /\ since' = None
       ELSE UNCHANGED <<since, recovered>>

\* What the environment makes of a move: a robot never enters an obstacle, and
\* may be refused a free cell by another robot.
Target == IF completed THEN position ELSE NextOn(path, position)

\* The end of a step.  The episode ends at its horizon, or when all robots have
\* completed; whether the others have is not modelled.
Act(refused, others) ==
    /\ phase = "planned"
    /\ Measured
    /\ refused => Target # position /\ jams < MaxJams
    /\ jams' = IF refused THEN jams + 1 ELSE jams
    /\ position' = IF refused \/ Target \in truth THEN position ELSE Target
    /\ completed' = (completed \/ position' = Goal)
    /\ step' = step + 1
    /\ awaited' = {[a EXCEPT !.left = @ - 1] : a \in {b \in awaited : b.left > 0}}
    /\ phase' = IF step + 1 = MaxSteps \/ (completed' /\ others) THEN "over" ELSE "arrivals"
    /\ UNCHANGED <<truth, known, spotted, newer, planner, planners, path>>

\* The episode is over; nothing more happens.
Over == phase = "over" /\ UNCHANGED vars

Next ==
    \/ \E arrived \in SUBSET newer, fresh \in SUBSET (TeamCells \ spotted) :
            ArriveAndSense(arrived, fresh)
    \/ StartFirstPlan
    \/ Search
    \/ FirstPlan
    \/ Query
    \/ \E arrived \in SUBSET newer : SettleAndPlan(arrived)
    \/ SecondPlan
    \/ \E refused, others \in BOOLEAN : Act(refused, others)
    \/ Over

\* The runner is one sequential program and runs on until the episode is over:
\* weak fairness of Next, whose ENABLED is this, as TLC finds no deadlock.
RunsOn == <>[](phase = "over") \/ []<><<TRUE>>_vars

Spec == Init /\ [][Next]_vars /\ RunsOn

-----------------------------------------------------------------------------
\* Every variable has its type, and no robot ever tries to enter an obstacle:
\* what its plan leads through next has been seen before the plan was made.
TypeOK ==
    /\ known \subseteq Positions
    /\ newer \subseteq spotted /\ spotted \subseteq TeamCells
    /\ position \in Positions \ truth
    /\ step \in 0 .. MaxSteps
    /\ phase \in {"arrivals", "sensed", "first_plan", "cautious", "dispatched",
                  "second_plan", "planned", "over"}
    /\ CellsOf(path) \subseteq Positions
    /\ phase = "planned" => Target \notin truth
    /\ since \in None .. MaxSteps
    /\ recovered \in 0 .. MaxSteps /\ erroneous \in 0 .. MaxSteps
    /\ jams \in 0 .. MaxJams

\* Whatever has moved and changed between two calls, between any two iterations
\* of a D* Lite search the queue holds exactly the cells whose g and rhs differ,
\* every rhs is what the neighbours and the map say, and no cell is queued
\* later than its key: the assumptions under which the loop may stop where it
\* does, over planners that live for a whole episode.
SearchConsistent ==
    planner = "dstar_lite" => \A kind \in Kinds :
        LET p == planners[kind]
        IN  p.ready =>
            /\ \A c \in Positions : p.rhs[c] = OneStepLookahead(p, c)
            /\ DOMAIN p.queued = {c \in Positions : p.g[c] # p.rhs[c]}
            /\ \A c \in DOMAIN p.queued : ~Less(CalculateKey(p, c), p.queued[c])

Shortest(route, blocked) ==
    IF Reachable(position, Goal, blocked)
    THEN /\ ValidPath(route, position, Goal, blocked)
         /\ Len(route) = Distance(position, Goal, blocked) + 1
    ELSE route = <<>>

\* Both planners, on both readings of the map and in every call of an episode,
\* find a path exactly when there is one, and none is shorter.
PathsAreShortest ==
    /\ phase \in {"dispatched", "cautious", "planned"} =>
            Shortest(path, PlanningMap("optimistic"))
    /\ phase = "cautious" /\ ~Searching("pessimistic") =>
            Shortest(Planned("pessimistic"), PlanningMap("pessimistic"))

\* What the slack of _deadline_plan promises: when the answer to a query can
\* first be there, the robot does not yet stand on the unknown cell that made
\* it ask, however it has planned and moved since.
AnswerBeforeEntry == \A a \in awaited : position # a.cell

\* The planners that weigh a cell by what a robot would do if it were blocked
\* ask for cells of the robot's own path only, as long as it plans with A*:
\* blocking a cell off the path does not change the path A* returns, not even
\* among paths of equal length.
AsksOnPath ==
    phase = "planned" /\ planner = "astar" =>
        LET blocked == known \cap truth
            worlds == {Unknown, Unknown \cap Doubtful, Unknown \cap truth}
        IN  /\ CellsOf(SingleCellSensitivity(Unknown, blocked, path, position, Goal))
                    \subseteq CellsOf(path)
            /\ CellsOf(VoiPerByte(Unknown, blocked, path, position, Goal))
                    \subseteq CellsOf(path)
            /\ CellsOf(OcbcForwardSimulation(Unknown, blocked, path, position, Goal, worlds))
                    \subseteq CellsOf(path)

\* The next n rounds in which a repair is sent.
Rounds(n) == {(step \div RepairInterval) + k : k \in 0 .. n - 1}

\* Two rotations, of m and of n turns, that one round number leads repeat
\* together too early to meet in every combination of turns.
InLockStep(m, n) == \E k \in 1 .. (m * n) - 1 : k % m = 0 /\ k % n = 0

\* No bounded rotation leaves anyone or anything out, wherever in it the robot
\* starts: among teammates equally near each is asked in one of as many rounds
\* as there are robots, and in as many rounds as there are chunks the chunks
\* hold the whole replica.  Teammates and chunks rotate with one round number;
\* unless that keeps them in lock step, each of those teammates is asked about
\* each cell as well.
RotationsComplete ==
    phase = "sensed" =>
        LET at == [TeamAt EXCEPT ![0] = position]
            team == Cardinality(DOMAIN at)
            nearest == {p \in DOMAIN at \ {0} : \A q \in DOMAIN at \ {0} :
                            Manhattan(at[p], position) <= Manhattan(at[q], position)}
        IN  /\ \A p \in nearest : \E r \in Rounds(team) :
                    p \in CellsOf(OrderedDigestPeers(0, at, r, PeerLimit))
            /\ DigestCells >= 1 =>
                    \A c \in Positions : \E r \in Rounds(Chunks) : c \in FullReplicaChunk(r)
            /\ (DigestCells >= 1 /\ ~InLockStep(team, Chunks)) =>
                    \A p \in nearest, c \in Positions : \E r \in Rounds(team * Chunks) :
                        /\ p \in CellsOf(OrderedDigestPeers(0, at, r, PeerLimit))
                        /\ c \in FullReplicaChunk(r)

\* The recorded recovery latencies and the one still open are exactly the steps
\* in which the corridor was behind the team, although the corridor measured
\* moves with the robot and with every plan.
LatenciesAccountForErrors ==
    erroneous = recovered + (IF since = None THEN 0 ELSE step - since)

\* Every search ends, and a robot whose goal can be reached gets there, whatever
\* it learns from its teammates and when: each plan is at worst a step into
\* what turns out to be a dead end.
ReachesGoal ==
    <>(phase = "over" /\ (Reachable(Start, Goal, truth) => completed))

=============================================================================
