---------------------------- MODULE CriticalTasks ----------------------------
(***************************************************************************)
(* The hand-made tasks on maps of their own sizes: whether the decision    *)
(* each family is made for is one.  Their maps have sides of their own, so *)
(* the module is kept apart from the ones that walk on a map of a run.     *)
(***************************************************************************)
EXTENDS Integers, Sequences, FiniteSets, TLC

Fork == INSTANCE StructuredTasks WITH Rows <- 16, Cols <- 16
Forks == INSTANCE StructuredTasks WITH Rows <- 32, Cols <- 32
Tiles == INSTANCE StructuredTasks WITH Rows <- 24, Cols <- 24

\* Pockets opened from the first and from the last candidate on.
Topologies == {"t_junction", "asymmetric_fork", "narrow_bypass"}
Variant(topology, seed) ==
    LET candidates == Forks!Ascending(Forks!PocketCandidates(Forks!Carved(topology, seed)))
        n == Len(candidates)
        backwards == [i \in 1 .. n |-> candidates[n + 1 - i]]
    IN  Forks!VariantTask(topology, seed, <<candidates, backwards, candidates, backwards>>)

\* A wall with no clutter, and with all that is possible.
Walls ==
    LET slots == Forks!SlotsOfWall(32, 8)
    IN  {Forks!Cluttered(slots, {}), Forks!Cluttered(slots, Forks!ClutterCandidates(32, slots))}
TiledWalls ==
    LET slots == Tiles!TilesWithWalls(24, 4)
    IN  {Tiles!Cluttered(slots, {}), Tiles!Cluttered(slots, Tiles!ClutterCandidates(24, slots))}

\* With the radius the forks are made for, every seeker needs the observer's
\* help, in the rotated maps as well.
ASSUME ForksNeedHelp ==
    /\ \A seed \in 0 .. 2 :
        Fork!Solvable(Fork!ForkTask(seed)) /\ Fork!Critical(Fork!ForkTask(seed), 3, 8)
    /\ \A task \in {Forks!MultiforkTask(0), Forks!RotatedTask(0)} :
        Forks!Solvable(task) /\ Forks!Critical(task, 3, 8)

\* So it is in the topology variants; with radius 2 it depends on the seed.
ASSUME VariantsNeedHelp ==
    /\ \A topology \in Topologies :
        /\ Forks!Solvable(Variant(topology, 1)) /\ Forks!Critical(Variant(topology, 1), 3, 8)
        /\ Forks!Critical(Variant(topology, 0), 2, 8)
    /\ \A topology \in Topologies \ {"t_junction"} : ~Forks!Critical(Variant(topology, 1), 2, 8)

\* No clutter blocks a protected route.  Behind a wall across the map the
\* recorded commitment is one with radius 3, in the tiled maps with radius 2.
ASSUME WallsNeedHelp ==
    /\ \A task \in Walls :
        Forks!Solvable(task) /\ \A radius \in 2 .. 3 : Forks!Critical(task, radius, 8) = (radius = 3)
    /\ \A task \in TiledWalls : Tiles!Solvable(task) /\ Tiles!Critical(task, 2, 8)

=============================================================================
