----------------------------- MODULE MCClosedLoop -----------------------------
EXTENDS ClosedLoop

MCStart == <<0, 0>>
MCGoal == <<2, 3>>
MCWalls == {<<1, 0>>}
MCDoubtful == {<<0, 2>>, <<1, 2>>, <<1, 3>>, <<2, 1>>}
MCTeamCells == {<<1, 3>>, <<2, 3>>}
MCTeamAt == (0 :> <<0, 0>>) @@ (1 :> <<2, 0>>) @@ (2 :> <<0, 2>>)
MCKernel == [d \in 0 .. 25 |-> <<1000, 882, 779, 687, 607, 535, 472, 417, 368, 325, 287,
    253, 223, 197, 174, 153, 135, 119, 105, 93, 82, 72, 64, 56, 50, 44>>[d + 1]]

\* Inputs for the planners of queries that no state of the loop depends on.
SomePaths == {AStarPath(blocked, MCStart, MCGoal) :
                blocked \in SUBSET {<<0, 2>>, <<1, 1>>, <<1, 3>>, <<2, 2>>}}
SomeUnknown == {cells \in SUBSET {<<0, 3>>, <<1, 1>>, <<1, 2>>, <<2, 0>>, <<2, 2>>, <<2, 3>>} :
                    Cardinality(cells) \in {3, 4, 6}}

\* The utility trigger fires exactly if the deadline planner would find the next
\* decision open.
ASSUME UtilityIsImmediateDivergence ==
    \A a, b \in SomePaths :
        UtilitySensitive(a, b, MCStart) <=> FirstDivergence(a, b) = 0

\* path_guided_spatial_coverage_plan: the greedy choice is worth at least 1 - 1/e
\* of the best choice of as many cells.
ASSUME GreedyCovers ==
    \A unknown \in SomeUnknown, route \in SomePaths :
        LET demands == Proposals(unknown, route)
            greedy == SpatialCoverage(unknown, route)
        IN  \A cells \in kSubset(QueryCap, demands) :
                100 * Coverage(demands, greedy, route) >= 63 * Coverage(demands, cells, route)

\* bernoulli_rate_distortion_plan: no other cells take away more distortion.
ASSUME RateDistortionIsOptimal ==
    \A unknown \in SomeUnknown, route \in SomePaths :
        LET removed(cells) == MapThenSumSet(
                LAMBDA c : Distortion(unknown, {<<1, 0>>}, route, c), cells)
        IN  \A cells \in kSubset(QueryCap, unknown) :
                removed(cells) <= removed(RateDistortion(unknown, {<<1, 0>>}, route))

=============================================================================
