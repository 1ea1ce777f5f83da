----------------------------- MODULE RepairPlans -----------------------------
(***************************************************************************)
(* Which cells a robot asks its teammates for: the planners that compete   *)
(* with the scenario certificate.  Each is a function of what the robot    *)
(* itself knows; `unknown' is the set of cells its replica does not hold,  *)
(* `blocked' the cells it knows to be blocked, `path' its operational path.*)
(*                                                                         *)
(* The real-valued scores are kept as scaled integers.  The Gaussian       *)
(* kernels are a strictly decreasing table of the squared distance, which  *)
(* is all that a ranking by one of them depends on.                        *)
(***************************************************************************)
EXTENDS AStar, FiniteSetsExt

CONSTANTS
    Horizon,      \* corridor_horizon
    Radius,       \* corridor_radius
    DigestCells,  \* max_digest_cells_per_message
    MaxCells,     \* certificate_max_cells
    Multiplier,   \* external_candidate_multiplier
    RoundTrip,    \* 2 * delay_steps
    Kernel        \* [squared distance -> scaled exp(-d / (2 sigma^2))]

ASSUME PlanAssumption ==
    /\ {Horizon, MaxCells, Multiplier} \subseteq Nat \ {0}
    /\ {Radius, DigestCells, RoundTrip} \subseteq Nat
    /\ \A d, e \in DOMAIN Kernel : d < e => Kernel[d] > Kernel[e]
    /\ \A a, b \in Positions : Manhattan(a, b) * Manhattan(a, b) \in DOMAIN Kernel

\* _task_aware_query_cap.
QueryCap == Smaller(MaxCells, DigestCells)

CellsOf(path) == {path[i] : i \in DOMAIN path}

Bounded(path) == Prefix(path, Horizon + 1)

\* path[1:horizon + 1] or path[:1].
Imminent(path) ==
    IF Len(path) > 1 THEN CellsOf(Tail(Bounded(path))) ELSE CellsOf(path)

\* path_distance; 2^31 - 1 for no path.
PathDistance(cell, path) == Min({Manhattan(cell, p) : p \in path} \cup {2147483647})

\* path_weight.
PathWeight(cell, path) ==
    IF path = {} THEN 0
    ELSE Kernel[PathDistance(cell, path) * PathDistance(cell, path)]

\* planning_corridor.
Corridor(path) ==
    {c \in Positions : \E p \in Imminent(path) : Manhattan(c, p) <= Radius}

\* full_replica_chunk: the domain in row-major order, cut into chunks.
Chunks == (Rows * Cols + DigestCells - 1) \div DigestCells

FullReplicaChunk(turn) ==
    IF DigestCells < 1 THEN {}
    ELSE LET first == (turn % Chunks) * DigestCells
         IN  {c \in Positions : c[1] * Cols + c[2] \in first .. first + DigestCells - 1}

\* Mutant of OrderedDigestPeers: ties are always broken the same way.
OrderedDigestPeersFixed(requester, at, turn, limit) ==
    LET team == Cardinality(DOMAIN at)
        order == Ascending({<<Manhattan(at[p], at[requester]),
                              (p - requester - 1) % team, p>> :
                                p \in DOMAIN at \ {requester}})
    IN  Prefix([i \in DOMAIN order |-> order[i][3]], limit)

\* ordered_digest_peers: nearest first, ties in an order that rotates.
OrderedDigestPeers(requester, at, turn, limit) ==
    LET team == Cardinality(DOMAIN at)
        order == Ascending({<<Manhattan(at[p], at[requester]),
                              (p - requester - 1 - turn) % team, p>> :
                                p \in DOMAIN at \ {requester}})
    IN  Prefix([i \in DOMAIN order |-> order[i][3]], limit)

-----------------------------------------------------------------------------
\* The unknown cells on and next to the positions i of a path for which
\* first <= i <= last, each with the least <<i, distance>> it is met at, in
\* this order.  Positions are counted from 0, as in the code.
InfluenceOrder(unknown, cells) ==
    LET near == {n \in (DOMAIN cells) \X unknown : Manhattan(n[2], cells[n[1]]) <= 1}
        keys == {<<n[1], Manhattan(n[2], cells[n[1]])>> \o n[2] : n \in near}
        least == {k \in keys : \A other \in keys :
                    (other[3] = k[3] /\ other[4] = k[4]) => ~Less(other, k)}
        order == Ascending(least)
    IN  [i \in DOMAIN order |-> <<order[i][3], order[i][4]>>]

\* decision_candidate_cells without a cap.
DecisionCandidates(unknown, path) ==
    InfluenceOrder(unknown, IF path = <<>> THEN <<>> ELSE Tail(Bounded(path)))

\* path_aware_top_k_plan.
PathAwareTopK(unknown, path) == Prefix(DecisionCandidates(unknown, path), QueryCap)

\* Where a robot that follows a path is after k steps.
After(path, origin, k) ==
    IF path = <<>> THEN origin ELSE path[Smaller(k + 1, Len(path))]

\* first_path_divergence; Inf where the action sequences are the same.
FirstDivergence(a, b) ==
    IF a = <<>> /\ b = <<>> THEN Inf
    ELSE LET origin == IF a # <<>> THEN a[1] ELSE b[1]
             last == Max({Len(a), Len(b), 1}) - 1
         IN  Min({k \in 0 .. last - 1 :
                    After(a, origin, k + 1) # After(b, origin, k + 1)} \cup {Inf})

\* _action_is_utility_sensitive: the two paths begin with different actions.
UtilitySensitive(optimistic, pessimistic, position) ==
    NextOn(optimistic, position) # NextOn(pessimistic, position)

\* Mutant of BlockedPath: the counterfactual map starts from an empty one.
BlockedPathAlone(blocked, cell, start, goal) == Bounded(AStarPath({cell}, start, goal))

\* The path planned from nothing if one more cell were blocked, cut to the
\* horizon: a counterfactual of _single_cell_sensitivity_plan and
\* _external_task_aware_plan.
BlockedPath(blocked, cell, start, goal) ==
    Bounded(AStarPath(blocked \cup {cell}, start, goal))

\* single_cell_sensitivity_plan: cells that change the plan when blocked, those
\* that change the next action first, then by the step in which they do.
SingleCellSensitivity(unknown, blocked, path, start, goal) ==
    LET candidates == Prefix(DecisionCandidates(unknown, path), QueryCap)
        diverges == {<<FirstDivergence(Bounded(path),
                            BlockedPath(blocked, candidates[i], start, goal)), i>> :
                        i \in DOMAIN candidates}
        order == Ascending({d \in diverges : d[1] \in RoundTrip .. Inf - 1})
    IN  Prefix([i \in DOMAIN order |-> candidates[order[i][2]]], QueryCap)

-----------------------------------------------------------------------------
\* The position, counted from 0, at which a path meets its first unknown cell
\* within the horizon, or Inf.
FirstUnknown(unknown, path) ==
    Min({i \in 1 .. Len(Bounded(path)) - 1 : path[i + 1] \in unknown} \cup {Inf})

\* Mutant of Feasible: the robot may enter the cell in the step of the answer.
FeasibleOnEntry(first) == first >= RoundTrip

\* The answer is there before the robot steps on its first unknown cell.
Feasible(first) == (IF first > 1 THEN first - 1 ELSE 0) >= RoundTrip

\* Where two branches that have parted meet again: the numbers of positions
\* of each that are looked at.
Reconvergence(a, b, parted) ==
    LET meets == {i \in parted + 2 .. Len(a) : \E j \in parted + 2 .. Len(b) : a[i] = b[j]}
    IN  IF meets = {} THEN <<Len(a), Len(b)>>
        ELSE <<Min(meets), Max({j \in parted + 2 .. Len(b) : b[j] = a[Min(meets)]})>>

\* deadline_decision_repair_plan: whether the optimistic and the pessimistic
\* path part at a decision that can still be informed, and the unknown cells
\* around the two branches.
DeadlineCells(unknown, optimistic, pessimistic) ==
    LET parted == FirstDivergence(optimistic, pessimistic)
        first == FirstUnknown(unknown, optimistic)
        a == Bounded(optimistic)
        b == Bounded(pessimistic)
        stop == Reconvergence(a, b, parted)
        branches == SubSeq(a, parted + 2, stop[1]) \o SubSeq(b, parted + 2, stop[2])
    IN  IF parted = Inf \/ first = Inf \/ ~Feasible(first) THEN <<>>
        ELSE Prefix(InfluenceOrder(unknown, branches), DigestCells)

-----------------------------------------------------------------------------
\* The utility of a plan in a world: the share of the way the robot gets before
\* it meets a blocked cell, in units of 1 / Horizon.
SafeProgress(path, world) ==
    LET way == Tail(Bounded(path))
        free == Min({i - 1 : i \in {j \in DOMAIN way : way[j] \in world}}
                    \cup {Len(way)})
    IN  IF path = <<>> THEN 0
        ELSE IF Len(path) - 1 <= Horizon /\ free = Len(path) - 1 THEN Horizon
        ELSE free

\* The cells with a positive score <<score, i>>, best first and earlier candidates first.
Ranked(candidates, scores) ==
    LET order == Ascending({<<-s[1], s[2]>> : s \in {t \in scores : t[1] > 0}})
    IN  Prefix([i \in DOMAIN order |-> candidates[order[i][2]]], QueryCap)

Gain(informed, ignorant) == IF informed > ignorant THEN informed - ignorant ELSE 0

ExternalCandidates(unknown, path) ==
    Prefix(DecisionCandidates(unknown, path), QueryCap * Multiplier)

\* voi_per_byte_plan: all probabilities are 1/2 and all records cost the same,
\* so that the value of a cell is the gain in the world in which it is blocked.
VoiPerByte(unknown, blocked, path, start, goal) ==
    LET candidates == ExternalCandidates(unknown, path)
        score(i) ==
            Gain(SafeProgress(BlockedPath(blocked, candidates[i], start, goal), {candidates[i]}),
                 SafeProgress(Bounded(path), {candidates[i]}))
    IN  Ranked(candidates, {<<score(i), i>> : i \in DOMAIN candidates})

\* ocbc_forward_simulation_plan, for the sampled worlds: a cell is worth what
\* knowing it gains, summed over the worlds in which it is blocked.
OcbcForwardSimulation(unknown, blocked, path, start, goal, worlds) ==
    LET candidates == ExternalCandidates(unknown, path)
        informed(i) == BlockedPath(blocked, candidates[i], start, goal)
        score(i, route) ==
            MapThenSumSet(
                LAMBDA world : Gain(SafeProgress(route, world), SafeProgress(Bounded(path), world)),
                {world \in worlds : candidates[i] \in world})
    IN  Ranked(candidates, {<<score(i, informed(i)), i>> : i \in DOMAIN candidates})

-----------------------------------------------------------------------------
Similarity(a, b) == Kernel[(a[1] - b[1]) * (a[1] - b[1]) + (a[2] - b[2]) * (a[2] - b[2])]

\* The unknown cells nearest the path, as many as are looked at.
Proposals(unknown, path) ==
    LET order == Ascending({<<PathDistance(c, Imminent(path))>> \o c : c \in unknown})
    IN  {<<order[i][2], order[i][3]>> : i \in 1 .. Smaller(Len(order), QueryCap * Multiplier)}

\* How well a set of cells stands for a cell.
Covered(cell, selected) == Max({Similarity(cell, s) : s \in selected} \cup {0})

\* The objective of path_guided_spatial_coverage_plan: "sum_u path_weight(u) *
\* max_{s in S} spatial_kernel(u, s)".
Coverage(demands, selected, path) ==
    MapThenSumSet(LAMBDA u : PathWeight(u, Imminent(path)) * Covered(u, selected), demands)

CoverageGain(demands, selected, cell, path) ==
    Coverage(demands, selected \cup {cell}, path) - Coverage(demands, selected, path)

\* path_guided_spatial_coverage_plan: the cell that gains most, again and again;
\* ties to the one nearest the path, then by row and column.
Cover(demands, path) ==
    LET cover[selected \in SUBSET Positions] ==
            LET keys == {<<-CoverageGain(demands, selected, c, path),
                           PathDistance(c, Imminent(path))>> \o c : c \in demands \ selected}
            IN  IF keys = {} \/ Cardinality(selected) = QueryCap THEN selected
                ELSE cover[selected \cup {SubSeq(Least(keys), 3, 4)}]
    IN  cover

SpatialCoverage(unknown, path) == Cover(Proposals(unknown, path), path)[{}]

\* bernoulli_local_decoder_probabilities, per mille: known cells near an unknown
\* one and a prior of one observation with probability 1/5.
BlockedProbability(unknown, blocked, cell) ==
    LET mass(cells) == MapThenSumSet(LAMBDA c : Similarity(cell, c), cells)
    IN  (1000 * (Kernel[0] \div 5 + mass(blocked)))
            \div (Kernel[0] + mass(Positions \ unknown))

\* bernoulli_rate_distortion_plan: the cells whose guess is worst where it
\* matters most.
Distortion(unknown, blocked, path, cell) ==
    LET p == BlockedProbability(unknown, blocked, cell)
    IN  PathWeight(cell, Imminent(path)) * p * (1000 - p)

RateDistortion(unknown, blocked, path) ==
    LET order == Ascending({<<-Distortion(unknown, blocked, path, c),
                              PathDistance(c, Imminent(path))>> \o c : c \in unknown})
    IN  {<<order[i][3], order[i][4]>> : i \in 1 .. Smaller(Len(order), QueryCap)}

=============================================================================
