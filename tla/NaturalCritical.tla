--------------------------- MODULE NaturalCritical ---------------------------
(***************************************************************************)
(* The search for decision-critical tasks in random maps.  A whole map is  *)
(* sampled and never changed; starts and goals of seekers are drawn until  *)
(* enough of the conflicts they meet can be packed into one task, or the   *)
(* draws are used up and the next map is sampled.                          *)
(*                                                                         *)
(* Maps and draws come from a generator and are any of a given set; the    *)
(* order that hashes put candidates, observers and goals in is any order.  *)
(* The numbers of the source are constants, so that a small map has the    *)
(* cases.                                                                  *)
(***************************************************************************)
EXTENDS Decisions

CONSTANTS
    GoalDistances,      \* from a seeker's start to its goal: 10 .. 40
    SeekerSteps,        \* of its shortest path on the real map: 12 .. 40
    ObserverSteps,      \* of an observer's path: 8 .. 16
    ObstacleGap,        \* at least between the obstacles of two pairs: 4
    MinimumSizes,       \* of the map, for every number of agents
    MinimumSteps        \* of an episode: 40

ASSUME SearchAssumption ==
    /\ GoalDistances \subseteq Nat /\ SeekerSteps \subseteq Nat
    /\ ObserverSteps \subseteq Nat \ {0} /\ ObstacleGap \in Nat

\* _validate_parameters, and the check on the number of draws.
ValidParameters(c, radius) ==
    /\ c.agents \in DOMAIN MinimumSizes
    /\ c.agents \in DOMAIN MinimumSizes => c.size >= MinimumSizes[c.agents]
    /\ radius >= 1
    /\ c.horizon >= radius + 2
    /\ c.steps >= MinimumSteps
    /\ c.attempts >= 1 /\ c.draws >= 1

-----------------------------------------------------------------------------
\* One draw: [start, goal].

FreePath(bitmap, radius, draw) ==
    AStarPath(ObservedMap(bitmap, {draw.start}, radius), draw.start, draw.goal)

\* _first_divergence: how long the part is that two paths share, or 0 if
\* neither leaves the other.
FirstDivergence(left, right) ==
    LET apart == {i \in DOMAIN left \cap DOMAIN right : left[i] # right[i]}
    IN  IF apart = {} THEN 0 ELSE First(apart) - 1

Divergence(bitmap, radius, draw, obstacle) ==
    FirstDivergence(FreePath(bitmap, radius, draw),
        AStarPath(ObservedMap(bitmap, {draw.start}, radius) \cup {obstacle},
                  draw.start, draw.goal))

\* The action at the commitment of a robot that came along the prefix.
ActionAfter(bitmap, radius, prefix, goal, freed, blocked) ==
    LET here == prefix[Len(prefix)]
    IN  NextOn(AStarPath((ObservedMap(bitmap, CellsOf(prefix), radius) \ freed) \cup blocked,
                         here, goal), here)

\* _dynamic_prefix_is_consistent.
DynamicPrefixIsConsistent(bitmap, radius, prefix, goal) ==
    \A i \in 1 .. Len(prefix) - 1 :
        ActionAfter(bitmap, radius, SubSeq(prefix, 1, i), goal, {}, {}) = prefix[i + 1]

\* _PairCandidate, for an obstacle at which the paths part.
PairCandidate(bitmap, radius, draw, obstacle) ==
    LET divergence == Divergence(bitmap, radius, draw, obstacle)
        prefix == SubSeq(FreePath(bitmap, radius, draw), 1, divergence)
        Turn(freed, blocked) ==
            ActionAfter(bitmap, radius, prefix, draw.goal, freed, blocked)
        free == Turn({obstacle}, {})
        blocked == Turn({}, {obstacle})
    IN  [start |-> draw.start, goal |-> draw.goal, obstacle |-> obstacle,
         commitment |-> prefix[divergence], divergence |-> divergence,
         prefix |-> prefix, free_next |-> free, blocked_next |-> blocked,
         truth |-> AStarPath(bitmap, draw.start, draw.goal),
         observers |-> (SquareCells(obstacle, radius) \ bitmap)
                        \ (CellsOf(prefix) \cup {draw.goal, obstacle, free, blocked})]

\* Mutant of HiddenOnTheWay: only where the seeker starts.
HiddenAtFirst(radius, candidate) ==
    Chebyshev(candidate.start, candidate.obstacle) > radius

HiddenOnTheWay(radius, candidate) ==
    \A c \in CellsOf(candidate.prefix) : Chebyshev(c, candidate.obstacle) > radius

\* The tests a candidate must pass once the paths part in time.
Qualifies(bitmap, radius, candidate) ==
    LET prefix == candidate.prefix
        truth == candidate.truth
        n == candidate.divergence
    IN  /\ CellsOf(prefix) \cap bitmap = {}
        /\ HiddenOnTheWay(radius, candidate)
        /\ candidate.commitment \notin {candidate.free_next, candidate.blocked_next}
        /\ candidate.free_next # candidate.blocked_next
        /\ Len(truth) - 1 \in SeekerSteps
        /\ Len(truth) > n
        /\ Prefix(truth, n) = prefix /\ truth[n + 1] = candidate.blocked_next
        /\ DynamicPrefixIsConsistent(bitmap, radius, prefix, candidate.goal)
        /\ candidate.observers # {}

\* _candidate_from_draw: the first of the obstacles on the optimistic path that
\* makes a candidate, as a sequence of at most one.
CandidateFromDraw(bitmap, radius, horizon, draw) ==
    LET path == FreePath(bitmap, radius, draw)
        end == Smaller(Len(path), horizon + radius + 3)
        Parts(cell) ==
            /\ cell \in bitmap
            /\ Chebyshev(draw.start, cell) > radius
            /\ Divergence(bitmap, radius, draw, cell) \in 2 .. horizon
        Makes(cell) ==
            Parts(cell) /\ Qualifies(bitmap, radius, PairCandidate(bitmap, radius, draw, cell))
        places == {i \in DOMAIN path : radius + 2 <= i /\ i <= end /\ Makes(path[i])}
    IN  IF Manhattan(draw.start, draw.goal) \notin GoalDistances \/ places = {} THEN <<>>
        ELSE <<PairCandidate(bitmap, radius, draw, path[First(places)])>>

-----------------------------------------------------------------------------
\* Packing candidates into one task.

\* _bounded_bfs with _reconstruct_bfs_path: the paths to the cells a flood in
\* the order up, down, left, right comes to, cell by cell.
Farthest == CHOOSE n \in ObserverSteps : \A m \in ObserverSteps : m <= n

NewNeighbours(cell, seen) ==
    LET Kept(row, column) ==
            LET c == <<cell[1] + row, cell[2] + column>>
            IN  IF c \in Positions \ seen THEN <<c>> ELSE <<>>
    IN  Kept(-1, 0) \o Kept(1, 0) \o Kept(0, -1) \o Kept(0, 1)

BoundedBFS(bitmap, start) ==
    LET flood[n \in Nat] ==
            IF n = 0 THEN [queue |-> <<start>>, paths |-> [c \in {start} |-> <<start>>]]
            ELSE LET before == flood[n - 1]
                     current == Head(before.queue)
                     found == IF Len(before.paths[current]) > Farthest THEN <<>>
                              ELSE NewNeighbours(current, bitmap \cup DOMAIN before.paths)
                 IN  IF before.queue = <<>> THEN before
                     ELSE [queue |-> Tail(before.queue) \o found,
                           paths |-> [c \in DOMAIN before.paths \cup CellsOf(found) |->
                                IF c \in DOMAIN before.paths THEN before.paths[c]
                                ELSE Append(before.paths[current], c)]]
    IN  flood[Rows * Cols].paths

Apart(cell, cells) == \A other \in cells : Chebyshev(cell, other) > 1

\* _choose_observer_route: the start and goal of an observer may be any that
\* will do, whichever the hashes put first.
ObserverRoutes(bitmap, candidate, occupied, starts) ==
    LET lane == CellsOf(Prefix(candidate.truth, candidate.divergence + 1))
    IN  UNION {
            LET paths == BoundedBFS(bitmap, start)
            IN  {[start |-> start, goal |-> goal] : goal \in
                    {c \in DOMAIN paths \ (occupied \cup {candidate.start, candidate.goal}) :
                        /\ Len(paths[c]) - 1 \in ObserverSteps
                        /\ CellsOf(Tail(paths[c])) \cap lane = {}}}
          : start \in {c \in candidate.observers \ occupied : Apart(c, starts)}}

SeekerKeys(candidate) ==
    {candidate.start, candidate.goal, candidate.obstacle, candidate.commitment}

Occupied(selected) ==
    UNION {SeekerKeys(p.candidate) \cup {p.observer.start, p.observer.goal} : p \in selected}

StartCells(selected) ==
    UNION {{p.observer.start, p.candidate.start} : p \in selected}

\* The pairs a candidate can be part of beside those selected before it.
Selectable(bitmap, candidate, selected) ==
    LET pairs == CellsOf(selected)
        keys == SeekerKeys(candidate)
        starts == StartCells(pairs)
    IN  IF \/ keys \cap Occupied(pairs) # {}
           \/ \E p \in pairs :
                Manhattan(candidate.obstacle, p.candidate.obstacle) < ObstacleGap
           \/ ~Apart(candidate.start, starts)
        THEN {}
        ELSE {[observer |-> o, candidate |-> candidate] :
                o \in ObserverRoutes(bitmap, candidate, Occupied(pairs) \cup keys,
                                     starts \cup {candidate.start})}

\* _pack_candidates: every task the candidates may make, in the order of their scores.
PackCandidates(bitmap, candidates, pair_count) ==
    LET packed[n \in 0 .. Len(candidates)] ==
            IF n = 0 THEN {<<>>}
            ELSE UNION {
                LET pairs == Selectable(bitmap, candidates[n], selected)
                IN  IF Len(selected) = pair_count \/ pairs = {} THEN {selected}
                    ELSE {Append(selected, p) : p \in pairs}
              : selected \in packed[n - 1]}
    IN  packed[Len(candidates)]

-----------------------------------------------------------------------------
\* The search, a record of the map, the number of the attempt and of the draws
\* made on it, the candidates by their scores and the pairs selected.

NoSearch ==
    [bitmap |-> {}, attempt |-> 0, drawn |-> 0, seen |-> {}, candidates |-> <<>>,
     selected |-> <<>>]

\* The next attempt, on a new map.
Sampled(search, bitmap) ==
    [NoSearch EXCEPT !.bitmap = bitmap, !.attempt = search.attempt + 1]

\* The map has too few free cells, or no obstacle.
Hopeless(bitmap, pair_count) ==
    Cardinality(Positions \ bitmap) < 4 * pair_count \/ bitmap = {}

Inserted(candidates, i, candidate) ==
    SubSeq(candidates, 1, i) \o <<candidate>> \o SubSeq(candidates, i + 1, Len(candidates))

\* What one draw of _select_natural_pairs can come to.
Drawn(search, draw, radius, horizon, pair_count) ==
    LET next == [search EXCEPT !.drawn = @ + 1, !.seen = @ \cup {draw}]
        made == IF draw \in search.seen THEN <<>>
                ELSE CandidateFromDraw(search.bitmap, radius, horizon, draw)
    IN  IF made = <<>> THEN {next}
        ELSE UNION {
                LET candidates == Inserted(search.candidates, i, made[1])
                IN  {[next EXCEPT !.candidates = candidates, !.selected = selected] :
                        selected \in PackCandidates(search.bitmap, candidates, pair_count)}
              : i \in 0 .. Len(search.candidates)}

\* What _build_instance refuses: two of the starts and goals are the same cell.
DuplicateEnds(selected) ==
    Cardinality(UNION {{p.observer.start, p.observer.goal, p.candidate.start,
                        p.candidate.goal} : p \in CellsOf(selected)}) < 4 * Len(selected)

=============================================================================
