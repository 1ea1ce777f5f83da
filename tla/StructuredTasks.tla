--------------------------- MODULE StructuredTasks ---------------------------
(***************************************************************************)
(* The hand-made families of tasks: forks carved out of rock, their tiled, *)
(* rotated and changed forms, and walls with clutter around protected      *)
(* routes.                                                                 *)
(*                                                                         *)
(* A task is a record of its blocked cells and, pair by pair, where the    *)
(* observer and the seeker start and go, the obstacle the observer sees    *)
(* and the cell where the seeker commits itself.  The sides of the map are *)
(* the constants of Grid.  What a generator of random numbers chooses, the *)
(* pockets of rock to open and the cells to clutter, is a parameter.       *)
(***************************************************************************)
EXTENDS Decisions

Across(row, first, last) == {row} \X (first .. last)
Along(column, first, last) == (first .. last) \X {column}

Moved(cell, by) == <<cell[1] + by[1], cell[2] + by[2]>>

\* A tile of a family: the cells carved free and the pair that walks in it.
Tile(free, observer, there, seeker, goal, obstacle, commitment) ==
    [free |-> free \ {obstacle},
     pair |-> [observer |-> [start |-> observer, goal |-> there],
               seeker |-> [start |-> seeker, goal |-> goal],
               obstacle |-> obstacle, commitment |-> commitment]]

MovedPair(pair, by) ==
    [observer |-> [start |-> Moved(pair.observer.start, by), goal |-> Moved(pair.observer.goal, by)],
     seeker |-> [start |-> Moved(pair.seeker.start, by), goal |-> Moved(pair.seeker.goal, by)],
     obstacle |-> Moved(pair.obstacle, by), commitment |-> Moved(pair.commitment, by)]

\* A task of tiles at their places.
Assembled(tiles, places) ==
    [blocked |-> Positions \
        UNION {{Moved(c, places[i]) : c \in tiles[i].free} : i \in DOMAIN tiles},
     pairs |-> [i \in DOMAIN tiles |-> MovedPair(tiles[i].pair, places[i])]]

\* The places of the four tiles of a multi-fork map.
Quarters == <<<<0, 0>>, <<0, 16>>, <<16, 0>>, <<16, 16>>>>

-----------------------------------------------------------------------------
\* _carve_fork, with the block of the upper branch.
CarveFork(seed) ==
    LET column == 9 + (seed % 3)
    IN  Tile(UNION {Across(8, 1, 5), Along(5, 4, 8), Along(13, 4, 8), Across(4, 5, 13),
                    Along(5, 8, 12), Along(13, 8, 12), Across(12, 5, 13)},
             <<4, column + 1>>, <<4, column + 2>>, <<8, 1>>, <<8, 13>>, <<4, column>>, <<8, 5>>)

ForkAccepted(size, radius, steps) == size = 16 /\ radius = 3 /\ steps >= 20

ForkTask(seed) == Assembled(<<CarveFork(seed)>>, <<<<0, 0>>>>)

MultiforkAccepted(size, radius) == size = 32 /\ radius = 3

MultiforkTask(seed) ==
    Assembled([i \in 1 .. 4 |-> CarveFork(seed + i - 1)], Quarters)

\* _rotate_counterclockwise, of a point and with rot90 of a map.
RotateCounterclockwise(cell) == <<Cols - 1 - cell[2], cell[1]>>

RotatedEnds(walk) ==
    [start |-> RotateCounterclockwise(walk.start), goal |-> RotateCounterclockwise(walk.goal)]

RotatedTask(seed) ==
    LET task == MultiforkTask(seed)
    IN  [blocked |-> {RotateCounterclockwise(c) : c \in task.blocked},
         pairs |-> [i \in DOMAIN task.pairs |->
            [observer |-> RotatedEnds(task.pairs[i].observer),
             seeker |-> RotatedEnds(task.pairs[i].seeker),
             obstacle |-> RotateCounterclockwise(task.pairs[i].obstacle),
             commitment |-> RotateCounterclockwise(task.pairs[i].commitment)]]]

-----------------------------------------------------------------------------
\* The topology variants.

CarveTJunction(seed) ==
    Tile(UNION {Along(8, 8, 14), Across(8, 3, 14), Along(3, 4, 8), Across(4, 3, 13),
                Along(13, 4, 8)},
         <<8, 13>>, <<8, 14>>, <<14, 8>>, <<4, 13>>, <<8, 12>>, <<8, 8>>)

CarveAsymmetricFork(seed) ==
    LET column == 9 + (seed % 2)
    IN  Tile(UNION {Across(8, 1, 5), Along(5, 4, 11), Along(13, 4, 11), Across(4, 5, 13),
                    Across(11, 5, 13)},
             <<4, column + 1>>, <<4, column + 2>>, <<8, 1>>, <<4, 13>>, <<4, column>>, <<8, 5>>)

CarveNarrowBypass(seed) ==
    LET column == 9 + (seed % 2)
    IN  Tile(UNION {Across(8, 1, 5), Along(5, 5, 12), Along(13, 5, 12), Across(5, 5, 13),
                    Across(12, 5, 13)},
             <<5, column + 1>>, <<5, column + 2>>, <<8, 1>>, <<5, 13>>, <<5, column>>, <<8, 5>>)

Carved(topology, seed) ==
    CASE topology = "t_junction" -> CarveTJunction(seed)
      [] topology = "asymmetric_fork" -> CarveAsymmetricFork(seed)
      [] topology = "narrow_bypass" -> CarveNarrowBypass(seed)

VariantAccepted(size, radius) == size = 32 /\ radius >= 1

\* _open_isolated_background_pockets: the rock that may be opened, cell by cell
\* of a permutation, as long as no pocket touches another.
PocketCandidates(tile) ==
    {c \in (1 .. 14) \X (1 .. 14) :
        \A d \in {<<0, 0>>, <<-1, 0>>, <<1, 0>>, <<0, -1>>, <<0, 1>>} :
            Moved(c, d) \notin tile.free}

Pockets(permutation, count) ==
    LET opened[n \in 0 .. Len(permutation)] ==
            IF n = 0 THEN {}
            ELSE LET before == opened[n - 1]
                     cell == permutation[n]
                 IN  IF Cardinality(before) < count /\ \A c \in before : Manhattan(cell, c) > 1
                     THEN before \cup {cell} ELSE before
    IN  opened[Len(permutation)]

\* The task for one permutation of the candidates of each tile.
VariantTask(topology, seed, permutations) ==
    Assembled([i \in 1 .. 4 |->
        LET tile == Carved(topology, seed)
        IN  [tile EXCEPT !.free = @ \cup Pockets(permutations[i], 8)]], Quarters)

-----------------------------------------------------------------------------
\* Clutter around protected routes: [fixed, free, pair] is what one pair needs
\* blocked and free, before the free cells win.

\* One wall across the map, a slot of its columns for every pair.
SlotOfWall(size, pairs, p) ==
    LET barrier == size \div 2
        width == size \div pairs
        left == p * width
        primary == left + 1
        alternate == left + width - 2
        branch == barrier + 5
        low == Smaller(primary, alternate)
        high == primary + alternate - low
        beside == Smaller(primary + 1, left + width - 1)
        observer == [start |-> <<barrier - 1, beside>>, goal |-> <<barrier - 2, beside>>]
    IN  [fixed |-> Across(barrier, 0, size - 1) \cup
            {c \in (barrier + 1 .. branch - 1) \X {primary - 1, primary + 1} :
                left <= c[2] /\ c[2] < left + width},
         free |-> UNION {Along(primary, barrier + 1, barrier + 7), Across(branch, low, high),
                         Along(alternate, barrier - 7, branch), Across(barrier - 7, low, high),
                         {observer.start, observer.goal, <<barrier, alternate>>}},
         pair |-> [observer |-> observer,
                   seeker |-> [start |-> <<barrier + 7, primary>>,
                               goal |-> <<barrier - 7, primary>>],
                   obstacle |-> <<barrier, primary>>, commitment |-> <<branch, primary>>]]

ClutteredAccepted(size, agents) ==
    LET barrier == size \div 2
        pairs == agents \div 2
    IN  /\ agents % 2 = 0 /\ agents >= 4
        /\ size % pairs = 0 /\ size \div pairs >= 4
        /\ barrier >= 8 /\ barrier + 7 < size

SlotsOfWall(size, agents) ==
    [i \in 1 .. agents \div 2 |-> SlotOfWall(size, agents \div 2, i - 1)]

\* A wall in every tile of a grid of tiles.
Side(pairs) == CHOOSE n \in 1 .. pairs : n * n >= pairs /\ (n - 1) * (n - 1) < pairs

TileWithWall(map_size, pairs, p) ==
    LET size == map_size \div Side(pairs)
        place == <<(p \div Side(pairs)) * size, (p % Side(pairs)) * size>>
        barrier == size \div 2
        margin == Smaller(5, barrier - 1)
        branch == barrier + margin - 2
        last == size - 2
        observer == [start |-> <<barrier - 1, 2>>, goal |-> <<barrier - 2, 2>>]
        At(cells) == {Moved(c, place) : c \in cells}
    IN  [fixed |-> At(Across(barrier, 0, size - 1) \cup ((barrier + 1 .. branch - 1) \X {0, 2})),
         free |-> At(UNION {Along(1, barrier + 1, barrier + margin), Across(branch, 1, last),
                            Along(last, barrier - margin, branch),
                            Across(barrier - margin, 1, last),
                            {<<barrier, last>>, observer.start, observer.goal}}),
         pair |-> MovedPair(
            [observer |-> observer,
             seeker |-> [start |-> <<barrier + margin, 1>>, goal |-> <<barrier - margin, 1>>],
             obstacle |-> <<barrier, 1>>, commitment |-> <<branch, 1>>], place)]

TiledAccepted(size, agents) ==
    /\ agents % 2 = 0 /\ agents >= 4
    /\ size % Side(agents \div 2) = 0 /\ size \div Side(agents \div 2) >= 12

TilesWithWalls(size, agents) ==
    [i \in 1 .. agents \div 2 |-> TileWithWall(size, agents \div 2, i - 1)]

ProtectedFree(slots) == UNION {slots[i].free : i \in DOMAIN slots}
FixedObstacles(slots) == (UNION {slots[i].fixed : i \in DOMAIN slots}) \ ProtectedFree(slots)

\* The cells clutter may be put on, and whether the requested number of
\* obstacles can be had that way.
ClutterCandidates(size, slots) ==
    ((0 .. size - 1) \X (0 .. size - 1)) \ (FixedObstacles(slots) \cup ProtectedFree(slots))

DensityFits(size, slots, target) ==
    target - Cardinality(FixedObstacles(slots))
        \in 0 .. Cardinality(ClutterCandidates(size, slots))

Cluttered(slots, clutter) ==
    [blocked |-> FixedObstacles(slots) \cup clutter,
     pairs |-> [i \in DOMAIN slots |-> slots[i].pair]]

-----------------------------------------------------------------------------
\* What is claimed of a task.

\* Everyone can get where it goes, nobody starts where another starts or goes.
Solvable(task) ==
    LET ends == UNION {{p.observer.start, p.observer.goal, p.seeker.start, p.seeker.goal} :
                        p \in CellsOf(task.pairs)}
    IN  /\ Cardinality(ends) = 4 * Len(task.pairs)
        /\ \A p \in CellsOf(task.pairs) : \A w \in {p.observer, p.seeker} :
            Reachable(w.start, w.goal, task.blocked)

\* What the observer of a pair has seen once it is at its goal, a step away,
\* changes what the seeker does.
Critical(task, radius, horizon) ==
    \A p \in CellsOf(task.pairs) :
        NeedsHelp(task.blocked, radius,
            [start |-> p.seeker.start, goal |-> p.seeker.goal, obstacle |-> p.obstacle,
             commitment |-> p.commitment],
            ObservedMap(task.blocked, {p.observer.start, p.observer.goal}, radius), horizon)

=============================================================================
