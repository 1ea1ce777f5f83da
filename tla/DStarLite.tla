------------------------------ MODULE DStarLite ------------------------------
(***************************************************************************)
(* The D* Lite planner of one robot and one reading of its map.  It lives  *)
(* for an episode: a call repairs the search of the last one under a moved *)
(* start and changed cells.  A planner is a record; the operators below    *)
(* are its methods.  The loop of _compute_shortest_path is not an operator *)
(* but is taken one Iterated at a time by the module that uses it.         *)
(*                                                                         *)
(* Entries of the heap that _discard_stale would drop are not represented: *)
(* what counts is the key a cell is queued with (_queued_key), and an old  *)
(* entry with the same key is as good as the new one.                      *)
(***************************************************************************)
EXTENDS Grid

NoKeys == [c \in {} |-> <<0, 0>>]

Unplanned ==
    [ready |-> FALSE, grid |-> {}, start |-> <<0, 0>>, goal |-> <<0, 0>>, km |-> 0,
     g |-> [c \in Positions |-> Inf], rhs |-> [c \in Positions |-> Inf],
     queued |-> NoKeys]

Without(keys, cells) == [c \in DOMAIN keys \ cells |-> keys[c]]

CalculateKey(p, cell) ==
    LET best == Smaller(p.g[cell], p.rhs[cell])
    IN  <<best + Manhattan(p.start, cell) + p.km, best>>

EdgeCost(p, a, b) == IF a \in p.grid \/ b \in p.grid THEN Inf ELSE 1

\* The rhs of a cell as _update_vertex computes it.
OneStepLookahead(p, cell) ==
    IF cell = p.goal THEN p.rhs[cell]
    ELSE IF cell \in p.grid THEN Inf
    ELSE LET costs == {Plus(EdgeCost(p, cell, c), p.g[c]) : c \in Neighbours(cell)}
         IN  CHOOSE m \in costs \cup {Inf} : \A n \in costs \cup {Inf} : m <= n

\* _update_vertex of all the given cells: each looks at g only, which none of
\* them changes, so that their order does not matter.
UpdateVertices(p, cells) ==
    LET q == [p EXCEPT !.rhs =
                [c \in Positions |-> IF c \in cells THEN OneStepLookahead(p, c) ELSE @[c]]]
        uneven == {c \in cells : q.g[c] # q.rhs[c]}
    IN  [q EXCEPT !.queued =
            [c \in (DOMAIN p.queued \ cells) \cup uneven |->
                IF c \in cells THEN CalculateKey(q, c) ELSE p.queued[c]]]

\* _initialize.
Initialized(grid, start, goal) ==
    [ready |-> TRUE, grid |-> grid, start |-> start, goal |-> goal, km |-> 0,
     g |-> [c \in Positions |-> Inf],
     rhs |-> [c \in Positions |-> IF c = goal THEN 0 ELSE Inf],
     queued |-> [c \in {goal} |-> <<Manhattan(start, goal), 0>>]]

\* Mutant of Repaired: only the changed cells themselves are updated.
RepairedAlone(p, grid, start) ==
    LET changed == (p.grid \ grid) \cup (grid \ p.grid)
    IN  UpdateVertices(
            [p EXCEPT !.km = @ + Manhattan(p.start, start), !.start = start,
                      !.grid = grid],
            changed)

\* Mutant of Repaired: the cells that have changed are not looked at.
RepairedStale(p, grid, start) ==
    [p EXCEPT !.km = @ + Manhattan(p.start, start), !.start = start]

\* A later call: the start has moved and cells have changed.
Repaired(p, grid, start) ==
    LET changed == (p.grid \ grid) \cup (grid \ p.grid)
    IN  UpdateVertices(
            [p EXCEPT !.km = @ + Manhattan(p.start, start), !.start = start,
                      !.grid = grid],
            changed \cup UNION {Neighbours(c) : c \in changed})

\* plan, up to the search: the failures that leave the planner as it is, the
\* call in which the robot is there, and those that start or repair a search.
Fails(grid, start, goal) == {start, goal} \cap grid # {}

Called(p, grid, start, goal) ==
    IF Fails(grid, start, goal) THEN p
    ELSE IF start = goal \/ ~p.ready \/ p.goal # goal
    THEN Initialized(grid, start, goal)
    ELSE Repaired(p, grid, start)

Keys(p) == {p.queued[c] \o c : c \in DOMAIN p.queued}

\* Mutant of Unfinished: an inconsistent start alone does not keep the loop going.
UnfinishedByKey(p) ==
    /\ Keys(p) # {}
    /\ Less(SubSeq(Least(Keys(p)), 1, 2), CalculateKey(p, p.start))

\* The condition of the loop of _compute_shortest_path.
Unfinished(p) ==
    \/ /\ Keys(p) # {}
       /\ Less(SubSeq(Least(Keys(p)), 1, 2), CalculateKey(p, p.start))
    \/ p.rhs[p.start] # p.g[p.start]

Top(p) == SubSeq(Least(Keys(p)), 3, 4)

\* One iteration: an entry with an old key is put back, a cell that costs less
\* than thought is settled, one that costs more is given up and looked at again.
Iterated(p) ==
    LET cell == Top(p)
        key == CalculateKey(p, cell)
        popped == [p EXCEPT !.queued = Without(@, {cell})]
    IN  IF Less(p.queued[cell], key)
        THEN [p EXCEPT !.queued[cell] = key]
        ELSE IF p.g[cell] > p.rhs[cell]
        THEN UpdateVertices([popped EXCEPT !.g[cell] = p.rhs[cell]], Neighbours(cell))
        ELSE UpdateVertices([popped EXCEPT !.g[cell] = Inf],
                            Neighbours(cell) \cup {cell})

\* _extract_path, for n cells more at most: the cheapest neighbour next, ties to
\* the one nearest the goal, then by row and column; no cell twice.
Successors(p, cell) ==
    {<<Plus(EdgeCost(p, cell, c), p.g[c]), Manhattan(c, p.goal)>> \o c :
        c \in Neighbours(cell) \ p.grid}

Extract(p) ==
    LET extract[n \in Nat] == [path \in Seq(Positions) \ {<<>>} |->
            LET cell == path[Len(path)]
                best == Least(Successors(p, cell))
                next == SubSeq(best, 3, 4)
            IN  IF cell = p.goal THEN path
                ELSE IF \/ n = 0 \/ Successors(p, cell) = {} \/ best[1] = Inf
                        \/ \E i \in DOMAIN path : path[i] = next
                THEN <<>>
                ELSE extract[n - 1][Append(path, next)]]
    IN  extract

\* The path of a call whose search is finished.
ExtractedPath(p) == IF p.g[p.start] = Inf THEN <<>> ELSE Extract(p)[Inf][<<p.start>>]

=============================================================================
