------------------------------ MODULE Decisions ------------------------------
(***************************************************************************)
(* What makes a task decision-critical, said of a robot that walks by      *)
(* itself: it plans at every step on what it has seen so far, an unknown   *)
(* cell counting as free, and comes to a cell where its next action would  *)
(* be another one if it knew of an obstacle it has not seen.               *)
(*                                                                         *)
(* A map is the set of its blocked cells.  A landmark is a record of the   *)
(* start and goal of a seeker, an obstacle and the commitment, the cell at *)
(* which it chooses.                                                       *)
(***************************************************************************)
EXTENDS AStar

Chebyshev(a, b) ==
    LET rows == Abs(a[1] - b[1])
        columns == Abs(a[2] - b[2])
    IN  IF rows < columns THEN columns ELSE rows

\* _square_cells, and the window a robot senses.
SquareCells(center, radius) == {c \in Positions : Chebyshev(c, center) <= radius}

\* _observed_map: the obstacles known after sensing from some positions.
ObservedMap(bitmap, positions, radius) ==
    {c \in bitmap : \E p \in positions : Chebyshev(c, p) <= radius}

\* The first of some indices.
First(indices) == CHOOSE i \in indices : \A j \in indices : i <= j

CellsOf(path) == {path[i] : i \in DOMAIN path}

\* The cells a robot enters that plans anew at every step, in a number of steps.
WalkAlone(bitmap, radius, start, goal, steps) ==
    LET walk[n \in Nat] ==
            IF n = 0 THEN <<start>>
            ELSE LET walked == walk[n - 1]
                     position == walked[Len(walked)]
                     next == NextOn(AStarPath(ObservedMap(bitmap, CellsOf(walked), radius),
                                              position, goal), position)
                 IN  IF next = position \/ next \in bitmap THEN walked
                     ELSE Append(walked, next)
    IN  walk[steps]

\* A robot that walks alone comes to the commitment without having had the
\* obstacle in its window, and what it does there depends on whether it knows
\* of it.
NeedsHelp(bitmap, radius, mark, known, horizon) ==
    LET walk == WalkAlone(bitmap, radius, mark.start, mark.goal, horizon)
        reached == {i \in DOMAIN walk : walk[i] = mark.commitment}
        n == First(reached)
        seen == CellsOf(SubSeq(walk, 1, n))
        alone == ObservedMap(bitmap, seen, radius)
        Act(blocked) ==
            NextOn(AStarPath(blocked, mark.commitment, mark.goal), mark.commitment)
    IN  /\ mark.obstacle \in bitmap
        /\ reached # {}
        /\ \A c \in seen : Chebyshev(c, mark.obstacle) > radius
        /\ Act(alone) # Act(alone \cup known)
        /\ Act(alone \cup known) # mark.commitment

=============================================================================
