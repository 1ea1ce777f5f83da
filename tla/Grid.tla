--------------------------------- MODULE Grid ---------------------------------
(***************************************************************************)
(* The four-neighbour grid all planners work on: positions, distances, the *)
(* order ties are broken in, and the length of a shortest path, defined by *)
(* flooding and not by search, against which the planners are judged.      *)
(*                                                                         *)
(* A map is the set of the cells it shows as blocked; what an unknown cell *)
(* counts as has been decided before a planner sees it.  A path is a       *)
(* sequence of positions, empty where the planner finds none.              *)
(***************************************************************************)
EXTENDS Integers, Sequences, FiniteSets, TLC

CONSTANTS Rows, Cols

ASSUME GridAssumption == Rows \in Nat \ {0} /\ Cols \in Nat \ {0}

Positions == (0 .. Rows - 1) \X (0 .. Cols - 1)

Abs(n) == IF n < 0 THEN -n ELSE n

Manhattan(a, b) == Abs(a[1] - b[1]) + Abs(a[2] - b[2])

Neighbours(cell) ==
    {<<cell[1] + d[1], cell[2] + d[2]>> : d \in {<<-1, 0>>, <<1, 0>>, <<0, -1>>, <<0, 1>>}}
        \cap Positions

\* The order Python compares tuples in, for two tuples of the same length.
Less(a, b) ==
    \E i \in DOMAIN a : a[i] < b[i] /\ \A j \in 1 .. i - 1 : a[j] = b[j]

Least(S) == CHOOSE a \in S : \A b \in S \ {a} : Less(a, b)

\* The members of a set of tuples in order.
Ascending(S) ==
    [i \in 1 .. Cardinality(S) |->
        CHOOSE a \in S : Cardinality({b \in S : Less(b, a)}) = i - 1]

Prefix(s, n) == SubSeq(s, 1, IF n < Len(s) THEN n ELSE Len(s))

\* No path is as long, whatever a search may think on the way; stands for the
\* float inf, and bounds the loops of searches, none of which runs as often.
Inf == 1000 * Rows * Cols

Plus(a, b) == IF a = Inf \/ b = Inf THEN Inf ELSE a + b

Smaller(a, b) == IF a < b THEN a ELSE b

\* What a robot does that follows a path: the next position, or none, which
\* is the action 0.
NextOn(path, position) == IF Len(path) > 1 THEN path[2] ELSE position

ValidPath(path, start, goal, blocked) ==
    /\ path # <<>>
    /\ path[1] = start /\ path[Len(path)] = goal
    /\ \A i \in 1 .. Len(path) : path[i] \in Positions \ blocked
    /\ \A i \in 1 .. Len(path) - 1 : Manhattan(path[i], path[i + 1]) = 1

\* How many steps, n at most, it takes a flood that has reached some cells to
\* reach the goal.
Flooding(goal, blocked) ==
    LET flood[n \in Nat] == [reached \in SUBSET Positions |->
            LET wider == reached \cup ((UNION {Neighbours(c) : c \in reached}) \ blocked)
            IN  IF goal \in reached THEN 0
                ELSE IF n = 0 \/ wider = reached THEN Inf
                ELSE Plus(1, flood[n - 1][wider])]
    IN  flood

Distance(start, goal, blocked) == Flooding(goal, blocked)[Inf][{start} \ blocked]

Reachable(start, goal, blocked) == Distance(start, goal, blocked) < Inf

=============================================================================
