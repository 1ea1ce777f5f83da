-------------------------------- MODULE AStar --------------------------------
(***************************************************************************)
(* The A* planner: a search from nothing in every call.  An entry of the   *)
(* heap is <<f, h, g, row, column>>; no two entries that can still be used *)
(* are equal, so that the insertion counter never decides.                 *)
(***************************************************************************)
EXTENDS Grid

Entry(cost, cell, goal) ==
    <<cost + Manhattan(cell, goal), Manhattan(cell, goal), cost, cell[1], cell[2]>>

\* A search: the heap, best_cost with inf for the cells not found yet, and the
\* parents, each cell its own before it is found.
Searches ==
    [heap : SUBSET (Nat \X Nat \X Nat \X (0 .. Rows - 1) \X (0 .. Cols - 1)),
     best : [Positions -> 0 .. Inf],
     parent : [Positions -> Positions]]

FirstSearch(start, goal) ==
    [heap |-> {Entry(0, start, goal)},
     best |-> [c \in Positions |-> IF c = start THEN 0 ELSE Inf],
     parent |-> [c \in Positions |-> c]]

CellOf(entry) == <<entry[4], entry[5]>>

\* An entry that has not been superseded by a cheaper one.
Current(s, entry) == entry[3] = s.best[CellOf(entry)]

\* Whether the loop of plan ends here: nothing is left, or the goal is next.
Ended(s, goal) ==
    \/ s.heap = {}
    \/ Current(s, Least(s.heap)) /\ CellOf(Least(s.heap)) = goal

\* The neighbours that are found, or found to be cheaper, from a cell at a cost.
Improved(s, cell, cost, blocked) ==
    {c \in Neighbours(cell) \ blocked : cost < s.best[c]}

\* What the search is after it has taken an entry from the heap.
Taken(s, entry, blocked, goal) ==
    LET cost == entry[3] + 1
        found == Improved(s, CellOf(entry), cost, blocked)
        rest == s.heap \ {entry}
    IN  IF ~Current(s, entry) THEN [s EXCEPT !.heap = rest]
        ELSE [heap |-> rest \cup {Entry(cost, c, goal) : c \in found},
              best |-> [c \in Positions |-> IF c \in found THEN cost ELSE s.best[c]],
              parent |-> [c \in Positions |->
                            IF c \in found THEN CellOf(entry) ELSE s.parent[c]]]

\* One iteration of the loop.
Expanded(s, blocked, goal) == Taken(s, Least(s.heap), blocked, goal)

\* The loop of plan, for n iterations at most.
Explore(blocked, goal) ==
    LET explore[n \in Nat] == [s \in Searches |->
            IF n = 0 \/ Ended(s, goal) THEN s
            ELSE explore[n - 1][Expanded(s, blocked, goal)]]
    IN  explore

\* _reconstruct_path, along n parents at most.
Reconstruct(parent, start) ==
    LET route[n \in Nat] == [cell \in Positions |->
            IF n = 0 \/ cell = start THEN <<cell>>
            ELSE Append(route[n - 1][parent[cell]], cell)]
    IN  route

\* The path a search that has ended has found.
PathOf(last, start, goal) ==
    IF last.heap = {} THEN <<>> ELSE Reconstruct(last.parent, start)[Inf][goal]

\* plan: the path of the result, empty on every failure.  No more entries come
\* into the heap than there are costs of cells.
AStarPath(blocked, start, goal) ==
    IF {start, goal} \cap blocked # {} THEN <<>>
    ELSE IF start = goal THEN <<start>>
    ELSE PathOf(Explore(blocked, goal)[Inf * Rows * Cols][FirstSearch(start, goal)],
                start, goal)

=============================================================================
