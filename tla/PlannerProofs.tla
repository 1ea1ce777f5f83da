---------------------------- MODULE PlannerProofs ----------------------------
(***************************************************************************)
(* The planners, for every grid, map, start and goal.  Before that, what is*)
(* used of tuples, of recursion on the naturals, and of the grid.          *)
(*                                                                         *)
(* A*: the path it returns can be walked, it returns one exactly if there  *)
(* is one, and none is shorter; and blocking a cell that is not on it does *)
(* not change it.                                                          *)
(*                                                                         *)
(* D* Lite: DStarInv, the invariant of the search (a settled position has  *)
(* the cost its neighbours give it, an unsettled one waits in the queue    *)
(* under its key), is kept by everything done to a planner; a search that  *)
(* has ended knows the distances on the way from where the robot stands,   *)
(* and the path read off them is as short as any.                          *)
(***************************************************************************)
EXTENDS AStar, DStarLite, FiniteSetTheorems, SequenceTheorems, WellFoundedInduction,
        TLAPS

-----------------------------------------------------------------------------
\* Naturals and recursion.

\* The naturals are well-founded.
LEMMA LeastNumber ==
    ASSUME NEW S \in SUBSET Nat, S # {}
    PROVE  \E m \in S : \A n \in S : m <= n
  <1> DEFINE R == OpToRel(<, Nat)
  <1>1. IsWellFoundedOn(R, Nat)
    BY NatLessThanWellFounded
  <1>2. \A x, y \in Nat : x < y => <<x, y>> \in R
    BY DEF OpToRel
  <1> HIDE DEF R
  <1>3. PICK m \in S : \A n \in S : <<n, m>> \notin R
    BY <1>1, WFMin
  <1>4. \A n \in S : ~(n < m)
    BY <1>2, <1>3
  <1>5. QED
    BY <1>3, <1>4

\* Induction for a set.
LEMMA InductionInSet ==
    ASSUME NEW S, 0 \in S, \A n \in Nat : n \in S => n + 1 \in S
    PROVE  \A n \in Nat : n \in S
  <1> DEFINE Missing == {n \in Nat : n \notin S}
  <1>1. SUFFICES ASSUME Missing # {} PROVE FALSE
    OBVIOUS
  <1>2. PICK m \in Missing : \A n \in Missing : m <= n
    <2>1. Missing \in SUBSET Nat
      OBVIOUS
    <2> HIDE DEF Missing
    <2>2. QED
      BY <1>1, <2>1, LeastNumber
  <1>3. m # 0 /\ m - 1 \in Nat /\ m - 1 < m
    OBVIOUS
  <1>4. m - 1 \in S
    BY <1>2, <1>3
  <1>5. QED
    BY <1>2, <1>3, <1>4

\* A first value and a step have a sequence of iterates.
Iterates(f, N, first, step) ==
    f[0] = first /\ \A n \in 0 .. N - 1 : f[n + 1] = step[f[n]]

LEMMA IteratesAgree ==
    ASSUME NEW first, NEW step, NEW N \in Nat, NEW M \in Nat, NEW f, NEW g,
           Iterates(f, N, first, step), Iterates(g, M, first, step)
    PROVE  \A n \in Nat : n <= N /\ n <= M => f[n] = g[n]
  <1> DEFINE S == {n \in Nat : n <= N /\ n <= M => f[n] = g[n]}
  <1>1. 0 \in S
    BY DEF Iterates
  <1>2. \A n \in Nat : n \in S => n + 1 \in S
    BY DEF Iterates
  <1> HIDE DEF S
  <1>3. \A n \in Nat : n \in S
    BY <1>1, <1>2, InductionInSet
  <1>4. QED
    BY <1>3 DEF S

LEMMA IterationExists ==
    ASSUME NEW V, NEW first \in V, NEW step \in [V -> V]
    PROVE  \E f \in [Nat -> V] : f[0] = first /\ \A n \in Nat : f[n + 1] = step[f[n]]
  <1> DEFINE S == {N \in Nat : \E f \in [0 .. N -> V] : Iterates(f, N, first, step)}
  <1>1. 0 \in S
    <2>1. [n \in 0 .. 0 |-> first] \in [0 .. 0 -> V]
      OBVIOUS
    <2>2. Iterates([n \in 0 .. 0 |-> first], 0, first, step)
      BY DEF Iterates
    <2>3. QED
      BY <2>1, <2>2
  <1>2. \A N \in Nat : N \in S => N + 1 \in S
    <2>1. SUFFICES ASSUME NEW N \in Nat, NEW f \in [0 .. N -> V],
                          Iterates(f, N, first, step)
                   PROVE  \E g \in [0 .. N + 1 -> V] : Iterates(g, N + 1, first, step)
      OBVIOUS
    <2> DEFINE g == [n \in 0 .. N + 1 |-> IF n = N + 1 THEN step[f[N]] ELSE f[n]]
    <2>2. g \in [0 .. N + 1 -> V]
      OBVIOUS
    <2>3. Iterates(g, N + 1, first, step)
      BY <2>1 DEF Iterates
    <2>4. QED
      BY <2>2, <2>3
  <1> HIDE DEF S
  <1>3. \A N \in Nat : N \in S
    BY <1>1, <1>2, InductionInSet
  <1> DEFINE Up(N) == CHOOSE f : f \in [0 .. N -> V] /\ Iterates(f, N, first, step)
             f == [n \in Nat |-> Up(n)[n]]
  <1>4. \A N \in Nat : Up(N) \in [0 .. N -> V] /\ Iterates(Up(N), N, first, step)
    BY <1>3 DEF S
  <1> HIDE DEF Up
  <1>5. f \in [Nat -> V]
    BY <1>4
  <1>6. f[0] = first
    BY <1>4 DEF Iterates
  <1>7. ASSUME NEW n \in Nat PROVE f[n + 1] = step[f[n]]
    <2>1. Up(n + 1)[n + 1] = step[Up(n + 1)[n]]
      BY <1>4 DEF Iterates
    <2>2. Up(n + 1)[n] = Up(n)[n]
      BY <1>4, IteratesAgree
    <2>3. QED
      BY <2>1, <2>2
  <1>8. QED
    BY <1>5, <1>6, <1>7

-----------------------------------------------------------------------------
\* Tuples of naturals.

\* Of tuples of one length, some is least: the entries of a heap have a top.
LEMMA LeastIsMember ==
    ASSUME NEW N \in Nat, NEW S \in SUBSET [1 .. N -> Nat], S # {}
    PROVE  Least(S) \in S /\ \A b \in S \ {Least(S)} : Less(Least(S), b)
  <1> DEFINE Same(a, b, k) == \A j \in 1 .. k : a[j] = b[j]
             Before(a, b, k) == \E i \in 1 .. k : a[i] < b[i] /\ Same(a, b, i - 1)
             G == {k \in Nat : k <= N =>
                        \E a \in S : \A b \in S : Same(a, b, k) \/ Before(a, b, k)}
  <1>1. 0 \in G
    OBVIOUS
  <1>2. ASSUME NEW k \in Nat, k \in G PROVE k + 1 \in G
    <2>1. SUFFICES ASSUME k + 1 <= N
                   PROVE  \E a \in S : \A b \in S : Same(a, b, k + 1) \/ Before(a, b, k + 1)
      OBVIOUS
    <2>2. PICK a \in S : \A b \in S : Same(a, b, k) \/ Before(a, b, k)
      BY <1>2, <2>1
    <2> DEFINE T == {b \in S : Same(a, b, k)}
               V == {b[k + 1] : b \in T}
    <2>3. V \in SUBSET Nat /\ V # {}
      <3>1. k + 1 \in 1 .. N
        BY <2>1
      <3>2. \A b \in S : b[k + 1] \in Nat
        BY <3>1
      <3>3. a \in T
        OBVIOUS
      <3>4. \A b \in T : b \in S
        OBVIOUS
      <3> HIDE DEF T
      <3>5. QED
        BY <3>2, <3>3, <3>4
    <2>4. PICK m \in V : \A n \in V : m <= n
      <3> HIDE DEF V
      <3>1. QED
        BY <2>3, LeastNumber
    <2>5. PICK c \in T : c[k + 1] = m
      BY <2>4
    <2>6. ASSUME NEW b \in S PROVE Same(c, b, k + 1) \/ Before(c, b, k + 1)
      <3>1. CASE Same(a, b, k)
        <4>1. b \in T /\ Same(c, b, k)
          BY <2>5, <3>1
        <4>2. c[k + 1] <= b[k + 1] /\ c[k + 1] \in Nat /\ b[k + 1] \in Nat
          BY <2>1, <2>3, <2>4, <2>5, <4>1
        <4>3. CASE c[k + 1] = b[k + 1]
          BY <4>1, <4>3
        <4>4. CASE c[k + 1] < b[k + 1]
          <5>1. k + 1 \in 1 .. k + 1 /\ (k + 1) - 1 = k
            OBVIOUS
          <5>2. QED
            BY <4>1, <4>4, <5>1
        <4>5. QED
          BY <4>2, <4>3, <4>4
      <3>2. CASE Before(a, b, k)
        <4>1. PICK i \in 1 .. k : a[i] < b[i] /\ Same(a, b, i - 1)
          BY <3>2
        <4>2. Same(a, c, k)
          BY <2>5
        <4>3. c[i] < b[i] /\ Same(c, b, i - 1)
          BY <4>1, <4>2
        <4>4. QED
          BY <4>3
      <3>3. QED
        BY <2>2, <3>1, <3>2
    <2>7. QED
      BY <2>5, <2>6
  <1>3. N \in G
    <2> HIDE DEF G
    <2>1. \A n \in Nat : n \in G
      BY <1>1, <1>2, InductionInSet
    <2>2. QED
      BY <2>1
  <1>4. PICK a \in S : \A b \in S : Same(a, b, N) \/ Before(a, b, N)
    BY <1>3
  <1>5. ASSUME NEW b \in S \ {a} PROVE Less(a, b)
    <2>1. ~Same(a, b, N)
      <3>1. a \in [1 .. N -> Nat] /\ b \in [1 .. N -> Nat] /\ a # b
        OBVIOUS
      <3>2. QED
        BY <3>1
    <2>2. DOMAIN a = 1 .. N
      OBVIOUS
    <2>3. QED
      BY <1>4, <2>1, <2>2 DEF Less
  <1>6. QED
    BY <1>4, <1>5 DEF Least

\* Less, on the tuples a heap orders.
LEMMA LessByFirst ==
    ASSUME NEW a, NEW b, DOMAIN a \in SUBSET (Nat \ {0}), 1 \in DOMAIN a,
           a[1] \in Int, b[1] \in Int, Less(a, b)
    PROVE  a[1] <= b[1]
  <1>1. PICK i \in DOMAIN a : a[i] < b[i] /\ \A j \in 1 .. i - 1 : a[j] = b[j]
    BY DEF Less
  <1>2. CASE i = 1
    BY <1>1, <1>2
  <1>3. CASE i # 1
    <2>1. 1 \in 1 .. i - 1
      BY <1>3
    <2>2. QED
      BY <1>1, <2>1
  <1>4. QED
    BY <1>2, <1>3

-----------------------------------------------------------------------------
\* The grid.

LEMMA InfIsPositive == Inf \in Nat \ {0}
  <1>1. \A a, b \in Nat \ {0} : a * b \in Nat \ {0}
    OBVIOUS
  <1>2. 1000 * Rows \in Nat \ {0}
    BY GridAssumption, <1>1
  <1>3. QED
    BY GridAssumption, <1>1, <1>2 DEF Inf

LEMMA PositionIsPair ==
    ASSUME NEW c \in Positions
    PROVE  /\ c = <<c[1], c[2]>>
           /\ c[1] \in 0 .. Rows - 1 /\ c[2] \in 0 .. Cols - 1
           /\ c[1] \in Nat /\ c[2] \in Nat
  BY GridAssumption DEF Positions

LEMMA AbsFacts ==
    \A a, b, c \in Int :
        /\ Abs(a - b) \in Nat /\ Abs(a - b) = Abs(b - a)
        /\ Abs(a - c) <= Abs(a - b) + Abs(b - c)
        /\ Abs(a - a) = 0 /\ (Abs(a - b) = 0 => a = b)
  BY DEF Abs

\* The Manhattan distance is a metric.
LEMMA ManhattanIsMetric ==
    ASSUME NEW a \in Positions, NEW b \in Positions, NEW c \in Positions
    PROVE  /\ Manhattan(a, b) \in Nat /\ Manhattan(a, b) = Manhattan(b, a)
           /\ Manhattan(a, c) <= Manhattan(a, b) + Manhattan(b, c)
           /\ Manhattan(a, a) = 0 /\ (Manhattan(a, b) = 0 => a = b)
  <1>1. /\ a = <<a[1], a[2]>> /\ a[1] \in Int /\ a[2] \in Int
        /\ b = <<b[1], b[2]>> /\ b[1] \in Int /\ b[2] \in Int
        /\ c = <<c[1], c[2]>> /\ c[1] \in Int /\ c[2] \in Int
    BY PositionIsPair
  <1> DEFINE R(x, y) == Abs(x[1] - y[1])
             C(x, y) == Abs(x[2] - y[2])
  <1>2. /\ R(a, b) \in Nat /\ R(a, b) = R(b, a) /\ R(a, c) <= R(a, b) + R(b, c)
        /\ R(a, a) = 0 /\ (R(a, b) = 0 => a[1] = b[1]) /\ R(b, c) \in Nat /\ R(a, c) \in Nat
    BY <1>1, AbsFacts
  <1>3. /\ C(a, b) \in Nat /\ C(a, b) = C(b, a) /\ C(a, c) <= C(a, b) + C(b, c)
        /\ C(a, a) = 0 /\ (C(a, b) = 0 => a[2] = b[2]) /\ C(b, c) \in Nat /\ C(a, c) \in Nat
    BY <1>1, AbsFacts
  <1>4. \A x, y : Manhattan(x, y) = R(x, y) + C(x, y)
    BY DEF Manhattan
  <1> HIDE DEF R, C
  <1>5. Manhattan(a, b) = 0 => R(a, b) = 0 /\ C(a, b) = 0
    BY <1>2, <1>3, <1>4
  <1>6. Manhattan(a, b) = 0 => a = b
    BY <1>1, <1>2, <1>3, <1>5
  <1>7. Manhattan(a, b) \in Nat /\ Manhattan(a, b) = Manhattan(b, a) /\ Manhattan(a, a) = 0
    BY <1>2, <1>3, <1>4
  <1>8. Manhattan(a, c) <= Manhattan(a, b) + Manhattan(b, c)
    BY <1>2, <1>3, <1>4
  <1>9. QED
    BY <1>6, <1>7, <1>8

\* The neighbours of a cell are the cells one step away, and neighbourhood is
\* symmetric.
LEMMA NeighboursAreAdjacent ==
    ASSUME NEW a \in Positions, NEW b
    PROVE  b \in Neighbours(a) <=> b \in Positions /\ Manhattan(a, b) = 1
  <1> DEFINE D == {<<-1, 0>>, <<1, 0>>, <<0, -1>>, <<0, 1>>}
  <1>1. a = <<a[1], a[2]>> /\ a[1] \in Nat /\ a[2] \in Nat
    BY PositionIsPair
  <1>2. ASSUME b \in Neighbours(a) PROVE b \in Positions /\ Manhattan(a, b) = 1
    <2>1. b \in Positions /\ \E d \in D : b = <<a[1] + d[1], a[2] + d[2]>>
      BY <1>2 DEF Neighbours
    <2>2. \/ b = <<a[1] - 1, a[2]>>
          \/ b = <<a[1] + 1, a[2]>>
          \/ b = <<a[1], a[2] - 1>>
          \/ b = <<a[1], a[2] + 1>>
      BY <1>1, <2>1
    <2>3. QED
      BY <1>1, <2>1, <2>2 DEF Manhattan, Abs
  <1>3. ASSUME b \in Positions, Manhattan(a, b) = 1 PROVE b \in Neighbours(a)
    <2>1. b = <<b[1], b[2]>> /\ b[1] \in Nat /\ b[2] \in Nat
      BY <1>3, PositionIsPair
    <2>2. \/ b[1] = a[1] - 1 /\ b[2] = a[2]
          \/ b[1] = a[1] + 1 /\ b[2] = a[2]
          \/ b[1] = a[1] /\ b[2] = a[2] - 1
          \/ b[1] = a[1] /\ b[2] = a[2] + 1
      BY <1>1, <1>3, <2>1 DEF Manhattan, Abs
    <2>3. \E d \in D : b[1] = a[1] + d[1] /\ b[2] = a[2] + d[2]
      <3>1. CASE b[1] = a[1] - 1 /\ b[2] = a[2]
        <4>1. <<-1, 0>> \in D
          OBVIOUS
        <4>2. QED
          BY <1>1, <3>1, <4>1
      <3>2. CASE b[1] = a[1] + 1 /\ b[2] = a[2]
        <4>1. <<1, 0>> \in D
          OBVIOUS
        <4>2. QED
          BY <1>1, <3>2, <4>1
      <3>3. CASE b[1] = a[1] /\ b[2] = a[2] - 1
        <4>1. <<0, -1>> \in D
          OBVIOUS
        <4>2. QED
          BY <1>1, <3>3, <4>1
      <3>4. CASE b[1] = a[1] /\ b[2] = a[2] + 1
        <4>1. <<0, 1>> \in D
          OBVIOUS
        <4>2. QED
          BY <1>1, <3>4, <4>1
      <3>5. QED
        BY <2>2, <3>1, <3>2, <3>3, <3>4
    <2>4. QED
      BY <1>3, <2>1, <2>3 DEF Neighbours
  <1>4. QED
    BY <1>2, <1>3

LEMMA NeighboursFacts ==
    ASSUME NEW a \in Positions, NEW b \in Positions
    PROVE  /\ Neighbours(a) \subseteq Positions
           /\ a \notin Neighbours(a)
           /\ (b \in Neighbours(a) <=> a \in Neighbours(b))
           /\ (b \in Neighbours(a) => Manhattan(a, b) = 1)
  BY NeighboursAreAdjacent, ManhattanIsMetric

-----------------------------------------------------------------------------
\* The search.

LEMMA EntryIsTuple ==
    ASSUME NEW k \in Nat, NEW c \in Positions, NEW goal \in Positions
    PROVE  /\ Entry(k, c, goal) \in
                    Nat \X Nat \X Nat \X (0 .. Rows - 1) \X (0 .. Cols - 1)
           /\ CellOf(Entry(k, c, goal)) = c
           /\ Entry(k, c, goal)[1] = k + Manhattan(c, goal)
           /\ Entry(k, c, goal)[3] = k
  <1>1. /\ c = <<c[1], c[2]>> /\ c[1] \in 0 .. Rows - 1 /\ c[2] \in 0 .. Cols - 1
    BY PositionIsPair
  <1>2. Manhattan(c, goal) \in Nat
    BY ManhattanIsMetric
  <1>3. QED
    BY <1>1, <1>2 DEF Entry, CellOf

\* The top of a heap that is not empty is one of its entries, and none costs less.
LEMMA TopOfHeap ==
    ASSUME NEW heap \in SUBSET (Nat \X Nat \X Nat \X (0 .. Rows - 1) \X (0 .. Cols - 1)),
           heap # {}
    PROVE  /\ Least(heap) \in heap
           /\ CellOf(Least(heap)) \in Positions
           /\ Least(heap)[3] \in Nat
           /\ \A e \in heap : Least(heap)[1] <= e[1]
  <1> DEFINE T == Nat \X Nat \X Nat \X (0 .. Rows - 1) \X (0 .. Cols - 1)
  <1>1. ASSUME NEW e \in T PROVE e \in [1 .. 5 -> Nat] /\ e[1] \in Nat /\ DOMAIN e = 1 .. 5
    <2>1. PICK a \in Nat, b \in Nat, c \in Nat, d \in 0 .. Rows - 1, f \in 0 .. Cols - 1 :
                e = <<a, b, c, d, f>>
      OBVIOUS
    <2>2. d \in Nat /\ f \in Nat
      BY GridAssumption
    <2>3. QED
      BY <2>1, <2>2
  <1>2. heap \in SUBSET [1 .. 5 -> Nat]
    BY <1>1
  <1>3. Least(heap) \in heap /\ \A b \in heap \ {Least(heap)} : Less(Least(heap), b)
    BY <1>2, LeastIsMember
  <1>4. \A e \in heap : e \in T
    OBVIOUS
  <1>5. CellOf(Least(heap)) \in Positions /\ Least(heap)[3] \in Nat
    BY <1>3, <1>4 DEF CellOf, Positions
  <1>6. ASSUME NEW e \in heap PROVE Least(heap)[1] <= e[1]
    <2>1. /\ Least(heap)[1] \in Nat /\ e[1] \in Nat
          /\ DOMAIN Least(heap) \in SUBSET (Nat \ {0}) /\ 1 \in DOMAIN Least(heap)
      <3> HIDE DEF T
      <3>1. DOMAIN Least(heap) = 1 .. 5 /\ Least(heap)[1] \in Nat /\ e[1] \in Nat
        BY <1>1, <1>3, <1>4
      <3>2. QED
        BY <3>1
    <2>2. CASE e = Least(heap)
      BY <2>1, <2>2
    <2>3. CASE e # Least(heap)
      BY <1>3, <2>1, <2>3, LessByFirst
    <2>4. QED
      BY <2>2, <2>3
  <1>7. QED
    BY <1>3, <1>5, <1>6

\* A cell whose cheapest cost is still in the heap.
Pending(s, goal, c) == Entry(s.best[c], c, goal) \in s.heap

\* What holds of a search after any number of iterations: every cell but the
\* start has been found from a cheaper neighbour; an entry is that of a cost found
\* earlier; a cell whose entry has been taken has made its neighbours at most
\* one step dearer than itself; the goal's has not been taken.
AStarInv(s, blocked, start, goal) ==
    /\ s \in Searches
    /\ s.best[start] = 0
    /\ \A c \in Positions : s.best[c] < Inf /\ c # start =>
            /\ c \in Neighbours(s.parent[c]) \ blocked
            /\ s.best[s.parent[c]] < s.best[c]
    /\ \A e \in s.heap :
            /\ e = Entry(e[3], CellOf(e), goal)
            /\ s.best[CellOf(e)] <= e[3] /\ e[3] < Inf
    /\ \A c \in Positions : s.best[c] < Inf =>
            \/ Pending(s, goal, c)
            \/ \A n \in Neighbours(c) \ blocked : s.best[n] <= s.best[c] + 1
    /\ s.best[goal] < Inf => Pending(s, goal, goal)

LEMMA FirstSearchInv ==
    ASSUME NEW start \in Positions, NEW goal \in Positions, NEW blocked, start # goal
    PROVE  AStarInv(FirstSearch(start, goal), blocked, start, goal)
  <1> DEFINE s == FirstSearch(start, goal)
  <1>1. Inf \in Nat \ {0}
    BY InfIsPositive
  <1>2. /\ Entry(0, start, goal) \in Nat \X Nat \X Nat \X (0 .. Rows - 1) \X (0 .. Cols - 1)
        /\ CellOf(Entry(0, start, goal)) = start /\ Entry(0, start, goal)[3] = 0
    BY EntryIsTuple
  <1>3. /\ s.heap = {Entry(0, start, goal)}
        /\ s.best = [c \in Positions |-> IF c = start THEN 0 ELSE Inf]
        /\ s.parent = [c \in Positions |-> c]
        /\ s = [heap |-> s.heap, best |-> s.best, parent |-> s.parent]
    BY DEF FirstSearch
  <1> HIDE DEF s
  <1>4. s \in Searches
    <2>1. s.best \in [Positions -> 0 .. Inf]
      BY <1>1, <1>3
    <2>2. QED
      BY <1>2, <1>3, <2>1 DEF Searches
  <1>5. s.best[start] = 0 /\ \A c \in Positions : c # start => s.best[c] = Inf
    BY <1>3
  <1>6. Pending(s, goal, start)
    BY <1>3, <1>5 DEF Pending
  <1>7. \A e \in s.heap : /\ e = Entry(e[3], CellOf(e), goal)
                          /\ s.best[CellOf(e)] <= e[3] /\ e[3] < Inf
    BY <1>1, <1>2, <1>3, <1>5
  <1>8. \A c \in Positions : s.best[c] < Inf => c = start
    BY <1>1, <1>5
  <1>9. QED
    BY <1>4, <1>5, <1>6, <1>7, <1>8 DEF AStarInv, s

LEMMA ExpandedIsSearch ==
    ASSUME NEW s \in Searches, s.heap # {}, NEW blocked, NEW goal \in Positions
    PROVE  Expanded(s, blocked, goal) \in Searches
  <1> DEFINE entry == Least(s.heap)
             cell == CellOf(entry)
             cost == entry[3] + 1
             found == Improved(s, cell, cost, blocked)
             t == Expanded(s, blocked, goal)
  <1>1. /\ s.heap \in SUBSET (Nat \X Nat \X Nat \X (0 .. Rows - 1) \X (0 .. Cols - 1))
        /\ s.best \in [Positions -> 0 .. Inf] /\ s.parent \in [Positions -> Positions]
    BY DEF Searches
  <1>2. cell \in Positions /\ cost \in Nat
    BY <1>1, TopOfHeap
  <1>3. CASE ~Current(s, entry)
    <2>1. t = [s EXCEPT !.heap = s.heap \ {entry}]
      BY <1>3 DEF Expanded, Taken
    <2>2. QED
      BY <1>1, <2>1 DEF Searches
  <1>4. CASE Current(s, entry)
    <2> HIDE DEF entry, cell, cost
    <2>1. /\ t.heap = (s.heap \ {entry}) \cup {Entry(cost, c, goal) : c \in found}
          /\ t.best = [c \in Positions |-> IF c \in found THEN cost ELSE s.best[c]]
          /\ t.parent = [c \in Positions |-> IF c \in found THEN cell ELSE s.parent[c]]
          /\ t = [heap |-> t.heap, best |-> t.best, parent |-> t.parent]
      BY <1>4 DEF Expanded, Taken, entry, cell, cost
    <2>2. \A c \in found : c \in Positions /\ cost < s.best[c]
      BY <1>2, NeighboursAreAdjacent DEF Improved
    <2>3. \A c \in found : cost \in 0 .. Inf
      BY <1>1, <1>2, <2>2, InfIsPositive
    <2>4. t.best \in [Positions -> 0 .. Inf]
      BY <1>1, <2>1, <2>3
    <2>5. t.parent \in [Positions -> Positions]
      BY <1>1, <1>2, <2>1
    <2>6. \A c \in found :
              Entry(cost, c, goal) \in Nat \X Nat \X Nat \X (0 .. Rows - 1) \X (0 .. Cols - 1)
      BY <1>2, <2>2, EntryIsTuple
    <2>7. t.heap \in SUBSET (Nat \X Nat \X Nat \X (0 .. Rows - 1) \X (0 .. Cols - 1))
      BY <1>1, <2>1, <2>6
    <2>8. QED
      BY <2>1, <2>4, <2>5, <2>7 DEF Searches
  <1>5. QED
    BY <1>3, <1>4

\* An iteration keeps the invariant.  The cell it takes cannot be the goal, at
\* whose current entry the loop has ended.
LEMMA ExpandedInv ==
    ASSUME NEW blocked, NEW start \in Positions, NEW goal \in Positions,
           NEW s, AStarInv(s, blocked, start, goal), ~Ended(s, goal)
    PROVE  AStarInv(Expanded(s, blocked, goal), blocked, start, goal)
  <1> DEFINE entry == Least(s.heap)
             cell == CellOf(entry)
             cost == entry[3] + 1
             found == Improved(s, cell, cost, blocked)
             t == Expanded(s, blocked, goal)
  <1>1. /\ s \in Searches /\ s.best[start] = 0 /\ s.heap # {}
        /\ s.heap \in SUBSET (Nat \X Nat \X Nat \X (0 .. Rows - 1) \X (0 .. Cols - 1))
        /\ s.best \in [Positions -> 0 .. Inf] /\ s.parent \in [Positions -> Positions]
    BY DEF AStarInv, Searches, Ended
  <1>2. entry \in s.heap /\ cell \in Positions /\ entry[3] \in Nat /\ cost \in Nat
    BY <1>1, TopOfHeap
  <1>3. t \in Searches
    BY <1>1, ExpandedIsSearch
  <1>4. Inf \in Nat \ {0}
    BY InfIsPositive
  <1>5. /\ \A c \in Positions : s.best[c] < Inf /\ c # start =>
                /\ c \in Neighbours(s.parent[c]) \ blocked
                /\ s.best[s.parent[c]] < s.best[c]
        /\ \A e \in s.heap :
                /\ e = Entry(e[3], CellOf(e), goal)
                /\ s.best[CellOf(e)] <= e[3] /\ e[3] < Inf
        /\ \A c \in Positions : s.best[c] < Inf =>
                \/ Pending(s, goal, c)
                \/ \A n \in Neighbours(c) \ blocked : s.best[n] <= s.best[c] + 1
        /\ s.best[goal] < Inf => Pending(s, goal, goal)
    BY DEF AStarInv
  <1>6. Current(s, entry) <=> entry[3] = s.best[cell]
    BY DEF Current
  <1>7. \A c \in Positions : s.best[c] \in Nat /\ CellOf(Entry(s.best[c], c, goal)) = c
                             /\ Entry(s.best[c], c, goal)[3] = s.best[c]
    <2>1. SUFFICES ASSUME NEW c \in Positions
                   PROVE  s.best[c] \in Nat /\ CellOf(Entry(s.best[c], c, goal)) = c
                          /\ Entry(s.best[c], c, goal)[3] = s.best[c]
      OBVIOUS
    <2>2. s.best[c] \in Nat
      BY <1>1, <1>4
    <2>3. QED
      BY <2>2, EntryIsTuple
  <1>8. CASE ~Current(s, entry)
    <2>1. t.heap = s.heap \ {entry} /\ t.best = s.best /\ t.parent = s.parent
      BY <1>1, <1>8 DEF Expanded, Taken, Searches
    <2> HIDE DEF t, entry, cell, cost, found
    <2>2. ASSUME NEW c \in Positions, Pending(s, goal, c) PROVE Pending(t, goal, c)
      <3>1. Entry(s.best[c], c, goal) # entry
        BY <1>6, <1>7, <1>8 DEF cell
      <3>2. QED
        BY <2>1, <2>2, <3>1 DEF Pending
    <2>3. \A c \in Positions : s.best[c] < Inf =>
                \/ Pending(t, goal, c)
                \/ \A n \in Neighbours(c) \ blocked : s.best[n] <= s.best[c] + 1
      BY <1>5, <2>2
    <2>4. s.best[goal] < Inf => Pending(t, goal, goal)
      BY <1>5, <2>2
    <2>5. \A e \in t.heap : e \in s.heap
      BY <2>1
    <2>6. AStarInv(t, blocked, start, goal)
      BY <1>1, <1>3, <1>5, <2>1, <2>3, <2>4, <2>5 DEF AStarInv
    <2>7. QED
      BY <2>6 DEF t
  <1>9. CASE Current(s, entry)
    <2>1. /\ t.heap = (s.heap \ {entry}) \cup {Entry(cost, c, goal) : c \in found}
          /\ t.best = [c \in Positions |-> IF c \in found THEN cost ELSE s.best[c]]
          /\ t.parent = [c \in Positions |-> IF c \in found THEN cell ELSE s.parent[c]]
      BY <1>9 DEF Expanded, Taken
    <2>2. cell # goal
      BY <1>1, <1>9 DEF Ended
    <2>3. s.best[cell] = entry[3] /\ cost = s.best[cell] + 1 /\ s.best[cell] < Inf
      BY <1>2, <1>5, <1>6, <1>9
    <2>4. \A c \in found : c \in Positions /\ c \in Neighbours(cell) \ blocked
                           /\ cost < s.best[c] /\ cost < Inf
      BY <1>1, <1>2, <1>4, NeighboursAreAdjacent DEF Improved
    <2>5. cell \notin found /\ start \notin found
      BY <1>1, <1>2, <2>4, NeighboursFacts
    <2>6. \A c \in Neighbours(cell) \ blocked : c \in found \/ s.best[c] <= cost
      BY <1>1, <1>2, NeighboursAreAdjacent DEF Improved
    <2> HIDE DEF t, entry, cell, cost, found
    <2>7. \A c \in Positions : /\ t.best[c] = IF c \in found THEN cost ELSE s.best[c]
                               /\ t.parent[c] = IF c \in found THEN cell ELSE s.parent[c]
                               /\ t.best[c] <= s.best[c] /\ t.best[c] \in Nat
      BY <1>2, <1>7, <2>1, <2>4
    <2>8. t.best[start] = 0 /\ t.best[cell] = s.best[cell]
      BY <1>1, <1>2, <2>5, <2>7
    <2>9. ASSUME NEW c \in Positions, t.best[c] < Inf, c # start
          PROVE  /\ c \in Neighbours(t.parent[c]) \ blocked
                 /\ t.best[t.parent[c]] < t.best[c]
      <3>1. CASE c \in found
        BY <1>2, <1>7, <2>3, <2>4, <2>7, <2>8, <3>1
      <3>2. CASE c \notin found
        <4>1. /\ c \in Neighbours(s.parent[c]) \ blocked
              /\ s.best[s.parent[c]] < s.best[c] /\ s.parent[c] \in Positions
          BY <1>1, <1>5, <2>7, <2>9, <3>2
        <4>2. t.best[s.parent[c]] <= s.best[s.parent[c]]
          BY <2>7, <4>1
        <4>3. t.best[s.parent[c]] \in Nat /\ s.best[s.parent[c]] \in Nat /\ s.best[c] \in Nat
          BY <1>7, <2>7, <4>1
        <4>4. QED
          BY <2>7, <3>2, <4>1, <4>2, <4>3
      <3>3. QED
        BY <3>1, <3>2
    <2>10. ASSUME NEW e \in t.heap
           PROVE  /\ e = Entry(e[3], CellOf(e), goal)
                  /\ t.best[CellOf(e)] <= e[3] /\ e[3] < Inf
      <3>1. CASE e \in s.heap
        <4>1. CellOf(e) \in Positions /\ e[3] \in Nat
          BY <1>1, <3>1 DEF CellOf, Positions
        <4>2. t.best[CellOf(e)] <= s.best[CellOf(e)] /\ s.best[CellOf(e)] <= e[3]
          BY <1>5, <2>7, <3>1, <4>1
        <4>3. t.best[CellOf(e)] \in Nat /\ s.best[CellOf(e)] \in Nat
          BY <1>7, <2>7, <4>1
        <4>4. QED
          BY <1>5, <3>1, <4>1, <4>2, <4>3
      <3>2. CASE e \notin s.heap
        <4>1. PICK c \in found : e = Entry(cost, c, goal)
          BY <2>1, <3>2
        <4>2. CellOf(e) = c /\ e[3] = cost
          BY <1>2, <2>4, <4>1, EntryIsTuple
        <4>3. QED
          BY <1>2, <2>4, <2>7, <4>1, <4>2
      <3>3. QED
        BY <3>1, <3>2
    <2>11. ASSUME NEW c \in found PROVE Pending(t, goal, c)
      BY <2>1, <2>4, <2>7 DEF Pending
    <2>12. ASSUME NEW c \in Positions, c \notin found, c # cell, Pending(s, goal, c)
           PROVE  Pending(t, goal, c)
      <3>1. Entry(s.best[c], c, goal) # entry
        BY <1>7, <2>12 DEF cell
      <3>2. QED
        BY <2>1, <2>7, <2>12, <3>1 DEF Pending
    <2>13. ASSUME NEW c \in Positions, t.best[c] < Inf
           PROVE  \/ Pending(t, goal, c)
                  \/ \A n \in Neighbours(c) \ blocked : t.best[n] <= t.best[c] + 1
      <3>1. CASE c \in found
        BY <2>11, <3>1
      <3>2. CASE c = cell
        <4>1. \A n \in Neighbours(cell) \ blocked : n \in Positions
          BY <1>2, NeighboursAreAdjacent
        <4>2. \A n \in Neighbours(cell) \ blocked : t.best[n] <= cost
          BY <1>2, <2>6, <2>7, <4>1
        <4>3. QED
          BY <2>3, <2>8, <3>2, <4>2
      <3>3. CASE c \notin found /\ c # cell
        <4>1. t.best[c] = s.best[c]
          BY <2>7, <3>3
        <4>2. CASE Pending(s, goal, c)
          BY <2>12, <3>3, <4>2
        <4>3. CASE \A n \in Neighbours(c) \ blocked : s.best[n] <= s.best[c] + 1
          <5>1. ASSUME NEW n \in Neighbours(c) \ blocked PROVE t.best[n] <= t.best[c] + 1
            <6>1. n \in Positions
              BY NeighboursAreAdjacent
            <6>2. t.best[n] <= s.best[n] /\ t.best[n] \in Nat /\ s.best[n] \in Nat /\ s.best[c] \in Nat
              BY <1>7, <2>7, <6>1
            <6>3. QED
              BY <4>1, <4>3, <6>2
          <5>2. QED
            BY <5>1
        <4>4. QED
          BY <1>5, <2>13, <4>1, <4>2, <4>3
      <3>4. QED
        BY <3>1, <3>2, <3>3
    <2>14. t.best[goal] < Inf => Pending(t, goal, goal)
      BY <1>5, <2>2, <2>7, <2>11, <2>12
    <2>15. AStarInv(t, blocked, start, goal)
      BY <1>3, <2>8, <2>9, <2>10, <2>13, <2>14 DEF AStarInv
    <2>16. QED
      BY <2>15 DEF t
  <1>10. QED
    BY <1>8, <1>9

\* The entries the heap holds or may still come to hold: each iteration uses one up.
Left(s, goal) ==
    {x \in (0 .. Inf - 1) \X Positions :
        Entry(x[1], x[2], goal) \in s.heap \/ x[1] < s.best[x[2]]}

LEMMA LeftIsFinite ==
    ASSUME NEW s, NEW goal
    PROVE  /\ IsFiniteSet(Left(s, goal)) /\ Cardinality(Left(s, goal)) \in Nat
           /\ Cardinality(Left(s, goal)) <= Inf * Rows * Cols
  <1>1. Inf \in Nat \ {0} /\ Rows \in Nat \ {0} /\ Cols \in Nat \ {0}
    BY InfIsPositive, GridAssumption
  <1>2. /\ IsFiniteSet(0 .. Inf - 1) /\ Cardinality(0 .. Inf - 1) = Inf
        /\ IsFiniteSet(0 .. Rows - 1) /\ Cardinality(0 .. Rows - 1) = Rows
        /\ IsFiniteSet(0 .. Cols - 1) /\ Cardinality(0 .. Cols - 1) = Cols
    <2>1. \A n \in Nat \ {0} : IsFiniteSet(0 .. n - 1) /\ Cardinality(0 .. n - 1) = n
      <3>1. SUFFICES ASSUME NEW n \in Nat \ {0}
                     PROVE  IsFiniteSet(0 .. n - 1) /\ Cardinality(0 .. n - 1) = n
        OBVIOUS
      <3>2. 0 \in Int /\ n - 1 \in Int /\ ~(0 > n - 1) /\ (n - 1) - 0 + 1 = n
        OBVIOUS
      <3>3. QED
        BY <3>2, FS_Interval
    <2>2. QED
      BY <1>1, <2>1
  <1> DEFINE R == 0 .. Rows - 1
             C == 0 .. Cols - 1
             I == 0 .. Inf - 1
  <1>3. IsFiniteSet(Positions) /\ Cardinality(Positions) = Rows * Cols
    <2>1. Positions = R \X C
      BY DEF Positions
    <2>2. IsFiniteSet(R) /\ IsFiniteSet(C) /\ Cardinality(R) = Rows /\ Cardinality(C) = Cols
      BY <1>2
    <2> HIDE DEF R, C
    <2>3. IsFiniteSet(R \X C) /\ Cardinality(R \X C) = Cardinality(R) * Cardinality(C)
      BY <2>2, FS_Product
    <2>4. QED
      BY <2>1, <2>2, <2>3
  <1>4. /\ IsFiniteSet((0 .. Inf - 1) \X Positions)
        /\ Cardinality((0 .. Inf - 1) \X Positions) = Inf * (Rows * Cols)
    <2>1. IsFiniteSet(I) /\ Cardinality(I) = Inf
      BY <1>2
    <2> HIDE DEF I
    <2>2. IsFiniteSet(I \X Positions)
          /\ Cardinality(I \X Positions) = Cardinality(I) * Cardinality(Positions)
      BY <1>3, <2>1, FS_Product
    <2>3. IsFiniteSet(I \X Positions) /\ Cardinality(I \X Positions) = Inf * (Rows * Cols)
      BY <1>3, <2>1, <2>2
    <2>4. QED
      BY <2>3 DEF I
  <1>5. Left(s, goal) \in SUBSET ((0 .. Inf - 1) \X Positions)
    BY DEF Left
  <1>6. /\ IsFiniteSet(Left(s, goal)) /\ Cardinality(Left(s, goal)) \in Nat
        /\ Cardinality(Left(s, goal)) <= Inf * (Rows * Cols)
    BY <1>4, <1>5, FS_Subset, FS_CardinalityType
  <1>7. \A a, b, c \in Nat : a * (b * c) = (a * b) * c
    OBVIOUS
  <1>8. QED
    BY <1>1, <1>6, <1>7

LEMMA ExpandedUsesUp ==
    ASSUME NEW blocked, NEW start \in Positions, NEW goal \in Positions,
           NEW s, AStarInv(s, blocked, start, goal), ~Ended(s, goal)
    PROVE  Cardinality(Left(Expanded(s, blocked, goal), goal)) < Cardinality(Left(s, goal))
  <1> DEFINE entry == Least(s.heap)
             cell == CellOf(entry)
             cost == entry[3] + 1
             found == Improved(s, cell, cost, blocked)
             t == Expanded(s, blocked, goal)
             used == <<entry[3], cell>>
  <1>1. /\ s \in Searches /\ s.heap # {}
        /\ s.heap \in SUBSET (Nat \X Nat \X Nat \X (0 .. Rows - 1) \X (0 .. Cols - 1))
        /\ s.best \in [Positions -> 0 .. Inf]
    BY DEF AStarInv, Searches, Ended
  <1>2. entry \in s.heap /\ cell \in Positions /\ entry[3] \in Nat /\ cost \in Nat
    BY <1>1, TopOfHeap
  <1>3. /\ entry = Entry(entry[3], cell, goal) /\ s.best[cell] <= entry[3] /\ entry[3] < Inf
    BY <1>2 DEF AStarInv
  <1>4. Inf \in Nat \ {0}
    BY InfIsPositive
  <1> HIDE DEF entry, cell, cost, found, t
  <1>5. used \in Left(s, goal)
    BY <1>2, <1>3, <1>4 DEF Left
  <1>6. /\ \A c \in found : c \in Positions /\ cost < s.best[c]
        /\ t.heap \subseteq (s.heap \ {entry}) \cup {Entry(cost, c, goal) : c \in found}
        /\ \A c \in Positions : t.best[c] = s.best[c] \/ (c \in found /\ t.best[c] = cost)
    <2>1. \A c \in found : c \in Positions /\ cost < s.best[c]
      BY <1>2, NeighboursAreAdjacent DEF Improved, found
    <2>2. CASE ~Current(s, entry)
      <3>1. t.heap = s.heap \ {entry} /\ t.best = s.best
        BY <1>1, <2>2 DEF Expanded, Taken, Searches, entry, t
      <3>2. QED
        BY <2>1, <3>1
    <2>3. CASE Current(s, entry)
      <3>1. /\ t.heap = (s.heap \ {entry}) \cup {Entry(cost, c, goal) : c \in found}
            /\ t.best = [c \in Positions |-> IF c \in found THEN cost ELSE s.best[c]]
        BY <2>3 DEF Expanded, Taken, entry, cost, cell, found, t
      <3>2. QED
        BY <2>1, <3>1
    <2>4. QED
      BY <2>2, <2>3
  <1>7. \A c \in Positions : t.best[c] <= s.best[c] /\ t.best[c] \in Nat /\ s.best[c] \in Nat
    BY <1>1, <1>2, <1>4, <1>6
  <1>8. used \notin Left(t, goal)
    <2>1. Entry(entry[3], cell, goal) \notin t.heap
      <3>1. SUFFICES ASSUME entry \in t.heap PROVE FALSE
        BY <1>3
      <3>2. PICK c \in found : entry = Entry(cost, c, goal)
        BY <1>6, <3>1
      <3>3. entry[3] = cost
        BY <1>2, <1>6, <3>2, EntryIsTuple
      <3>4. QED
        BY <1>2, <3>3 DEF cost
    <2>2. ~(entry[3] < t.best[cell])
      BY <1>2, <1>3, <1>7
    <2>3. QED
      BY <2>1, <2>2 DEF Left
  <1>9. ASSUME NEW x \in Left(t, goal) PROVE x \in Left(s, goal)
    <2>1. x \in (0 .. Inf - 1) \X Positions /\ x[1] \in Nat /\ x[2] \in Positions
      BY <1>4 DEF Left
    <2>2. CASE x[1] < t.best[x[2]]
      <3>1. x[1] < s.best[x[2]]
        BY <1>7, <2>1, <2>2
      <3>2. QED
        BY <2>1, <3>1 DEF Left
    <2>3. CASE Entry(x[1], x[2], goal) \in t.heap
      <3>1. CASE Entry(x[1], x[2], goal) \in s.heap
        BY <2>1, <3>1 DEF Left
      <3>2. CASE Entry(x[1], x[2], goal) \notin s.heap
        <4>1. PICK c \in found : Entry(x[1], x[2], goal) = Entry(cost, c, goal)
          BY <1>6, <2>3, <3>2
        <4>2. x[1] = cost /\ x[2] = c
          <5>1. /\ CellOf(Entry(x[1], x[2], goal)) = x[2]
                /\ Entry(x[1], x[2], goal)[3] = x[1]
            BY <2>1, EntryIsTuple
          <5>2. CellOf(Entry(cost, c, goal)) = c /\ Entry(cost, c, goal)[3] = cost
            <6>1. c \in Positions /\ cost \in Nat
              BY <1>2, <1>6
            <6>2. QED
              BY <6>1, EntryIsTuple
          <5>3. QED
            BY <4>1, <5>1, <5>2
        <4>3. x[1] < s.best[x[2]]
          BY <1>6, <4>2
        <4>4. QED
          BY <2>1, <4>3 DEF Left
      <3>3. QED
        BY <3>1, <3>2
    <2>4. QED
      BY <2>2, <2>3 DEF Left
  <1>10. /\ IsFiniteSet(Left(s, goal)) /\ Left(t, goal) \in SUBSET Left(s, goal)
         /\ Left(t, goal) # Left(s, goal)
         /\ Cardinality(Left(s, goal)) \in Nat /\ Cardinality(Left(t, goal)) \in Nat
    BY <1>5, <1>8, <1>9, LeftIsFinite
  <1>11. Cardinality(Left(t, goal)) < Cardinality(Left(s, goal))
    BY <1>10, FS_Subset
  <1>12. QED
    BY <1>11 DEF t

-----------------------------------------------------------------------------
\* What the loop ends with.

\* The definition of a bounded loop has a solution.
LEMMA LoopExists ==
    ASSUME NEW V, NEW first \in V, NEW step \in [V -> V]
    PROVE  \E f \in [Nat -> V] :
                \A n \in Nat : f[n] = IF n = 0 THEN first ELSE step[f[n - 1]]
  <1>1. PICK f \in [Nat -> V] : f[0] = first /\ \A n \in Nat : f[n + 1] = step[f[n]]
    BY IterationExists
  <1>2. ASSUME NEW n \in Nat, n # 0 PROVE f[n] = step[f[n - 1]]
    <2>1. n - 1 \in Nat /\ (n - 1) + 1 = n
      BY <1>2
    <2>2. f[(n - 1) + 1] = step[f[n - 1]]
      BY <1>1, <2>1
    <2>3. QED
      BY <2>1, <2>2
  <1>3. QED
    BY <1>1, <1>2

LEMMA ExploreIsDefined ==
    ASSUME NEW blocked, NEW goal \in Positions
    PROVE  \A n \in Nat, s \in Searches :
                Explore(blocked, goal)[n][s] =
                    IF n = 0 \/ Ended(s, goal) THEN s
                    ELSE Explore(blocked, goal)[n - 1][Expanded(s, blocked, goal)]
  <1> DEFINE V == [Searches -> Searches]
             first == [s \in Searches |-> s]
             step == [v \in V |-> [s \in Searches |->
                        IF Ended(s, goal) THEN s ELSE v[Expanded(s, blocked, goal)]]]
             Body(g) == [n \in Nat |-> [s \in Searches |->
                            IF n = 0 \/ Ended(s, goal) THEN s
                            ELSE g[n - 1][Expanded(s, blocked, goal)]]]
  <1>1. \A s \in Searches : ~Ended(s, goal) => Expanded(s, blocked, goal) \in Searches
    BY ExpandedIsSearch DEF Ended
  <1>2. first \in V /\ step \in [V -> V]
    BY <1>1
  <1>3. PICK f \in [Nat -> V] : \A n \in Nat : f[n] = IF n = 0 THEN first ELSE step[f[n - 1]]
    <2> HIDE DEF V, first, step
    <2>1. QED
      BY <1>2, LoopExists
  <1>4. f = Body(f)
    <2>1. ASSUME NEW n \in Nat
          PROVE  f[n] = [s \in Searches |-> IF n = 0 \/ Ended(s, goal) THEN s
                                            ELSE f[n - 1][Expanded(s, blocked, goal)]]
      <3>1. CASE n = 0
        BY <1>3, <3>1
      <3>2. CASE n # 0
        <4>1. n - 1 \in Nat
          BY <3>2
        <4>2. f[n - 1] \in V
          BY <4>1
        <4>3. f[n] = [s \in Searches |-> IF Ended(s, goal) THEN s
                                         ELSE f[n - 1][Expanded(s, blocked, goal)]]
          BY <1>3, <3>2, <4>2
        <4>4. QED
          BY <3>2, <4>3
      <3>3. QED
        BY <3>1, <3>2
    <2>2. QED
      BY <2>1
  <1>5. Explore(blocked, goal) = CHOOSE g : g = Body(g)
    BY DEF Explore
  <1>6. Explore(blocked, goal) = Body(Explore(blocked, goal))
    <2> HIDE DEF Body
    <2>1. QED
      BY <1>4, <1>5
  <1> DEFINE e == Explore(blocked, goal)
  <1>7. e = Body(e)
    BY <1>6
  <1> HIDE DEF e
  <1>8. \A n \in Nat : e[n] = [s \in Searches |-> IF n = 0 \/ Ended(s, goal) THEN s
                                                ELSE e[n - 1][Expanded(s, blocked, goal)]]
    BY <1>7
  <1>9. \A n \in Nat, s \in Searches :
            e[n][s] = IF n = 0 \/ Ended(s, goal) THEN s
                      ELSE e[n - 1][Expanded(s, blocked, goal)]
    BY <1>8
  <1>10. QED
    BY <1>9 DEF e

\* The loop ends, for one of its two reasons, before its bound is used up.
LEMMA ExploreEnds ==
    ASSUME NEW blocked, NEW start \in Positions, NEW goal \in Positions,
           NEW s, AStarInv(s, blocked, start, goal),
           NEW n \in Nat, Cardinality(Left(s, goal)) <= n
    PROVE  /\ AStarInv(Explore(blocked, goal)[n][s], blocked, start, goal)
           /\ Ended(Explore(blocked, goal)[n][s], goal)
  <1> DEFINE explore == Explore(blocked, goal)
             Good(r) == AStarInv(r, blocked, start, goal) /\ Ended(r, goal)
             S == {k \in Nat : \A r \in Searches :
                        AStarInv(r, blocked, start, goal) /\ Cardinality(Left(r, goal)) <= k
                            => Good(explore[k][r])}
  <1>1. \A k \in Nat, r \in Searches :
            explore[k][r] = IF k = 0 \/ Ended(r, goal) THEN r
                            ELSE explore[k - 1][Expanded(r, blocked, goal)]
    BY ExploreIsDefined
  <1> HIDE DEF explore
  <1>2. 0 \in S
    <2>1. SUFFICES ASSUME NEW r \in Searches, AStarInv(r, blocked, start, goal),
                          Cardinality(Left(r, goal)) <= 0
                   PROVE  Good(explore[0][r])
      OBVIOUS
    <2>2. Left(r, goal) = {}
      <3>1. IsFiniteSet(Left(r, goal)) /\ Cardinality(Left(r, goal)) = 0
        BY <2>1, LeftIsFinite
      <3>2. QED
        BY <3>1, FS_EmptySet
    <2>3. r.heap = {}
      <3>1. SUFFICES ASSUME NEW e \in r.heap PROVE FALSE
        OBVIOUS
      <3>2. /\ e = Entry(e[3], CellOf(e), goal) /\ e[3] < Inf
            /\ e[3] \in Nat /\ CellOf(e) \in Positions
        BY <2>1, <3>1 DEF AStarInv, Searches, CellOf, Positions
      <3>3. <<e[3], CellOf(e)>> \in (0 .. Inf - 1) \X Positions
        BY <3>2, InfIsPositive
      <3>4. <<e[3], CellOf(e)>> \in Left(r, goal)
        BY <3>2, <3>3 DEF Left
      <3>5. QED
        BY <2>2, <3>4
    <2>4. explore[0][r] = r
      BY <1>1
    <2>5. QED
      BY <2>1, <2>3, <2>4 DEF Ended
  <1>3. ASSUME NEW k \in Nat, k \in S PROVE k + 1 \in S
    <2>1. SUFFICES ASSUME NEW r \in Searches, AStarInv(r, blocked, start, goal),
                          Cardinality(Left(r, goal)) <= k + 1
                   PROVE  Good(explore[k + 1][r])
      OBVIOUS
    <2>2. CASE Ended(r, goal)
      BY <1>1, <2>1, <2>2
    <2>3. CASE ~Ended(r, goal)
      <3> DEFINE t == Expanded(r, blocked, goal)
      <3>1. AStarInv(t, blocked, start, goal)
        BY <2>1, <2>3, ExpandedInv
      <3>2. Cardinality(Left(t, goal)) < Cardinality(Left(r, goal))
        BY <2>1, <2>3, ExpandedUsesUp
      <3>3. Cardinality(Left(t, goal)) \in Nat /\ Cardinality(Left(r, goal)) \in Nat
        BY LeftIsFinite
      <3>4. Cardinality(Left(t, goal)) <= k
        BY <2>1, <3>2, <3>3
      <3>5. t \in Searches
        BY <3>1 DEF AStarInv
      <3>6. explore[k + 1][r] = explore[k][t]
        <4>1. k + 1 \in Nat /\ k + 1 # 0 /\ (k + 1) - 1 = k
          OBVIOUS
        <4>2. QED
          BY <1>1, <2>3, <4>1
      <3> HIDE DEF t
      <3>7. QED
        BY <1>3, <3>1, <3>4, <3>5, <3>6
    <2>4. QED
      BY <2>2, <2>3
  <1>4. \A k \in Nat : k \in S
    <2> HIDE DEF S
    <2>1. QED
      BY <1>2, <1>3, InductionInSet
  <1>5. s \in Searches
    BY DEF AStarInv
  <1>6. Good(explore[n][s])
    BY <1>4, <1>5
  <1>7. QED
    BY <1>6 DEF explore

-----------------------------------------------------------------------------
\* Paths.

Walk(p, start, goal, blocked) ==
    p \in Seq(Positions) /\ ValidPath(p, start, goal, blocked)

\* What a planner is to return: a path that can be walked, as short as any, and
\* none only if there is none.  Inf is more than any path has.
BestPath(p, start, goal, blocked) ==
    /\ p # <<>> => Walk(p, start, goal, blocked) /\ Len(p) <= Inf
    /\ \A q : Walk(q, start, goal, blocked) /\ Len(q) <= Inf => p # <<>> /\ Len(p) <= Len(q)

LEMMA WalkOfOne ==
    ASSUME NEW a \in Positions, NEW blocked, a \notin blocked
    PROVE  Walk(<<a>>, a, a, blocked) /\ Len(<<a>>) = 1
  BY DEF Walk, ValidPath

LEMMA WalkGoesOn ==
    ASSUME NEW p, NEW a, NEW b \in Positions, NEW c, NEW blocked,
           Walk(p, a, b, blocked), c \in Neighbours(b) \ blocked
    PROVE  Walk(Append(p, c), a, c, blocked) /\ Len(Append(p, c)) = Len(p) + 1
  <1>1. c \in Positions /\ c \notin blocked /\ Manhattan(b, c) = 1
    BY NeighboursAreAdjacent
  <1>2. /\ p \in Seq(Positions) /\ Len(p) \in Nat \ {0} /\ p[1] = a /\ p[Len(p)] = b
        /\ \A i \in 1 .. Len(p) : p[i] \in Positions \ blocked
        /\ \A i \in 1 .. Len(p) - 1 : Manhattan(p[i], p[i + 1]) = 1
    BY DEF Walk, ValidPath
  <1> DEFINE q == Append(p, c)
  <1>3. /\ q \in Seq(Positions) /\ Len(q) = Len(p) + 1 /\ q # <<>> /\ q[Len(p) + 1] = c
        /\ \A i \in 1 .. Len(p) : q[i] = p[i]
    BY <1>1, <1>2
  <1> HIDE DEF q
  <1>4. q[1] = a /\ q[Len(q)] = c
    BY <1>2, <1>3
  <1>5. \A i \in 1 .. Len(q) : q[i] \in Positions \ blocked
    <2>1. SUFFICES ASSUME NEW i \in 1 .. Len(q) PROVE q[i] \in Positions \ blocked
      OBVIOUS
    <2>2. CASE i = Len(p) + 1
      BY <1>1, <1>3, <2>2
    <2>3. CASE i # Len(p) + 1
      <3>1. i \in 1 .. Len(p)
        BY <1>2, <1>3, <2>3
      <3>2. QED
        BY <1>2, <1>3, <3>1
    <2>4. QED
      BY <2>2, <2>3
  <1>6. \A i \in 1 .. Len(q) - 1 : Manhattan(q[i], q[i + 1]) = 1
    <2>1. SUFFICES ASSUME NEW i \in 1 .. Len(q) - 1 PROVE Manhattan(q[i], q[i + 1]) = 1
      OBVIOUS
    <2>2. i \in 1 .. Len(p) /\ q[i] = p[i]
      BY <1>2, <1>3
    <2>3. CASE i = Len(p)
      BY <1>1, <1>2, <1>3, <2>2, <2>3
    <2>4. CASE i # Len(p)
      <3>1. i \in 1 .. Len(p) - 1 /\ i + 1 \in 1 .. Len(p)
        BY <1>2, <2>2, <2>4
      <3>2. QED
        BY <1>2, <1>3, <2>2, <3>1
    <2>5. QED
      BY <2>3, <2>4
  <1>7. Walk(q, a, c, blocked)
    BY <1>3, <1>4, <1>5, <1>6 DEF Walk, ValidPath
  <1>8. QED
    BY <1>3, <1>7 DEF q

\* On a path, no cell is farther from the end than there are steps to it, and
\* none is farther from the start than it took.
LEMMA WalkBoundsDistance ==
    ASSUME NEW p, NEW a \in Positions, NEW b \in Positions, NEW blocked,
           Walk(p, a, b, blocked)
    PROVE  \A i \in 1 .. Len(p) : Manhattan(p[i], b) <= Len(p) - i /\ Manhattan(a, p[i]) <= i - 1
  <1>1. /\ p \in Seq(Positions) /\ Len(p) \in Nat \ {0} /\ p[1] = a /\ p[Len(p)] = b
        /\ \A i \in 1 .. Len(p) : p[i] \in Positions
        /\ \A i \in 1 .. Len(p) - 1 : Manhattan(p[i], p[i + 1]) = 1
    BY DEF Walk, ValidPath
  <1> DEFINE S == {k \in Nat : k < Len(p) => Manhattan(p[Len(p) - k], b) <= k}
             T == {k \in Nat : k < Len(p) => Manhattan(a, p[k + 1]) <= k}
  <1>2. 0 \in S /\ 0 \in T
    <2>1. Len(p) - 0 = Len(p) /\ 0 + 1 = 1
      BY <1>1
    <2>2. Manhattan(b, b) = 0 /\ Manhattan(a, a) = 0
      BY ManhattanIsMetric
    <2>3. Manhattan(p[Len(p) - 0], b) <= 0 /\ Manhattan(a, p[0 + 1]) <= 0
      BY <1>1, <2>1, <2>2
    <2>4. QED
      BY <2>3
  <1>3. ASSUME NEW k \in Nat, k \in S PROVE k + 1 \in S
    <2>1. SUFFICES ASSUME k + 1 < Len(p)
                   PROVE  Manhattan(p[Len(p) - (k + 1)], b) <= k + 1
      OBVIOUS
    <2> DEFINE i == Len(p) - (k + 1)
    <2>2. i \in 1 .. Len(p) - 1 /\ i + 1 = Len(p) - k /\ i \in 1 .. Len(p) /\ i + 1 \in 1 .. Len(p)
      BY <1>1, <2>1
    <2>3. Manhattan(p[i], p[i + 1]) = 1 /\ p[i] \in Positions /\ p[i + 1] \in Positions
      BY <1>1, <2>2
    <2>4. Manhattan(p[i + 1], b) <= k
      BY <1>1, <1>3, <2>1, <2>2
    <2>5. /\ Manhattan(p[i], b) <= Manhattan(p[i], p[i + 1]) + Manhattan(p[i + 1], b)
          /\ Manhattan(p[i], b) \in Nat /\ Manhattan(p[i + 1], b) \in Nat
      BY <2>3, ManhattanIsMetric
    <2>6. QED
      BY <2>3, <2>4, <2>5
  <1>4. ASSUME NEW k \in Nat, k \in T PROVE k + 1 \in T
    <2>1. SUFFICES ASSUME k + 1 < Len(p)
                   PROVE  Manhattan(a, p[(k + 1) + 1]) <= k + 1
      OBVIOUS
    <2> DEFINE i == k + 1
    <2>2. i \in 1 .. Len(p) - 1 /\ i \in 1 .. Len(p) /\ i + 1 \in 1 .. Len(p)
      BY <1>1, <2>1
    <2>3. Manhattan(p[i], p[i + 1]) = 1 /\ p[i] \in Positions /\ p[i + 1] \in Positions
      BY <1>1, <2>2
    <2>4. Manhattan(a, p[i]) <= k
      BY <1>1, <1>4, <2>1, <2>2
    <2>5. /\ Manhattan(a, p[i + 1]) <= Manhattan(a, p[i]) + Manhattan(p[i], p[i + 1])
          /\ Manhattan(a, p[i + 1]) \in Nat /\ Manhattan(a, p[i]) \in Nat
      BY <2>3, ManhattanIsMetric
    <2>6. QED
      BY <2>3, <2>4, <2>5
  <1>5. \A k \in Nat : k \in S /\ k \in T
    <2> HIDE DEF S, T
    <2>1. QED
      BY <1>2, <1>3, <1>4, InductionInSet
  <1>6. ASSUME NEW i \in 1 .. Len(p)
        PROVE  Manhattan(p[i], b) <= Len(p) - i /\ Manhattan(a, p[i]) <= i - 1
    <2>1. Len(p) - i \in Nat /\ i - 1 \in Nat /\ Len(p) - i < Len(p) /\ i - 1 < Len(p)
          /\ Len(p) - (Len(p) - i) = i /\ (i - 1) + 1 = i
      BY <1>1
    <2>2. Len(p) - i \in S /\ i - 1 \in T
      BY <1>5, <2>1
    <2>3. QED
      BY <2>1, <2>2
  <1>7. QED
    BY <1>6

LEMMA ReconstructIsDefined ==
    ASSUME NEW parent \in [Positions -> Positions], NEW start
    PROVE  \A n \in Nat, c \in Positions :
                Reconstruct(parent, start)[n][c] =
                    IF n = 0 \/ c = start THEN <<c>>
                    ELSE Append(Reconstruct(parent, start)[n - 1][parent[c]], c)
  <1> DEFINE V == [Positions -> Seq(Positions)]
             first == [c \in Positions |-> <<c>>]
             step == [v \in V |-> [c \in Positions |->
                        IF c = start THEN <<c>> ELSE Append(v[parent[c]], c)]]
             Body(g) == [n \in Nat |-> [c \in Positions |->
                            IF n = 0 \/ c = start THEN <<c>>
                            ELSE Append(g[n - 1][parent[c]], c)]]
  <1>1. first \in V /\ step \in [V -> V]
    <2>1. first \in V
      OBVIOUS
    <2>2. ASSUME NEW v \in V, NEW c \in Positions
          PROVE  (IF c = start THEN <<c>> ELSE Append(v[parent[c]], c)) \in Seq(Positions)
      OBVIOUS
    <2>3. QED
      BY <2>1, <2>2
  <1>2. PICK f \in [Nat -> V] : \A n \in Nat : f[n] = IF n = 0 THEN first ELSE step[f[n - 1]]
    <2> HIDE DEF V, first, step
    <2>1. QED
      BY <1>1, LoopExists
  <1>3. f = Body(f)
    <2>1. ASSUME NEW n \in Nat
          PROVE  f[n] = [c \in Positions |-> IF n = 0 \/ c = start THEN <<c>>
                                             ELSE Append(f[n - 1][parent[c]], c)]
      <3>1. CASE n = 0
        BY <1>2, <3>1
      <3>2. CASE n # 0
        <4>1. f[n - 1] \in V
          BY <3>2
        <4>2. f[n] = [c \in Positions |-> IF c = start THEN <<c>>
                                          ELSE Append(f[n - 1][parent[c]], c)]
          BY <1>2, <3>2, <4>1
        <4>3. QED
          BY <3>2, <4>2
      <3>3. QED
        BY <3>1, <3>2
    <2>2. QED
      BY <2>1
  <1>4. Reconstruct(parent, start) = CHOOSE g : g = Body(g)
    BY DEF Reconstruct
  <1> DEFINE e == Reconstruct(parent, start)
  <1>5. e = Body(e)
    <2> HIDE DEF Body
    <2>1. QED
      BY <1>3, <1>4
  <1> HIDE DEF e
  <1>6. \A n \in Nat : e[n] = [c \in Positions |-> IF n = 0 \/ c = start THEN <<c>>
                                                ELSE Append(e[n - 1][parent[c]], c)]
    BY <1>5
  <1>7. \A n \in Nat, c \in Positions :
            e[n][c] = IF n = 0 \/ c = start THEN <<c>> ELSE Append(e[n - 1][parent[c]], c)
    BY <1>6
  <1>8. QED
    BY <1>7 DEF e

\* The way back along the parents is a path, no longer than the cost of its end.
LEMMA RouteIsWalk ==
    ASSUME NEW blocked, NEW start \in Positions \ blocked, NEW goal \in Positions,
           NEW s, AStarInv(s, blocked, start, goal),
           NEW n \in Nat, NEW c \in Positions, s.best[c] < Inf, s.best[c] <= n
    PROVE  /\ Walk(Reconstruct(s.parent, start)[n][c], start, c, blocked)
           /\ Len(Reconstruct(s.parent, start)[n][c]) <= s.best[c] + 1
  <1> DEFINE route == Reconstruct(s.parent, start)
             Good(k, d) == /\ Walk(route[k][d], start, d, blocked)
                           /\ Len(route[k][d]) <= s.best[d] + 1
             S == {k \in Nat : \A d \in Positions :
                        s.best[d] < Inf /\ s.best[d] <= k => Good(k, d)}
  <1>1. /\ s.best \in [Positions -> 0 .. Inf] /\ s.parent \in [Positions -> Positions]
        /\ s.best[start] = 0
        /\ \A d \in Positions : s.best[d] < Inf /\ d # start =>
                d \in Neighbours(s.parent[d]) \ blocked /\ s.best[s.parent[d]] < s.best[d]
    BY DEF AStarInv, Searches
  <1>2. \A d \in Positions : s.best[d] \in Nat
    BY <1>1, InfIsPositive
  <1>3. \A k \in Nat, d \in Positions :
            route[k][d] = IF k = 0 \/ d = start THEN <<d>>
                          ELSE Append(route[k - 1][s.parent[d]], d)
    BY <1>1, ReconstructIsDefined
  <1> HIDE DEF route
  <1>4. ASSUME NEW k \in Nat PROVE Good(k, start)
    <2>1. route[k][start] = <<start>>
      BY <1>3
    <2>2. QED
      BY <1>1, <2>1, WalkOfOne
  <1>5. ASSUME NEW d \in Positions, s.best[d] < Inf, d # start
        PROVE  /\ s.parent[d] \in Positions /\ d \in Neighbours(s.parent[d]) \ blocked
               /\ s.best[s.parent[d]] < s.best[d] /\ s.best[s.parent[d]] \in Nat
    BY <1>1, <1>2, <1>5
  <1>6. 0 \in S
    <2>1. SUFFICES ASSUME NEW d \in Positions, s.best[d] < Inf, s.best[d] <= 0
                   PROVE  Good(0, d)
      BY DEF S
    <2>2. d = start
      BY <1>2, <1>5, <2>1
    <2>3. QED
      BY <1>4, <2>2
  <1>7. ASSUME NEW k \in Nat, k \in S PROVE k + 1 \in S
    <2>1. SUFFICES ASSUME NEW d \in Positions, s.best[d] < Inf, s.best[d] <= k + 1
                   PROVE  Good(k + 1, d)
      BY DEF S
    <2>2. CASE d = start
      BY <1>4, <2>2
    <2>3. CASE d # start
      <3> DEFINE e == s.parent[d]
      <3>1. /\ e \in Positions /\ d \in Neighbours(e) \ blocked
            /\ s.best[e] < s.best[d] /\ s.best[e] \in Nat /\ s.best[d] \in Nat
        BY <1>2, <1>5, <2>1, <2>3
      <3>2. route[k + 1][d] = Append(route[k][e], d)
        <4>1. k + 1 \in Nat /\ k + 1 # 0 /\ (k + 1) - 1 = k
          OBVIOUS
        <4>2. QED
          BY <1>3, <2>3, <4>1
      <3> HIDE DEF e
      <3>3. s.best[e] < Inf /\ s.best[e] <= k
        BY <2>1, <3>1, InfIsPositive
      <3>4. Good(k, e)
        BY <1>7, <3>1, <3>3 DEF S
      <3>5. /\ Walk(Append(route[k][e], d), start, d, blocked)
            /\ Len(Append(route[k][e], d)) = Len(route[k][e]) + 1
        BY <3>1, <3>4, WalkGoesOn
      <3>6. Len(route[k][e]) \in Nat
        BY <3>4 DEF Walk
      <3>7. QED
        BY <3>1, <3>2, <3>4, <3>5, <3>6
    <2>4. QED
      BY <2>2, <2>3
  <1>8. \A k \in Nat : k \in S
    <2> HIDE DEF S
    <2>1. QED
      BY <1>6, <1>7, InductionInSet
  <1>9. Good(n, c)
    BY <1>8
  <1>10. QED
    BY <1>9 DEF route

\* As long as the goal costs more than it has to, the heap holds an entry for a
\* cell of a shorter path, and it estimates no more than that path.
LEMMA FrontierOnPath ==
    ASSUME NEW blocked, NEW start \in Positions, NEW goal \in Positions,
           NEW s, AStarInv(s, blocked, start, goal),
           NEW q, Walk(q, start, goal, blocked), Len(q) <= Inf, Len(q) - 1 < s.best[goal]
    PROVE  \E e \in s.heap : e[1] <= Len(q) - 1
  <1>1. /\ q \in Seq(Positions) /\ Len(q) \in Nat \ {0} /\ q[1] = start /\ q[Len(q)] = goal
        /\ \A i \in 1 .. Len(q) : q[i] \in Positions \ blocked
        /\ \A i \in 1 .. Len(q) - 1 : Manhattan(q[i], q[i + 1]) = 1
    BY DEF Walk, ValidPath
  <1>2. /\ s.best \in [Positions -> 0 .. Inf] /\ s.best[start] = 0
        /\ \A c \in Positions : s.best[c] < Inf =>
                \/ Pending(s, goal, c)
                \/ \A n \in Neighbours(c) \ blocked : s.best[n] <= s.best[c] + 1
    BY DEF AStarInv, Searches
  <1>3. Inf \in Nat \ {0} /\ \A c \in Positions : s.best[c] \in Nat
    BY <1>2, InfIsPositive
  <1> DEFINE Late == {k \in Nat : k < Len(q) /\ s.best[q[k + 1]] > k}
  <1>4. Len(q) - 1 \in Late
    BY <1>1
  <1>5. PICK k \in Late : \A j \in Late : k <= j
    <2>1. Late \in SUBSET Nat /\ Late # {}
      BY <1>4
    <2> HIDE DEF Late
    <2>2. QED
      BY <2>1, LeastNumber
  <1>6. k # 0
    BY <1>1, <1>2, <1>5
  <1>7. k \in Nat /\ k \in 1 .. Len(q) - 1 /\ k \in 1 .. Len(q) /\ k + 1 \in 1 .. Len(q)
    BY <1>1, <1>5, <1>6
  <1>8. k - 1 \in Nat /\ k - 1 < k /\ (k - 1) + 1 = k
    BY <1>7
  <1>9. s.best[q[k]] <= k - 1
    <2>1. k - 1 \notin Late
      BY <1>5, <1>7, <1>8
    <2>2. q[k] \in Positions /\ s.best[q[k]] \in Nat
      BY <1>1, <1>3, <1>7
    <2>3. ~(s.best[q[(k - 1) + 1]] > k - 1)
      BY <1>1, <1>7, <1>8, <2>1
    <2>4. QED
      BY <1>8, <2>2, <2>3
  <1> DEFINE c == q[k]
  <1>10. /\ c \in Positions /\ q[k + 1] \in Neighbours(c) \ blocked
         /\ s.best[c] \in Nat /\ s.best[c] < Inf /\ s.best[q[k + 1]] > k
    <2>1. q[k + 1] \in Positions \ blocked /\ c \in Positions /\ Manhattan(c, q[k + 1]) = 1
      BY <1>1, <1>7
    <2>2. q[k + 1] \in Neighbours(c)
      BY <2>1, NeighboursAreAdjacent
    <2>3. s.best[q[k + 1]] > k
      BY <1>5
    <2>4. QED
      BY <1>1, <1>3, <1>7, <1>9, <2>1, <2>2, <2>3
  <1>11. Pending(s, goal, c)
    <2>1. SUFFICES ASSUME \A n \in Neighbours(c) \ blocked : s.best[n] <= s.best[c] + 1
                   PROVE  FALSE
      BY <1>2, <1>10
    <2>2. s.best[q[k + 1]] <= s.best[c] + 1
      BY <1>10, <2>1
    <2>3. s.best[q[k + 1]] \in Nat
      BY <1>1, <1>3, <1>7
    <2>4. QED
      BY <1>7, <1>9, <1>10, <2>2, <2>3
  <1> DEFINE e == Entry(s.best[c], c, goal)
  <1>12. e \in s.heap /\ e[1] = s.best[c] + Manhattan(c, goal)
    <2>1. e \in s.heap
      BY <1>11 DEF Pending
    <2>2. c \in Positions /\ s.best[c] \in Nat
      BY <1>10
    <2> HIDE DEF c
    <2>3. e[1] = s.best[c] + Manhattan(c, goal)
      BY <2>2, EntryIsTuple
    <2>4. QED
      BY <2>1, <2>3
  <1>13. Manhattan(c, goal) <= Len(q) - k /\ Manhattan(c, goal) \in Nat
    BY <1>7, <1>10, WalkBoundsDistance, ManhattanIsMetric
  <1>14. e[1] <= Len(q) - 1
    BY <1>1, <1>7, <1>9, <1>10, <1>12, <1>13
  <1>15. QED
    BY <1>12, <1>14

\* plan returns a path that can be walked, one exactly if there is one, and none is
\* shorter: the searches of AStarPlanner, whose entries that have become stale are
\* dropped when they come up, settle every cell at its distance.
THEOREM AStarIsShortest ==
    ASSUME NEW blocked, NEW start \in Positions, NEW goal \in Positions
    PROVE  BestPath(AStarPath(blocked, start, goal), start, goal, blocked)
  <1> DEFINE last == Explore(blocked, goal)[Inf * Rows * Cols][FirstSearch(start, goal)]
             path == AStarPath(blocked, start, goal)
  <1>1. Inf \in Nat \ {0} /\ Inf * Rows * Cols \in Nat
    <2>1. Inf \in Nat /\ Rows \in Nat /\ Cols \in Nat
      BY InfIsPositive, GridAssumption
    <2>2. \A a, b \in Nat : a * b \in Nat
      OBVIOUS
    <2>3. QED
      BY <2>1, <2>2, InfIsPositive
  <1>2. CASE {start, goal} \cap blocked # {}
    <2>1. path = <<>>
      BY <1>2 DEF AStarPath, PathOf
    <2>2. \A q : ~Walk(q, start, goal, blocked)
      <3>1. SUFFICES ASSUME NEW q, Walk(q, start, goal, blocked) PROVE FALSE
        OBVIOUS
      <3>2. q[1] = start /\ q[Len(q)] = goal /\ 1 \in 1 .. Len(q) /\ Len(q) \in 1 .. Len(q)
        BY <3>1 DEF Walk, ValidPath
      <3>3. start \notin blocked /\ goal \notin blocked
        BY <3>1, <3>2 DEF Walk, ValidPath
      <3>4. QED
        BY <1>2, <3>3
    <2>3. QED
      BY <2>1, <2>2 DEF BestPath
  <1>3. CASE {start, goal} \cap blocked = {} /\ start = goal
    <2>1. path = <<start>>
      BY <1>3 DEF AStarPath, PathOf
    <2>2. Walk(path, start, goal, blocked) /\ Len(path) = 1 /\ path # <<>> /\ 1 <= Inf
      BY <1>1, <1>3, <2>1, WalkOfOne
    <2>3. \A q : Walk(q, start, goal, blocked) => Len(path) <= Len(q)
      BY <2>2 DEF Walk, ValidPath
    <2>4. QED
      BY <2>2, <2>3 DEF BestPath
  <1>4. CASE {start, goal} \cap blocked = {} /\ start # goal
    <2>1. AStarInv(last, blocked, start, goal) /\ Ended(last, goal)
      <3>1. AStarInv(FirstSearch(start, goal), blocked, start, goal)
        BY <1>4, FirstSearchInv
      <3>2. Cardinality(Left(FirstSearch(start, goal), goal)) <= Inf * Rows * Cols
        BY LeftIsFinite
      <3>3. QED
        BY <1>1, <3>1, <3>2, ExploreEnds
    <2>2. path = IF last.heap = {} THEN <<>> ELSE Reconstruct(last.parent, start)[Inf][goal]
      BY <1>4 DEF AStarPath, PathOf
    <2> HIDE DEF last, path
    <2>3. /\ last.best \in [Positions -> 0 .. Inf]
          /\ last.heap \in SUBSET (Nat \X Nat \X Nat \X (0 .. Rows - 1) \X (0 .. Cols - 1))
          /\ last.best[goal] \in Nat /\ last.best[goal] <= Inf
      BY <1>1, <2>1 DEF AStarInv, Searches
    <2>4. CASE last.heap = {}
      <3>1. last.best[goal] = Inf
        BY <1>1, <2>1, <2>3, <2>4 DEF AStarInv, Pending
      <3>2. ASSUME NEW q, Walk(q, start, goal, blocked), Len(q) <= Inf PROVE FALSE
        <4>1. Len(q) - 1 < last.best[goal]
          BY <1>1, <3>1, <3>2 DEF Walk
        <4>2. \E e \in last.heap : e[1] <= Len(q) - 1
          BY <2>1, <3>2, <4>1, FrontierOnPath
        <4>3. QED
          BY <2>4, <4>2
      <3>3. path = <<>>
        BY <2>2, <2>4
      <3>4. QED
        BY <3>2, <3>3 DEF BestPath, path
    <2>5. CASE last.heap # {}
      <3> DEFINE top == Least(last.heap)
      <3>1. /\ top \in last.heap /\ \A e \in last.heap : top[1] <= e[1]
        BY <2>3, <2>5, TopOfHeap
      <3>2. CellOf(top) = goal /\ top[3] = last.best[goal]
        BY <2>1, <2>5 DEF Ended, Current
      <3> HIDE DEF top
      <3>3. top = Entry(last.best[goal], goal, goal) /\ last.best[goal] < Inf
        BY <2>1, <3>1, <3>2 DEF AStarInv
      <3>4. top[1] = last.best[goal]
        BY <2>3, <3>3, EntryIsTuple, ManhattanIsMetric
      <3>5. /\ Walk(path, start, goal, blocked)
            /\ Len(path) <= last.best[goal] + 1
        <4>1. path = Reconstruct(last.parent, start)[Inf][goal]
          BY <2>2, <2>5
        <4>2. start \in Positions \ blocked /\ Inf \in Nat
          BY <1>1, <1>4
        <4>3. QED
          BY <2>1, <2>3, <3>3, <4>1, <4>2, RouteIsWalk
      <3>6. ASSUME NEW q, Walk(q, start, goal, blocked), Len(q) <= Inf
            PROVE  Len(path) <= Len(q)
        <4>1. Len(q) \in Nat \ {0} /\ Len(path) \in Nat
          BY <3>5, <3>6 DEF Walk, ValidPath
        <4>2. ASSUME Len(q) - 1 < last.best[goal] PROVE FALSE
          <5>1. PICK e \in last.heap : e[1] <= Len(q) - 1
            BY <2>1, <3>6, <4>2, FrontierOnPath
          <5>2. e[1] \in Nat
            BY <2>3
          <5>3. last.best[goal] <= e[1]
            BY <3>1, <3>4
          <5>4. QED
            BY <2>3, <4>1, <4>2, <5>1, <5>2, <5>3
        <4>3. QED
          BY <2>3, <3>5, <4>1, <4>2
      <3>7. path # <<>> /\ Len(path) <= Inf
        BY <1>1, <2>3, <3>3, <3>5 DEF Walk, ValidPath
      <3>8. QED
        BY <3>5, <3>6, <3>7 DEF BestPath, path
    <2>6. QED
      BY <2>4, <2>5
  <1>5. QED
    BY <1>2, <1>3, <1>4

-----------------------------------------------------------------------------
\* The reference: how far a flood has to go.

LEMMA FloodingIsDefined ==
    ASSUME NEW goal, NEW blocked
    PROVE  \A n \in Nat, R \in SUBSET Positions :
               LET wider == R \cup ((UNION {Neighbours(c) : c \in R}) \ blocked)
               IN  /\ Flooding(goal, blocked)[n][R] =
                        IF goal \in R THEN 0
                        ELSE IF n = 0 \/ wider = R THEN Inf
                        ELSE Plus(1, Flooding(goal, blocked)[n - 1][wider])
                   /\ Flooding(goal, blocked)[n][R] \in 0 .. Inf
  <1> DEFINE Sets == SUBSET Positions
             V == [Sets -> 0 .. Inf]
             Wider(R) == R \cup ((UNION {Neighbours(c) : c \in R}) \ blocked)
             first == [R \in Sets |-> IF goal \in R THEN 0 ELSE Inf]
             step == [v \in V |-> [R \in Sets |->
                        IF goal \in R THEN 0
                        ELSE IF Wider(R) = R THEN Inf
                        ELSE Plus(1, v[Wider(R)])]]
             Body(g) == [n \in Nat |-> [R \in Sets |->
                            IF goal \in R THEN 0
                            ELSE IF n = 0 \/ Wider(R) = R THEN Inf
                            ELSE Plus(1, g[n - 1][Wider(R)])]]
  <1>1. Inf \in Nat \ {0} /\ 0 \in 0 .. Inf /\ Inf \in 0 .. Inf
    BY InfIsPositive
  <1>2. \A d \in 0 .. Inf : Plus(1, d) \in 0 .. Inf
    BY <1>1 DEF Plus
  <1>3. \A R \in Sets : Wider(R) \in Sets
    BY DEF Neighbours
  <1> HIDE DEF Wider, Sets
  <1>4. first \in V /\ step \in [V -> V]
    <2>1. first \in V
      BY <1>1
    <2>2. ASSUME NEW v \in V, NEW R \in Sets
          PROVE  (IF goal \in R THEN 0 ELSE IF Wider(R) = R THEN Inf
                  ELSE Plus(1, v[Wider(R)])) \in 0 .. Inf
      BY <1>1, <1>2, <1>3
    <2>3. QED
      BY <2>1, <2>2
  <1>5. PICK f \in [Nat -> V] : \A n \in Nat : f[n] = IF n = 0 THEN first ELSE step[f[n - 1]]
    <2> HIDE DEF V, first, step
    <2>1. QED
      BY <1>4, LoopExists
  <1>6. f = Body(f)
    <2>1. ASSUME NEW n \in Nat
          PROVE  f[n] = [R \in Sets |-> IF goal \in R THEN 0
                                        ELSE IF n = 0 \/ Wider(R) = R THEN Inf
                                        ELSE Plus(1, f[n - 1][Wider(R)])]
      <3>1. CASE n = 0
        BY <1>5, <3>1
      <3>2. CASE n # 0
        <4>1. f[n - 1] \in V
          BY <3>2
        <4>2. f[n] = [R \in Sets |-> IF goal \in R THEN 0
                                     ELSE IF Wider(R) = R THEN Inf
                                     ELSE Plus(1, f[n - 1][Wider(R)])]
          BY <1>5, <3>2, <4>1
        <4>3. QED
          BY <3>2, <4>2
      <3>3. QED
        BY <3>1, <3>2
    <2>2. QED
      BY <2>1
  <1>7. Flooding(goal, blocked) = CHOOSE g : g = Body(g)
    BY DEF Flooding, Wider, Sets
  <1> DEFINE e == Flooding(goal, blocked)
  <1>8. e = Body(e)
    <2> HIDE DEF Body
    <2>1. QED
      BY <1>6, <1>7
  <1> HIDE DEF e
  <1>9. \A n \in Nat : e[n] = [R \in Sets |-> IF goal \in R THEN 0
                                             ELSE IF n = 0 \/ Wider(R) = R THEN Inf
                                             ELSE Plus(1, e[n - 1][Wider(R)])]
    BY <1>8
  <1>10. \A n \in Nat, R \in Sets :
            e[n][R] = IF goal \in R THEN 0
                      ELSE IF n = 0 \/ Wider(R) = R THEN Inf
                      ELSE Plus(1, e[n - 1][Wider(R)])
    BY <1>9
  <1> DEFINE S == {n \in Nat : \A R \in Sets : e[n][R] \in 0 .. Inf}
  <1>11. 0 \in S
    BY <1>1, <1>10
  <1>12. ASSUME NEW n \in Nat, n \in S PROVE n + 1 \in S
    <2>1. n + 1 \in Nat /\ n + 1 # 0 /\ (n + 1) - 1 = n
      <3> HIDE DEF S
      <3>1. QED
        OBVIOUS
    <2>2. ASSUME NEW R \in Sets PROVE e[n + 1][R] \in 0 .. Inf
      <3>1. e[n][Wider(R)] \in 0 .. Inf
        BY <1>3, <1>12
      <3>2. QED
        BY <1>1, <1>2, <1>10, <2>1, <3>1
    <2>3. QED
      BY <2>1, <2>2
  <1>13. \A n \in Nat : n \in S
    <2> HIDE DEF S
    <2>1. QED
      BY <1>11, <1>12, InductionInSet
  <1>14. QED
    BY <1>10, <1>13 DEF e, Wider, Sets

\* A flood is no slower than any path.
LEMMA FloodFollowsPath ==
    ASSUME NEW a \in Positions, NEW goal \in Positions, NEW blocked,
           NEW q, Walk(q, a, goal, blocked), Len(q) <= Inf,
           NEW R \in SUBSET Positions, a \in R, NEW n \in Nat, Len(q) - 1 <= n
    PROVE  Flooding(goal, blocked)[n][R] <= Len(q) - 1
  <1> DEFINE flood == Flooding(goal, blocked)
             Wider(T) == T \cup ((UNION {Neighbours(c) : c \in T}) \ blocked)
             S == {k \in Nat : k < Len(q) => \A m \in Nat, T \in SUBSET Positions :
                        k <= m /\ q[Len(q) - k] \in T => flood[m][T] <= k}
  <1>1. /\ q \in Seq(Positions) /\ Len(q) \in Nat \ {0} /\ q[1] = a /\ q[Len(q)] = goal
        /\ \A i \in 1 .. Len(q) : q[i] \in Positions \ blocked
        /\ \A i \in 1 .. Len(q) - 1 : Manhattan(q[i], q[i + 1]) = 1
    BY DEF Walk, ValidPath
  <1>2. Inf \in Nat \ {0}
    BY InfIsPositive
  <1>3. \A m \in Nat, T \in SUBSET Positions :
            /\ flood[m][T] = IF goal \in T THEN 0
                             ELSE IF m = 0 \/ Wider(T) = T THEN Inf
                             ELSE Plus(1, flood[m - 1][Wider(T)])
            /\ flood[m][T] \in 0 .. Inf
    BY FloodingIsDefined
  <1>4. \A T \in SUBSET Positions : Wider(T) \in SUBSET Positions
    BY DEF Neighbours
  <1>5. ASSUME NEW T \in SUBSET Positions, NEW c \in T, NEW d \in Neighbours(c) \ blocked
        PROVE  d \in Wider(T)
    OBVIOUS
  <1> HIDE DEF flood, Wider
  <1>6. 0 \in S
    <2>1. Len(q) - 0 = Len(q)
      BY <1>1
    <2>2. QED
      BY <1>1, <1>3, <2>1
  <1>7. ASSUME NEW k \in Nat, k \in S PROVE k + 1 \in S
    <2>1. SUFFICES ASSUME k + 1 < Len(q), NEW m \in Nat, NEW T \in SUBSET Positions,
                          k + 1 <= m, q[Len(q) - (k + 1)] \in T
                   PROVE  flood[m][T] <= k + 1
      BY DEF S
    <2> DEFINE i == Len(q) - (k + 1)
    <2>2. /\ i \in 1 .. Len(q) - 1 /\ i + 1 = Len(q) - k /\ i \in 1 .. Len(q)
          /\ i + 1 \in 1 .. Len(q) /\ k < Len(q) /\ k < Inf
      BY <1>1, <1>2, <2>1
    <2>3. q[i] \in Positions /\ q[i + 1] \in Positions \ blocked /\ Manhattan(q[i], q[i + 1]) = 1
      BY <1>1, <2>2
    <2>4. q[i + 1] \in Wider(T)
      BY <1>5, <2>1, <2>3, NeighboursAreAdjacent
    <2>5. CASE goal \in T
      BY <1>3, <2>5
    <2>6. CASE goal \notin T /\ Wider(T) = T
      <3>1. flood[m][T] <= k /\ flood[m][T] \in Nat
        BY <1>3, <1>7, <2>1, <2>2, <2>4, <2>6 DEF S
      <3>2. QED
        BY <3>1
    <2>7. CASE goal \notin T /\ Wider(T) # T
      <3>1. m # 0 /\ m - 1 \in Nat /\ k <= m - 1
        BY <2>1
      <3>2. flood[m - 1][Wider(T)] <= k /\ flood[m - 1][Wider(T)] \in Nat
        <4>1. Wider(T) \in SUBSET Positions
          BY <1>4
        <4>2. flood[m - 1][Wider(T)] \in 0 .. Inf
          BY <1>3, <3>1, <4>1
        <4>3. QED
          BY <1>7, <2>2, <2>4, <3>1, <4>1, <4>2 DEF S
      <3>3. flood[m][T] = Plus(1, flood[m - 1][Wider(T)])
        BY <1>3, <2>7, <3>1
      <3>4. QED
        BY <1>2, <2>2, <3>2, <3>3 DEF Plus
    <2>8. QED
      BY <2>5, <2>6, <2>7
  <1>8. \A k \in Nat : k \in S
    <2> HIDE DEF S
    <2>1. QED
      BY <1>6, <1>7, InductionInSet
  <1>9. Len(q) - 1 \in Nat /\ Len(q) - 1 < Len(q) /\ Len(q) - (Len(q) - 1) = 1
    BY <1>1
  <1>10. Len(q) - 1 \in S
    BY <1>8, <1>9
  <1>11. flood[n][R] <= Len(q) - 1
    BY <1>1, <1>9, <1>10
  <1>12. QED
    BY <1>11 DEF flood

LEMMA WalkFromBefore ==
    ASSUME NEW p, NEW a \in Positions, NEW b \in Positions, NEW c \in Positions,
           NEW blocked, Walk(p, b, c, blocked), b \in Neighbours(a), a \notin blocked
    PROVE  Walk(<<a>> \o p, a, c, blocked) /\ Len(<<a>> \o p) = Len(p) + 1
  <1>1. Manhattan(a, b) = 1
    BY NeighboursAreAdjacent
  <1>2. /\ p \in Seq(Positions) /\ Len(p) \in Nat \ {0} /\ p[1] = b /\ p[Len(p)] = c
        /\ \A i \in 1 .. Len(p) : p[i] \in Positions \ blocked
        /\ \A i \in 1 .. Len(p) - 1 : Manhattan(p[i], p[i + 1]) = 1
    BY DEF Walk, ValidPath
  <1> DEFINE q == <<a>> \o p
  <1>3. /\ q \in Seq(Positions) /\ Len(q) = Len(p) + 1 /\ q # <<>> /\ q[1] = a
        /\ \A i \in 1 .. Len(p) : q[i + 1] = p[i]
    BY <1>2
  <1> HIDE DEF q
  <1>4. q[1] = a /\ q[Len(q)] = c
    BY <1>2, <1>3
  <1>5. \A i \in 1 .. Len(q) : q[i] \in Positions \ blocked
    <2>1. SUFFICES ASSUME NEW i \in 1 .. Len(q) PROVE q[i] \in Positions \ blocked
      OBVIOUS
    <2>2. CASE i = 1
      BY <1>3, <2>2
    <2>3. CASE i # 1
      <3>1. i - 1 \in 1 .. Len(p) /\ (i - 1) + 1 = i
        BY <1>2, <1>3, <2>3
      <3>2. q[(i - 1) + 1] = p[i - 1]
        BY <1>3, <3>1
      <3>3. QED
        BY <1>2, <3>1, <3>2
    <2>4. QED
      BY <2>2, <2>3
  <1>6. \A i \in 1 .. Len(q) - 1 : Manhattan(q[i], q[i + 1]) = 1
    <2>1. SUFFICES ASSUME NEW i \in 1 .. Len(q) - 1 PROVE Manhattan(q[i], q[i + 1]) = 1
      OBVIOUS
    <2>2. i \in 1 .. Len(p) /\ q[i + 1] = p[i]
      BY <1>2, <1>3
    <2>3. CASE i = 1
      BY <1>1, <1>2, <1>3, <2>2, <2>3
    <2>4. CASE i # 1
      <3>1. i - 1 \in 1 .. Len(p) - 1 /\ i - 1 \in 1 .. Len(p) /\ (i - 1) + 1 = i
        BY <1>2, <2>2, <2>4
      <3>2. q[(i - 1) + 1] = p[i - 1] /\ Manhattan(p[i - 1], p[(i - 1) + 1]) = 1
        BY <1>2, <1>3, <3>1
      <3>3. QED
        BY <2>2, <3>1, <3>2
    <2>5. QED
      BY <2>3, <2>4
  <1>7. Walk(q, a, c, blocked)
    BY <1>3, <1>4, <1>5, <1>6 DEF Walk, ValidPath
  <1>8. QED
    BY <1>3, <1>7 DEF q

\* Where a flood gets to, a path leads to in as many steps.
LEMMA FloodLeavesPath ==
    ASSUME NEW goal \in Positions, NEW blocked, NEW n \in Nat,
           NEW R \in SUBSET (Positions \ blocked),
           Flooding(goal, blocked)[n][R] < Inf
    PROVE  \E a \in R : \E q : Walk(q, a, goal, blocked)
                               /\ Len(q) <= Flooding(goal, blocked)[n][R] + 1
  <1> DEFINE flood == Flooding(goal, blocked)
             Wider(T) == T \cup ((UNION {Neighbours(c) : c \in T}) \ blocked)
             Good(m, T) == \E a \in T : \E q : Walk(q, a, goal, blocked)
                                               /\ Len(q) <= flood[m][T] + 1
             S == {m \in Nat : \A T \in SUBSET (Positions \ blocked) :
                        flood[m][T] < Inf => Good(m, T)}
  <1>1. Inf \in Nat \ {0}
    BY InfIsPositive
  <1>2. \A m \in Nat, T \in SUBSET (Positions \ blocked) :
            /\ flood[m][T] = IF goal \in T THEN 0
                             ELSE IF m = 0 \/ Wider(T) = T THEN Inf
                             ELSE Plus(1, flood[m - 1][Wider(T)])
            /\ flood[m][T] \in 0 .. Inf
    <2>1. \A T \in SUBSET (Positions \ blocked) : T \in SUBSET Positions
      OBVIOUS
    <2>2. QED
      BY <2>1, FloodingIsDefined
  <1>3. \A T \in SUBSET (Positions \ blocked) : Wider(T) \in SUBSET (Positions \ blocked)
    <2>1. SUFFICES ASSUME NEW T \in SUBSET (Positions \ blocked), NEW d \in Wider(T)
                   PROVE  d \in Positions \ blocked
      OBVIOUS
    <2>2. CASE d \in T
      BY <2>2
    <2>3. CASE d \notin T
      <3>1. PICK c \in T : d \in Neighbours(c) /\ d \notin blocked
        <4>1. d \in UNION {Neighbours(c) : c \in T} /\ d \notin blocked
          BY <2>3
        <4>2. PICK N \in {Neighbours(c) : c \in T} : d \in N
          BY <4>1
        <4>3. QED
          BY <4>1, <4>2
      <3>2. QED
        BY <3>1 DEF Neighbours
    <2>4. QED
      BY <2>2, <2>3
  <1>4. ASSUME NEW T \in SUBSET (Positions \ blocked), NEW d \in Wider(T), d \notin T
        PROVE  \E c \in T : d \in Neighbours(c)
    BY <1>4
  <1> HIDE DEF flood, Wider
  <1>5. ASSUME NEW m \in Nat, NEW T \in SUBSET (Positions \ blocked), goal \in T
        PROVE  Good(m, T)
    <2>1. flood[m][T] = 0
      BY <1>2, <1>5
    <2>2. Walk(<<goal>>, goal, goal, blocked) /\ Len(<<goal>>) <= flood[m][T] + 1
      BY <1>5, <2>1, WalkOfOne
    <2>3. QED
      BY <1>5, <2>2
  <1>6. 0 \in S
    <2>1. SUFFICES ASSUME NEW T \in SUBSET (Positions \ blocked), flood[0][T] < Inf
                   PROVE  Good(0, T)
      BY DEF S
    <2>2. goal \in T
      BY <1>1, <1>2, <2>1
    <2>3. QED
      BY <1>5, <2>2
  <1>7. ASSUME NEW m \in Nat, m \in S PROVE m + 1 \in S
    <2>1. SUFFICES ASSUME NEW T \in SUBSET (Positions \ blocked), flood[m + 1][T] < Inf
                   PROVE  Good(m + 1, T)
      BY DEF S
    <2>2. CASE goal \in T
      BY <1>5, <2>2
    <2>3. CASE goal \notin T
      <3>1. m + 1 \in Nat /\ m + 1 # 0 /\ (m + 1) - 1 = m
        OBVIOUS
      <3>2. flood[m + 1][T] = Plus(1, flood[m][Wider(T)])
        BY <1>1, <1>2, <2>1, <2>3, <3>1
      <3>3. Wider(T) \in SUBSET (Positions \ blocked)
        BY <1>3
      <3>4. flood[m][Wider(T)] \in 0 .. Inf
        BY <1>2, <3>3
      <3>5. flood[m][Wider(T)] < Inf /\ flood[m + 1][T] = 1 + flood[m][Wider(T)]
        BY <1>1, <2>1, <3>2, <3>4 DEF Plus
      <3>11. PICK d \in Wider(T) :
                \E q : Walk(q, d, goal, blocked) /\ Len(q) <= flood[m][Wider(T)] + 1
        BY <1>7, <3>3, <3>5 DEF S
      <3>6. PICK q : Walk(q, d, goal, blocked) /\ Len(q) <= flood[m][Wider(T)] + 1
        BY <3>11
      <3>7. Len(q) \in Nat
        BY <3>6 DEF Walk
      <3>8. CASE d \in T
        BY <3>4, <3>5, <3>6, <3>7, <3>8
      <3>9. CASE d \notin T
        <4>1. PICK c \in T : d \in Neighbours(c)
          BY <1>4, <3>9
        <4>2. c \in Positions /\ c \notin blocked /\ d \in Positions
          BY <3>3
        <4>3. Walk(<<c>> \o q, c, goal, blocked) /\ Len(<<c>> \o q) = Len(q) + 1
          BY <3>6, <4>1, <4>2, WalkFromBefore
        <4>4. Len(<<c>> \o q) <= flood[m + 1][T] + 1
          BY <3>4, <3>5, <3>6, <3>7, <4>3
        <4>5. QED
          BY <4>3, <4>4
      <3>10. QED
        BY <3>8, <3>9
    <2>4. QED
      BY <2>2, <2>3
  <1>8. \A m \in Nat : m \in S
    <2> HIDE DEF S
    <2>1. QED
      BY <1>6, <1>7, InductionInSet
  <1>9. Good(n, R)
    BY <1>8 DEF S, flood
  <1>10. QED
    BY <1>9 DEF flood

\* What is the best path by the paths is the shortest path by the flood.
LEMMA BestPathIsShortest ==
    ASSUME NEW start \in Positions, NEW goal \in Positions, NEW blocked,
           NEW p, BestPath(p, start, goal, blocked)
    PROVE  IF Reachable(start, goal, blocked)
           THEN ValidPath(p, start, goal, blocked)
                /\ Len(p) = Distance(start, goal, blocked) + 1
           ELSE p = <<>>
  <1> DEFINE R == {start} \ blocked
             d == Distance(start, goal, blocked)
  <1>1. Inf \in Nat \ {0}
    BY InfIsPositive
  <1>2. R \in SUBSET Positions /\ R \in SUBSET (Positions \ blocked)
    OBVIOUS
  <1>3. d = Flooding(goal, blocked)[Inf][R] /\ d \in 0 .. Inf
    <2>1. d = Flooding(goal, blocked)[Inf][R]
      BY DEF Distance
    <2> HIDE DEF R
    <2>2. Flooding(goal, blocked)[Inf][R] \in 0 .. Inf
      BY <1>1, <1>2, FloodingIsDefined
    <2>3. QED
      BY <2>1, <2>2
  <1> HIDE DEF d
  <1>4. ASSUME NEW q, Walk(q, start, goal, blocked), Len(q) <= Inf PROVE d <= Len(q) - 1
    <2>1. q[1] = start /\ 1 \in 1 .. Len(q) /\ Len(q) \in Nat
      BY <1>4 DEF Walk, ValidPath
    <2>2. start \in R
      BY <1>4, <2>1 DEF Walk, ValidPath
    <2>3. Len(q) - 1 <= Inf
      BY <1>1, <1>4, <2>1
    <2>4. QED
      BY <1>1, <1>2, <1>3, <1>4, <2>2, <2>3, FloodFollowsPath
  <1>5. CASE d < Inf
    <2>1. PICK q : Walk(q, start, goal, blocked) /\ Len(q) <= d + 1
      BY <1>1, <1>2, <1>3, <1>5, FloodLeavesPath
    <2>2. Len(q) \in Nat /\ Len(q) <= Inf
      BY <1>1, <1>3, <1>5, <2>1 DEF Walk
    <2>3. p # <<>> /\ Len(p) <= Len(q)
      BY <2>1, <2>2 DEF BestPath
    <2>4. Walk(p, start, goal, blocked) /\ Len(p) <= Inf /\ Len(p) \in Nat
      BY <2>3 DEF BestPath, Walk
    <2>5. d <= Len(p) - 1
      BY <1>4, <2>4
    <2>6. Len(p) = d + 1
      BY <1>3, <2>1, <2>2, <2>3, <2>4, <2>5
    <2>7. QED
      BY <1>5, <2>4, <2>6 DEF Reachable, Walk, d
  <1>6. CASE ~(d < Inf)
    <2>1. ASSUME p # <<>> PROVE FALSE
      <3>1. Walk(p, start, goal, blocked) /\ Len(p) <= Inf /\ Len(p) \in Nat
        BY <2>1 DEF BestPath, Walk
      <3>2. d <= Len(p) - 1
        BY <1>4, <3>1
      <3>3. QED
        BY <1>1, <1>3, <1>6, <3>1, <3>2
    <2>2. QED
      BY <1>6, <2>1 DEF Reachable, d
  <1>7. QED
    BY <1>5, <1>6

-----------------------------------------------------------------------------
\* Keys.

LEMMA LessOfPairs ==
    ASSUME NEW a1 \in Int, NEW a2 \in Int, NEW b1 \in Int, NEW b2 \in Int
    PROVE  Less(<<a1, a2>>, <<b1, b2>>) <=> a1 < b1 \/ (a1 = b1 /\ a2 < b2)
  <1> DEFINE a == <<a1, a2>>
             b == <<b1, b2>>
  <1>1. DOMAIN a = {1, 2} /\ a[1] = a1 /\ a[2] = a2 /\ b[1] = b1 /\ b[2] = b2
    OBVIOUS
  <1> HIDE DEF a, b
  <1>2. Less(a, b) <=> \/ a[1] < b[1] /\ \A j \in 1 .. 0 : a[j] = b[j]
                       \/ a[2] < b[2] /\ \A j \in 1 .. 1 : a[j] = b[j]
    BY <1>1 DEF Less
  <1>3. Less(a, b) <=> a1 < b1 \/ (a1 = b1 /\ a2 < b2)
    BY <1>1, <1>2
  <1>4. QED
    BY <1>3 DEF a, b

Pairs == Nat \X Nat

\* What is not less and what is not less than that.
LEMMA NotLessOfPairs ==
    \A a, b, c \in Pairs :
        /\ ~Less(a, a)
        /\ ~Less(b, a) /\ ~Less(c, b) => ~Less(c, a)
        /\ ~Less(b, a) => a[1] <= b[1]
        /\ (~Less(b, a) /\ b[1] = a[1]) => a[2] <= b[2]
        /\ Less(a, b) => ~Less(b, a)
  <1> SUFFICES ASSUME NEW a \in Pairs, NEW b \in Pairs, NEW c \in Pairs
               PROVE  /\ ~Less(a, a)
                      /\ ~Less(b, a) /\ ~Less(c, b) => ~Less(c, a)
                      /\ ~Less(b, a) => a[1] <= b[1]
                      /\ (~Less(b, a) /\ b[1] = a[1]) => a[2] <= b[2]
                      /\ Less(a, b) => ~Less(b, a)
    OBVIOUS
  <1>1. /\ a = <<a[1], a[2]>> /\ b = <<b[1], b[2]>> /\ c = <<c[1], c[2]>>
        /\ a[1] \in Nat /\ a[2] \in Nat /\ b[1] \in Nat /\ b[2] \in Nat
        /\ c[1] \in Nat /\ c[2] \in Nat
    BY DEF Pairs
  <1> DEFINE Lex(x, y) == x[1] < y[1] \/ (x[1] = y[1] /\ x[2] < y[2])
  <1>2. /\ Less(a, a) <=> Lex(a, a)
        /\ Less(b, a) <=> Lex(b, a)
        /\ Less(c, b) <=> Lex(c, b)
        /\ Less(c, a) <=> Lex(c, a)
        /\ Less(a, b) <=> Lex(a, b)
    <2>1. \A x1, x2, y1, y2 \in Int :
            Less(<<x1, x2>>, <<y1, y2>>) <=> x1 < y1 \/ (x1 = y1 /\ x2 < y2)
      BY LessOfPairs
    <2>2. QED
      BY <1>1, <2>1
  <1>3. QED
    BY <1>1, <1>2

-----------------------------------------------------------------------------
\* A planner.

Queues == UNION {[cells -> Pairs] : cells \in SUBSET Positions}

DStarPlanners ==
    [ready : BOOLEAN, grid : SUBSET Positions, start : Positions, goal : Positions,
     km : Nat, g : [Positions -> 0 .. Inf], rhs : [Positions -> 0 .. Inf],
     queued : Queues]

\* What holds of a planner between any two iterations.
DStarInv(p) ==
    /\ p \in DStarPlanners
    /\ p.goal \notin p.grid /\ p.rhs[p.goal] = 0
    /\ \A c \in Positions : p.rhs[c] = OneStepLookahead(p, c)
    /\ DOMAIN p.queued = {c \in Positions : p.g[c] # p.rhs[c]}
    /\ \A c \in DOMAIN p.queued : ~Less(CalculateKey(p, c), p.queued[c])

LEMMA QueueIsFunction ==
    /\ \A q \in Queues : /\ DOMAIN q \in SUBSET Positions
                         /\ q \in [DOMAIN q -> Pairs]
                         /\ \A c \in DOMAIN q : q[c] \in Pairs
    /\ \A cells \in SUBSET Positions : \A q \in [cells -> Pairs] : q \in Queues
  BY DEF Queues

LEMMA KeyIsPair ==
    ASSUME NEW p \in DStarPlanners
    PROVE  \A c \in Positions :
            LET best == Smaller(p.g[c], p.rhs[c])
            IN  /\ best \in 0 .. Inf /\ best <= p.g[c] /\ best <= p.rhs[c]
                /\ CalculateKey(p, c) \in Pairs
                /\ CalculateKey(p, c) = <<best + Manhattan(p.start, c) + p.km, best>>
                /\ CalculateKey(p, c)[1] = best + Manhattan(p.start, c) + p.km
                /\ CalculateKey(p, c)[2] = best
  <1> SUFFICES ASSUME NEW c \in Positions
               PROVE LET best == Smaller(p.g[c], p.rhs[c])
            IN  /\ best \in 0 .. Inf /\ best <= p.g[c] /\ best <= p.rhs[c]
                /\ CalculateKey(p, c) \in Pairs
                /\ CalculateKey(p, c) = <<best + Manhattan(p.start, c) + p.km, best>>
                /\ CalculateKey(p, c)[1] = best + Manhattan(p.start, c) + p.km
                /\ CalculateKey(p, c)[2] = best
    OBVIOUS
  <1> DEFINE best == Smaller(p.g[c], p.rhs[c])
             first == best + Manhattan(p.start, c) + p.km
  <1>1. /\ p.g[c] \in 0 .. Inf /\ p.rhs[c] \in 0 .. Inf /\ p.km \in Nat
        /\ p.start \in Positions
    BY DEF DStarPlanners
  <1>2. best \in 0 .. Inf /\ best <= p.g[c] /\ best <= p.rhs[c]
    BY <1>1, InfIsPositive DEF Smaller
  <1>3. Manhattan(p.start, c) \in Nat
    BY <1>1, ManhattanIsMetric
  <1>4. CalculateKey(p, c) = <<first, best>>
    BY DEF CalculateKey
  <1> HIDE DEF best
  <1>5. first \in Nat /\ best \in Nat
    BY <1>1, <1>2, <1>3
  <1> HIDE DEF first
  <1>6. CalculateKey(p, c) \in Pairs /\ CalculateKey(p, c)[1] = first /\ CalculateKey(p, c)[2] = best
    BY <1>4, <1>5 DEF Pairs
  <1>7. QED
    BY <1>2, <1>4, <1>6 DEF best, first

\* The rhs a planner computes is what the best neighbour costs and a step.
LEMMA LookaheadIsLeast ==
    ASSUME NEW p \in DStarPlanners, NEW c \in Positions, c # p.goal, c \notin p.grid
    PROVE  /\ OneStepLookahead(p, c) \in 0 .. Inf
           /\ \A n \in Neighbours(c) :
                OneStepLookahead(p, c) <= Plus(EdgeCost(p, c, n), p.g[n])
           /\ \/ OneStepLookahead(p, c) = Inf
              \/ \E n \in Neighbours(c) :
                    OneStepLookahead(p, c) = Plus(EdgeCost(p, c, n), p.g[n])
  <1> DEFINE costs == {Plus(EdgeCost(p, c, n), p.g[n]) : n \in Neighbours(c)}
             S == costs \cup {Inf}
             m == CHOOSE x \in S : \A y \in S : x <= y
  <1>1. Inf \in Nat \ {0}
    BY InfIsPositive
  <1>2. \A n \in Neighbours(c) : Plus(EdgeCost(p, c, n), p.g[n]) \in 0 .. Inf
    <2>1. SUFFICES ASSUME NEW n \in Neighbours(c)
                   PROVE  Plus(EdgeCost(p, c, n), p.g[n]) \in 0 .. Inf
      OBVIOUS
    <2>2. n \in Positions
      BY NeighboursAreAdjacent
    <2>3. p.g[n] \in 0 .. Inf /\ EdgeCost(p, c, n) \in {1, Inf}
      BY <2>2 DEF DStarPlanners, EdgeCost
    <2>4. QED
      BY <1>1, <2>3 DEF Plus
  <1>3. S \in SUBSET Nat /\ S # {}
    BY <1>1, <1>2
  <1>4. \E x \in S : \A y \in S : x <= y
    <2> HIDE DEF S
    <2>1. QED
      BY <1>3, LeastNumber
  <1>5. m \in S /\ \A y \in S : m <= y
    <2> HIDE DEF S
    <2>1. QED
      BY <1>4
  <1>6. OneStepLookahead(p, c) = m
    BY DEF OneStepLookahead
  <1> HIDE DEF m
  <1>7. m \in 0 .. Inf
    BY <1>1, <1>2, <1>5
  <1>8. QED
    BY <1>5, <1>6, <1>7

\* The lookahead of a cell depends on the goal, the cell and its neighbours.
LEMMA LookaheadIsLocal ==
    ASSUME NEW p \in DStarPlanners, NEW q \in DStarPlanners, NEW c \in Positions,
           q.goal = p.goal, c = p.goal => q.rhs[c] = p.rhs[c],
           c \in p.grid <=> c \in q.grid,
           \A n \in Neighbours(c) : (n \in p.grid <=> n \in q.grid) /\ p.g[n] = q.g[n]
    PROVE  OneStepLookahead(q, c) = OneStepLookahead(p, c)
  <1>1. \A n \in Neighbours(c) : EdgeCost(p, c, n) = EdgeCost(q, c, n)
    BY DEF EdgeCost
  <1>2. {Plus(EdgeCost(p, c, n), p.g[n]) : n \in Neighbours(c)}
            = {Plus(EdgeCost(q, c, n), q.g[n]) : n \in Neighbours(c)}
    BY <1>1
  <1> DEFINE ours == {Plus(EdgeCost(p, c, n), p.g[n]) : n \in Neighbours(c)}
             theirs == {Plus(EdgeCost(q, c, n), q.g[n]) : n \in Neighbours(c)}
  <1>3. OneStepLookahead(p, c) =
            IF c = p.goal THEN p.rhs[c] ELSE IF c \in p.grid THEN Inf
            ELSE CHOOSE m \in ours \cup {Inf} : \A n \in ours \cup {Inf} : m <= n
    BY DEF OneStepLookahead
  <1>4. OneStepLookahead(q, c) =
            IF c = q.goal THEN q.rhs[c] ELSE IF c \in q.grid THEN Inf
            ELSE CHOOSE m \in theirs \cup {Inf} : \A n \in theirs \cup {Inf} : m <= n
    BY DEF OneStepLookahead
  <1>5. ours = theirs
    BY <1>2
  <1> HIDE DEF ours, theirs
  <1>6. QED
    BY <1>3, <1>4, <1>5

LEMMA LookaheadIsCost ==
    ASSUME NEW p \in DStarPlanners, NEW c \in Positions
    PROVE  OneStepLookahead(p, c) \in 0 .. Inf
  <1>1. CASE c = p.goal
    BY <1>1 DEF OneStepLookahead, DStarPlanners
  <1>2. CASE c # p.goal /\ c \in p.grid
    BY <1>2, InfIsPositive DEF OneStepLookahead
  <1>3. CASE c # p.goal /\ c \notin p.grid
    BY <1>3, LookaheadIsLeast
  <1>4. QED
    BY <1>1, <1>2, <1>3

-----------------------------------------------------------------------------
\* The methods.

\* What UpdateVertices makes of a planner of which all but the updated cells
\* are as they should be.
LEMMA UpdateVerticesInv ==
    ASSUME NEW p \in DStarPlanners, NEW cells \in SUBSET Positions,
           p.goal \notin p.grid, p.rhs[p.goal] = 0,
           \A c \in Positions \ cells : p.rhs[c] = OneStepLookahead(p, c),
           \A c \in Positions \ cells : c \in DOMAIN p.queued <=> p.g[c] # p.rhs[c],
           \A c \in DOMAIN p.queued \ cells : ~Less(CalculateKey(p, c), p.queued[c])
    PROVE  LET u == UpdateVertices(p, cells)
           IN  /\ DStarInv(u)
               /\ u.ready = p.ready /\ u.grid = p.grid /\ u.start = p.start
               /\ u.goal = p.goal /\ u.km = p.km /\ u.g = p.g
  <1> DEFINE rhs == [c \in Positions |->
                        IF c \in cells THEN OneStepLookahead(p, c) ELSE p.rhs[c]]
             q == [p EXCEPT !.rhs = rhs]
             uneven == {c \in cells : q.g[c] # q.rhs[c]}
             queued == [c \in (DOMAIN p.queued \ cells) \cup uneven |->
                            IF c \in cells THEN CalculateKey(q, c) ELSE p.queued[c]]
             u == [q EXCEPT !.queued = queued]
  <1>1. UpdateVertices(p, cells) = u
    BY DEF UpdateVertices
  <1>2. /\ p.g \in [Positions -> 0 .. Inf] /\ p.rhs \in [Positions -> 0 .. Inf]
        /\ p.queued \in Queues /\ p.goal \in Positions /\ p.start \in Positions
        /\ p.km \in Nat /\ p.grid \in SUBSET Positions /\ p.ready \in BOOLEAN
    BY DEF DStarPlanners
  <1>3. \A c \in Positions : OneStepLookahead(p, c) \in 0 .. Inf
    BY LookaheadIsCost
  <1>4. rhs \in [Positions -> 0 .. Inf] /\ \A c \in Positions : rhs[c] = OneStepLookahead(p, c)
    <2>1. \A c \in Positions : rhs[c] = OneStepLookahead(p, c)
      OBVIOUS
    <2>2. \A c \in Positions : rhs[c] \in 0 .. Inf
      BY <1>3, <2>1
    <2>3. QED
      BY <2>1, <2>2
  <1>5. q = [ready |-> p.ready, grid |-> p.grid, start |-> p.start, goal |-> p.goal,
             km |-> p.km, g |-> p.g, rhs |-> rhs, queued |-> p.queued]
    BY DEF DStarPlanners
  <1> HIDE DEF rhs
  <1>6. /\ q.g = p.g /\ q.rhs = rhs /\ q.grid = p.grid /\ q.start = p.start
        /\ q.goal = p.goal /\ q.km = p.km /\ q.queued = p.queued /\ q.ready = p.ready
    BY <1>5
  <1>7. q \in DStarPlanners
    <2> HIDE DEF q
    <2>1. QED
      BY <1>2, <1>4, <1>5 DEF DStarPlanners
  <1> HIDE DEF q
  <1>8. \A c \in Positions : CalculateKey(q, c) \in Pairs
    BY <1>7, KeyIsPair
  <1>9. /\ DOMAIN p.queued \in SUBSET Positions
        /\ \A c \in DOMAIN p.queued : p.queued[c] \in Pairs
    BY <1>2, QueueIsFunction
  <1>10. /\ DOMAIN queued = uneven \cup (DOMAIN p.queued \ cells)
         /\ \A c \in uneven : queued[c] = CalculateKey(q, c)
         /\ \A c \in DOMAIN p.queued \ cells : queued[c] = p.queued[c]
    <2>1. uneven \in SUBSET cells
      OBVIOUS
    <2> HIDE DEF uneven
    <2>2. QED
      BY <2>1
  <1>11. queued \in Queues
    <2>1. DOMAIN queued \in SUBSET Positions
      BY <1>9, <1>10
    <2>2. \A c \in DOMAIN queued : queued[c] \in Pairs
      BY <1>8, <1>9, <1>10
    <2>3. queued = [c \in DOMAIN queued |-> queued[c]]
      OBVIOUS
    <2> HIDE DEF queued
    <2>4. queued \in [DOMAIN queued -> Pairs]
      BY <2>2, <2>3
    <2>5. QED
      BY <2>1, <2>4, QueueIsFunction
  <1>12. DOMAIN queued = {c \in Positions : p.g[c] # rhs[c]}
    <2>1. uneven = {c \in cells : p.g[c] # rhs[c]}
      BY <1>6
    <2>2. \A c \in Positions \ cells : c \in DOMAIN p.queued <=> p.g[c] # rhs[c]
      BY <1>4
    <2>3. QED
      BY <1>9, <1>10, <2>1, <2>2
  <1>13. u = [ready |-> p.ready, grid |-> p.grid, start |-> p.start, goal |-> p.goal,
              km |-> p.km, g |-> p.g, rhs |-> rhs, queued |-> queued]
    BY <1>5
  <1> HIDE DEF u, queued
  <1>14. /\ u.g = p.g /\ u.rhs = rhs /\ u.grid = p.grid /\ u.start = p.start
         /\ u.goal = p.goal /\ u.km = p.km /\ u.queued = queued /\ u.ready = p.ready
    BY <1>13
  <1>15. u \in DStarPlanners
    BY <1>2, <1>4, <1>11, <1>13 DEF DStarPlanners
  <1>16. \A c \in Positions : OneStepLookahead(u, c) = OneStepLookahead(p, c)
    <2>1. \A c \in Positions : u.rhs[c] = OneStepLookahead(p, c)
      BY <1>4, <1>14
    <2>2. OneStepLookahead(p, p.goal) = p.rhs[p.goal]
      BY DEF OneStepLookahead
    <2>3. SUFFICES ASSUME NEW c \in Positions
                   PROVE  OneStepLookahead(u, c) = OneStepLookahead(p, c)
      OBVIOUS
    <2>4. QED
      BY <1>14, <1>15, <2>1, <2>2, LookaheadIsLocal
  <1>17. u.rhs[u.goal] = 0
    <2>1. OneStepLookahead(p, p.goal) = p.rhs[p.goal]
      BY DEF OneStepLookahead
    <2>2. QED
      BY <1>2, <1>4, <1>14, <2>1
  <1>18. \A c \in Positions : rhs[c] = p.rhs[c] \/ c \in cells
    BY <1>4
  <1>19. \A c \in DOMAIN u.queued : ~Less(CalculateKey(u, c), u.queued[c])
    <2>1. \A c \in Positions : CalculateKey(u, c) = CalculateKey(q, c)
      BY <1>6, <1>14 DEF CalculateKey
    <2>2. SUFFICES ASSUME NEW c \in DOMAIN queued
                   PROVE  ~Less(CalculateKey(q, c), queued[c])
      <3>1. DOMAIN queued \in SUBSET Positions
        BY <1>12
      <3>2. QED
        BY <1>14, <2>1, <3>1
    <2>3. c \in Positions
      BY <1>12
    <2>4. CASE c \in uneven
      BY <1>8, <1>10, <2>3, <2>4, NotLessOfPairs
    <2>5. CASE c \notin uneven
      <3>1. c \in DOMAIN p.queued \ cells
        BY <1>10, <2>5
      <3>2. rhs[c] = p.rhs[c]
        BY <1>18, <2>3, <3>1
      <3>3. CalculateKey(q, c) = CalculateKey(p, c)
        BY <1>6, <3>2 DEF CalculateKey
      <3>4. QED
        BY <1>10, <3>1, <3>3
    <2>6. QED
      BY <2>4, <2>5
  <1>20. DStarInv(u)
    BY <1>4, <1>12, <1>14, <1>15, <1>16, <1>17, <1>19 DEF DStarInv
  <1>21. QED
    BY <1>1, <1>14, <1>20

LEMMA UnplannedIsPlanner ==
    Unplanned \in DStarPlanners /\ Unplanned.ready = FALSE
  <1>1. NoKeys \in Queues
    <2>1. NoKeys \in [{} -> Pairs]
      BY DEF NoKeys
    <2>2. QED
      BY <2>1, QueueIsFunction
  <1>2. Inf \in 0 .. Inf
    BY InfIsPositive
  <1>3. <<0, 0>> \in Positions
    BY GridAssumption DEF Positions
  <1>4. QED
    BY <1>1, <1>2, <1>3 DEF Unplanned, DStarPlanners

\* A new search begins as it should.
LEMMA InitializedInv ==
    ASSUME NEW grid \in SUBSET Positions, NEW start \in Positions, NEW goal \in Positions,
           goal \notin grid
    PROVE  LET p == Initialized(grid, start, goal)
           IN  DStarInv(p) /\ p.ready /\ p.grid = grid /\ p.start = start /\ p.goal = goal
  <1> DEFINE p == Initialized(grid, start, goal)
             q == [c \in {goal} |-> <<Manhattan(start, goal), 0>>]
  <1>1. Inf \in Nat \ {0}
    BY InfIsPositive
  <1>2. Manhattan(start, goal) \in Nat
    BY ManhattanIsMetric
  <1>3. q \in Queues
    <2>1. q \in [{goal} -> Pairs]
      BY <1>2 DEF Pairs
    <2>2. QED
      BY <2>1, QueueIsFunction
  <1>4. p = [ready |-> TRUE, grid |-> grid, start |-> start, goal |-> goal, km |-> 0,
             g |-> [c \in Positions |-> Inf],
             rhs |-> [c \in Positions |-> IF c = goal THEN 0 ELSE Inf],
             queued |-> q]
    BY DEF Initialized
  <1> HIDE DEF p, q
  <1>5. /\ p.ready /\ p.grid = grid /\ p.start = start /\ p.goal = goal /\ p.km = 0
        /\ p.g = [c \in Positions |-> Inf] /\ p.queued = q
        /\ p.rhs = [c \in Positions |-> IF c = goal THEN 0 ELSE Inf]
    BY <1>4
  <1>6. p \in DStarPlanners
    BY <1>1, <1>3, <1>4 DEF DStarPlanners
  <1>7. \A c \in Positions : p.rhs[c] = OneStepLookahead(p, c)
    <2>1. SUFFICES ASSUME NEW c \in Positions, c # goal, c \notin grid
                   PROVE  OneStepLookahead(p, c) = Inf
      BY <1>5 DEF OneStepLookahead
    <2>2. \A n \in Neighbours(c) : Plus(EdgeCost(p, c, n), p.g[n]) = Inf
      BY <1>5, NeighboursAreAdjacent DEF Plus
    <2>3. QED
      BY <1>5, <1>6, <2>1, <2>2, LookaheadIsLeast
  <1>8. DOMAIN p.queued = {c \in Positions : p.g[c] # p.rhs[c]}
    BY <1>1, <1>5 DEF q
  <1>9. ~Less(CalculateKey(p, goal), p.queued[goal])
    <2>1. Smaller(p.g[goal], p.rhs[goal]) = 0
      BY <1>1, <1>5 DEF Smaller
    <2>2. CalculateKey(p, goal) = <<Manhattan(start, goal), 0>>
      BY <1>2, <1>5, <2>1 DEF CalculateKey
    <2>3. p.queued[goal] = <<Manhattan(start, goal), 0>>
      BY <1>5 DEF q
    <2>4. <<Manhattan(start, goal), 0>> \in Pairs
      BY <1>2 DEF Pairs
    <2>5. QED
      BY <2>2, <2>3, <2>4, NotLessOfPairs
  <1>10. DOMAIN p.queued = {goal}
    BY <1>5 DEF q
  <1>11. DStarInv(p)
    BY <1>5, <1>6, <1>7, <1>8, <1>9, <1>10 DEF DStarInv
  <1>12. QED
    BY <1>5, <1>11 DEF p

\* Old keys are no later than new ones after the start has moved.
LEMMA KeysGrow ==
    ASSUME NEW p \in DStarPlanners, NEW q \in DStarPlanners, NEW c \in Positions,
           q.g = p.g, q.rhs = p.rhs, q.km = p.km + Manhattan(p.start, q.start),
           NEW k \in Pairs, ~Less(CalculateKey(p, c), k)
    PROVE  ~Less(CalculateKey(q, c), k)
  <1> DEFINE best == Smaller(p.g[c], p.rhs[c])
             a == CalculateKey(p, c)
             b == CalculateKey(q, c)
  <1>1. /\ best \in 0 .. Inf /\ a \in Pairs /\ a = <<best + Manhattan(p.start, c) + p.km, best>>
    BY KeyIsPair
  <1>2. b \in Pairs /\ b = <<best + Manhattan(q.start, c) + q.km, best>>
    <2>1. best = Smaller(q.g[c], q.rhs[c])
      OBVIOUS
    <2>2. QED
      BY <2>1, KeyIsPair
  <1>3. /\ Manhattan(p.start, c) \in Nat /\ Manhattan(q.start, c) \in Nat
        /\ Manhattan(p.start, q.start) \in Nat
        /\ Manhattan(p.start, c) <= Manhattan(p.start, q.start) + Manhattan(q.start, c)
        /\ p.km \in Nat
    <2>1. p.start \in Positions /\ q.start \in Positions /\ p.km \in Nat
      BY DEF DStarPlanners
    <2>2. QED
      BY <2>1, ManhattanIsMetric
  <1> HIDE DEF best
  <1>4. best + Manhattan(p.start, c) + p.km <= best + Manhattan(q.start, c) + q.km
    BY <1>1, <1>3
  <1>5. ~Less(b, a)
    <2>1. best + Manhattan(p.start, c) + p.km \in Int /\ best + Manhattan(q.start, c) + q.km \in Int
          /\ best \in Int
      BY <1>1, <1>3
    <2>2. Less(b, a) <=> \/ best + Manhattan(q.start, c) + q.km < best + Manhattan(p.start, c) + p.km
                         \/ /\ best + Manhattan(q.start, c) + q.km = best + Manhattan(p.start, c) + p.km
                            /\ best < best
      BY <1>1, <1>2, <2>1, LessOfPairs
    <2>3. QED
      BY <1>4, <2>1, <2>2
  <1>6. QED
    BY <1>1, <1>2, <1>5, NotLessOfPairs

\* A repair under a moved start and changed cells looks at all it has to.
LEMMA RepairedInv ==
    ASSUME NEW p, DStarInv(p), NEW grid \in SUBSET Positions, NEW start \in Positions,
           p.goal \notin grid
    PROVE  LET u == Repaired(p, grid, start)
           IN  /\ DStarInv(u)
               /\ u.ready = p.ready /\ u.grid = grid /\ u.start = start /\ u.goal = p.goal
  <1> DEFINE changed == (p.grid \ grid) \cup (grid \ p.grid)
             near == UNION {Neighbours(c) : c \in changed}
             cells == changed \cup near
             q == [p EXCEPT !.km = @ + Manhattan(p.start, start), !.start = start,
                            !.grid = grid]
  <1>1. Repaired(p, grid, start) = UpdateVertices(q, cells)
    BY DEF Repaired
  <1>2. p \in DStarPlanners
    BY DEF DStarInv
  <1>3. /\ p.g \in [Positions -> 0 .. Inf] /\ p.rhs \in [Positions -> 0 .. Inf]
        /\ p.queued \in Queues /\ p.goal \in Positions /\ p.start \in Positions
        /\ p.km \in Nat /\ p.grid \in SUBSET Positions /\ p.ready \in BOOLEAN
    BY <1>2 DEF DStarPlanners
  <1>4. Manhattan(p.start, start) \in Nat
    BY <1>3, ManhattanIsMetric
  <1>5. q = [ready |-> p.ready, grid |-> grid, start |-> start, goal |-> p.goal,
             km |-> p.km + Manhattan(p.start, start), g |-> p.g, rhs |-> p.rhs,
             queued |-> p.queued]
    <2> DEFINE km == p.km + Manhattan(p.start, start)
    <2>1. q = [p EXCEPT !.km = km, !.start = start, !.grid = grid]
      OBVIOUS
    <2> HIDE DEF km, q
    <2>2. q = [ready |-> p.ready, grid |-> grid, start |-> start, goal |-> p.goal,
               km |-> km, g |-> p.g, rhs |-> p.rhs, queued |-> p.queued]
      BY <1>2, <2>1 DEF DStarPlanners
    <2>3. QED
      BY <2>2 DEF km
  <1>6. changed \in SUBSET Positions
    BY <1>3
  <1>7. cells \in SUBSET Positions
    <2>1. \A c \in Positions : Neighbours(c) \in SUBSET Positions
      BY NeighboursFacts
    <2>2. QED
      BY <1>6, <2>1
  <1>8. \A c \in Positions \ cells : c \notin changed /\ \A n \in Neighbours(c) : n \notin changed
    <2>1. SUFFICES ASSUME NEW c \in Positions \ cells, NEW n \in Neighbours(c), n \in changed
                   PROVE  FALSE
      OBVIOUS
    <2>2. n \in Positions /\ c \in Neighbours(n)
      BY NeighboursAreAdjacent, NeighboursFacts
    <2>3. Neighbours(n) \in {Neighbours(d) : d \in changed}
      BY <2>1
    <2>4. c \in near
      BY <2>2, <2>3
    <2>5. QED
      BY <2>4
  <1>9. \A n \in Positions : n \notin changed => (n \in p.grid <=> n \in grid)
    OBVIOUS
  <1> HIDE DEF q, changed, near, cells
  <1>10. /\ q.ready = p.ready /\ q.grid = grid /\ q.start = start /\ q.goal = p.goal
         /\ q.km = p.km + Manhattan(p.start, start) /\ q.g = p.g /\ q.rhs = p.rhs
         /\ q.queued = p.queued
    BY <1>5
  <1>11. q \in DStarPlanners
    BY <1>3, <1>4, <1>5 DEF DStarPlanners
  <1>12. \A c \in Positions \ cells : q.rhs[c] = OneStepLookahead(q, c)
    <2>1. SUFFICES ASSUME NEW c \in Positions \ cells
                   PROVE  q.rhs[c] = OneStepLookahead(q, c)
      OBVIOUS
    <2>2. p.rhs[c] = OneStepLookahead(p, c)
      BY DEF DStarInv
    <2>3. c \in p.grid <=> c \in q.grid
      BY <1>8, <1>9, <1>10
    <2>4. \A n \in Neighbours(c) : (n \in p.grid <=> n \in q.grid) /\ p.g[n] = q.g[n]
      <3>1. \A n \in Neighbours(c) : n \in Positions
        BY NeighboursAreAdjacent
      <3>2. QED
        BY <1>8, <1>9, <1>10, <3>1
    <2>5. OneStepLookahead(q, c) = OneStepLookahead(p, c)
      BY <1>2, <1>10, <1>11, <2>3, <2>4, LookaheadIsLocal
    <2>6. QED
      BY <1>10, <2>2, <2>5
  <1>13. \A c \in Positions \ cells : c \in DOMAIN q.queued <=> q.g[c] # q.rhs[c]
    BY <1>10 DEF DStarInv
  <1>14. \A c \in DOMAIN q.queued \ cells : ~Less(CalculateKey(q, c), q.queued[c])
    <2>1. SUFFICES ASSUME NEW c \in DOMAIN p.queued
                   PROVE  ~Less(CalculateKey(q, c), p.queued[c])
      BY <1>10
    <2>2. c \in Positions /\ p.queued[c] \in Pairs
      BY <1>3, QueueIsFunction
    <2>3. ~Less(CalculateKey(p, c), p.queued[c])
      BY DEF DStarInv
    <2>4. QED
      BY <1>2, <1>10, <1>11, <2>2, <2>3, KeysGrow
  <1>15. q.goal \notin q.grid /\ q.rhs[q.goal] = 0
    BY <1>10 DEF DStarInv
  <1>16. QED
    BY <1>1, <1>7, <1>10, <1>11, <1>12, <1>13, <1>14, <1>15, UpdateVerticesInv

\* Whatever a call begins with.
LEMMA CalledInv ==
    ASSUME NEW p \in DStarPlanners, p.ready => DStarInv(p),
           NEW grid \in SUBSET Positions, NEW start \in Positions, NEW goal \in Positions
    PROVE  LET u == Called(p, grid, start, goal)
           IN  /\ u \in DStarPlanners
               /\ u.ready => DStarInv(u)
               /\ ~Fails(grid, start, goal) =>
                    u.ready /\ u.grid = grid /\ u.start = start /\ u.goal = goal
  <1> DEFINE u == Called(p, grid, start, goal)
  <1>1. CASE Fails(grid, start, goal)
    BY <1>1 DEF Called
  <1>2. CASE ~Fails(grid, start, goal) /\ (start = goal \/ ~p.ready \/ p.goal # goal)
    <2>1. goal \notin grid
      BY <1>2 DEF Fails
    <2>2. u = Initialized(grid, start, goal)
      BY <1>2 DEF Called
    <2>3. DStarInv(u) /\ u.ready /\ u.grid = grid /\ u.start = start /\ u.goal = goal
      BY <2>1, <2>2, InitializedInv
    <2>4. QED
      BY <2>3 DEF DStarInv
  <1>3. CASE ~Fails(grid, start, goal) /\ start # goal /\ p.ready /\ p.goal = goal
    <2>1. p.goal \notin grid
      BY <1>3 DEF Fails
    <2>2. u = Repaired(p, grid, start)
      BY <1>3 DEF Called
    <2> HIDE DEF u
    <2>3. DStarInv(p)
      BY <1>3
    <2>4. DStarInv(u) /\ u.ready = p.ready /\ u.grid = grid /\ u.start = start /\ u.goal = p.goal
      BY <2>1, <2>2, <2>3, RepairedInv
    <2>5. QED
      BY <1>3, <2>4 DEF DStarInv, u
  <1>4. QED
    BY <1>1, <1>2, <1>3

LEMMA TuplesOfPairs ==
    ASSUME NEW a \in Pairs, NEW b \in Pairs
    PROVE  /\ a \o b \in [1 .. 4 -> Nat]
           /\ (a \o b)[1] = a[1] /\ (a \o b)[2] = a[2]
           /\ (a \o b)[3] = b[1] /\ (a \o b)[4] = b[2]
           /\ SubSeq(a \o b, 1, 2) = a
           /\ SubSeq(a \o b, 3, 4) = b
  <1> DEFINE s == a \o b
  <1>1. a \in Seq(Nat) /\ Len(a) = 2 /\ b \in Seq(Nat) /\ Len(b) = 2
    <2>1. \A x, y \in Nat : <<x, y>> \in Seq(Nat) /\ Len(<<x, y>>) = 2
      OBVIOUS
    <2>2. /\ a = <<a[1], a[2]>> /\ a[1] \in Nat /\ a[2] \in Nat
          /\ b = <<b[1], b[2]>> /\ b[1] \in Nat /\ b[2] \in Nat
      BY DEF Pairs
    <2>3. <<a[1], a[2]>> \in Seq(Nat) /\ Len(<<a[1], a[2]>>) = 2
      BY <2>1, <2>2
    <2>4. <<b[1], b[2]>> \in Seq(Nat) /\ Len(<<b[1], b[2]>>) = 2
      BY <2>1, <2>2
    <2>5. QED
      BY <2>2, <2>3, <2>4
  <1>2. /\ s \in Seq(Nat) /\ Len(s) = Len(a) + Len(b)
        /\ \A i \in 1 .. Len(a) + Len(b) : s[i] = IF i <= Len(a) THEN a[i] ELSE b[i - Len(a)]
    BY <1>1, ConcatProperties
  <1> HIDE DEF s
  <1>3. /\ s \in Seq(Nat) /\ Len(s) = 4 /\ s \in [1 .. 4 -> Nat]
        /\ s[1] = a[1] /\ s[2] = a[2] /\ s[3] = b[1] /\ s[4] = b[2]
    <2>1. Len(s) = 4 /\ \A i \in 1 .. 4 : s[i] = IF i <= 2 THEN a[i] ELSE b[i - 2]
      BY <1>1, <1>2
    <2>2. s \in [1 .. Len(s) -> Nat]
      BY <1>2, LenProperties
    <2>3. s[1] = a[1] /\ s[2] = a[2] /\ s[3] = b[3 - 2] /\ s[4] = b[4 - 2]
      BY <2>1
    <2>4. 3 - 2 = 1 /\ 4 - 2 = 2
      OBVIOUS
    <2>5. s \in [1 .. 4 -> Nat]
      BY <2>1, <2>2
    <2>6. s[3] = b[1] /\ s[4] = b[2]
      BY <2>3, <2>4
    <2>7. QED
      BY <1>2, <2>1, <2>3, <2>5, <2>6
  <1>4. SubSeq(s, 1, 2) = a
    <2>1. /\ SubSeq(s, 1, 2) \in Seq(Nat) /\ Len(SubSeq(s, 1, 2)) = 2
          /\ SubSeq(s, 1, 2)[1] = s[1] /\ SubSeq(s, 1, 2)[2] = s[2]
      BY <1>3
    <2>2. \A i \in 1 .. 2 : SubSeq(s, 1, 2)[i] = a[i]
      BY <1>3, <2>1
    <2>3. QED
      BY <1>1, <2>1, <2>2, SeqEqual
  <1>5. SubSeq(s, 3, 4) = b
    <2>1. /\ SubSeq(s, 3, 4) \in Seq(Nat) /\ Len(SubSeq(s, 3, 4)) = 2
          /\ SubSeq(s, 3, 4)[1] = s[3] /\ SubSeq(s, 3, 4)[2] = s[4]
      BY <1>3
    <2>2. \A i \in 1 .. 2 : SubSeq(s, 3, 4)[i] = b[i]
      BY <1>3, <2>1
    <2>3. QED
      BY <1>1, <2>1, <2>2, SeqEqual
  <1>6. QED
    BY <1>3, <1>4, <1>5 DEF s

\* The head of the queue: a queued cell, and no other has an earlier key.
LEMMA TopIsQueued ==
    ASSUME NEW p \in DStarPlanners, DOMAIN p.queued # {}
    PROVE  /\ Keys(p) # {}
           /\ Top(p) \in DOMAIN p.queued
           /\ SubSeq(Least(Keys(p)), 1, 2) = p.queued[Top(p)]
           /\ \A c \in DOMAIN p.queued : ~Less(p.queued[c], p.queued[Top(p)])
  <1> DEFINE key(c) == p.queued[c] \o c
  <1>1. /\ DOMAIN p.queued \in SUBSET Positions
        /\ \A c \in DOMAIN p.queued : p.queued[c] \in Pairs
    <2>1. p.queued \in Queues
      BY DEF DStarPlanners
    <2>2. QED
      BY <2>1, QueueIsFunction
  <1>2. \A c \in DOMAIN p.queued :
            /\ key(c) \in [1 .. 4 -> Nat]
            /\ key(c)[1] = p.queued[c][1] /\ key(c)[2] = p.queued[c][2]
            /\ SubSeq(key(c), 1, 2) = p.queued[c]
            /\ SubSeq(key(c), 3, 4) = c
    <2>1. \A c \in Positions : c \in Pairs
      BY PositionIsPair DEF Pairs
    <2>2. \A a, b \in Pairs :
            /\ a \o b \in [1 .. 4 -> Nat]
            /\ (a \o b)[1] = a[1] /\ (a \o b)[2] = a[2]
            /\ SubSeq(a \o b, 1, 2) = a
            /\ SubSeq(a \o b, 3, 4) = b
      BY TuplesOfPairs
    <2>3. QED
      BY <1>1, <2>1, <2>2
  <1>3. Keys(p) = {key(c) : c \in DOMAIN p.queued}
    BY DEF Keys
  <1> HIDE DEF key
  <1>4. Keys(p) \in SUBSET [1 .. 4 -> Nat] /\ Keys(p) # {}
    BY <1>2, <1>3
  <1>5. Least(Keys(p)) \in Keys(p) /\ \A b \in Keys(p) \ {Least(Keys(p))} : Less(Least(Keys(p)), b)
    BY <1>4, LeastIsMember
  <1>6. PICK t \in DOMAIN p.queued : Least(Keys(p)) = key(t)
    BY <1>3, <1>5
  <1>7. Top(p) = t /\ SubSeq(Least(Keys(p)), 1, 2) = p.queued[t]
    BY <1>2, <1>6 DEF Top
  <1>8. \A c \in DOMAIN p.queued : ~Less(p.queued[c], p.queued[t])
    <2>1. SUFFICES ASSUME NEW c \in DOMAIN p.queued PROVE ~Less(p.queued[c], p.queued[t])
      OBVIOUS
    <2>2. CASE key(c) = key(t)
      <3>1. p.queued[c] = p.queued[t] /\ p.queued[c] \in Pairs
        BY <1>1, <1>2, <2>2
      <3>2. QED
        BY <3>1, NotLessOfPairs
    <2>3. CASE key(c) # key(t)
      <3>1. Less(key(t), key(c))
        BY <1>3, <1>5, <1>6, <2>3
      <3>2. /\ p.queued[c] = <<p.queued[c][1], p.queued[c][2]>>
            /\ p.queued[t] = <<p.queued[t][1], p.queued[t][2]>>
            /\ p.queued[c][1] \in Nat /\ p.queued[c][2] \in Nat
            /\ p.queued[t][1] \in Nat /\ p.queued[t][2] \in Nat
        BY <1>1 DEF Pairs
      <3>3. DOMAIN key(t) = 1 .. 4
        BY <1>2
      <3>4. PICK i \in 1 .. 4 : key(t)[i] < key(c)[i] /\ \A j \in 1 .. i - 1 : key(t)[j] = key(c)[j]
        BY <3>1, <3>3 DEF Less
      <3>5. \/ p.queued[t][1] < p.queued[c][1]
            \/ p.queued[t][1] = p.queued[c][1] /\ p.queued[t][2] <= p.queued[c][2]
        <4>1. CASE i = 1
          BY <1>2, <3>4, <4>1
        <4>2. CASE i = 2
          BY <1>2, <3>2, <3>4, <4>2
        <4>3. CASE i > 2
          <5>1. 1 \in 1 .. i - 1 /\ 2 \in 1 .. i - 1
            BY <4>3
          <5>2. key(t)[1] = key(c)[1] /\ key(t)[2] = key(c)[2]
            BY <3>4, <5>1
          <5>3. QED
            BY <1>2, <3>2, <5>2
        <4>4. QED
          BY <4>1, <4>2, <4>3
      <3>6. Less(p.queued[c], p.queued[t]) <=>
                \/ p.queued[c][1] < p.queued[t][1]
                \/ p.queued[c][1] = p.queued[t][1] /\ p.queued[c][2] < p.queued[t][2]
        <4>1. \A a1, a2, b1, b2 \in Int :
                Less(<<a1, a2>>, <<b1, b2>>) <=> a1 < b1 \/ (a1 = b1 /\ a2 < b2)
          BY LessOfPairs
        <4>2. QED
          BY <3>2, <4>1
      <3>7. QED
        BY <3>2, <3>5, <3>6
    <2>4. QED
      BY <2>2, <2>3
  <1>9. QED
    BY <1>4, <1>6, <1>7, <1>8

\* An iteration that settles or gives up a cell.
LEMMA SettledInv ==
    ASSUME NEW p, DStarInv(p), NEW cell \in DOMAIN p.queued, NEW cost \in 0 .. Inf,
           NEW cells \in SUBSET Positions, Neighbours(cell) \subseteq cells,
           cell \in cells \/ cost = p.rhs[cell]
    PROVE  LET q == [p EXCEPT !.queued = Without(@, {cell}), !.g[cell] = cost]
               u == UpdateVertices(q, cells)
           IN  DStarInv(u) /\ u.ready = p.ready /\ u.grid = p.grid /\ u.start = p.start
               /\ u.goal = p.goal
  <1> DEFINE g == [p.g EXCEPT ![cell] = cost]
             queued == Without(p.queued, {cell})
             q == [p EXCEPT !.queued = Without(@, {cell}), !.g[cell] = cost]
  <1>1. p \in DStarPlanners
    BY DEF DStarInv
  <1>2. /\ p.g \in [Positions -> 0 .. Inf] /\ p.rhs \in [Positions -> 0 .. Inf]
        /\ p.queued \in Queues /\ p.goal \in Positions /\ p.start \in Positions
        /\ p.km \in Nat /\ p.grid \in SUBSET Positions /\ p.ready \in BOOLEAN
    BY <1>1 DEF DStarPlanners
  <1>3. cell \in Positions /\ \A c \in DOMAIN p.queued : c \in Positions /\ p.queued[c] \in Pairs
    BY <1>2, QueueIsFunction
  <1>4. /\ DOMAIN queued = DOMAIN p.queued \ {cell}
        /\ \A c \in DOMAIN queued : queued[c] = p.queued[c]
        /\ queued \in Queues
    <2>1. /\ DOMAIN queued = DOMAIN p.queued \ {cell}
          /\ \A c \in DOMAIN queued : queued[c] = p.queued[c]
      BY DEF Without
    <2>2. queued \in [DOMAIN p.queued \ {cell} -> Pairs]
      BY <1>3 DEF Without
    <2>3. DOMAIN p.queued \ {cell} \in SUBSET Positions
      BY <1>3
    <2>4. QED
      BY <2>1, <2>2, <2>3, QueueIsFunction
  <1>5. /\ g \in [Positions -> 0 .. Inf] /\ g[cell] = cost
        /\ \A c \in Positions \ {cell} : g[c] = p.g[c]
    BY <1>2, <1>3
  <1>6. q = [ready |-> p.ready, grid |-> p.grid, start |-> p.start, goal |-> p.goal,
             km |-> p.km, g |-> g, rhs |-> p.rhs, queued |-> queued]
    <2> HIDE DEF queued
    <2>1. q = [p EXCEPT !.queued = queued, !.g = g]
      BY <1>1 DEF DStarPlanners, queued
    <2> HIDE DEF q, g
    <2>2. QED
      BY <1>1, <2>1 DEF DStarPlanners
  <1> HIDE DEF g, queued, q
  <1>7. /\ q.ready = p.ready /\ q.grid = p.grid /\ q.start = p.start /\ q.goal = p.goal
        /\ q.km = p.km /\ q.g = g /\ q.rhs = p.rhs /\ q.queued = queued
    BY <1>6
  <1>8. q \in DStarPlanners
    BY <1>2, <1>4, <1>5, <1>6 DEF DStarPlanners
  <1>9. q.goal \notin q.grid /\ q.rhs[q.goal] = 0
    BY <1>7 DEF DStarInv
  <1>10. \A c \in Positions \ cells : q.rhs[c] = OneStepLookahead(q, c)
    <2>1. SUFFICES ASSUME NEW c \in Positions \ cells
                   PROVE  q.rhs[c] = OneStepLookahead(q, c)
      OBVIOUS
    <2>2. cell \notin Neighbours(c)
      BY <1>3, NeighboursFacts
    <2>3. \A n \in Neighbours(c) : p.g[n] = q.g[n]
      <3>1. \A n \in Neighbours(c) : n \in Positions \ {cell}
        BY <2>2, NeighboursAreAdjacent
      <3>2. QED
        BY <1>5, <1>7, <3>1
    <2>4. OneStepLookahead(q, c) = OneStepLookahead(p, c)
      BY <1>1, <1>7, <1>8, <2>3, LookaheadIsLocal
    <2>5. QED
      BY <1>7, <2>4 DEF DStarInv
  <1>11. \A c \in Positions \ cells : c \in DOMAIN q.queued <=> q.g[c] # q.rhs[c]
    <2>1. SUFFICES ASSUME NEW c \in Positions \ cells
                   PROVE  c \in DOMAIN queued <=> g[c] # p.rhs[c]
      BY <1>7
    <2>2. CASE c = cell
      BY <1>4, <1>5, <2>2
    <2>3. CASE c # cell
      <3>1. c \in DOMAIN p.queued <=> p.g[c] # p.rhs[c]
        BY DEF DStarInv
      <3>2. QED
        BY <1>4, <1>5, <2>3, <3>1
    <2>4. QED
      BY <2>2, <2>3
  <1>12. \A c \in DOMAIN q.queued \ cells : ~Less(CalculateKey(q, c), q.queued[c])
    <2>1. SUFFICES ASSUME NEW c \in DOMAIN queued
                   PROVE  ~Less(CalculateKey(q, c), queued[c])
      BY <1>7
    <2>2. c \in DOMAIN p.queued /\ c # cell /\ c \in Positions
      BY <1>3, <1>4
    <2>3. q.g[c] = p.g[c]
      BY <1>5, <1>7, <2>2
    <2>4. CalculateKey(q, c) = CalculateKey(p, c)
      BY <1>7, <2>3 DEF CalculateKey
    <2>5. QED
      BY <1>4, <2>2, <2>4 DEF DStarInv
  <1>13. QED
    <2>1. LET u == UpdateVertices(q, cells)
          IN  DStarInv(u) /\ u.ready = q.ready /\ u.grid = q.grid /\ u.start = q.start
              /\ u.goal = q.goal
      BY <1>8, <1>9, <1>10, <1>11, <1>12, UpdateVerticesInv
    <2>2. QED
      BY <1>7, <2>1 DEF q

\* Every iteration keeps the search as it should be.
LEMMA IteratedInv ==
    ASSUME NEW p, DStarInv(p), Unfinished(p)
    PROVE  LET u == Iterated(p)
           IN  DStarInv(u) /\ u.ready = p.ready /\ u.grid = p.grid /\ u.start = p.start
               /\ u.goal = p.goal
  <1> DEFINE cell == Top(p)
             key == CalculateKey(p, cell)
             popped == [p EXCEPT !.queued = Without(@, {cell})]
             u == Iterated(p)
  <1>1. p \in DStarPlanners
    BY DEF DStarInv
  <1>2. DOMAIN p.queued # {}
    <2>1. CASE Keys(p) # {}
      BY <2>1 DEF Keys
    <2>2. CASE p.rhs[p.start] # p.g[p.start]
      <3>1. p.start \in Positions
        BY <1>1 DEF DStarPlanners
      <3>2. QED
        BY <2>2, <3>1 DEF DStarInv
    <2>3. QED
      BY <2>1, <2>2 DEF Unfinished
  <1>3. cell \in DOMAIN p.queued
    BY <1>1, <1>2, TopIsQueued
  <1>4. /\ p.g \in [Positions -> 0 .. Inf] /\ p.rhs \in [Positions -> 0 .. Inf]
        /\ p.queued \in Queues
    BY <1>1 DEF DStarPlanners
  <1>5. cell \in Positions /\ p.rhs[cell] \in 0 .. Inf /\ Inf \in 0 .. Inf
    BY <1>3, <1>4, QueueIsFunction, InfIsPositive
  <1>6. Neighbours(cell) \in SUBSET Positions
    BY <1>5, NeighboursFacts
  <1>7. u = IF Less(p.queued[cell], key) THEN [p EXCEPT !.queued[cell] = key]
            ELSE IF p.g[cell] > p.rhs[cell]
            THEN UpdateVertices([popped EXCEPT !.g[cell] = p.rhs[cell]], Neighbours(cell))
            ELSE UpdateVertices([popped EXCEPT !.g[cell] = Inf], Neighbours(cell) \cup {cell})
    BY DEF Iterated
  <1>8. \A cost : [popped EXCEPT !.g[cell] = cost]
                    = [p EXCEPT !.queued = Without(@, {cell}), !.g[cell] = cost]
    BY <1>1 DEF DStarPlanners
  <1> HIDE DEF cell, popped, u
  <1>9. CASE Less(p.queued[cell], key)
    <2> DEFINE queued == [p.queued EXCEPT ![cell] = key]
    <2>1. u = [p EXCEPT !.queued[cell] = key]
      BY <1>7, <1>9
    <2>2. u = [ready |-> p.ready, grid |-> p.grid, start |-> p.start, goal |-> p.goal,
               km |-> p.km, g |-> p.g, rhs |-> p.rhs, queued |-> queued]
      BY <1>1, <2>1 DEF DStarPlanners
    <2>3. key \in Pairs
      BY <1>1, <1>5, KeyIsPair
    <2>4. /\ DOMAIN queued = DOMAIN p.queued /\ queued[cell] = key
          /\ \A c \in DOMAIN p.queued : c # cell => queued[c] = p.queued[c]
      BY <1>3
    <2>5. queued \in Queues
      <3>1. queued \in [DOMAIN p.queued -> Pairs] /\ DOMAIN p.queued \in SUBSET Positions
        BY <1>4, <2>3, QueueIsFunction
      <3>2. QED
        BY <3>1, QueueIsFunction
    <2> HIDE DEF queued, key
    <2>6. /\ u.g = p.g /\ u.rhs = p.rhs /\ u.grid = p.grid /\ u.start = p.start
          /\ u.goal = p.goal /\ u.km = p.km /\ u.queued = queued /\ u.ready = p.ready
      BY <2>2
    <2>7. u \in DStarPlanners
      BY <1>1, <2>2, <2>5 DEF DStarPlanners
    <2>8. \A c \in Positions : OneStepLookahead(u, c) = OneStepLookahead(p, c)
      BY <1>1, <2>6, <2>7, LookaheadIsLocal
    <2>9. \A c : CalculateKey(u, c) = CalculateKey(p, c)
      BY <2>6 DEF CalculateKey
    <2>10. \A c \in DOMAIN u.queued : ~Less(CalculateKey(u, c), u.queued[c])
      <3>1. ~Less(key, key)
        BY <2>3, NotLessOfPairs
      <3>2. \A c \in DOMAIN p.queued : ~Less(CalculateKey(p, c), p.queued[c])
        BY DEF DStarInv
      <3>3. key = CalculateKey(p, cell)
        BY DEF key
      <3>4. QED
        BY <2>4, <2>6, <2>9, <3>1, <3>2, <3>3
    <2>11. DStarInv(u)
      BY <2>4, <2>6, <2>7, <2>8, <2>10 DEF DStarInv
    <2>12. QED
      BY <2>6, <2>11 DEF u
  <1>10. CASE ~Less(p.queued[cell], key) /\ p.g[cell] > p.rhs[cell]
    <2>1. u = UpdateVertices([p EXCEPT !.queued = Without(@, {cell}), !.g[cell] = p.rhs[cell]],
                             Neighbours(cell))
      BY <1>7, <1>8, <1>10
    <2>2. DStarInv(u) /\ u.ready = p.ready /\ u.grid = p.grid /\ u.start = p.start
          /\ u.goal = p.goal
      BY <1>3, <1>5, <1>6, <2>1, SettledInv
    <2>3. QED
      BY <2>2 DEF u
  <1>11. CASE ~Less(p.queued[cell], key) /\ ~(p.g[cell] > p.rhs[cell])
    <2>1. u = UpdateVertices([p EXCEPT !.queued = Without(@, {cell}), !.g[cell] = Inf],
                             Neighbours(cell) \cup {cell})
      BY <1>7, <1>8, <1>11
    <2>2. Neighbours(cell) \cup {cell} \in SUBSET Positions
      BY <1>5, <1>6
    <2>3. DStarInv(u) /\ u.ready = p.ready /\ u.grid = p.grid /\ u.start = p.start
          /\ u.goal = p.goal
      <3> DEFINE cells == Neighbours(cell) \cup {cell}
                 cost == Inf
      <3>1. Neighbours(cell) \subseteq cells /\ cell \in cells /\ cells \in SUBSET Positions
            /\ cost \in 0 .. Inf
        BY <1>5, <2>2
      <3>2. u = UpdateVertices([p EXCEPT !.queued = Without(@, {cell}), !.g[cell] = cost], cells)
        BY <2>1
      <3> HIDE DEF cells, cost
      <3>3. QED
        BY <1>3, <3>1, <3>2, SettledInv
    <2>4. QED
      BY <2>3 DEF u
  <1>12. QED
    BY <1>9, <1>10, <1>11

-----------------------------------------------------------------------------
\* A finished search.

\* Where the loop stops, a cell that is not settled lies on no way from the
\* start to the goal that is cheaper than the start's, and only beyond the
\* start on one that is as cheap.
LEMMA UnsettledIsFar ==
    ASSUME NEW p, DStarInv(p), ~Unfinished(p)
    PROVE  /\ p.g[p.start] = p.rhs[p.start]
           /\ \A c \in Positions : p.g[c] # p.rhs[c] =>
                \A d \in Nat : (p.g[c] <= d \/ p.rhs[c] <= d) =>
                    /\ p.g[p.start] <= d + Manhattan(p.start, c)
                    /\ p.g[p.start] = d + Manhattan(p.start, c) => p.g[p.start] <= d
  <1> DEFINE start == p.start
             ks == CalculateKey(p, start)
             top == p.queued[Top(p)]
  <1>1. p \in DStarPlanners
    BY DEF DStarInv
  <1>2. /\ p.g \in [Positions -> 0 .. Inf] /\ p.rhs \in [Positions -> 0 .. Inf]
        /\ p.queued \in Queues /\ start \in Positions /\ p.km \in Nat
    BY <1>1 DEF DStarPlanners
  <1>3. p.g[start] = p.rhs[start]
    BY DEF Unfinished
  <1>4. /\ ks \in Pairs /\ ks[1] = p.g[start] + p.km /\ ks[2] = p.g[start]
    <2>1. Smaller(p.g[start], p.rhs[start]) = p.g[start]
      BY <1>2, <1>3 DEF Smaller
    <2>2. Manhattan(start, start) = 0
      BY <1>2, ManhattanIsMetric
    <2>3. /\ ks \in Pairs /\ ks[1] = p.g[start] + Manhattan(start, start) + p.km
          /\ ks[2] = p.g[start]
      BY <1>1, <1>2, <2>1, KeyIsPair
    <2>4. p.g[start] \in Nat
      BY <1>2, InfIsPositive
    <2> HIDE DEF ks
    <2>5. QED
      BY <1>2, <2>2, <2>3, <2>4
  <1>5. ASSUME NEW c \in Positions, p.g[c] # p.rhs[c], NEW d \in Nat,
               p.g[c] <= d \/ p.rhs[c] <= d
        PROVE  /\ p.g[start] <= d + Manhattan(start, c)
               /\ p.g[start] = d + Manhattan(start, c) => p.g[start] <= d
    <2> DEFINE kc == CalculateKey(p, c)
               best == Smaller(p.g[c], p.rhs[c])
    <2>1. c \in DOMAIN p.queued
      BY <1>5 DEF DStarInv
    <2>2. /\ Keys(p) # {} /\ SubSeq(Least(Keys(p)), 1, 2) = top
          /\ Top(p) \in DOMAIN p.queued /\ ~Less(p.queued[c], top)
      BY <1>1, <2>1, TopIsQueued
    <2>3. ~Less(top, ks)
      BY <2>2 DEF Unfinished
    <2>4. ~Less(kc, p.queued[c])
      BY <2>1 DEF DStarInv
    <2>5. top \in Pairs /\ p.queued[c] \in Pairs
      BY <1>2, <2>1, <2>2, QueueIsFunction
    <2>6. /\ best \in 0 .. Inf /\ best <= p.g[c] /\ best <= p.rhs[c]
          /\ kc \in Pairs /\ kc[1] = best + Manhattan(start, c) + p.km /\ kc[2] = best
      BY <1>1, KeyIsPair
    <2> HIDE DEF top, ks, kc, best
    <2>7. ~Less(kc, ks)
      <3>1. ~Less(p.queued[c], ks)
        BY <1>4, <2>2, <2>3, <2>5, NotLessOfPairs
      <3>2. QED
        BY <1>4, <2>4, <2>5, <2>6, <3>1, NotLessOfPairs
    <2>8. ks[1] <= kc[1] /\ (kc[1] = ks[1] => ks[2] <= kc[2])
      BY <1>4, <2>6, <2>7, NotLessOfPairs
    <2>9. /\ Manhattan(start, c) \in Nat /\ p.g[start] \in Nat /\ best \in Nat
          /\ p.g[c] \in Nat /\ p.rhs[c] \in Nat
      BY <1>2, <2>6, InfIsPositive, ManhattanIsMetric
    <2>10. best <= d
      BY <1>5, <2>6, <2>9
    <2>11. p.g[start] <= best + Manhattan(start, c)
      BY <1>2, <1>4, <2>6, <2>8, <2>9
    <2>12. p.g[start] = best + Manhattan(start, c) => p.g[start] <= best
      BY <1>2, <1>4, <2>6, <2>8, <2>9
    <2> HIDE DEF start
    <2>13. QED
      BY <2>9, <2>10, <2>11, <2>12
  <1>6. QED
    BY <1>3, <1>5

\* No path is shorter than what a finished search says of its start.
LEMMA CostIsLeast ==
    ASSUME NEW p, DStarInv(p), ~Unfinished(p),
           NEW q, Walk(q, p.start, p.goal, p.grid), Len(q) <= Inf
    PROVE  p.g[p.start] <= Len(q) - 1
  <1> DEFINE start == p.start
             S == {k \in Nat : k < Len(q) => p.g[q[Len(q) - k]] <= k}
  <1>1. p \in DStarPlanners
    BY DEF DStarInv
  <1>2. /\ p.g \in [Positions -> 0 .. Inf] /\ p.rhs \in [Positions -> 0 .. Inf]
        /\ start \in Positions /\ p.goal \in Positions /\ p.grid \in SUBSET Positions
    BY <1>1 DEF DStarPlanners
  <1>3. Inf \in Nat \ {0}
    BY InfIsPositive
  <1>4. /\ q \in Seq(Positions) /\ Len(q) \in Nat \ {0} /\ q[1] = start /\ q[Len(q)] = p.goal
        /\ \A i \in 1 .. Len(q) : q[i] \in Positions \ p.grid
        /\ \A i \in 1 .. Len(q) - 1 : Manhattan(q[i], q[i + 1]) = 1
    <2> DEFINE goal == p.goal
               grid == p.grid
    <2>1. Walk(q, start, goal, grid)
      OBVIOUS
    <2> HIDE DEF start, goal, grid
    <2>2. /\ q \in Seq(Positions) /\ q # <<>> /\ q[1] = start /\ q[Len(q)] = goal
          /\ \A i \in 1 .. Len(q) : q[i] \in Positions \ grid
          /\ \A i \in 1 .. Len(q) - 1 : Manhattan(q[i], q[i + 1]) = 1
      BY <2>1 DEF Walk, ValidPath
    <2>3. Len(q) \in Nat \ {0}
      BY <2>2
    <2>4. QED
      BY <2>2, <2>3 DEF goal, grid
  <1>5. \A i \in 1 .. Len(q) : Manhattan(start, q[i]) <= i - 1
    BY <1>2, WalkBoundsDistance
  <1>6. \A c \in Positions : p.g[c] \in Nat /\ p.rhs[c] \in Nat /\ p.g[c] <= Inf
    BY <1>2, <1>3
  <1>7. SUFFICES ASSUME p.g[start] > Len(q) - 1 PROVE FALSE
    BY <1>2, <1>4, <1>6
  <1> HIDE DEF start
  \* On the way a cell that costs what is left of the way is settled.
  <1>8. ASSUME NEW k \in Nat, k < Len(q), p.rhs[q[Len(q) - k]] <= k
        PROVE  p.g[q[Len(q) - k]] <= k
    <2> DEFINE c == q[Len(q) - k]
    <2>1. Len(q) - k \in 1 .. Len(q)
      BY <1>4, <1>8
    <2>2. c \in Positions /\ Manhattan(start, c) <= (Len(q) - k) - 1
      BY <1>4, <1>5, <2>1
    <2>3. p.rhs[c] <= k
      BY <1>8
    <2>4. Manhattan(start, c) \in Nat
      BY <1>2, <2>2, ManhattanIsMetric
    <2>5. CASE p.g[c] = p.rhs[c]
      BY <2>3, <2>5
    <2>6. CASE p.g[c] # p.rhs[c]
      <3>1. p.g[start] <= k + Manhattan(start, c)
        <4> HIDE DEF c
        <4>1. QED
          BY <2>2, <2>3, <2>6, UnsettledIsFar DEF start
      <3> HIDE DEF c
      <3>2. p.g[start] <= Len(q) - 1
        BY <1>2, <1>4, <1>6, <2>2, <2>4, <3>1
      <3>3. QED
        BY <1>2, <1>4, <1>6, <1>7, <3>2
    <2>7. QED
      BY <2>5, <2>6
  <1>9. 0 \in S
    <2>1. Len(q) - 0 = Len(q) /\ p.rhs[p.goal] = 0
      BY <1>4 DEF DStarInv
    <2>2. 0 < Len(q) => p.g[q[Len(q) - 0]] <= 0
      BY <1>4, <1>8, <2>1
    <2>3. QED
      BY <2>2
  <1>10. ASSUME NEW k \in Nat, k \in S PROVE k + 1 \in S
    <2>1. SUFFICES ASSUME k + 1 < Len(q) PROVE p.g[q[Len(q) - (k + 1)]] <= k + 1
      OBVIOUS
    <2> DEFINE i == Len(q) - (k + 1)
               c == q[i]
               n == q[i + 1]
    <2>2. /\ i \in 1 .. Len(q) - 1 /\ i + 1 = Len(q) - k /\ i \in 1 .. Len(q)
          /\ i + 1 \in 1 .. Len(q) /\ k < Len(q) /\ k < Inf /\ k + 1 < Inf
      BY <1>3, <1>4, <2>1
    <2>3. c \in Positions \ p.grid /\ n \in Positions \ p.grid /\ Manhattan(c, n) = 1
      BY <1>4, <2>2
    <2>4. p.g[n] <= k /\ p.g[n] \in Nat
      BY <1>6, <1>10, <2>2, <2>3
    <2>5. p.rhs[c] <= k + 1
      <3> HIDE DEF c, n, i
      <3>1. p.rhs[c] = OneStepLookahead(p, c)
        BY <2>3 DEF DStarInv
      <3>2. CASE c = p.goal
        BY <3>2 DEF DStarInv
      <3>3. CASE c # p.goal
        <4>1. n \in Neighbours(c)
          BY <2>3, NeighboursAreAdjacent
        <4>2. OneStepLookahead(p, c) <= Plus(EdgeCost(p, c, n), p.g[n])
          BY <1>1, <2>3, <3>3, <4>1, LookaheadIsLeast
        <4>3. EdgeCost(p, c, n) = 1
          BY <2>3 DEF EdgeCost
        <4>4. Plus(1, p.g[n]) <= k + 1 /\ Plus(1, p.g[n]) \in Nat
          BY <1>3, <2>2, <2>4 DEF Plus
        <4>5. QED
          BY <1>6, <2>3, <3>1, <4>2, <4>3, <4>4
      <3>4. QED
        BY <3>2, <3>3
    <2>6. QED
      BY <1>8, <2>1, <2>5
  <1>11. \A k \in Nat : k \in S
    <2> HIDE DEF S
    <2>1. QED
      BY <1>9, <1>10, InductionInSet
  <1>12. Len(q) - 1 \in Nat /\ Len(q) - 1 < Len(q) /\ Len(q) - (Len(q) - 1) = 1
    BY <1>4
  <1>13. p.g[start] <= Len(q) - 1
    BY <1>4, <1>11, <1>12
  <1>14. QED
    BY <1>2, <1>4, <1>6, <1>7, <1>13

-----------------------------------------------------------------------------
\* The path of a finished search.

\* The cheapest neighbour.
LEMMA CheapestSuccessor ==
    ASSUME NEW p \in DStarPlanners, NEW cell \in Positions, Successors(p, cell) # {}
    PROVE  \E n \in Neighbours(cell) \ p.grid :
              /\ SubSeq(Least(Successors(p, cell)), 3, 4) = n
              /\ Least(Successors(p, cell))[1] = Plus(EdgeCost(p, cell, n), p.g[n])
              /\ \A m \in Neighbours(cell) \ p.grid :
                    Least(Successors(p, cell))[1] <= Plus(EdgeCost(p, cell, m), p.g[m])
  <1> DEFINE cost(n) == Plus(EdgeCost(p, cell, n), p.g[n])
             entry(n) == <<cost(n), Manhattan(n, p.goal)>> \o n
             near == Neighbours(cell) \ p.grid
             all == Successors(p, cell)
  <1>1. Inf \in Nat \ {0}
    BY InfIsPositive
  <1>2. p.g \in [Positions -> 0 .. Inf] /\ p.goal \in Positions
    BY DEF DStarPlanners
  <1>3. near \in SUBSET Positions
    BY NeighboursFacts
  <1>4. \A n \in near : cost(n) \in Nat
    <2>1. SUFFICES ASSUME NEW n \in Positions PROVE cost(n) \in Nat
      BY <1>3
    <2>2. p.g[n] \in Nat /\ EdgeCost(p, cell, n) \in {1, Inf}
      BY <1>1, <1>2 DEF EdgeCost
    <2>3. QED
      BY <1>1, <2>2 DEF Plus
  <1>5. all = {entry(n) : n \in near}
    BY DEF Successors
  <1> HIDE DEF cost, near
  <1>6. \A n \in near : /\ entry(n) \in [1 .. 4 -> Nat]
                        /\ entry(n)[1] = cost(n) /\ SubSeq(entry(n), 3, 4) = n
    <2>1. \A c \in Positions : c \in Pairs
      BY PositionIsPair DEF Pairs
    <2>2. SUFFICES ASSUME NEW n \in near
                   PROVE  /\ entry(n) \in [1 .. 4 -> Nat]
                          /\ entry(n)[1] = cost(n) /\ SubSeq(entry(n), 3, 4) = n
      OBVIOUS
    <2> DEFINE a == <<cost(n), Manhattan(n, p.goal)>>
    <2>3. n \in Positions /\ cost(n) \in Nat /\ Manhattan(n, p.goal) \in Nat
      BY <1>2, <1>3, <1>4, ManhattanIsMetric
    <2>4. a \in Pairs /\ a[1] = cost(n)
      BY <2>3 DEF Pairs
    <2>5. entry(n) = a \o n
      OBVIOUS
    <2>6. n \in Pairs
      BY <2>1, <2>3
    <2> HIDE DEF a, entry
    <2>7. /\ a \o n \in [1 .. 4 -> Nat] /\ (a \o n)[1] = a[1]
          /\ SubSeq(a \o n, 3, 4) = n
      BY <2>4, <2>6, TuplesOfPairs
    <2>8. QED
      BY <2>4, <2>5, <2>7
  <1> HIDE DEF entry, all
  <1>7. all \in SUBSET [1 .. 4 -> Nat] /\ all # {}
    BY <1>5, <1>6 DEF all
  <1>8. Least(all) \in all /\ \A b \in all \ {Least(all)} : Less(Least(all), b)
    BY <1>7, LeastIsMember
  <1>9. PICK n \in near : Least(all) = entry(n)
    BY <1>5, <1>8
  <1>10. \A m \in near : Least(all)[1] <= cost(m)
    <2>1. SUFFICES ASSUME NEW m \in near PROVE entry(n)[1] <= cost(m)
      BY <1>9
    <2>2. CASE entry(m) = entry(n)
      BY <1>4, <1>6, <2>2
    <2>3. CASE entry(m) # entry(n)
      <3>1. Less(entry(n), entry(m))
        BY <1>5, <1>8, <1>9, <2>3
      <3>2. DOMAIN entry(n) \in SUBSET (Nat \ {0}) /\ 1 \in DOMAIN entry(n)
        <4>1. DOMAIN entry(n) = 1 .. 4
          BY <1>6
        <4>2. QED
          BY <4>1
      <3>3. entry(n)[1] \in Int /\ entry(m)[1] \in Int
        BY <1>4, <1>6
      <3>4. entry(n)[1] <= entry(m)[1]
        BY <3>1, <3>2, <3>3, LessByFirst
      <3>5. QED
        BY <1>6, <3>4
    <2>4. QED
      BY <2>2, <2>3
  <1>11. QED
    BY <1>6, <1>9, <1>10 DEF cost, near, all

LEMMA ExtractIsDefined ==
    ASSUME NEW p \in DStarPlanners
    PROVE  \A n \in Nat, path \in Seq(Positions) \ {<<>>} :
             LET cell == path[Len(path)]
                 best == Least(Successors(p, cell))
                 next == SubSeq(best, 3, 4)
             IN  Extract(p)[n][path] =
                    IF cell = p.goal THEN path
                    ELSE IF \/ n = 0 \/ Successors(p, cell) = {} \/ best[1] = Inf
                            \/ \E i \in DOMAIN path : path[i] = next
                    THEN <<>>
                    ELSE Extract(p)[n - 1][Append(path, next)]
  <1> DEFINE Paths == Seq(Positions) \ {<<>>}
             V == [Paths -> Seq(Positions)]
             Chosen(path) == SubSeq(Least(Successors(p, path[Len(path)])), 3, 4)
             Stuck(path) == \/ Successors(p, path[Len(path)]) = {}
                            \/ Least(Successors(p, path[Len(path)]))[1] = Inf
                            \/ \E i \in DOMAIN path : path[i] = Chosen(path)
             There(path) == path[Len(path)] = p.goal
             Body(f) == [n \in Nat |-> [path \in Paths |->
                            IF There(path) THEN path
                            ELSE IF n = 0 \/ Stuck(path) THEN <<>>
                            ELSE f[n - 1][Append(path, Chosen(path))]]]
             first == [path \in Paths |-> IF There(path) THEN path ELSE <<>>]
             step == [v \in V |-> [path \in Paths |->
                            IF There(path) THEN path
                            ELSE IF Stuck(path) THEN <<>>
                            ELSE v[Append(path, Chosen(path))]]]
  <1>1. \A path \in Paths : path \in Seq(Positions) /\ <<>> \in Seq(Positions)
    OBVIOUS
  <1>2. \A path \in Paths : ~Stuck(path) => Append(path, Chosen(path)) \in Paths
    <2>1. SUFFICES ASSUME NEW path \in Paths, Successors(p, path[Len(path)]) # {}
                   PROVE  Append(path, Chosen(path)) \in Paths
      OBVIOUS
    <2>2. path \in Seq(Positions) /\ path[Len(path)] \in Positions
      OBVIOUS
    <2>3. Chosen(path) \in Positions
      <3> DEFINE cell == path[Len(path)]
      <3>1. cell \in Positions /\ Successors(p, cell) # {}
        BY <2>1, <2>2
      <3> HIDE DEF cell
      <3>2. PICK n \in Neighbours(cell) \ p.grid : SubSeq(Least(Successors(p, cell)), 3, 4) = n
        BY <3>1, CheapestSuccessor
      <3>3. n \in Positions
        BY <3>1, NeighboursFacts
      <3>4. QED
        BY <3>2, <3>3 DEF cell
    <2> HIDE DEF Chosen
    <2>4. Append(path, Chosen(path)) \in Seq(Positions) /\ Append(path, Chosen(path)) # <<>>
      BY <2>2, <2>3
    <2>5. QED
      BY <2>4
  <1> HIDE DEF Chosen, Stuck, There, Paths
  <1>3. first \in V /\ step \in [V -> V]
    <2>1. first \in V
      BY <1>1
    <2>2. ASSUME NEW v \in V, NEW path \in Paths
          PROVE  (IF There(path) THEN path ELSE IF Stuck(path) THEN <<>>
                  ELSE v[Append(path, Chosen(path))]) \in Seq(Positions)
      BY <1>1, <1>2
    <2>3. QED
      BY <2>1, <2>2
  <1>4. PICK f \in [Nat -> V] : \A n \in Nat : f[n] = IF n = 0 THEN first ELSE step[f[n - 1]]
    <2> HIDE DEF V, first, step
    <2>1. QED
      BY <1>3, LoopExists
  <1>5. f = Body(f)
    <2>1. ASSUME NEW n \in Nat
          PROVE  f[n] = [path \in Paths |->
                            IF There(path) THEN path
                            ELSE IF n = 0 \/ Stuck(path) THEN <<>>
                            ELSE f[n - 1][Append(path, Chosen(path))]]
      <3>1. CASE n = 0
        BY <1>4, <3>1
      <3>2. CASE n # 0
        <4>1. f[n - 1] \in V
          BY <3>2
        <4>2. f[n] = [path \in Paths |->
                            IF There(path) THEN path
                            ELSE IF Stuck(path) THEN <<>>
                            ELSE f[n - 1][Append(path, Chosen(path))]]
          BY <1>4, <3>2, <4>1
        <4>3. QED
          BY <3>2, <4>2
      <3>3. QED
        BY <3>1, <3>2
    <2>2. QED
      BY <2>1
  <1>6. Extract(p) = CHOOSE h : h = Body(h)
    BY DEF Extract, Paths, Chosen, Stuck, There
  <1> DEFINE e == Extract(p)
  <1>7. e = Body(e)
    <2> HIDE DEF Body
    <2>1. QED
      BY <1>5, <1>6
  <1> HIDE DEF e
  <1>8. \A n \in Nat : e[n] = [path \in Paths |->
                                IF There(path) THEN path
                                ELSE IF n = 0 \/ Stuck(path) THEN <<>>
                                ELSE e[n - 1][Append(path, Chosen(path))]]
    BY <1>7
  <1>9. \A n \in Nat, path \in Paths :
            e[n][path] = IF There(path) THEN path
                         ELSE IF n = 0 \/ Stuck(path) THEN <<>>
                         ELSE e[n - 1][Append(path, Chosen(path))]
    BY <1>8
  <1>10. QED
    BY <1>9 DEF e, Paths, Chosen, Stuck, There

\* From a finished search the path is read off, each cell one step cheaper than
\* the one before.
LEMMA ExtractedIsWalk ==
    ASSUME NEW p, DStarInv(p), ~Unfinished(p), p.start \notin p.grid, p.g[p.start] < Inf
    PROVE  LET route == Extract(p)[Inf][<<p.start>>]
           IN  Walk(route, p.start, p.goal, p.grid) /\ Len(route) = p.g[p.start] + 1
  <1> DEFINE start == p.start
             goal == p.goal
             grid == p.grid
             D == p.g[start]
             On(path) == /\ path \in Seq(Positions) /\ path # <<>>
                         /\ Walk(path, start, path[Len(path)], grid)
                         /\ \A i \in 1 .. Len(path) :
                                p.g[path[i]] = (D + 1) - i /\ p.rhs[path[i]] = p.g[path[i]]
             Good(route) == Walk(route, start, goal, grid) /\ Len(route) = D + 1
             S == {n \in Nat : \A path : On(path) /\ (D + 1) - Len(path) <= n =>
                                    Good(Extract(p)[n][path])}
  <1>1. p \in DStarPlanners
    BY DEF DStarInv
  <1>2. /\ p.g \in [Positions -> 0 .. Inf] /\ p.rhs \in [Positions -> 0 .. Inf]
        /\ start \in Positions /\ goal \in Positions /\ grid \in SUBSET Positions
    BY <1>1 DEF DStarPlanners
  <1>3. Inf \in Nat \ {0}
    BY InfIsPositive
  <1>4. D \in Nat /\ D < Inf /\ D = p.rhs[start]
    BY <1>2, <1>3, UnsettledIsFar
  <1>5. /\ goal \notin grid /\ p.rhs[goal] = 0 /\ start \notin grid
        /\ \A c \in Positions : p.rhs[c] = OneStepLookahead(p, c)
    BY DEF DStarInv
  <1>6. \A c \in Positions : p.g[c] \in Nat /\ p.g[c] <= Inf /\ p.rhs[c] \in Nat
    BY <1>2, <1>3
  <1>7. \A c \in Positions : p.g[c] # p.rhs[c] =>
            \A d \in Nat : (p.g[c] <= d \/ p.rhs[c] <= d) =>
                /\ D <= d + Manhattan(start, c)
                /\ D = d + Manhattan(start, c) => D <= d
    BY UnsettledIsFar
  <1>8. \A n \in Nat, path \in Seq(Positions) \ {<<>>} :
          LET cell == path[Len(path)]
              best == Least(Successors(p, cell))
              next == SubSeq(best, 3, 4)
          IN  Extract(p)[n][path] =
                 IF cell = goal THEN path
                 ELSE IF \/ n = 0 \/ Successors(p, cell) = {} \/ best[1] = Inf
                         \/ \E i \in DOMAIN path : path[i] = next
                 THEN <<>>
                 ELSE Extract(p)[n - 1][Append(path, next)]
    BY <1>1, ExtractIsDefined
  <1> HIDE DEF start, goal, grid, D
  <1>9. ASSUME NEW path, On(path)
        PROVE  /\ Len(path) \in Nat \ {0} /\ path[Len(path)] \in Positions \ grid
               /\ p.g[path[Len(path)]] = (D + 1) - Len(path)
               /\ p.rhs[path[Len(path)]] = p.g[path[Len(path)]]
               /\ Len(path) <= D + 1
               /\ \A i \in 1 .. Len(path) : path[i] \in Positions
    <2>1. Len(path) \in Nat \ {0} /\ Len(path) \in 1 .. Len(path)
      BY <1>9
    <2>2. path[Len(path)] \in Positions \ grid
      BY <1>9, <2>1 DEF Walk, ValidPath
    <2>3. p.g[path[Len(path)]] \in Nat
      BY <1>6, <2>2
    <2>4. QED
      BY <1>4, <1>9, <2>1, <2>2, <2>3
  <1>10. ASSUME NEW path, On(path), path[Len(path)] = goal, NEW n \in Nat
         PROVE  Good(Extract(p)[n][path])
    <2>1. Extract(p)[n][path] = path
      BY <1>8, <1>10
    <2>2. Len(path) = D + 1
      BY <1>4, <1>5, <1>9, <1>10
    <2>3. QED
      BY <1>10, <2>1, <2>2
  <1>11. ASSUME NEW path, On(path), path[Len(path)] # goal
         PROVE  LET cell == path[Len(path)]
                    best == Least(Successors(p, cell))
                    next == SubSeq(best, 3, 4)
                IN  /\ Len(path) < D + 1 /\ Successors(p, cell) # {} /\ best[1] # Inf
                    /\ \A i \in DOMAIN path : path[i] # next
                    /\ On(Append(path, next)) /\ Len(Append(path, next)) = Len(path) + 1
    <2> DEFINE cell == path[Len(path)]
               d == p.g[cell]
               best == Least(Successors(p, cell))
               next == SubSeq(best, 3, 4)
    <2>1. /\ Len(path) \in Nat \ {0} /\ cell \in Positions \ grid /\ d = (D + 1) - Len(path)
          /\ p.rhs[cell] = d /\ d \in Nat /\ d < Inf /\ d <= D
      BY <1>3, <1>4, <1>6, <1>9, <1>11
    <2>2. cell # goal
      BY <1>11
    <2> HIDE DEF cell, d
    <2>3. d = OneStepLookahead(p, cell)
      BY <1>5, <2>1
    <2>4. /\ \A m \in Neighbours(cell) : d <= Plus(EdgeCost(p, cell, m), p.g[m])
          /\ \E m \in Neighbours(cell) : d = Plus(EdgeCost(p, cell, m), p.g[m])
      BY <1>1, <2>1, <2>2, <2>3, LookaheadIsLeast DEF goal, grid
    \* A finite cost is one step and the neighbour's.
    <2>5. ASSUME NEW m \in Neighbours(cell), Plus(EdgeCost(p, cell, m), p.g[m]) = d
          PROVE  m \in Positions \ grid /\ d = 1 + p.g[m]
      <3>1. m \in Positions /\ p.g[m] \in Nat
        BY <1>6, <2>1, <2>5, NeighboursFacts
      <3>2. EdgeCost(p, cell, m) # Inf /\ p.g[m] # Inf /\ d = EdgeCost(p, cell, m) + p.g[m]
        BY <2>1, <2>5 DEF Plus
      <3>3. m \notin grid /\ EdgeCost(p, cell, m) = 1
        BY <3>2 DEF EdgeCost, grid
      <3>4. QED
        BY <3>1, <3>2, <3>3
    <2>6. PICK m \in Neighbours(cell) \ grid : d = Plus(EdgeCost(p, cell, m), p.g[m])
      BY <2>4, <2>5
    <2>7. Successors(p, cell) # {}
      BY <2>6 DEF Successors, grid
    <2>8. PICK n \in Neighbours(cell) \ p.grid :
            /\ next = n
            /\ best[1] = Plus(EdgeCost(p, cell, n), p.g[n])
            /\ best[1] <= Plus(EdgeCost(p, cell, m), p.g[m])
      BY <1>1, <2>1, <2>6, <2>7, CheapestSuccessor DEF grid
    <2> HIDE DEF best, next
    <2>9. best[1] = d
      <3>1. n \in Positions /\ p.g[n] \in Nat
        BY <1>6, <2>1, <2>8, NeighboursFacts
      <3>2. Plus(EdgeCost(p, cell, n), p.g[n]) \in Nat
        BY <1>3, <3>1 DEF Plus, EdgeCost
      <3>3. d <= best[1] /\ best[1] <= d /\ best[1] \in Nat
        BY <2>4, <2>6, <2>8, <3>2
      <3>4. QED
        BY <2>1, <3>3
    <2>10. n \in Positions \ grid /\ d = 1 + p.g[n] /\ p.g[n] \in Nat
      BY <1>6, <2>5, <2>8, <2>9
    <2>11. Walk(Append(path, n), start, n, grid) /\ Len(Append(path, n)) = Len(path) + 1
      <3>1. Walk(path, start, cell, grid) /\ n \in Neighbours(cell) \ grid
        BY <1>11, <2>8, <2>10 DEF cell
      <3>2. QED
        BY <2>1, <3>1, WalkGoesOn
    <2> DEFINE longer == Append(path, n)
    <2>12. /\ longer \in Seq(Positions) /\ longer # <<>> /\ Len(longer) = Len(path) + 1
           /\ longer[Len(longer)] = n
           /\ \A i \in 1 .. Len(path) : longer[i] = path[i]
      BY <1>11, <2>10, <2>11
    <2> HIDE DEF longer
    <2>13. Manhattan(start, n) <= Len(path) /\ Manhattan(start, n) \in Nat
      <3>1. Walk(longer, start, n, grid)
        BY <2>11 DEF longer
      <3>2. Len(longer) \in 1 .. Len(longer)
        BY <2>1, <2>12
      <3>3. Manhattan(start, longer[Len(longer)]) <= Len(longer) - 1
        BY <1>2, <2>10, <3>1, <3>2, WalkBoundsDistance
      <3>4. QED
        BY <1>2, <2>1, <2>10, <2>12, <3>3, ManhattanIsMetric
    <2>14. p.rhs[n] = p.g[n]
      <3>1. SUFFICES ASSUME p.g[n] # p.rhs[n] PROVE FALSE
        OBVIOUS
      <3>2. /\ D <= p.g[n] + Manhattan(start, n)
            /\ D = p.g[n] + Manhattan(start, n) => D <= p.g[n]
        BY <1>7, <2>10, <3>1
      <3> DEFINE x == p.g[n]
                 far == Manhattan(start, n)
                 len == Len(path)
      <3>3. /\ x \in Nat /\ far \in Nat /\ len \in Nat \ {0} /\ D \in Nat /\ d \in Nat
            /\ d = 1 + x /\ d = (D + 1) - len /\ far <= len
            /\ D <= x + far /\ (D = x + far => D <= x)
        BY <1>4, <2>1, <2>10, <2>13, <3>2
      <3> HIDE DEF x, far, len
      <3>4. x + len = D
        BY <3>3
      <3>5. D = x + far
        BY <3>3, <3>4
      <3>6. QED
        BY <3>3, <3>4, <3>5
    <2>15. \A i \in 1 .. Len(longer) :
                p.g[longer[i]] = (D + 1) - i /\ p.rhs[longer[i]] = p.g[longer[i]]
      <3>1. SUFFICES ASSUME NEW i \in 1 .. Len(longer)
                     PROVE  p.g[longer[i]] = (D + 1) - i /\ p.rhs[longer[i]] = p.g[longer[i]]
        OBVIOUS
      <3>2. CASE i = Len(longer)
        <4>1. longer[i] = n /\ i = Len(path) + 1
          BY <2>12, <3>2
        <4>2. p.g[n] = (D + 1) - (Len(path) + 1)
          <5> DEFINE x == p.g[n]
                     len == Len(path)
          <5>1. x \in Nat /\ len \in Nat /\ D \in Nat /\ d = 1 + x /\ d = (D + 1) - len
            BY <1>4, <2>1, <2>10
          <5> HIDE DEF x, len
          <5>2. x = (D + 1) - (len + 1)
            BY <5>1
          <5>3. QED
            BY <5>2 DEF x, len
        <4>3. QED
          BY <2>14, <4>1, <4>2
      <3>3. CASE i # Len(longer)
        <4>1. i \in 1 .. Len(path) /\ longer[i] = path[i]
          BY <2>1, <2>12, <3>3
        <4>2. QED
          BY <1>11, <4>1
      <3>4. QED
        BY <3>2, <3>3
    <2>16. On(longer)
      BY <2>11, <2>12, <2>15 DEF longer
    <2>17. \A i \in DOMAIN path : path[i] # n
      <3>1. DOMAIN path = 1 .. Len(path)
        BY <1>11
      <3>2. SUFFICES ASSUME NEW i \in 1 .. Len(path), path[i] = n PROVE FALSE
        BY <3>1
      <3>3. p.g[n] = (D + 1) - i
        BY <1>11, <3>2
      <3>4. QED
        BY <1>4, <2>1, <2>10, <3>3
    <2>18. Len(path) < D + 1 /\ best[1] # Inf
      BY <1>4, <2>1, <2>9, <2>10
    <2>19. QED
      BY <2>7, <2>8, <2>12, <2>16, <2>17, <2>18 DEF longer, cell, best, next
  <1> HIDE DEF On, Good
  <1>12. ASSUME NEW n \in Nat, NEW path, On(path), path[Len(path)] # goal,
                (D + 1) - Len(path) <= n
         PROVE  /\ n # 0
                /\ \E longer : /\ On(longer) /\ Len(longer) = Len(path) + 1
                               /\ Extract(p)[n][path] = Extract(p)[n - 1][longer]
    <2> DEFINE next == SubSeq(Least(Successors(p, path[Len(path)])), 3, 4)
    <2>1. /\ Len(path) < D + 1 /\ Successors(p, path[Len(path)]) # {}
          /\ Least(Successors(p, path[Len(path)]))[1] # Inf
          /\ \A i \in DOMAIN path : path[i] # next
          /\ On(Append(path, next)) /\ Len(Append(path, next)) = Len(path) + 1
      BY <1>11, <1>12
    <2>2. n # 0
      BY <1>4, <1>9, <1>12, <2>1
    <2>3. path \in Seq(Positions) \ {<<>>}
      BY <1>12 DEF On
    <2> HIDE DEF next
    <2>4. Extract(p)[n][path] = Extract(p)[n - 1][Append(path, next)]
      BY <1>8, <1>12, <2>1, <2>2, <2>3 DEF next
    <2>5. QED
      BY <2>1, <2>2, <2>4
  <1>13. 0 \in S
    BY <1>10, <1>12
  <1>14. ASSUME NEW n \in Nat, n \in S PROVE n + 1 \in S
    <2>1. SUFFICES ASSUME NEW path, On(path), (D + 1) - Len(path) <= n + 1
                   PROVE  Good(Extract(p)[n + 1][path])
      BY DEF S
    <2>2. CASE path[Len(path)] = goal
      BY <1>10, <2>1, <2>2
    <2>3. CASE path[Len(path)] # goal
      <3>1. n + 1 \in Nat /\ (n + 1) - 1 = n
        <4> HIDE DEF S
        <4>1. QED
          OBVIOUS
      <3>2. PICK longer : /\ On(longer) /\ Len(longer) = Len(path) + 1
                          /\ Extract(p)[n + 1][path] = Extract(p)[n][longer]
        BY <1>12, <2>1, <2>3, <3>1
      <3>3. (D + 1) - Len(longer) <= n
        BY <1>4, <1>9, <2>1, <3>2
      <3>4. QED
        BY <1>14, <3>2, <3>3 DEF S
    <2>4. QED
      BY <2>2, <2>3
  <1>15. \A n \in Nat : n \in S
    <2> HIDE DEF S
    <2>1. QED
      BY <1>13, <1>14, InductionInSet
  <1>16. On(<<start>>) /\ Len(<<start>>) = 1
    <2>1. <<start>> \in Seq(Positions) /\ Len(<<start>>) = 1 /\ <<start>>[1] = start
          /\ <<start>> # <<>>
      BY <1>2
    <2>2. Walk(<<start>>, start, start, grid)
      BY <1>2, <1>5, WalkOfOne
    <2>3. \A i \in 1 .. 1 : i = 1
      OBVIOUS
    <2>4. D = (D + 1) - 1 /\ p.g[start] = D
      BY <1>4 DEF D
    <2>5. QED
      BY <1>4, <2>1, <2>2, <2>3, <2>4 DEF On
  <1>17. Good(Extract(p)[Inf][<<start>>])
    <2>1. (D + 1) - Len(<<start>>) <= Inf
      BY <1>3, <1>4, <1>16
    <2>2. QED
      BY <1>3, <1>15, <1>16, <2>1 DEF S
  <1>18. QED
    BY <1>17 DEF Good, start, goal, grid, D

\* Where the loop of _compute_shortest_path stops the extracted path can be
\* walked and is a shortest one, and there is none where none is extracted:
\* the early stop by keys loses nothing, for a planner in the state that
\* the calls and iterations before it leave behind.
THEOREM FinishedSearchIsShortest ==
    ASSUME NEW p, DStarInv(p), ~Unfinished(p), p.start \notin p.grid
    PROVE  BestPath(ExtractedPath(p), p.start, p.goal, p.grid)
  <1>1. p \in DStarPlanners
    BY DEF DStarInv
  <1>2. p.g[p.start] \in Nat /\ p.g[p.start] <= Inf /\ Inf \in Nat
    BY <1>1, InfIsPositive DEF DStarPlanners
  <1>3. \A q : Walk(q, p.start, p.goal, p.grid) /\ Len(q) <= Inf =>
                    p.g[p.start] <= Len(q) - 1 /\ Len(q) \in Nat
    BY CostIsLeast DEF Walk
  <1>4. CASE p.g[p.start] = Inf
    <2>1. ExtractedPath(p) = <<>>
      BY <1>4 DEF ExtractedPath
    <2>2. \A q : ~(Walk(q, p.start, p.goal, p.grid) /\ Len(q) <= Inf)
      BY <1>2, <1>3, <1>4
    <2>3. QED
      BY <2>1, <2>2 DEF BestPath
  <1>5. CASE p.g[p.start] # Inf
    <2> DEFINE route == ExtractedPath(p)
    <2>1. route = Extract(p)[Inf][<<p.start>>]
      BY <1>5 DEF ExtractedPath
    <2>2. p.g[p.start] < Inf
      BY <1>2, <1>5
    <2>3. Walk(route, p.start, p.goal, p.grid) /\ Len(route) = p.g[p.start] + 1
      BY <2>1, <2>2, ExtractedIsWalk
    <2> HIDE DEF route
    <2>4. Len(route) <= Inf /\ route # <<>>
      BY <1>2, <2>2, <2>3 DEF Walk, ValidPath
    <2>5. \A q : Walk(q, p.start, p.goal, p.grid) /\ Len(q) <= Inf =>
                    Len(route) <= Len(q)
      BY <1>2, <1>3, <2>3
    <2>6. BestPath(route, p.start, p.goal, p.grid)
      BY <2>3, <2>4, <2>5 DEF BestPath
    <2>7. QED
      BY <2>6 DEF route
  <1>6. QED
    BY <1>4, <1>5

-----------------------------------------------------------------------------
\* A cell off the path.  Blocking it does not change what A* returns: the search
\* on the map with the cell blocked does, where it matters, what the search
\* without it does.

\* The cells whose current entry has been taken.
Done(s, goal) == {c \in Positions : s.best[c] < Inf /\ ~Pending(s, goal, c)}

\* A cell that is done costs no more than a way over a cell still in the heap,
\* and every cell found has been found from one that is done.
Tidy(s, blocked, start, goal) ==
    /\ AStarInv(s, blocked, start, goal)
    /\ \A u \in Done(s, goal), e \in s.heap :
            s.best[u] <= e[3] + Manhattan(CellOf(e), u)
    /\ \A c \in Positions : s.best[c] < Inf /\ c # start => s.parent[c] \in Done(s, goal)

LEMMA FirstSearchTidy ==
    ASSUME NEW start \in Positions, NEW goal \in Positions, NEW blocked, start # goal
    PROVE  /\ Tidy(FirstSearch(start, goal), blocked, start, goal)
           /\ Done(FirstSearch(start, goal), goal) = {}
  <1> DEFINE s == FirstSearch(start, goal)
  <1>1. AStarInv(s, blocked, start, goal)
    BY FirstSearchInv
  <1>2. /\ s.heap = {Entry(0, start, goal)}
        /\ s.best = [c \in Positions |-> IF c = start THEN 0 ELSE Inf]
    BY DEF FirstSearch
  <1>3. Inf \in Nat \ {0}
    BY InfIsPositive
  <1>4. \A c \in Positions : s.best[c] < Inf => c = start /\ Pending(s, goal, c)
    BY <1>2, <1>3 DEF Pending
  <1> HIDE DEF s
  <1>5. Done(s, goal) = {}
    BY <1>4 DEF Done
  <1>6. QED
    BY <1>1, <1>4, <1>5 DEF Tidy, s

\* What an iteration does to a search: the top of the heap is dropped if it is
\* stale, and its cell is done otherwise; a cell that is done stays as it is.
DropsTop(s, t, goal) ==
    t.best = s.best /\ t.parent = s.parent /\ Done(t, goal) = Done(s, goal)

TakesTop(s, t, blocked, start, goal, cell, cost) ==
    LET found == Improved(s, cell, cost, blocked)
    IN  /\ cell \in Positions /\ cost \in Nat
        /\ cell \notin Done(s, goal) /\ cell # goal
        /\ s.best[cell] = cost - 1 /\ s.best[cell] < Inf
        /\ found \cap Done(s, goal) = {} /\ start \notin found /\ cell \notin found
        /\ Done(t, goal) = Done(s, goal) \cup {cell}
        /\ \A c \in Positions :
                /\ t.best[c] = IF c \in found THEN cost ELSE s.best[c]
                /\ t.parent[c] = IF c \in found THEN cell ELSE s.parent[c]

LEMMA ExpandedDone ==
    ASSUME NEW blocked, NEW start \in Positions, NEW goal \in Positions,
           NEW s, Tidy(s, blocked, start, goal), ~Ended(s, goal)
    PROVE  LET entry == Least(s.heap)
               t == Expanded(s, blocked, goal)
           IN  /\ Tidy(t, blocked, start, goal)
               /\ ~Current(s, entry) => DropsTop(s, t, goal)
               /\ Current(s, entry) =>
                      TakesTop(s, t, blocked, start, goal, CellOf(entry), entry[3] + 1)
  <1> DEFINE entry == Least(s.heap)
             cell == CellOf(entry)
             cost == entry[3] + 1
             found == Improved(s, cell, cost, blocked)
             t == Expanded(s, blocked, goal)
  <1>1. /\ s \in Searches /\ s.heap # {} /\ s.best[start] = 0
        /\ s.heap \in SUBSET (Nat \X Nat \X Nat \X (0 .. Rows - 1) \X (0 .. Cols - 1))
        /\ s.best \in [Positions -> 0 .. Inf] /\ s.parent \in [Positions -> Positions]
    BY DEF Tidy, AStarInv, Searches, Ended
  <1>2. /\ entry \in s.heap /\ cell \in Positions /\ entry[3] \in Nat /\ cost \in Nat
        /\ \A e \in s.heap : entry[1] <= e[1]
    BY <1>1, TopOfHeap
  <1>3. /\ AStarInv(s, blocked, start, goal) /\ AStarInv(t, blocked, start, goal)
    BY ExpandedInv DEF Tidy
  <1>4. Inf \in Nat \ {0}
    BY InfIsPositive
  <1>5. \A e \in s.heap :
            /\ e = Entry(e[3], CellOf(e), goal) /\ e[3] < Inf /\ s.best[CellOf(e)] <= e[3]
            /\ CellOf(e) \in Positions /\ e[3] \in Nat
            /\ e[1] = e[3] + Manhattan(CellOf(e), goal)
    <2>1. SUFFICES ASSUME NEW e \in s.heap
                   PROVE  /\ e = Entry(e[3], CellOf(e), goal) /\ e[3] < Inf
                          /\ s.best[CellOf(e)] <= e[3]
                          /\ CellOf(e) \in Positions /\ e[3] \in Nat
                          /\ e[1] = e[3] + Manhattan(CellOf(e), goal)
      OBVIOUS
    <2>2. e = Entry(e[3], CellOf(e), goal) /\ e[3] < Inf /\ s.best[CellOf(e)] <= e[3]
      BY <1>3 DEF AStarInv
    <2>3. CellOf(e) \in Positions /\ e[3] \in Nat
      BY <1>1 DEF CellOf, Positions
    <2>4. Entry(e[3], CellOf(e), goal)[1] = e[3] + Manhattan(CellOf(e), goal)
      BY <2>3, EntryIsTuple
    <2>5. QED
      BY <2>2, <2>3, <2>4
  <1>6. \A c \in Positions : /\ s.best[c] \in Nat
                             /\ CellOf(Entry(s.best[c], c, goal)) = c
                             /\ Entry(s.best[c], c, goal)[3] = s.best[c]
    <2>1. \A c \in Positions : s.best[c] \in Nat
      BY <1>1, <1>4
    <2>2. QED
      BY <2>1, EntryIsTuple
  <1>7. Current(s, entry) <=> entry[3] = s.best[cell]
    BY DEF Current
  <1>8. /\ \A u \in Done(s, goal), e \in s.heap :
                s.best[u] <= e[3] + Manhattan(CellOf(e), u)
        /\ \A c \in Positions : s.best[c] < Inf /\ c # start => s.parent[c] \in Done(s, goal)
    BY DEF Tidy
  <1>9. \A a, b, c \in Positions :
            /\ Manhattan(a, b) \in Nat /\ Manhattan(a, b) = Manhattan(b, a)
            /\ Manhattan(a, c) <= Manhattan(a, b) + Manhattan(b, c)
            /\ Manhattan(a, a) = 0
    BY ManhattanIsMetric
  <1>10. CASE ~Current(s, entry)
    <2>1. t.heap = s.heap \ {entry} /\ t.best = s.best /\ t.parent = s.parent
      BY <1>1, <1>10 DEF Expanded, Taken, Searches
    <2> HIDE DEF t, entry, cell, cost, found
    <2>2. ASSUME NEW c \in Positions PROVE Pending(t, goal, c) <=> Pending(s, goal, c)
      <3>1. Entry(s.best[c], c, goal) # entry
        BY <1>6, <1>7, <1>10 DEF cell
      <3>2. QED
        BY <2>1, <3>1 DEF Pending
    <2>3. Done(t, goal) = Done(s, goal)
      BY <2>1, <2>2 DEF Done
    <2>4. Tidy(t, blocked, start, goal)
      BY <1>3, <1>8, <2>1, <2>3 DEF Tidy
    <2>5. QED
      BY <1>10, <2>1, <2>3, <2>4 DEF t, entry, DropsTop
  <1>11. CASE Current(s, entry)
    <2>1. /\ t.heap = (s.heap \ {entry}) \cup {Entry(cost, c, goal) : c \in found}
          /\ t.best = [c \in Positions |-> IF c \in found THEN cost ELSE s.best[c]]
          /\ t.parent = [c \in Positions |-> IF c \in found THEN cell ELSE s.parent[c]]
      BY <1>11 DEF Expanded, Taken
    <2>2. cell # goal
      BY <1>1, <1>11 DEF Ended
    <2>3. s.best[cell] = entry[3] /\ s.best[cell] < Inf /\ entry = Entry(entry[3], cell, goal)
      BY <1>2, <1>5, <1>7, <1>11
    <2>4. \A c \in found : /\ c \in Positions /\ c \in Neighbours(cell) \ blocked
                           /\ cost < s.best[c] /\ cost < Inf /\ Manhattan(cell, c) = 1
      BY <1>1, <1>2, <1>4, NeighboursAreAdjacent DEF Improved
    <2>5. cell \notin found /\ start \notin found
      BY <1>1, <1>2, <2>4, NeighboursFacts
    <2> HIDE DEF t, entry, cell, cost, found
    <2>6. cell \notin Done(s, goal)
      BY <1>2, <2>3 DEF Done, Pending
    <2>7. ASSUME NEW c \in found PROVE c \notin Done(s, goal)
      <3>1. SUFFICES ASSUME c \in Done(s, goal) PROVE FALSE
        OBVIOUS
      <3>2. s.best[c] <= entry[3] + Manhattan(cell, c)
        BY <1>2, <1>8, <3>1 DEF cell
      <3>3. QED
        BY <1>2, <1>6, <2>4, <3>2 DEF cost
    <2>8. \A c \in Positions : /\ t.best[c] = IF c \in found THEN cost ELSE s.best[c]
                               /\ t.parent[c] = IF c \in found THEN cell ELSE s.parent[c]
      BY <2>1
    <2>9. \A c \in found : Pending(t, goal, c)
      BY <2>1, <2>4, <2>8 DEF Pending
    <2>10. \A c \in found : CellOf(Entry(cost, c, goal)) = c /\ Entry(cost, c, goal)[3] = cost
      BY <1>2, <2>4, EntryIsTuple
    <2>11. ASSUME NEW c \in Positions, c \notin found, c # cell
           PROVE  Pending(t, goal, c) <=> Pending(s, goal, c)
      <3>1. Entry(s.best[c], c, goal) # entry
        BY <1>6, <2>11 DEF cell
      <3>2. \A f \in found : Entry(s.best[c], c, goal) # Entry(cost, f, goal)
        BY <1>6, <2>10, <2>11
      <3>3. QED
        BY <2>1, <2>8, <2>11, <3>1, <3>2 DEF Pending
    <2>12. ~Pending(t, goal, cell)
      <3>1. \A f \in found : Entry(s.best[cell], cell, goal) # Entry(cost, f, goal)
        BY <1>2, <1>6, <2>5, <2>10
      <3>2. QED
        BY <1>2, <2>1, <2>3, <2>5, <2>8, <3>1 DEF Pending
    <2>13. Done(t, goal) = Done(s, goal) \cup {cell}
      <3>1. ASSUME NEW c \in Positions
            PROVE  c \in Done(t, goal) <=> c \in Done(s, goal) \cup {cell}
        <4>1. CASE c = cell
          BY <2>3, <2>5, <2>8, <2>12, <4>1, <1>2 DEF Done
        <4>2. CASE c \in found
          BY <2>5, <2>7, <2>9, <4>2 DEF Done
        <4>3. CASE c # cell /\ c \notin found
          BY <2>8, <2>11, <4>3 DEF Done
        <4>4. QED
          BY <4>1, <4>2, <4>3
      <3>2. QED
        BY <1>2, <3>1 DEF Done
    <2>14. ASSUME NEW u \in Done(t, goal), NEW e \in t.heap
           PROVE  t.best[u] <= e[3] + Manhattan(CellOf(e), u)
      <3>1. u \in Positions /\ u \notin found /\ t.best[u] = s.best[u] /\ s.best[u] \in Nat
        BY <1>6, <2>5, <2>7, <2>8, <2>13, <1>2 DEF Done
      <3>2. CASE e \in s.heap
        <4> DEFINE f == CellOf(e)
        <4>1. /\ f \in Positions /\ e[3] \in Nat /\ entry[1] <= e[1]
              /\ e[1] = e[3] + Manhattan(f, goal) /\ entry[1] = entry[3] + Manhattan(cell, goal)
          BY <1>2, <1>5, <3>2 DEF cell
        <4> HIDE DEF f
        <4>2. CASE u \in Done(s, goal)
          BY <1>8, <3>1, <3>2, <4>2
        <4>3. CASE u = cell
          <5>1. /\ Manhattan(f, goal) \in Nat /\ Manhattan(cell, goal) \in Nat
                /\ Manhattan(f, cell) \in Nat
                /\ Manhattan(f, goal) <= Manhattan(f, cell) + Manhattan(cell, goal)
            BY <1>2, <1>9, <4>1
          <5>2. entry[3] <= e[3] + Manhattan(f, cell)
            BY <1>2, <4>1, <5>1
          <5>3. QED
            BY <2>3, <3>1, <4>3, <5>2 DEF f
        <4>4. QED
          BY <2>13, <4>2, <4>3
      <3>3. CASE e \notin s.heap
        <4>1. PICK f \in found : e = Entry(cost, f, goal)
          BY <2>1, <3>3
        <4>2. CellOf(e) = f /\ e[3] = cost /\ f \in Positions /\ Manhattan(cell, f) = 1
          BY <2>4, <2>10, <4>1
        <4>3. /\ Manhattan(cell, u) <= Manhattan(cell, f) + Manhattan(f, u)
              /\ Manhattan(cell, u) \in Nat /\ Manhattan(f, u) \in Nat
          BY <1>2, <1>9, <3>1, <4>2
        <4>4. CASE u \in Done(s, goal)
          <5>1. s.best[u] <= entry[3] + Manhattan(cell, u)
            BY <1>2, <1>8, <4>4 DEF cell
          <5>2. QED
            BY <1>2, <3>1, <4>2, <4>3, <5>1 DEF cost
        <4>5. CASE u = cell
          BY <1>2, <2>3, <3>1, <4>2, <4>3, <4>5 DEF cost
        <4>6. QED
          BY <2>13, <4>4, <4>5
      <3>4. QED
        BY <3>2, <3>3
    <2>15. ASSUME NEW c \in Positions, t.best[c] < Inf, c # start
           PROVE  t.parent[c] \in Done(t, goal)
      BY <1>8, <2>8, <2>13, <2>15
    <2>16. Tidy(t, blocked, start, goal)
      BY <1>3, <2>14, <2>15 DEF Tidy
    <2>17. found \cap Done(s, goal) = {}
      BY <2>7
    <2>18. s.best[cell] = cost - 1
      BY <1>2, <2>3 DEF cost
    <2>19. TakesTop(s, t, blocked, start, goal, cell, cost)
      BY <1>2, <2>2, <2>3, <2>5, <2>6, <2>8, <2>13, <2>17, <2>18 DEF TakesTop, found
    <2>20. QED
      BY <1>11, <2>16, <2>19 DEF t, entry, cell, cost
  <1>12. QED
    BY <1>10, <1>11

\* Two searches, s on a map and t on the map with x blocked as well, with the cells D
\* that both have done in the same way: what is done without D comes from x.
Alike(s, t, D, x, blocked, start, goal) ==
    /\ Tidy(s, blocked, start, goal) /\ Tidy(t, blocked \cup {x}, start, goal)
    /\ D \subseteq Done(t, goal) /\ Done(t, goal) \subseteq Done(s, goal) /\ x \notin D
    /\ \A c \in Positions : s.best[c] <= t.best[c]
    /\ \A d \in D : /\ s.best[d] = t.best[d] /\ s.parent[d] = t.parent[d]
                    /\ d = start \/ s.parent[d] \in D
    /\ \A c \in Positions \ Done(s, goal) :
            s.best[c] < Inf /\ c # x /\ (c = start \/ s.parent[c] \in D) =>
                s.best[c] = t.best[c] /\ s.parent[c] = t.parent[c]
    /\ \A c \in Done(s, goal) \ D :
            c = x \/ (c # start /\ s.parent[c] \in Done(s, goal) \ D)

\* A cell the search s has found on a way on which x is not.
Clear(s, D, x, start, c) == c # x /\ (c = start \/ s.parent[c] \in D)

LEMMA FirstAlike ==
    ASSUME NEW start \in Positions, NEW goal \in Positions, NEW blocked, NEW x, start # goal
    PROVE  LET s == FirstSearch(start, goal) IN Alike(s, s, {}, x, blocked, start, goal)
  <1> DEFINE s == FirstSearch(start, goal)
  <1>1. /\ Tidy(s, blocked, start, goal) /\ Tidy(s, blocked \cup {x}, start, goal)
        /\ Done(s, goal) = {}
    BY FirstSearchTidy
  <1>2. s.best \in [Positions -> 0 .. Inf] /\ Inf \in Nat
    BY <1>1, InfIsPositive DEF Tidy, AStarInv, Searches
  <1> HIDE DEF s
  <1>3. \A c \in Positions : s.best[c] <= s.best[c]
    BY <1>2
  <1>4. QED
    BY <1>1, <1>3 DEF Alike, s

\* The four ways in which the two searches go on: s drops a stale entry; s takes a
\* cell found by way of x; both take the same cell; t takes a cell s has done.
LEMMA FirstDrops ==
    ASSUME NEW blocked, NEW start \in Positions, NEW goal \in Positions, NEW x,
           NEW s, NEW t, NEW D, Alike(s, t, D, x, blocked, start, goal),
           ~Ended(s, goal), ~Current(s, Least(s.heap))
    PROVE  Alike(Expanded(s, blocked, goal), t, D, x, blocked, start, goal)
  <1> DEFINE r == Expanded(s, blocked, goal)
  <1>1. Tidy(s, blocked, start, goal)
    BY DEF Alike
  <1>2. /\ Tidy(r, blocked, start, goal) /\ Done(r, goal) = Done(s, goal)
        /\ r.best = s.best /\ r.parent = s.parent
    BY <1>1, ExpandedDone DEF DropsTop
  <1> HIDE DEF r
  <1>3. Alike(r, t, D, x, blocked, start, goal)
    BY <1>2 DEF Alike
  <1>4. QED
    BY <1>3 DEF r

LEMMA FirstTakes ==
    ASSUME NEW blocked, NEW start \in Positions, NEW goal \in Positions, NEW x,
           NEW s, NEW t, NEW D, Alike(s, t, D, x, blocked, start, goal),
           ~Ended(s, goal), Current(s, Least(s.heap)),
           ~Clear(s, D, x, start, CellOf(Least(s.heap)))
    PROVE  Alike(Expanded(s, blocked, goal), t, D, x, blocked, start, goal)
  <1> DEFINE r == Expanded(s, blocked, goal)
             cost == Least(s.heap)[3] + 1
             cell == CellOf(Least(s.heap))
             found == Improved(s, cell, cost, blocked)
  <1>1. Tidy(s, blocked, start, goal) /\ Tidy(t, blocked \cup {x}, start, goal)
    BY DEF Alike
  <1>2. TakesTop(s, r, blocked, start, goal, cell, cost) /\ Tidy(r, blocked, start, goal)
    BY <1>1, ExpandedDone
  <1>3. /\ Tidy(r, blocked, start, goal) /\ cell \in Positions /\ cost \in Nat
        /\ cell \notin Done(s, goal) /\ s.best[cell] < Inf
        /\ found \cap Done(s, goal) = {} /\ start \notin found /\ cell \notin found
        /\ Done(r, goal) = Done(s, goal) \cup {cell}
        /\ \A c \in Positions :
                /\ r.best[c] = IF c \in found THEN cost ELSE s.best[c]
                /\ r.parent[c] = IF c \in found THEN cell ELSE s.parent[c]
    BY <1>2 DEF TakesTop
  <1>4. \A c \in Positions : s.best[c] \in Nat /\ t.best[c] \in Nat
    BY <1>1, InfIsPositive DEF Tidy, AStarInv, Searches
  <1>5. \A c \in found : cost < s.best[c]
    BY DEF Improved
  <1>6. ~Clear(s, D, x, start, cell)
    OBVIOUS
  <1> HIDE DEF r, cost, cell, found
  <1>7. D \subseteq Done(s, goal) /\ D \subseteq Positions /\ cell \notin D
        /\ Done(t, goal) \subseteq Done(s, goal)
    BY <1>3 DEF Alike, Done
  <1>8. \A c \in Positions : r.best[c] <= t.best[c]
    BY <1>3, <1>4, <1>5 DEF Alike
  <1>9. \A d \in D : /\ r.best[d] = t.best[d] /\ r.parent[d] = t.parent[d]
                     /\ d = start \/ r.parent[d] \in D
    BY <1>3, <1>7 DEF Alike
  <1>10. ASSUME NEW c \in Positions \ Done(r, goal), r.best[c] < Inf, c # x,
               c = start \/ r.parent[c] \in D
        PROVE  r.best[c] = t.best[c] /\ r.parent[c] = t.parent[c]
    <2>1. c \notin found
      BY <1>3, <1>7, <1>10
    <2>2. r.best[c] = s.best[c] /\ r.parent[c] = s.parent[c] /\ c \notin Done(s, goal)
      BY <1>3, <1>10, <2>1
    <2>3. QED
      BY <1>10, <2>2 DEF Alike
  <1>11. ASSUME NEW c \in Done(r, goal) \ D
         PROVE  c = x \/ (c # start /\ r.parent[c] \in Done(r, goal) \ D)
    <2>1. CASE c \in Done(s, goal)
      <3>1. c \in Positions /\ c \notin found
        BY <1>3, <2>1 DEF Done
      <3>2. QED
        BY <1>3, <1>11, <2>1, <3>1 DEF Alike
    <2>2. CASE c = cell /\ c # x
      <3>1. c # start /\ s.parent[c] \notin D
        BY <1>6, <2>2 DEF Clear
      <3>2. s.parent[c] \in Done(s, goal)
        BY <1>1, <1>3, <2>2, <3>1 DEF Tidy
      <3>3. QED
        BY <1>3, <2>2, <3>1, <3>2
    <2>3. QED
      BY <1>3, <2>1, <2>2
  <1>12. D \subseteq Done(t, goal) /\ Done(t, goal) \subseteq Done(r, goal) /\ x \notin D
    BY <1>3 DEF Alike
  <1>13. Alike(r, t, D, x, blocked, start, goal)
    BY <1>1, <1>3, <1>8, <1>9, <1>10, <1>11, <1>12 DEF Alike
  <1>14. QED
    BY <1>13 DEF r

LEMMA BothTake ==
    ASSUME NEW blocked, NEW start \in Positions, NEW goal \in Positions, NEW x,
           NEW s, NEW t, NEW D, Alike(s, t, D, x, blocked, start, goal),
           ~Ended(s, goal), Current(s, Least(s.heap)),
           Clear(s, D, x, start, CellOf(Least(s.heap))),
           Least(t.heap) = Least(s.heap), Current(t, Least(t.heap)), ~Ended(t, goal)
    PROVE  Alike(Expanded(s, blocked, goal), Expanded(t, blocked \cup {x}, goal),
                 D \cup {CellOf(Least(s.heap))}, x, blocked, start, goal)
  <1> DEFINE r == Expanded(s, blocked, goal)
             q == Expanded(t, blocked \cup {x}, goal)
             cost == Least(s.heap)[3] + 1
             cell == CellOf(Least(s.heap))
             foundS == Improved(s, cell, cost, blocked)
             foundT == Improved(t, cell, cost, blocked \cup {x})
             E == D \cup {cell}
  <1>1. Tidy(s, blocked, start, goal) /\ Tidy(t, blocked \cup {x}, start, goal)
    BY DEF Alike
  <1>2. TakesTop(s, r, blocked, start, goal, cell, cost) /\ Tidy(r, blocked, start, goal)
    BY <1>1, ExpandedDone
  <1>3. /\ TakesTop(t, q, blocked \cup {x}, start, goal, cell, cost)
        /\ Tidy(q, blocked \cup {x}, start, goal)
    <2>1. cell = CellOf(Least(t.heap)) /\ cost = Least(t.heap)[3] + 1
      OBVIOUS
    <2> HIDE DEF cell, cost
    <2>2. QED
      BY <1>1, <2>1, ExpandedDone
  <1>4. /\ Tidy(r, blocked, start, goal) /\ cell \in Positions /\ cost \in Nat
        /\ cell \notin Done(s, goal) /\ s.best[cell] < Inf
        /\ foundS \cap Done(s, goal) = {} /\ start \notin foundS /\ cell \notin foundS
        /\ Done(r, goal) = Done(s, goal) \cup {cell}
        /\ \A c \in Positions :
                /\ r.best[c] = IF c \in foundS THEN cost ELSE s.best[c]
                /\ r.parent[c] = IF c \in foundS THEN cell ELSE s.parent[c]
    BY <1>2 DEF TakesTop
  <1>5. /\ Tidy(q, blocked \cup {x}, start, goal)
        /\ foundT \cap Done(t, goal) = {} /\ start \notin foundT /\ cell \notin foundT
        /\ Done(q, goal) = Done(t, goal) \cup {cell}
        /\ \A c \in Positions :
                /\ q.best[c] = IF c \in foundT THEN cost ELSE t.best[c]
                /\ q.parent[c] = IF c \in foundT THEN cell ELSE t.parent[c]
    BY <1>3 DEF TakesTop
  <1>6. \A c \in Positions : s.best[c] \in Nat /\ t.best[c] \in Nat
    BY <1>1, InfIsPositive DEF Tidy, AStarInv, Searches
  <1>7. /\ \A c : c \in foundS <=> c \in Neighbours(cell) \ blocked /\ cost < s.best[c]
        /\ \A c : c \in foundT <=>
                c \in Neighbours(cell) \ (blocked \cup {x}) /\ cost < t.best[c]
        /\ \A c \in Neighbours(cell) : c \in Positions
    BY <1>4, NeighboursAreAdjacent DEF Improved
  <1>8. Clear(s, D, x, start, cell)
    OBVIOUS
  <1> HIDE DEF r, q, cost, cell, foundS, foundT
  <1>9. /\ D \subseteq Done(t, goal) /\ Done(t, goal) \subseteq Done(s, goal) /\ x \notin D
        /\ \A d \in D : d \in Positions
    BY DEF Alike, Done
  <1>10. s.best[cell] = t.best[cell] /\ s.parent[cell] = t.parent[cell]
    BY <1>4, <1>8 DEF Alike, Clear
  <1>11. \A c \in Positions : r.best[c] <= q.best[c]
    <2>1. SUFFICES ASSUME NEW c \in Positions PROVE r.best[c] <= q.best[c]
      OBVIOUS
    <2>2. s.best[c] <= t.best[c]
      BY DEF Alike
    <2>3. CASE c \in foundT
      BY <1>4, <1>5, <1>6, <1>7, <2>3
    <2>4. CASE c \notin foundT
      BY <1>4, <1>5, <1>6, <1>7, <2>2, <2>4
    <2>5. QED
      BY <2>3, <2>4
  <1>12. ASSUME NEW d \in E
         PROVE  /\ r.best[d] = q.best[d] /\ r.parent[d] = q.parent[d]
                /\ d = start \/ r.parent[d] \in E
    <2>1. CASE d \in D
      <3>1. d \in Positions /\ d \notin foundS /\ d \notin foundT
        BY <1>4, <1>5, <1>9, <2>1
      <3>2. QED
        BY <1>4, <1>5, <2>1, <3>1 DEF Alike
    <2>2. CASE d = cell
      BY <1>4, <1>5, <1>8, <1>10, <2>2 DEF Clear
    <2>3. QED
      BY <2>1, <2>2
  <1>13. ASSUME NEW c \in Positions \ Done(r, goal), r.best[c] < Inf, c # x,
                c = start \/ r.parent[c] \in E
         PROVE  r.best[c] = q.best[c] /\ r.parent[c] = q.parent[c]
    <2>1. CASE c \in foundS
      <3>1. s.best[c] <= t.best[c]
        BY DEF Alike
      <3>2. c \in foundT
        BY <1>4, <1>6, <1>7, <1>13, <2>1, <3>1
      <3>3. QED
        BY <1>4, <1>5, <2>1, <3>2
    <2>2. CASE c \notin foundS
      <3>1. r.best[c] = s.best[c] /\ r.parent[c] = s.parent[c] /\ c \notin Done(s, goal)
        BY <1>4, <1>13, <2>2
      <3>2. c = start \/ s.parent[c] \in D
        <4>1. c # start => s.parent[c] \in Done(s, goal)
          BY <1>1, <1>13, <3>1 DEF Tidy
        <4>2. QED
          BY <1>4, <1>13, <3>1, <4>1
      <3>3. s.best[c] = t.best[c] /\ s.parent[c] = t.parent[c]
        BY <1>13, <3>1, <3>2 DEF Alike
      <3>4. c \notin foundT
        BY <1>7, <2>2, <3>3
      <3>5. QED
        BY <1>5, <3>1, <3>3, <3>4
    <2>3. QED
      BY <2>1, <2>2
  <1>14. ASSUME NEW c \in Done(r, goal) \ E
         PROVE  c = x \/ (c # start /\ r.parent[c] \in Done(r, goal) \ E)
    <2>1. c \in Done(s, goal) \ D /\ c \in Positions /\ c \notin foundS
      BY <1>4, <1>14 DEF Done
    <2>2. c = x \/ (c # start /\ s.parent[c] \in Done(s, goal) \ D)
      BY <2>1 DEF Alike
    <2>3. QED
      BY <1>4, <2>1, <2>2
  <1>15. E \subseteq Done(q, goal) /\ Done(q, goal) \subseteq Done(r, goal) /\ x \notin E
    BY <1>4, <1>5, <1>8, <1>9 DEF Clear
  <1> HIDE DEF E
  <1>16. Alike(r, q, E, x, blocked, start, goal)
    BY <1>4, <1>5, <1>11, <1>12, <1>13, <1>14, <1>15 DEF Alike
  <1>17. QED
    BY <1>16 DEF r, q, E, cell

LEMMA SecondTakes ==
    ASSUME NEW blocked, NEW start \in Positions, NEW goal \in Positions, NEW x,
           NEW s, NEW t, NEW D, Alike(s, t, D, x, blocked, start, goal),
           ~Ended(t, goal), CellOf(Least(t.heap)) \in Done(s, goal)
    PROVE  Alike(s, Expanded(t, blocked \cup {x}, goal), D, x, blocked, start, goal)
  <1> DEFINE q == Expanded(t, blocked \cup {x}, goal)
             cost == Least(t.heap)[3] + 1
             cell == CellOf(Least(t.heap))
             found == Improved(t, cell, cost, blocked \cup {x})
  <1>1. Tidy(s, blocked, start, goal) /\ Tidy(t, blocked \cup {x}, start, goal)
    BY DEF Alike
  <1>2. CASE ~Current(t, Least(t.heap))
    <2>1. /\ Tidy(q, blocked \cup {x}, start, goal) /\ Done(q, goal) = Done(t, goal)
          /\ q.best = t.best /\ q.parent = t.parent
      BY <1>1, <1>2, ExpandedDone DEF DropsTop
    <2> HIDE DEF q
    <2>2. Alike(s, q, D, x, blocked, start, goal)
      BY <2>1 DEF Alike
    <2>3. QED
      BY <2>2 DEF q
  <1>3. CASE Current(t, Least(t.heap))
    <2>1. /\ TakesTop(t, q, blocked \cup {x}, start, goal, cell, cost)
          /\ Tidy(q, blocked \cup {x}, start, goal)
      BY <1>1, <1>3, ExpandedDone
    <2>2. /\ Tidy(q, blocked \cup {x}, start, goal) /\ cell \in Positions /\ cost \in Nat
          /\ t.best[cell] = cost - 1 /\ t.best[cell] < Inf
          /\ found \cap Done(t, goal) = {} /\ start \notin found /\ cell \notin found
          /\ Done(q, goal) = Done(t, goal) \cup {cell}
          /\ \A c \in Positions :
                  /\ q.best[c] = IF c \in found THEN cost ELSE t.best[c]
                  /\ q.parent[c] = IF c \in found THEN cell ELSE t.parent[c]
      BY <2>1 DEF TakesTop
    <2>3. \A c \in Positions : s.best[c] \in Nat /\ t.best[c] \in Nat /\ s.best[c] <= t.best[c]
      BY <1>1, InfIsPositive DEF Tidy, AStarInv, Searches, Alike
    <2>4. \A c \in found : /\ c \in Neighbours(cell) \ blocked /\ c \in Positions
                           /\ cost < t.best[c]
      BY <2>2, NeighboursAreAdjacent DEF Improved
    <2>5. cell \in Done(s, goal)
      OBVIOUS
    <2> HIDE DEF q, cost, cell, found
    <2>6. \A c \in found : s.best[c] <= cost
      <3>1. \A n \in Neighbours(cell) \ blocked : s.best[n] <= s.best[cell] + 1
        BY <1>1, <2>5 DEF Tidy, AStarInv, Done
      <3>2. QED
        BY <2>2, <2>3, <2>4, <3>1
    <2>7. \A c \in Positions : s.best[c] <= q.best[c]
      BY <2>2, <2>3, <2>6
    <2>8. /\ D \subseteq Done(t, goal) /\ Done(t, goal) \subseteq Done(s, goal) /\ x \notin D
          /\ \A d \in D : d \in Positions
      BY DEF Alike, Done
    <2>9. \A d \in D : /\ s.best[d] = q.best[d] /\ s.parent[d] = q.parent[d]
                       /\ d = start \/ s.parent[d] \in D
      <3>1. \A d \in D : d \in Positions /\ d \notin found
        BY <2>2, <2>8
      <3>2. QED
        BY <2>2, <3>1 DEF Alike
    <2>10. ASSUME NEW c \in Positions \ Done(s, goal), s.best[c] < Inf, c # x,
                 c = start \/ s.parent[c] \in D
          PROVE  s.best[c] = q.best[c] /\ s.parent[c] = q.parent[c]
      <3>1. s.best[c] = t.best[c] /\ s.parent[c] = t.parent[c]
        BY <2>10 DEF Alike
      <3>2. c \notin found
        BY <2>2, <2>3, <2>4, <2>6, <3>1
      <3>3. QED
        BY <2>2, <3>1, <3>2
    <2>11. \A c \in Done(s, goal) \ D :
                c = x \/ (c # start /\ s.parent[c] \in Done(s, goal) \ D)
      BY DEF Alike
    <2>12. D \subseteq Done(q, goal) /\ Done(q, goal) \subseteq Done(s, goal) /\ x \notin D
      BY <2>2, <2>5, <2>8
    <2>13. Alike(s, q, D, x, blocked, start, goal)
      BY <1>1, <2>2, <2>7, <2>9, <2>10, <2>11, <2>12 DEF Alike
    <2>14. QED
      BY <2>13 DEF q
  <1>4. QED
    BY <1>2, <1>3

\* Tuples of integers of one length are ordered.
LEMMA LessIsOrder ==
    ASSUME NEW N \in Nat, NEW a \in [1 .. N -> Int], NEW b \in [1 .. N -> Int],
           NEW c \in [1 .. N -> Int]
    PROVE  /\ ~Less(a, a)
           /\ Less(a, b) /\ Less(b, c) => Less(a, c)
           /\ a # b => Less(a, b) \/ Less(b, a)
  <1>1. DOMAIN a = 1 .. N /\ DOMAIN b = 1 .. N
    OBVIOUS
  <1>2. ~Less(a, a)
    BY <1>1 DEF Less
  <1>3. ASSUME Less(a, b), Less(b, c) PROVE Less(a, c)
    <2>1. PICK i \in 1 .. N : a[i] < b[i] /\ \A k \in 1 .. i - 1 : a[k] = b[k]
      BY <1>1, <1>3 DEF Less
    <2>2. PICK j \in 1 .. N : b[j] < c[j] /\ \A k \in 1 .. j - 1 : b[k] = c[k]
      BY <1>1, <1>3 DEF Less
    <2>3. CASE i <= j
      <3>1. a[i] < c[i] /\ \A k \in 1 .. i - 1 : a[k] = c[k]
        BY <2>1, <2>2, <2>3
      <3>2. QED
        BY <1>1, <3>1 DEF Less
    <2>4. CASE j < i
      <3>1. a[j] < c[j] /\ \A k \in 1 .. j - 1 : a[k] = c[k]
        BY <2>1, <2>2, <2>4
      <3>2. QED
        BY <1>1, <3>1 DEF Less
    <2>5. QED
      BY <2>3, <2>4
  <1>4. ASSUME a # b PROVE Less(a, b) \/ Less(b, a)
    <2> DEFINE Differ == {i \in Nat : i \in 1 .. N /\ a[i] # b[i]}
    <2>1. Differ \in SUBSET Nat /\ Differ # {}
      <3>1. PICK i \in 1 .. N : a[i] # b[i]
        BY <1>4
      <3>2. i \in Differ
        BY <3>1
      <3>3. QED
        BY <3>2
    <2>2. PICK m \in Differ : \A i \in Differ : m <= i
      <3> HIDE DEF Differ
      <3>1. QED
        BY <2>1, LeastNumber
    <2>3. m \in 1 .. N /\ a[m] # b[m] /\ \A k \in 1 .. m - 1 : a[k] = b[k]
      BY <2>2
    <2>4. a[m] < b[m] \/ b[m] < a[m]
      BY <2>3
    <2>5. QED
      BY <1>1, <2>3, <2>4 DEF Less
  <1>5. QED
    BY <1>2, <1>3, <1>4

LEMMA HeapIsOrdered ==
    ASSUME NEW heap \in SUBSET (Nat \X Nat \X Nat \X (0 .. Rows - 1) \X (0 .. Cols - 1)),
           heap # {}
    PROVE  /\ heap \in SUBSET [1 .. 5 -> Int]
           /\ \A e \in heap \ {Least(heap)} : Less(Least(heap), e)
  <1>1. ASSUME NEW e \in heap PROVE e \in [1 .. 5 -> Nat]
    <2>1. PICK a \in Nat, b \in Nat, c \in Nat, d \in 0 .. Rows - 1, f \in 0 .. Cols - 1 :
                e = <<a, b, c, d, f>>
      OBVIOUS
    <2>2. d \in Nat /\ f \in Nat
      BY GridAssumption
    <2>3. QED
      BY <2>1, <2>2
  <1>2. heap \in SUBSET [1 .. 5 -> Nat] /\ heap \in SUBSET [1 .. 5 -> Int]
    BY <1>1
  <1>3. QED
    BY <1>2, LeastIsMember

\* Of two entries for a cell the cheaper comes first.
LEMMA LessByCost ==
    ASSUME NEW k \in Nat, NEW m \in Nat, k < m, NEW c \in Positions, NEW goal \in Positions
    PROVE  Less(Entry(k, c, goal), Entry(m, c, goal))
  <1>1. Manhattan(c, goal) \in Nat
    BY ManhattanIsMetric
  <1>2. k + Manhattan(c, goal) < m + Manhattan(c, goal)
    BY <1>1
  <1>3. QED
    BY <1>2 DEF Less, Entry

\* When s comes to take a cell it has found apart from x, the top of t's heap is
\* the same entry, or that of a cell that s has done.
LEMMA ClearTop ==
    ASSUME NEW blocked, NEW start \in Positions, NEW goal \in Positions, NEW x,
           NEW s, NEW t, NEW D, Alike(s, t, D, x, blocked, start, goal),
           s.heap # {}, Current(s, Least(s.heap)),
           Clear(s, D, x, start, CellOf(Least(s.heap)))
    PROVE  /\ t.heap # {}
           /\ \/ Least(t.heap) = Least(s.heap) /\ Current(t, Least(t.heap))
              \/ CellOf(Least(t.heap)) \in Done(s, goal)
  <1> DEFINE e == Least(s.heap)
             c == CellOf(e)
             f == Least(t.heap)
             b == CellOf(f)
             g == Entry(s.best[b], b, goal)
             T == Nat \X Nat \X Nat \X (0 .. Rows - 1) \X (0 .. Cols - 1)
  <1>1. /\ AStarInv(s, blocked, start, goal) /\ AStarInv(t, blocked \cup {x}, start, goal)
        /\ s.heap \in SUBSET T /\ t.heap \in SUBSET T
    BY DEF Alike, Tidy, AStarInv, Searches
  <1>2. \A d \in Positions : s.best[d] \in Nat /\ t.best[d] \in Nat /\ s.best[d] <= t.best[d]
    BY <1>1, InfIsPositive DEF AStarInv, Searches, Alike
  <1>3. e \in s.heap /\ c \in Positions /\ e[3] = s.best[c]
    BY <1>1, TopOfHeap DEF Current
  <1>4. e = Entry(s.best[c], c, goal) /\ s.best[c] < Inf
    BY <1>1, <1>3 DEF AStarInv
  <1>5. c \notin Done(s, goal)
    BY <1>3, <1>4 DEF Done, Pending
  <1>6. s.best[c] = t.best[c]
    BY <1>3, <1>4, <1>5 DEF Alike, Clear
  <1>7. e \in t.heap
    <2>1. c \notin Done(t, goal)
      BY <1>5 DEF Alike
    <2>2. QED
      BY <1>3, <1>4, <1>6, <2>1 DEF Done, Pending
  <1>8. f \in t.heap /\ b \in Positions /\ f[3] \in Nat
    BY <1>1, <1>7, TopOfHeap
  <1>9. f = Entry(f[3], b, goal) /\ t.best[b] <= f[3] /\ f[3] < Inf
    BY <1>1, <1>8 DEF AStarInv
  <1>10. CASE f = e
    <2>1. Current(t, f)
      BY <1>3, <1>6, <1>10 DEF Current
    <2>2. QED
      BY <1>7, <1>10, <2>1
  <1>11. CASE f # e
    <2>1. SUFFICES ASSUME b \notin Done(s, goal) PROVE FALSE
      BY <1>7
    <2>2. s.best[b] <= f[3] /\ s.best[b] \in Nat /\ s.best[b] < Inf
      BY <1>2, <1>8, <1>9, InfIsPositive
    <2>3. g \in s.heap
      BY <1>8, <2>1, <2>2 DEF Done, Pending
    <2>4. s.heap \in SUBSET [1 .. 5 -> Int] /\ t.heap \in SUBSET [1 .. 5 -> Int]
      BY <1>1, <1>7, HeapIsOrdered
    <2>5. e \in [1 .. 5 -> Int] /\ f \in [1 .. 5 -> Int] /\ g \in [1 .. 5 -> Int]
      <3> HIDE DEF e, f, g
      <3>1. QED
        BY <1>3, <1>8, <2>3, <2>4
    <2>6. Less(f, e)
      BY <1>1, <1>7, <1>11, HeapIsOrdered
    <2>7. g = e \/ Less(e, g)
      BY <1>1, <2>3, HeapIsOrdered
    <2>8. g = f \/ Less(g, f)
      <3>1. CASE s.best[b] = f[3]
        BY <1>9, <3>1
      <3>2. CASE s.best[b] < f[3]
        <4>1. b \in Positions /\ s.best[b] \in Nat /\ f[3] \in Nat
          BY <1>8, <2>2
        <4> HIDE DEF b, f
        <4>2. Less(Entry(s.best[b], b, goal), Entry(f[3], b, goal))
          BY <3>2, <4>1, LessByCost
        <4>3. QED
          BY <1>9, <4>2
      <3>3. QED
        BY <1>8, <2>2, <3>1, <3>2
    <2> HIDE DEF e, f, g
    <2>9. 5 \in Nat
      OBVIOUS
    <2>10. /\ Less(g, f) /\ Less(f, e) => Less(g, e)
           /\ Less(g, e) /\ Less(e, g) => Less(g, g)
           /\ Less(f, e) /\ Less(e, f) => Less(f, f)
           /\ ~Less(g, g) /\ ~Less(f, f)
      BY <2>5, <2>9, LessIsOrder
    <2>11. QED
      BY <2>6, <2>7, <2>8, <2>10
  <1>12. QED
    BY <1>10, <1>11

\* What a search ends with.
LastOf(s, blocked, goal) == Explore(blocked, goal)[Inf * Rows * Cols][s]

LEMMA ExploreIsStable ==
    ASSUME NEW blocked, NEW start \in Positions, NEW goal \in Positions
    PROVE  \A n \in Nat : \A s \in Searches :
                AStarInv(s, blocked, start, goal) /\ Cardinality(Left(s, goal)) <= n =>
                    Explore(blocked, goal)[n + 1][s] = Explore(blocked, goal)[n][s]
  <1> DEFINE explore == Explore(blocked, goal)
             S == {n \in Nat : \A s \in Searches :
                        AStarInv(s, blocked, start, goal) /\ Cardinality(Left(s, goal)) <= n
                            => explore[n + 1][s] = explore[n][s]}
  <1>1. \A n \in Nat, s \in Searches :
            explore[n][s] = IF n = 0 \/ Ended(s, goal) THEN s
                            ELSE explore[n - 1][Expanded(s, blocked, goal)]
    BY ExploreIsDefined
  <1> HIDE DEF explore
  <1>2. ASSUME NEW n \in Nat, n = 0 \/ n - 1 \in S PROVE n \in S
    <2>1. SUFFICES ASSUME NEW s \in Searches, AStarInv(s, blocked, start, goal),
                          Cardinality(Left(s, goal)) <= n
                   PROVE  explore[n + 1][s] = explore[n][s]
      OBVIOUS
    <2>2. CASE Ended(s, goal)
      BY <1>1, <2>2
    <2>3. CASE ~Ended(s, goal)
      <3> DEFINE r == Expanded(s, blocked, goal)
      <3>1. /\ AStarInv(r, blocked, start, goal)
            /\ Cardinality(Left(r, goal)) < Cardinality(Left(s, goal))
        BY <2>1, <2>3, ExpandedInv, ExpandedUsesUp
      <3> HIDE DEF r
      <3>2. r \in Searches
        BY <3>1 DEF AStarInv
      <3>3. Cardinality(Left(r, goal)) \in Nat /\ Cardinality(Left(s, goal)) \in Nat
        BY LeftIsFinite
      <3>4. n # 0 /\ n - 1 \in S /\ n - 1 \in Nat /\ Cardinality(Left(r, goal)) <= n - 1
        BY <1>2, <2>1, <3>1, <3>3
      <3>5. explore[(n - 1) + 1][r] = explore[n - 1][r]
        BY <3>1, <3>2, <3>4
      <3>6. explore[n + 1][s] = explore[n][r] /\ explore[n][s] = explore[n - 1][r]
        <4>1. n + 1 \in Nat /\ n + 1 # 0 /\ (n + 1) - 1 = n
          OBVIOUS
        <4>2. QED
          BY <1>1, <2>3, <3>4, <4>1 DEF r
      <3>7. (n - 1) + 1 = n
        OBVIOUS
      <3>8. QED
        BY <3>5, <3>6, <3>7
    <2>4. QED
      BY <2>2, <2>3
  <1> HIDE DEF S
  <1>3. 0 \in S
    BY <1>2
  <1>4. ASSUME NEW n \in Nat, n \in S PROVE n + 1 \in S
    <2>1. n + 1 \in Nat /\ (n + 1) - 1 = n
      OBVIOUS
    <2>2. QED
      BY <1>2, <1>4, <2>1
  <1>5. \A n \in Nat : n \in S
    BY <1>3, <1>4, InductionInSet
  <1>6. QED
    BY <1>5 DEF S, explore

LEMMA LastOfExpanded ==
    ASSUME NEW blocked, NEW start \in Positions, NEW goal \in Positions,
           NEW s, AStarInv(s, blocked, start, goal)
    PROVE  /\ Ended(s, goal) => LastOf(s, blocked, goal) = s
           /\ ~Ended(s, goal) =>
                LastOf(Expanded(s, blocked, goal), blocked, goal) = LastOf(s, blocked, goal)
  <1> DEFINE N == Inf * Rows * Cols
             r == Expanded(s, blocked, goal)
  <1>1. N \in Nat
    <2>1. Inf \in Nat /\ Rows \in Nat /\ Cols \in Nat
      BY InfIsPositive, GridAssumption
    <2>2. \A a, b \in Nat : a * b \in Nat
      OBVIOUS
    <2>3. QED
      BY <2>1, <2>2
  <1>2. s \in Searches
    BY DEF AStarInv
  <1>3. /\ Cardinality(Left(s, goal)) <= N /\ Cardinality(Left(s, goal)) \in Nat
        /\ Cardinality(Left(r, goal)) <= N /\ Cardinality(Left(r, goal)) \in Nat
    BY LeftIsFinite
  <1>4. ASSUME Ended(s, goal) PROVE LastOf(s, blocked, goal) = s
    <2> HIDE DEF N
    <2>1. Explore(blocked, goal)[N][s] = s
      BY <1>1, <1>2, <1>4, ExploreIsDefined
    <2>2. QED
      BY <2>1 DEF LastOf, N
  <1>5. ASSUME ~Ended(s, goal) PROVE LastOf(r, blocked, goal) = LastOf(s, blocked, goal)
    <2>1. /\ AStarInv(r, blocked, start, goal)
          /\ Cardinality(Left(r, goal)) < Cardinality(Left(s, goal))
      BY <1>5, ExpandedInv, ExpandedUsesUp
    <2> HIDE DEF r, N
    <2>2. r \in Searches
      BY <2>1 DEF AStarInv
    <2>3. N - 1 \in Nat /\ N # 0 /\ Cardinality(Left(r, goal)) <= N - 1 /\ (N - 1) + 1 = N
      BY <1>1, <1>3, <2>1
    <2>4. Explore(blocked, goal)[(N - 1) + 1][r] = Explore(blocked, goal)[N - 1][r]
      <3>1. \A m \in Nat : Cardinality(Left(r, goal)) <= m =>
                Explore(blocked, goal)[m + 1][r] = Explore(blocked, goal)[m][r]
        BY <2>1, <2>2, ExploreIsStable
      <3>2. QED
        BY <2>3, <3>1
    <2>5. Explore(blocked, goal)[N][s] = Explore(blocked, goal)[N - 1][r]
      BY <1>1, <1>2, <1>5, <2>3, ExploreIsDefined DEF r
    <2>6. QED
      BY <2>3, <2>4, <2>5 DEF LastOf, N
  <1>6. QED
    BY <1>4, <1>5

\* The two searches end alike: if the first has found the goal apart from x, so
\* has the second.
EndAlike(s0, t0, x, blocked, start, goal) ==
    \E s, t, D :
        /\ Alike(s, t, D, x, blocked, start, goal)
        /\ Ended(s, goal) /\ LastOf(s0, blocked, goal) = s
        /\ s.heap # {} /\ Clear(s, D, x, start, goal) =>
                /\ Ended(t, goal) /\ t.heap # {}
                /\ LastOf(t0, blocked \cup {x}, goal) = t

LEMMA AlikeGoOn ==
    ASSUME NEW blocked, NEW start \in Positions, NEW goal \in Positions, NEW x,
           NEW s, NEW t, NEW D, Alike(s, t, D, x, blocked, start, goal)
    PROVE  \/ EndAlike(s, t, x, blocked, start, goal)
           \/ \E r, q, E :
                /\ Alike(r, q, E, x, blocked, start, goal)
                /\ LastOf(r, blocked, goal) = LastOf(s, blocked, goal)
                /\ LastOf(q, blocked \cup {x}, goal) = LastOf(t, blocked \cup {x}, goal)
                /\ Cardinality(Left(r, goal)) + Cardinality(Left(q, goal))
                        < Cardinality(Left(s, goal)) + Cardinality(Left(t, goal))
  <1> DEFINE Goes(r, q, E) ==
                /\ Alike(r, q, E, x, blocked, start, goal)
                /\ LastOf(r, blocked, goal) = LastOf(s, blocked, goal)
                /\ LastOf(q, blocked \cup {x}, goal) = LastOf(t, blocked \cup {x}, goal)
                /\ Cardinality(Left(r, goal)) + Cardinality(Left(q, goal))
                        < Cardinality(Left(s, goal)) + Cardinality(Left(t, goal))
             top == CellOf(Least(s.heap))
             B == blocked \cup {x}
             S == Expanded(s, blocked, goal)
             T == Expanded(t, B, goal)
  <1>1. /\ AStarInv(s, blocked, start, goal) /\ AStarInv(t, B, start, goal)
        /\ goal \notin Done(s, goal)
    BY DEF Alike, Tidy, AStarInv, Done
  <1>2. \A r : Cardinality(Left(r, goal)) \in Nat
    BY LeftIsFinite
  <1>3. ~Ended(s, goal) => /\ Cardinality(Left(S, goal)) < Cardinality(Left(s, goal))
                           /\ LastOf(S, blocked, goal) = LastOf(s, blocked, goal)
    BY <1>1, ExpandedUsesUp, LastOfExpanded
  <1>4. ~Ended(t, goal) => /\ Cardinality(Left(T, goal)) < Cardinality(Left(t, goal))
                           /\ LastOf(T, B, goal) = LastOf(t, B, goal)
    BY <1>1, ExpandedUsesUp, LastOfExpanded
  <1>5. /\ Ended(s, goal) => LastOf(s, blocked, goal) = s
        /\ Ended(t, goal) => LastOf(t, B, goal) = t
    BY <1>1, LastOfExpanded
  <1>6. CASE ~Ended(s, goal) /\ ~Current(s, Least(s.heap))
    <2>1. Alike(S, t, D, x, blocked, start, goal)
      BY <1>6, FirstDrops
    <2> HIDE DEF S
    <2>2. Goes(S, t, D)
      BY <1>2, <1>3, <1>6, <2>1
    <2>3. QED
      BY <2>2
  <1>7. CASE ~Ended(s, goal) /\ Current(s, Least(s.heap)) /\ ~Clear(s, D, x, start, top)
    <2>1. Alike(S, t, D, x, blocked, start, goal)
      BY <1>7, FirstTakes
    <2> HIDE DEF S
    <2>2. Goes(S, t, D)
      BY <1>2, <1>3, <1>7, <2>1
    <2>3. QED
      BY <2>2
  <1>8. ASSUME t.heap # {}, CellOf(Least(t.heap)) \in Done(s, goal)
        PROVE  Goes(s, T, D)
    <2>1. ~Ended(t, goal)
      BY <1>1, <1>8 DEF Ended
    <2>2. Alike(s, T, D, x, blocked, start, goal)
      BY <1>8, <2>1, SecondTakes
    <2> HIDE DEF T
    <2>3. QED
      BY <1>2, <1>4, <2>1, <2>2
  <1>9. CASE ~Ended(s, goal) /\ Current(s, Least(s.heap)) /\ Clear(s, D, x, start, top)
    <2>1. s.heap # {} /\ top # goal
      BY <1>9 DEF Ended
    <2>2. /\ t.heap # {}
          /\ \/ Least(t.heap) = Least(s.heap) /\ Current(t, Least(t.heap))
             \/ CellOf(Least(t.heap)) \in Done(s, goal)
      BY <1>9, <2>1, ClearTop
    <2>3. CASE Least(t.heap) = Least(s.heap) /\ Current(t, Least(t.heap))
      <3>1. ~Ended(t, goal)
        BY <2>1, <2>2, <2>3 DEF Ended
      <3>2. Alike(S, T, D \cup {top}, x, blocked, start, goal)
        BY <1>9, <2>3, <3>1, BothTake
      <3> HIDE DEF S, T, top
      <3>3. Goes(S, T, D \cup {top})
        BY <1>2, <1>3, <1>4, <1>9, <3>1, <3>2
      <3>4. QED
        BY <3>3
    <2>4. CASE CellOf(Least(t.heap)) \in Done(s, goal)
      BY <1>8, <2>2, <2>4
    <2>5. QED
      BY <2>2, <2>3, <2>4
  <1>10. CASE Ended(s, goal) /\ ~(s.heap # {} /\ Clear(s, D, x, start, goal))
    BY <1>5, <1>10 DEF EndAlike
  <1>11. CASE Ended(s, goal) /\ s.heap # {} /\ Clear(s, D, x, start, goal)
    <2>1. Current(s, Least(s.heap)) /\ top = goal
      BY <1>11 DEF Ended
    <2>2. /\ t.heap # {}
          /\ \/ Least(t.heap) = Least(s.heap) /\ Current(t, Least(t.heap))
             \/ CellOf(Least(t.heap)) \in Done(s, goal)
      BY <1>11, <2>1, ClearTop
    <2>3. CASE Least(t.heap) = Least(s.heap) /\ Current(t, Least(t.heap))
      <3>1. Ended(t, goal)
        BY <2>1, <2>3 DEF Ended
      <3>2. QED
        BY <1>5, <1>11, <2>2, <3>1 DEF EndAlike
    <2>4. CASE CellOf(Least(t.heap)) \in Done(s, goal)
      BY <1>8, <2>2, <2>4
    <2>5. QED
      BY <2>2, <2>3, <2>4
  <1>12. QED
    BY <1>6, <1>7, <1>9, <1>10, <1>11

LEMMA AlikeAtEnd ==
    ASSUME NEW blocked, NEW start \in Positions, NEW goal \in Positions, NEW x,
           NEW s0, NEW t0, NEW D0, Alike(s0, t0, D0, x, blocked, start, goal)
    PROVE  EndAlike(s0, t0, x, blocked, start, goal)
  <1> DEFINE Size(s, t) == Cardinality(Left(s, goal)) + Cardinality(Left(t, goal))
             G == {n \in Nat : \A s, t, D :
                        Alike(s, t, D, x, blocked, start, goal) /\ Size(s, t) <= n
                            => EndAlike(s, t, x, blocked, start, goal)}
  <1>1. \A s, t : Size(s, t) \in Nat
    <2>1. \A r : Cardinality(Left(r, goal)) \in Nat
      BY LeftIsFinite
    <2>2. QED
      BY <2>1
  <1> HIDE DEF Size
  <1>2. ASSUME NEW n \in Nat, n = 0 \/ n - 1 \in G PROVE n \in G
    <2>1. SUFFICES ASSUME NEW s, NEW t, NEW D, Alike(s, t, D, x, blocked, start, goal),
                          Size(s, t) <= n
                   PROVE  EndAlike(s, t, x, blocked, start, goal)
      OBVIOUS
    <2>2. SUFFICES ASSUME NEW r, NEW q, NEW E, Alike(r, q, E, x, blocked, start, goal),
                          LastOf(r, blocked, goal) = LastOf(s, blocked, goal),
                          LastOf(q, blocked \cup {x}, goal) = LastOf(t, blocked \cup {x}, goal),
                          Size(r, q) < Size(s, t)
                   PROVE  EndAlike(s, t, x, blocked, start, goal)
      BY <2>1, AlikeGoOn DEF Size
    <2>3. Size(r, q) \in Nat /\ Size(s, t) \in Nat
      BY <1>1
    <2>4. n # 0 /\ n - 1 \in G /\ Size(r, q) <= n - 1
      BY <1>2, <2>1, <2>2, <2>3
    <2>5. EndAlike(r, q, x, blocked, start, goal)
      BY <2>2, <2>4
    <2>6. QED
      BY <2>2, <2>5 DEF EndAlike
  <1> HIDE DEF G
  <1>3. 0 \in G
    BY <1>2
  <1>4. ASSUME NEW n \in Nat, n \in G PROVE n + 1 \in G
    <2>1. n + 1 \in Nat /\ (n + 1) - 1 = n
      OBVIOUS
    <2>2. QED
      BY <1>2, <1>4, <2>1
  <1>5. \A n \in Nat : n \in G
    BY <1>3, <1>4, InductionInSet
  <1>6. Size(s0, t0) \in Nat /\ Size(s0, t0) \in G
    BY <1>1, <1>5
  <1>7. Size(s0, t0) <= Size(s0, t0)
    BY <1>6
  <1>8. QED
    BY <1>6, <1>7 DEF G

Passes(path, x) == \E i \in DOMAIN path : path[i] = x

\* What has not been done by both alike has been found by way of x.
LEMMA RouteThrough ==
    ASSUME NEW blocked, NEW start \in Positions \ blocked, NEW goal \in Positions, NEW x,
           x # start, NEW s, NEW t, NEW D, Alike(s, t, D, x, blocked, start, goal),
           NEW n \in Nat, NEW c \in Done(s, goal) \ D, s.best[c] <= n
    PROVE  Passes(Reconstruct(s.parent, start)[n][c], x)
  <1> DEFINE route == Reconstruct(s.parent, start)
             Through(p) == \E i \in DOMAIN p : p[i] = x
             G == {k \in Nat : \A d \in Done(s, goal) \ D :
                        s.best[d] <= k => Through(route[k][d])}
  <1>1. /\ AStarInv(s, blocked, start, goal)
        /\ s.best \in [Positions -> 0 .. Inf] /\ s.parent \in [Positions -> Positions]
        /\ \A d \in Positions : s.best[d] < Inf /\ d # start => s.best[s.parent[d]] < s.best[d]
    BY DEF Alike, Tidy, AStarInv, Searches
  <1>2. /\ \A d \in Positions : s.best[d] \in Nat
        /\ \A d \in Done(s, goal) : d \in Positions /\ s.best[d] < Inf
    BY <1>1, InfIsPositive DEF Done
  <1>3. \A d \in Done(s, goal) \ D :
            d = x \/ (d # start /\ s.parent[d] \in Done(s, goal) \ D)
    BY DEF Alike
  <1>4. \A k \in Nat, d \in Positions :
            route[k][d] = IF k = 0 \/ d = start THEN <<d>>
                          ELSE Append(route[k - 1][s.parent[d]], d)
    BY <1>1, ReconstructIsDefined
  <1>5. ASSUME NEW k \in Nat, NEW d \in Positions, s.best[d] < Inf, s.best[d] <= k
        PROVE  route[k][d] \in Seq(Positions) /\ Len(route[k][d]) \in Nat \ {0}
               /\ route[k][d][Len(route[k][d])] = d
    <2>1. Walk(route[k][d], start, d, blocked)
      BY <1>1, <1>5, RouteIsWalk
    <2> HIDE DEF route
    <2>2. QED
      BY <2>1 DEF Walk, ValidPath
  <1> HIDE DEF route
  <1>6. ASSUME NEW k \in Nat, k = 0 \/ k - 1 \in G PROVE k \in G
    <2>1. SUFFICES ASSUME NEW d \in Done(s, goal) \ D, s.best[d] <= k
                   PROVE  Through(route[k][d])
      OBVIOUS
    <2>2. d \in Positions /\ s.best[d] < Inf /\ s.best[d] \in Nat
      BY <1>2
    <2>3. CASE d = x
      <3>1. /\ route[k][d] \in Seq(Positions) /\ Len(route[k][d]) \in Nat \ {0}
            /\ route[k][d][Len(route[k][d])] = x
        BY <1>5, <2>1, <2>2, <2>3
      <3>2. QED
        BY <3>1
    <2>4. CASE d # x
      <3> DEFINE e == s.parent[d]
      <3>1. d # start /\ e \in Done(s, goal) \ D
        BY <1>3, <2>4
      <3>2. /\ s.best[e] < s.best[d] /\ s.best[e] \in Nat /\ e \in Positions
            /\ s.best[e] < Inf
        BY <1>1, <1>2, <2>2, <3>1
      <3> HIDE DEF e
      <3>3. k # 0 /\ k - 1 \in Nat /\ k - 1 \in G /\ s.best[e] <= k - 1
        BY <1>6, <2>1, <2>2, <3>2
      <3>4. PICK i \in DOMAIN route[k - 1][e] : route[k - 1][e][i] = x
        BY <3>1, <3>3
      <3>5. route[k - 1][e] \in Seq(Positions)
        BY <1>5, <3>2, <3>3
      <3>6. route[k][d] = Append(route[k - 1][e], d)
        BY <1>4, <2>2, <3>1, <3>3 DEF e
      <3>7. i \in DOMAIN route[k][d] /\ route[k][d][i] = x
        BY <3>4, <3>5, <3>6
      <3>8. QED
        BY <3>7
    <2>5. QED
      BY <2>3, <2>4
  <1> HIDE DEF G
  <1>7. 0 \in G
    BY <1>6
  <1>8. ASSUME NEW k \in Nat, k \in G PROVE k + 1 \in G
    <2>1. k + 1 \in Nat /\ (k + 1) - 1 = k
      OBVIOUS
    <2>2. QED
      BY <1>6, <1>8, <2>1
  <1>9. \A k \in Nat : k \in G
    BY <1>7, <1>8, InductionInSet
  <1>10. Through(route[n][c])
    BY <1>9 DEF G
  <1>11. QED
    BY <1>10 DEF route, Passes

\* What has been done by both alike has the same way back.
LEMMA RouteIsSame ==
    ASSUME NEW blocked, NEW start \in Positions, NEW goal \in Positions, NEW x,
           NEW s, NEW t, NEW D, Alike(s, t, D, x, blocked, start, goal),
           s.best[goal] < Inf, Clear(s, D, x, start, goal)
    PROVE  \A n \in Nat :
                Reconstruct(s.parent, start)[n][goal] = Reconstruct(t.parent, start)[n][goal]
  <1> DEFINE route == Reconstruct(s.parent, start)
             other == Reconstruct(t.parent, start)
             C == D \cup {goal}
             G == {n \in Nat : \A c \in C : route[n][c] = other[n][c]}
  <1>1. /\ s.parent \in [Positions -> Positions] /\ t.parent \in [Positions -> Positions]
        /\ goal \notin Done(s, goal)
    BY DEF Alike, Tidy, AStarInv, Searches, Done
  <1>2. \A n \in Nat, c \in Positions :
            route[n][c] = IF n = 0 \/ c = start THEN <<c>>
                          ELSE Append(route[n - 1][s.parent[c]], c)
    BY <1>1, ReconstructIsDefined
  <1>3. \A n \in Nat, c \in Positions :
            other[n][c] = IF n = 0 \/ c = start THEN <<c>>
                          ELSE Append(other[n - 1][t.parent[c]], c)
    BY <1>1, ReconstructIsDefined
  <1> HIDE DEF route, other
  <1>4. \A c \in C : /\ c \in Positions /\ s.parent[c] = t.parent[c]
                     /\ c = start \/ s.parent[c] \in C
    <2>1. /\ \A c \in D : c \in Positions /\ s.parent[c] = t.parent[c]
                          /\ (c = start \/ s.parent[c] \in D)
      BY DEF Alike, Done
    <2>2. s.parent[goal] = t.parent[goal] /\ (goal = start \/ s.parent[goal] \in D)
      BY <1>1 DEF Alike, Clear
    <2>3. QED
      BY <2>1, <2>2
  <1> HIDE DEF C
  <1>5. 0 \in G
    <2>1. \A c \in C : route[0][c] = <<c>> /\ other[0][c] = <<c>>
      BY <1>3, <1>2, <1>4
    <2>2. QED
      BY <2>1
  <1>6. ASSUME NEW n \in Nat, n \in G PROVE n + 1 \in G
    <2>1. n + 1 \in Nat /\ n + 1 # 0 /\ (n + 1) - 1 = n
      OBVIOUS
    <2>2. SUFFICES ASSUME NEW c \in C PROVE route[n + 1][c] = other[n + 1][c]
      BY <2>1
    <2>3. CASE c = start
      BY <1>3, <1>2, <1>4, <2>1, <2>3
    <2>4. CASE c # start
      <3>1. route[n][s.parent[c]] = other[n][s.parent[c]]
        BY <1>4, <1>6, <2>4
      <3>2. c \in Positions
        BY <1>4
      <3>3. /\ route[n + 1][c] = Append(route[n][s.parent[c]], c)
            /\ other[n + 1][c] = Append(other[n][t.parent[c]], c)
        BY <1>3, <1>2, <2>1, <2>4, <3>2
      <3>4. QED
        BY <1>4, <3>1, <3>3
    <2>5. QED
      BY <2>3, <2>4
  <1>7. \A n \in Nat : n \in G
    <2> HIDE DEF G
    <2>1. QED
      BY <1>5, <1>6, InductionInSet
  <1>8. goal \in C
    BY DEF C
  <1>9. \A n \in Nat : route[n][goal] = other[n][goal]
    BY <1>7, <1>8
  <1>10. QED
    BY <1>9 DEF route, other

\* Blocking a cell off the path A* returns does not change what it returns, not
\* even among paths of equal length: what BlockedPath of the repair planners
\* compares the path with differs from it only for a cell of the path.
THEOREM OffPathIsIrrelevant ==
    ASSUME NEW blocked, NEW start \in Positions, NEW goal \in Positions, NEW x,
           ~Passes(AStarPath(blocked, start, goal), x)
    PROVE  AStarPath(blocked \cup {x}, start, goal) = AStarPath(blocked, start, goal)
  <1> DEFINE B == blocked \cup {x}
             path == AStarPath(blocked, start, goal)
             other == AStarPath(B, start, goal)
             first == FirstSearch(start, goal)
  <1>1. \A i \in DOMAIN path : path[i] # x
    BY DEF Passes
  <1>2. BestPath(path, start, goal, blocked) /\ BestPath(other, start, goal, B)
    BY AStarIsShortest
  <1>3. {start, goal} \cap blocked = {} /\ start # goal =>
            path = PathOf(LastOf(first, blocked, goal), start, goal)
    BY DEF AStarPath, LastOf
  <1>4. {start, goal} \cap B = {} /\ start # goal =>
            other = PathOf(LastOf(first, B, goal), start, goal)
    BY DEF AStarPath, LastOf
  <1>5. /\ {start, goal} \cap blocked # {} => path = <<>>
        /\ {start, goal} \cap B # {} => other = <<>>
        /\ {start, goal} \cap blocked = {} /\ start = goal => path = <<start>>
        /\ {start, goal} \cap B = {} /\ start = goal => other = <<start>>
    BY DEF AStarPath
  <1> HIDE DEF path, other
  <1>6. CASE path = <<>>
    <2>1. SUFFICES ASSUME other # <<>> PROVE FALSE
      BY <1>6 DEF path, other
    <2>2. Walk(other, start, goal, B) /\ Len(other) <= Inf
      BY <1>2, <2>1 DEF BestPath
    <2>3. Walk(other, start, goal, blocked)
      BY <2>2 DEF Walk, ValidPath
    <2>4. QED
      BY <1>2, <1>6, <2>2, <2>3 DEF BestPath
  <1>7. CASE path # <<>>
    <2>1. path \in Seq(Positions) /\ path[1] = start /\ path[Len(path)] = goal
      BY <1>2, <1>7 DEF BestPath, Walk, ValidPath
    <2>2. x # start /\ x # goal
      <3>1. 1 \in DOMAIN path /\ Len(path) \in DOMAIN path
        BY <1>7, <2>1
      <3>2. QED
        BY <1>1, <2>1, <3>1
    <2>3. {start, goal} \cap blocked = {} /\ {start, goal} \cap B = {}
      BY <1>5, <1>7, <2>2
    <2>4. CASE start = goal
      BY <1>5, <2>3, <2>4 DEF path, other
    <2>5. CASE start # goal
      <3>1. Alike(first, first, {}, x, blocked, start, goal)
        BY <2>5, FirstAlike
      <3> HIDE DEF first
      <3>2. EndAlike(first, first, x, blocked, start, goal)
        BY <3>1, AlikeAtEnd
      <3>3. PICK s, t, D :
                /\ Alike(s, t, D, x, blocked, start, goal)
                /\ Ended(s, goal) /\ LastOf(first, blocked, goal) = s
                /\ s.heap # {} /\ Clear(s, D, x, start, goal) =>
                        /\ Ended(t, goal) /\ t.heap # {}
                        /\ LastOf(first, blocked \cup {x}, goal) = t
        BY <3>2 DEF EndAlike
      <3>4. s.heap # {} /\ path = Reconstruct(s.parent, start)[Inf][goal]
        BY <1>3, <1>7, <2>3, <2>5, <3>3 DEF PathOf
      <3>5. Tidy(s, blocked, start, goal) /\ AStarInv(s, blocked, start, goal)
        BY <3>3 DEF Alike, Tidy
      <3>6. s.best[goal] < Inf
        <4>1. /\ s.heap \in SUBSET (Nat \X Nat \X Nat \X (0 .. Rows - 1) \X (0 .. Cols - 1))
          BY <3>5 DEF AStarInv, Searches
        <4>2. Least(s.heap) \in s.heap
          BY <3>4, <4>1, TopOfHeap
        <4>3. Least(s.heap)[3] = s.best[goal]
          BY <3>3, <3>4 DEF Ended, Current
        <4>4. QED
          BY <3>5, <4>2, <4>3 DEF AStarInv
      <3>7. Clear(s, D, x, start, goal)
        <4> DEFINE c == s.parent[goal]
        <4>1. SUFFICES ASSUME c \notin D PROVE FALSE
          BY <2>2 DEF Clear
        <4>2. c \in Done(s, goal) \ D
          BY <2>5, <3>5, <3>6, <4>1 DEF Tidy
        <4>3. /\ s.parent \in [Positions -> Positions] /\ s.best \in [Positions -> 0 .. Inf]
              /\ c \in Positions /\ s.best[c] < s.best[goal]
          BY <2>5, <3>5, <3>6 DEF AStarInv, Searches
        <4>4. /\ Inf \in Nat /\ Inf # 0 /\ Inf - 1 \in Nat /\ s.best[c] <= Inf - 1
              /\ s.best[c] < Inf
          BY <3>6, <4>3, InfIsPositive
        <4>5. start \in Positions \ blocked
          BY <2>3
        <4> DEFINE route == Reconstruct(s.parent, start)
        <4> HIDE DEF c
        <4> HIDE DEF route
        <4>6. Alike(s, t, D, x, blocked, start, goal) /\ x # start
          BY <2>2, <3>3
        <4>7. Passes(route[Inf - 1][c], x)
          <5> DEFINE m == Inf - 1
          <5>1. m \in Nat /\ s.best[c] <= m
            BY <4>4
          <5> HIDE DEF m
          <5>2. Passes(Reconstruct(s.parent, start)[m][c], x)
            BY <4>6, <4>2, <4>5, <5>1, RouteThrough
          <5>3. QED
            BY <5>2 DEF m, route
        <4>8. PICK i \in DOMAIN route[Inf - 1][c] : route[Inf - 1][c][i] = x
          BY <4>7 DEF Passes
        <4>9. Walk(route[Inf - 1][c], start, c, blocked)
          BY <3>5, <4>3, <4>4, <4>5, RouteIsWalk DEF route
        <4>10. route[Inf][goal] = Append(route[Inf - 1][c], goal)
          <5>1. \A n \in Nat, d \in Positions :
                    route[n][d] = IF n = 0 \/ d = start THEN <<d>>
                                  ELSE Append(route[n - 1][s.parent[d]], d)
            BY <4>3, ReconstructIsDefined DEF route
          <5>2. QED
            BY <2>5, <4>4, <5>1 DEF c
        <4>11. i \in DOMAIN route[Inf][goal] /\ route[Inf][goal][i] = x
          BY <4>8, <4>9, <4>10 DEF Walk
        <4>12. QED
          BY <1>1, <3>4, <4>11 DEF route
      <3>8. other = Reconstruct(t.parent, start)[Inf][goal]
        BY <1>4, <2>3, <2>5, <3>3, <3>4, <3>7 DEF PathOf
      <3>9. Reconstruct(s.parent, start)[Inf][goal] = Reconstruct(t.parent, start)[Inf][goal]
        BY <3>3, <3>6, <3>7, RouteIsSame, InfIsPositive
      <3>10. QED
        BY <3>4, <3>8, <3>9 DEF path, other
    <2>6. QED
      BY <2>4, <2>5
  <1>8. QED
    BY <1>6, <1>7

=============================================================================
