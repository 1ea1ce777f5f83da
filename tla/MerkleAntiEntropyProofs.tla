----------------------- MODULE MerkleAntiEntropyProofs -----------------------
(***************************************************************************)
(* Merkle anti-entropy, for every team, map, fanout, budget and delay: the *)
(* tree covers the map, branch by branch; MerkleInv is an invariant, so    *)
(* that no branch is lost; the policy implements MapSharing.               *)
(***************************************************************************)
EXTENDS MerkleAntiEntropy, DeltaDeliveryProofs

-----------------------------------------------------------------------------
\* Functions defined from above.

\* A rule for the value of a function at n that depends on its values above n
\* only has a solution on 1 .. N.
LooksAbove(rule, N, V) ==
    /\ rule \in [(1 .. N) \X [1 .. N -> V] -> V]
    /\ \A n \in 1 .. N : \A f, g \in [1 .. N -> V] :
           (\A k \in n + 1 .. N : f[k] = g[k]) => rule[<<n, f>>] = rule[<<n, g>>]

Solution(f, rule, N, V) ==
    f \in [1 .. N -> V] /\ \A n \in 1 .. N : f[n] = rule[<<n, f>>]

LEMMA DefinedFromAbove ==
    ASSUME NEW N \in Nat, NEW V, NEW rule, LooksAbove(rule, N, V), V # {}
    PROVE  \E f : Solution(f, rule, N, V)
  <1>a. /\ rule \in [(1 .. N) \X [1 .. N -> V] -> V]
        /\ \A n \in 1 .. N : \A f, g \in [1 .. N -> V] :
               (\A k \in n + 1 .. N : f[k] = g[k]) => rule[<<n, f>>] = rule[<<n, g>>]
    BY DEF LooksAbove
  <1> DEFINE Solves(f, j) == \A n \in 1 .. N : n > j => f[n] = rule[<<n, f>>]
             Solved == {j \in 0 .. N : \E f \in [1 .. N -> V] : Solves(f, j)}
  <1>1. N \in Solved
    <2>1. PICK v \in V : TRUE
      OBVIOUS
    <2>2. [n \in 1 .. N |-> v] \in [1 .. N -> V] /\ Solves([n \in 1 .. N |-> v], N)
      OBVIOUS
    <2>3. N \in 0 .. N
      OBVIOUS
    <2>4. \E f \in [1 .. N -> V] : Solves(f, N)
      BY <2>2
    <2>5. QED
      BY <2>3, <2>4
  <1>2. Solved \in SUBSET Nat /\ Solved # {}
    BY <1>1
  <1>3. PICK j \in Solved : \A k \in Solved : j <= k
    <2> HIDE DEF Solved
    <2>1. QED
      BY <1>2, LeastExists
  <1>4. PICK f \in [1 .. N -> V] : Solves(f, j)
    OBVIOUS
  <1>5. CASE j = 0
    <2>1. \A n \in 1 .. N : n > j
      BY <1>5
    <2>2. \A n \in 1 .. N : f[n] = rule[<<n, f>>]
      BY <1>4, <2>1
    <2>3. QED
      BY <1>4, <2>2 DEF Solution
  <1>6. CASE j # 0
    <2> DEFINE g == [f EXCEPT ![j] = rule[<<j, f>>]]
    <2>1. j \in 1 .. N /\ rule[<<j, f>>] \in V
      BY <1>6, <1>a
    <2>2. /\ g \in [1 .. N -> V] /\ g[j] = rule[<<j, f>>]
          /\ \A n \in 1 .. N : n # j => g[n] = f[n]
      BY <2>1
    <2> HIDE DEF g
    <2>3. ASSUME NEW n \in 1 .. N, n > j - 1 PROVE g[n] = rule[<<n, g>>]
      <3>1. \A k \in n + 1 .. N : k \in 1 .. N /\ k # j
        BY <2>1, <2>3
      <3>2. \A k \in n + 1 .. N : g[k] = f[k]
        BY <2>2, <3>1
      <3>3. rule[<<n, g>>] = rule[<<n, f>>]
        BY <1>a, <2>2, <3>2
      <3>4. CASE n = j
        BY <2>2, <3>3, <3>4
      <3>5. CASE n # j
        <4>1. n > j
          BY <2>1, <2>3, <3>5
        <4>2. f[n] = rule[<<n, f>>]
          BY <1>4, <4>1
        <4>3. QED
          BY <2>2, <3>3, <3>5, <4>2
      <3>6. QED
        BY <3>4, <3>5
    <2>4. j - 1 \in Solved
      <3>1. j - 1 \in 0 .. N
        BY <2>1
      <3>2. Solves(g, j - 1)
        BY <2>3
      <3>3. QED
        BY <2>2, <3>1, <3>2
    <2> HIDE DEF Solved
    <2>5. j <= j - 1
      BY <1>3, <2>4
    <2>6. QED
      BY <2>1, <2>5
  <1>7. QED
    BY <1>5, <1>6

\* Induction from above, for a set.
LEMMA AllFromAbove ==
    ASSUME NEW N \in Nat, NEW S,
           \A n \in 1 .. N : (\A k \in n + 1 .. N : k \in S) => n \in S
    PROVE  \A n \in 1 .. N : n \in S
  <1> DEFINE Missing == {d \in 0 .. N : d < N /\ N - d \notin S}
  <1>1. SUFFICES ASSUME NEW n \in 1 .. N, n \notin S PROVE FALSE
    OBVIOUS
  <1>2. N - (N - n) = n /\ N - n \in 0 .. N /\ N - n < N
    OBVIOUS
  <1>3. N - n \in Missing
    BY <1>1, <1>2
  <1>4. Missing \in SUBSET Nat /\ Missing # {}
    BY <1>3
  <1>5. PICK d \in Missing : \A e \in Missing : d <= e
    <2> HIDE DEF Missing
    <2>1. QED
      BY <1>4, LeastExists
  <1>6. \A k \in N - d + 1 .. N : k \in S
    <2>1. SUFFICES ASSUME NEW k \in N - d + 1 .. N, k \notin S PROVE FALSE
      OBVIOUS
    <2>2. N - (N - k) = k /\ N - k \in 0 .. N /\ N - k < N /\ N - k < d
      BY <1>5
    <2>3. N - k \in Missing
      BY <2>1, <2>2
    <2>4. QED
      BY <1>5, <2>2, <2>3
  <1>7. N - d \in 1 .. N
    BY <1>5
  <1>8. QED
    BY <1>5, <1>6, <1>7

-----------------------------------------------------------------------------
\* The tree.

\* The number of leaves: enough for every cell, and such that the nodes above
\* them have no child too few.  The product is what a complete tree has.
LEMMA GrownIsDefined ==
    /\ Grown \in [1 .. NumCells * Fanout -> Nat]
    /\ \A n \in 1 .. NumCells * Fanout :
           Grown[n] = IF n >= NumCells THEN n ELSE Grown[n * Fanout]
  <1> DEFINE N == NumCells * Fanout
             Value(n, f) == IF n >= NumCells THEN n ELSE f[n * Fanout]
             rule == [p \in (1 .. N) \X [1 .. N -> Nat] |-> Value(p[1], p[2])]
  <1>1. N \in Nat /\ NumCells \in Nat /\ Fanout \in Nat /\ Fanout >= 2
    BY LoopAssumption, MerkleAssumption
  <1>2. \A n \in 1 .. N : n < NumCells => n * Fanout \in n + 1 .. N
    <2>1. SUFFICES ASSUME NEW n \in 1 .. N, n < NumCells PROVE n * Fanout \in n + 1 .. N
      OBVIOUS
    <2>2. \A a, b, c \in Nat : a <= b => a * c <= b * c
      OBVIOUS
    <2>3. n * Fanout <= NumCells * Fanout /\ n * Fanout >= n * 2 /\ n * Fanout \in Nat
      <3>1. \A a, b, c \in Nat : a <= b => c * a <= c * b
        OBVIOUS
      <3>2. QED
        BY <1>1, <2>1, <2>2, <3>1
    <2>4. QED
      BY <1>1, <2>1, <2>3
  <1> HIDE DEF N
  <1>3. \A n \in 1 .. N : \A f \in [1 .. N -> Nat] : Value(n, f) \in Nat
    BY <1>1, <1>2
  <1>4. \A n \in 1 .. N : \A f, g \in [1 .. N -> Nat] :
            (\A k \in n + 1 .. N : f[k] = g[k]) => Value(n, f) = Value(n, g)
    BY <1>1, <1>2
  <1> HIDE DEF Value
  <1>5. rule \in [(1 .. N) \X [1 .. N -> Nat] -> Nat]
    BY <1>3
  <1>6. \A n \in 1 .. N : \A f \in [1 .. N -> Nat] : rule[<<n, f>>] = Value(n, f)
    OBVIOUS
  <1> HIDE DEF rule
  <1>7. PICK f \in [1 .. N -> Nat] : \A n \in 1 .. N : f[n] = rule[<<n, f>>]
    <2>1. ASSUME NEW n \in 1 .. N, NEW h \in [1 .. N -> Nat], NEW g \in [1 .. N -> Nat],
                 \A k \in n + 1 .. N : h[k] = g[k]
          PROVE  rule[<<n, h>>] = rule[<<n, g>>]
      <3>1. Value(n, h) = Value(n, g)
        BY <1>4, <2>1
      <3>2. QED
        BY <1>6, <3>1
    <2>2. N \in Nat /\ Nat # {}
      BY <1>1
    <2>3. LooksAbove(rule, N, Nat)
      BY <1>5, <2>1 DEF LooksAbove
    <2>4. \E f : Solution(f, rule, N, Nat)
      BY <2>2, <2>3, DefinedFromAbove
    <2>5. QED
      BY <2>4 DEF Solution
  <1>8. f = [n \in 1 .. N |-> Value(n, f)]
    BY <1>6, <1>7
  <1>9. Grown = CHOOSE g : g = [n \in 1 .. N |-> Value(n, g)]
    BY DEF Grown, Value, N
  <1>10. Grown = [n \in 1 .. N |-> Value(n, Grown)]
    BY <1>8, <1>9
  <1>11. \A n \in 1 .. N : Grown[n] = Value(n, Grown)
    BY <1>10
  <1>12. \A n \in 1 .. N : Grown[n] \in Nat
    <2> DEFINE S == {n \in 1 .. N : Grown[n] \in Nat}
    <2>1. ASSUME NEW n \in 1 .. N, \A k \in n + 1 .. N : k \in S PROVE n \in S
      <3>1. Value(n, Grown) \in Nat
        <4>1. CASE n >= NumCells
          BY <4>1 DEF Value
        <4>2. CASE ~(n >= NumCells)
          <5>1. n * Fanout \in n + 1 .. N
            BY <1>1, <1>2, <4>2
          <5>2. n * Fanout \in S
            BY <2>1, <5>1
          <5>3. Grown[n * Fanout] \in Nat
            BY <5>2
          <5>4. QED
            BY <4>2, <5>3 DEF Value
        <4>3. QED
          BY <4>1, <4>2
      <3>2. QED
        BY <1>11, <3>1
    <2> HIDE DEF S
    <2>2. \A n \in 1 .. N : n \in S
      BY <1>1, <2>1, AllFromAbove
    <2>3. QED
      BY <2>2 DEF S
  <1>13. Grown \in [1 .. N -> Nat]
    BY <1>10, <1>12
  <1>14. QED
    BY <1>11, <1>13 DEF Value, N

\* There are leaves for all cells, and i nodes above them with Fanout children
\* each: a complete tree has one leaf more than i * (Fanout - 1).
LEMMA TreeShape ==
    \E i \in Nat :
        /\ NumCells <= LeafCount
        /\ LeafCount = i * (Fanout - 1) + 1
        /\ LeafBase = i + 1
        /\ Nodes = 1 .. i * Fanout + 1
  <1> DEFINE N == NumCells * Fanout
             Full(n) == \E i \in Nat : n = i * (Fanout - 1) + 1
             S == {n \in 1 .. N : Full(n) => Grown[n] >= NumCells /\ Full(Grown[n])}
  <1>1. /\ NumCells \in Nat /\ NumCells >= 1
        /\ Fanout \in Nat /\ Fanout >= 2 /\ Fanout - 1 \in Nat \ {0}
    BY LoopAssumption, MerkleAssumption
  <1>2. N \in Nat /\ N >= NumCells /\ N >= 1
    <2>1. \A a, b, c \in Nat : a <= b => c * a <= c * b
      OBVIOUS
    <2>2. NumCells * 1 <= NumCells * Fanout
      BY <1>1, <2>1
    <2>3. QED
      BY <1>1, <2>2
  <1>3. \A n \in 1 .. N : n < NumCells => n * Fanout \in n + 1 .. N
    <2>1. SUFFICES ASSUME NEW n \in 1 .. N, n < NumCells PROVE n * Fanout \in n + 1 .. N
      OBVIOUS
    <2>2. \A a, b, c \in Nat : a <= b => a * c <= b * c
      OBVIOUS
    <2>3. \A a, b, c \in Nat : a <= b => c * a <= c * b
      OBVIOUS
    <2>4. n * Fanout <= NumCells * Fanout /\ n * 2 <= n * Fanout /\ n * Fanout \in Nat
      BY <1>1, <1>2, <2>1, <2>2, <2>3
    <2>5. QED
      BY <1>1, <2>1, <2>4
  <1>4. ASSUME NEW n \in 1 .. N, \A k \in n + 1 .. N : k \in S PROVE n \in S
    <2>1. SUFFICES ASSUME Full(n) PROVE Grown[n] >= NumCells /\ Full(Grown[n])
      OBVIOUS
    <2>2. CASE n >= NumCells
      <3>1. Grown[n] = n
        BY <2>2, GrownIsDefined
      <3>2. QED
        BY <2>1, <2>2, <3>1
    <2>3. CASE ~(n >= NumCells)
      <3>1. n * Fanout \in S
        BY <1>1, <1>2, <1>3, <1>4, <2>3
      <3>2. PICK i \in Nat : n = i * (Fanout - 1) + 1
        BY <2>1
      <3>3. n * Fanout = (i * Fanout + 1) * (Fanout - 1) + 1 /\ i * Fanout + 1 \in Nat
        <4>1. \A a, b \in Nat : (a * (b - 1) + 1) * b = (a * b + 1) * (b - 1) + 1
          OBVIOUS
        <4>2. QED
          BY <1>1, <3>2, <4>1
      <3>4. Full(n * Fanout)
        BY <3>3
      <3>5. Grown[n] = Grown[n * Fanout]
        BY <2>3, GrownIsDefined
      <3>6. QED
        BY <3>1, <3>4, <3>5
    <2>4. QED
      BY <2>2, <2>3
  <1>5. Full(1)
    <2>1. 1 = 0 * (Fanout - 1) + 1
      BY <1>1
    <2>2. QED
      BY <2>1
  <1>6. 1 \in S
    <2> HIDE DEF S
    <2>1. \A n \in 1 .. N : n \in S
      BY <1>2, <1>4, AllFromAbove
    <2>2. QED
      BY <1>2, <2>1
  <1>7. LeafCount >= NumCells /\ Full(LeafCount)
    BY <1>5, <1>6 DEF LeafCount
  <1>8. PICK i \in Nat : LeafCount = i * (Fanout - 1) + 1
    BY <1>7
  <1>9. LeafBase = i + 1
    <2> DEFINE F == Fanout - 1
    <2>1. F \in Nat /\ F >= 1
      BY <1>1
    <2> HIDE DEF F
    <2>2. i * F \in Nat
      BY <2>1
    <2>3. (i * F) \div F = i
      BY <2>1
    <2>4. LeafCount - 1 = i * F
      <3>1. LeafCount = i * F + 1
        BY <1>8 DEF F
      <3>2. QED
        BY <2>2, <3>1
    <2>5. LeafBase = (LeafCount - 1) \div F + 1
      BY DEF LeafBase, F
    <2>6. QED
      BY <2>3, <2>4, <2>5
  <1>10. LeafBase + LeafCount - 1 = i * Fanout + 1
    <2>1. \A a, b \in Nat : (a + 1) + (a * (b - 1) + 1) - 1 = a * b + 1
      OBVIOUS
    <2>2. QED
      BY <1>1, <1>8, <1>9, <2>1
  <1>11. QED
    BY <1>1, <1>7, <1>8, <1>9, <1>10 DEF Nodes

\* The nodes of the tree: leaves come last, one for every cell; the children of
\* another node follow it; every node but the root has a parent.
LEMMA ChildrenFollow ==
    ASSUME NEW n \in Nodes, ~IsLeaf(n)
    PROVE  Children(n) \subseteq Nodes /\ \A k \in Children(n) : k > n
  <1>1. PICK i \in Nat : LeafBase = i + 1 /\ Nodes = 1 .. i * Fanout + 1
    BY TreeShape
  <1>2. Fanout \in Nat /\ Fanout >= 2
    BY MerkleAssumption
  <1>3. n \in Nat /\ n >= 1 /\ n <= i
    BY <1>1, <1>2 DEF IsLeaf
  <1>4. /\ Fanout * (n - 1) \in Nat
        /\ Fanout * (n - 1) + 1 + Fanout <= i * Fanout + 1
        /\ 2 * (n - 1) <= Fanout * (n - 1)
    <2>1. \A a, b, c \in Nat : a <= b => c * a <= c * b /\ a * c <= b * c
      OBVIOUS
    <2>2. \A a, b \in Nat : a >= 1 => b * (a - 1) + b = b * a
      OBVIOUS
    <2>3. Fanout * n <= Fanout * i /\ Fanout * i = i * Fanout
      BY <1>2, <1>3, <2>1
    <2>4. Fanout * (n - 1) + Fanout = Fanout * n
      BY <1>2, <1>3, <2>2
    <2>5. n - 1 \in Nat
      BY <1>3
    <2>6. Fanout * (n - 1) \in Nat /\ 2 * (n - 1) <= Fanout * (n - 1)
      BY <1>2, <2>1, <2>5
    <2>7. Fanout * n \in Nat /\ i * Fanout \in Nat
      BY <1>2, <1>3
    <2>8. QED
      BY <1>2, <2>3, <2>4, <2>6, <2>7
  <1>5. \A k \in Children(n) : k \in Nat /\ k > n /\ k <= i * Fanout + 1
    <2> DEFINE P == Fanout * (n - 1)
    <2>1. P \in Nat /\ P + 1 + Fanout <= i * Fanout + 1 /\ 2 * (n - 1) <= P
      BY <1>4
    <2>2. i * Fanout \in Nat
      BY <1>2
    <2>3. Children(n) = P + 2 .. P + 1 + Fanout
      BY DEF Children
    <2> HIDE DEF P
    <2>4. QED
      BY <1>2, <1>3, <2>1, <2>2, <2>3
  <1>6. QED
    BY <1>1, <1>2, <1>3, <1>5

LEMMA LeavesOfCells ==
    ASSUME NEW c \in Cells
    PROVE  LeafNode(c) \in Nodes /\ IsLeaf(LeafNode(c)) /\ 1 \in Nodes
  <1>1. PICK i \in Nat :
            /\ LeafBase = i + 1 /\ Nodes = 1 .. i * Fanout + 1
            /\ NumCells <= LeafCount /\ LeafCount = i * (Fanout - 1) + 1
    BY TreeShape
  <1>2. Fanout \in Nat /\ Fanout >= 2
    BY MerkleAssumption
  <1>3. NumCells \in Nat /\ c \in Nat /\ c >= 1 /\ c <= NumCells
    BY LoopAssumption DEF Cells
  <1>4. i * Fanout = i * (Fanout - 1) + i /\ i * (Fanout - 1) \in Nat
    <2>1. \A a, b \in Nat : b >= 1 => a * b = a * (b - 1) + a /\ a * (b - 1) \in Nat
      OBVIOUS
    <2>2. QED
      BY <1>2, <2>1
  <1>5. LeafNode(c) = i + c
    BY <1>1, <1>3 DEF LeafNode
  <1>6. QED
    BY <1>1, <1>3, <1>4, <1>5 DEF IsLeaf

LEMMA ParentExists ==
    ASSUME NEW k \in Nodes, k # 1
    PROVE  \E n \in Nodes : ~IsLeaf(n) /\ n < k /\ k \in Children(n)
  <1>1. PICK i \in Nat : LeafBase = i + 1 /\ Nodes = 1 .. i * Fanout + 1
    BY TreeShape
  <1>2. Fanout \in Nat \ {0} /\ Fanout >= 2 /\ i * Fanout \in Nat
    BY MerkleAssumption
  <1>3. k \in Nat /\ k - 2 \in Nat /\ k <= i * Fanout + 1
    BY <1>1, <1>2
  <1> DEFINE d == (k - 2) \div Fanout
  <1>4. d \in Nat /\ Fanout * d <= k - 2 /\ k - 2 < Fanout * d + Fanout
    BY <1>2, <1>3, Division
  <1> HIDE DEF d
  <1>5. d < i
    <2>1. SUFFICES ASSUME d >= i PROVE FALSE
      BY <1>4
    <2>2. \A a, b, c \in Nat : a <= b => a * c <= c * b
      OBVIOUS
    <2>3. i * Fanout <= Fanout * d /\ Fanout * d \in Nat
      BY <1>2, <1>4, <2>1, <2>2
    <2>4. \A a, b, h \in Nat : a <= b /\ b <= h - 2 /\ h <= a + 1 => FALSE
      OBVIOUS
    <2>5. QED
      BY <1>2, <1>3, <1>4, <2>3, <2>4
  <1>6. i <= i * Fanout /\ d <= Fanout * d /\ Fanout * d \in Nat
    <2>1. \A a, b \in Nat : b >= 1 => a <= a * b /\ a <= b * a
      OBVIOUS
    <2>2. QED
      BY <1>2, <1>4, <2>1
  <1>7. d + 1 \in Nodes /\ ~IsLeaf(d + 1) /\ d + 1 < k
    BY <1>1, <1>2, <1>3, <1>4, <1>5, <1>6 DEF IsLeaf
  <1>8. k \in Children(d + 1)
    <2>1. (d + 1) - 1 = d
      BY <1>4
    <2>2. Children(d + 1) = Fanout * d + 2 .. Fanout * d + 1 + Fanout
      BY <2>1 DEF Children
    <2>3. \A a, b \in Nat : a <= k - 2 /\ k - 2 < a + b => k \in a + 2 .. a + 1 + b
      BY <1>3
    <2>4. QED
      BY <1>2, <1>4, <1>6, <2>2, <2>3
  <1>9. QED
    BY <1>7, <1>8

\* The cells below a node: one or none below a leaf, those of all children
\* otherwise.
LEMMA BelowIsDefined ==
    /\ Below \in [Nodes -> SUBSET Cells]
    /\ \A n \in Nodes :
           Below[n] = IF IsLeaf(n) THEN {c \in Cells : LeafNode(c) = n}
                      ELSE UNION {Below[k] : k \in Children(n)}
  <1>1. PICK i \in Nat : Nodes = 1 .. i * Fanout + 1
    BY TreeShape
  <1> DEFINE N == i * Fanout + 1
             V == SUBSET Cells
             Value(n, f) == IF IsLeaf(n) THEN {c \in Cells : LeafNode(c) = n}
                            ELSE UNION {f[k] : k \in Children(n)}
             rule == [p \in (1 .. N) \X [1 .. N -> V] |-> Value(p[1], p[2])]
  <1>2. N \in Nat /\ Nodes = 1 .. N
    BY <1>1, MerkleAssumption
  <1> HIDE DEF N
  <1>3. \A n \in 1 .. N : ~IsLeaf(n) => Children(n) \subseteq n + 1 .. N
    <2>1. ASSUME NEW n \in 1 .. N, ~IsLeaf(n), NEW k \in Children(n) PROVE k \in n + 1 .. N
      <3>1. k \in 1 .. N /\ k > n
        BY <1>2, <2>1, ChildrenFollow
      <3>2. QED
        BY <1>2, <3>1
    <2>2. QED
      BY <2>1
  <1>4. ASSUME NEW n \in 1 .. N, NEW f \in [1 .. N -> V] PROVE Value(n, f) \in V
    <2>1. CASE IsLeaf(n)
      BY <2>1
    <2>2. CASE ~IsLeaf(n)
      <3>1. \A k \in Children(n) : k \in 1 .. N
        BY <1>2, <2>2, ChildrenFollow
      <3>2. \A k \in Children(n) : f[k] \subseteq Cells
        BY <3>1
      <3>3. QED
        BY <2>2, <3>2
    <2>3. QED
      BY <2>1, <2>2
  <1>5. ASSUME NEW n \in 1 .. N, NEW f \in [1 .. N -> V], NEW g \in [1 .. N -> V],
               \A k \in n + 1 .. N : f[k] = g[k]
        PROVE  Value(n, f) = Value(n, g)
    <2>1. CASE IsLeaf(n)
      BY <2>1
    <2>2. CASE ~IsLeaf(n)
      <3>1. \A k \in Children(n) : f[k] = g[k]
        BY <1>3, <1>5, <2>2
      <3>2. {f[k] : k \in Children(n)} = {g[k] : k \in Children(n)}
        BY <3>1
      <3>3. QED
        BY <2>2, <3>2
    <2>3. QED
      BY <2>1, <2>2
  <1> HIDE DEF V, Value
  <1>6. rule \in [(1 .. N) \X [1 .. N -> V] -> V]
    BY <1>4
  <1>7. \A n \in 1 .. N : \A f \in [1 .. N -> V] : rule[<<n, f>>] = Value(n, f)
    OBVIOUS
  <1> HIDE DEF rule
  <1>8. PICK f : f \in [1 .. N -> V] /\ \A n \in 1 .. N : f[n] = rule[<<n, f>>]
    <2>1. ASSUME NEW n \in 1 .. N, NEW h \in [1 .. N -> V], NEW g \in [1 .. N -> V],
                 \A k \in n + 1 .. N : h[k] = g[k]
          PROVE  rule[<<n, h>>] = rule[<<n, g>>]
      <3>1. Value(n, h) = Value(n, g)
        BY <1>5, <2>1
      <3>2. QED
        BY <1>7, <3>1
    <2>2. LooksAbove(rule, N, V)
      BY <1>6, <2>1 DEF LooksAbove
    <2>3. V # {}
      BY DEF V
    <2>4. \E f : Solution(f, rule, N, V)
      BY <1>2, <2>2, <2>3, DefinedFromAbove
    <2>5. QED
      BY <2>4 DEF Solution
  <1>9. f = [n \in 1 .. N |-> Value(n, f)]
    BY <1>7, <1>8
  <1>10. Below = CHOOSE g : g = [n \in 1 .. N |-> Value(n, g)]
    BY <1>2 DEF Below, Value
  <1>11. Below = [n \in 1 .. N |-> Value(n, Below)]
    BY <1>9, <1>10
  <1>12. \A n \in 1 .. N : Below[n] = Value(n, Below)
    BY <1>11
  <1>13. \A n \in 1 .. N : Below[n] \subseteq Cells
    <2> DEFINE S == {n \in 1 .. N : Below[n] \subseteq Cells}
    <2>1. ASSUME NEW n \in 1 .. N, \A k \in n + 1 .. N : k \in S PROVE n \in S
      <3>1. Value(n, Below) \subseteq Cells
        <4>1. CASE IsLeaf(n)
          BY <4>1 DEF Value
        <4>2. CASE ~IsLeaf(n)
          <5>1. \A k \in Children(n) : Below[k] \subseteq Cells
            BY <1>3, <2>1, <4>2
          <5>2. QED
            BY <4>2, <5>1 DEF Value
        <4>3. QED
          BY <4>1, <4>2
      <3>2. QED
        BY <1>12, <3>1
    <2> HIDE DEF S
    <2>2. \A n \in 1 .. N : n \in S
      BY <1>2, <2>1, AllFromAbove
    <2>3. QED
      BY <2>2 DEF S
  <1>14. Below \in [Nodes -> SUBSET Cells]
    BY <1>2, <1>11, <1>13
  <1>15. QED
    BY <1>2, <1>12, <1>14 DEF Value

LEMMA LeafBelow ==
    ASSUME NEW c \in Cells
    PROVE  Below[LeafNode(c)] = {c}
  <1>1. LeafNode(c) \in Nodes /\ IsLeaf(LeafNode(c))
    BY LeavesOfCells
  <1>2. \A b \in Cells : LeafNode(b) = LeafNode(c) => b = c
    <2>1. LeafBase \in Nat
      BY TreeShape
    <2>2. c \in Nat /\ \A b \in Cells : b \in Nat
      BY LoopAssumption DEF Cells
    <2>3. QED
      BY <2>1, <2>2 DEF LeafNode
  <1>3. Below[LeafNode(c)] = {b \in Cells : LeafNode(b) = LeafNode(c)}
    BY <1>1, BelowIsDefined
  <1>4. QED
    BY <1>2, <1>3

LEMMA BranchBelow ==
    ASSUME NEW n \in Nodes, ~IsLeaf(n), NEW c \in Below[n]
    PROVE  \E k \in Children(n) : c \in Below[k]
  <1>1. Below[n] = UNION {Below[k] : k \in Children(n)}
    BY BelowIsDefined
  <1>2. QED
    BY <1>1

\* The root covers every cell.
LEMMA RootCovers ==
    1 \in Nodes /\ Below[1] = Cells
  <1>1. 1 \in Cells
    BY LoopAssumption DEF Cells
  <1>2. 1 \in Nodes
    BY <1>1, LeavesOfCells
  <1>3. ASSUME NEW c \in Cells PROVE c \in Below[1]
    <2> DEFINE Over == {n \in Nodes : c \in Below[n]}
    <2>1. LeafNode(c) \in Over
      BY LeafBelow, LeavesOfCells
    <2>2. Over \in SUBSET Nat /\ Over # {}
      BY <2>1, TreeShape
    <2>3. PICK m \in Over : \A n \in Over : m <= n
      <3> HIDE DEF Over
      <3>1. QED
        BY <2>2, LeastExists
    <2>4. m = 1
      <3>1. SUFFICES ASSUME m # 1 PROVE FALSE
        OBVIOUS
      <3>2. PICK n \in Nodes : ~IsLeaf(n) /\ n < m /\ m \in Children(n)
        BY <3>1, ParentExists
      <3>3. Below[n] = UNION {Below[k] : k \in Children(n)}
        BY <3>2, BelowIsDefined
      <3>4. n \in Over
        BY <3>2, <3>3
      <3> HIDE DEF Over
      <3>5. n \in Nat /\ m \in Nat /\ m <= n
        BY <2>2, <2>3, <3>4
      <3>6. QED
        BY <3>2, <3>5
    <2>5. QED
      BY <2>4
  <1>4. Below[1] \subseteq Cells
    BY <1>2, BelowIsDefined
  <1>5. QED
    BY <1>2, <1>3, <1>4

-----------------------------------------------------------------------------
\* What the invariant says, spelled out.

LEMMA MerkleTypes ==
    ASSUME MerkleInv
    PROVE  /\ LoopTypeOK /\ HonestReports /\ OutboxHonest
           /\ step \in Nat /\ phase \in Phases /\ turn \in Robots
           /\ beliefs \in [Robots -> [Cells -> Stamp]] /\ emitted \subseteq Update
           /\ data \in [Robots -> 0 .. DataCap] /\ control \in [Robots -> 0 .. ControlCap]
           /\ policy = "one_shot" /\ probing \in BOOLEAN /\ asked \subseteq Robots
           /\ pending \in [Robots -> [Robots -> SUBSET Nodes]]
           /\ compared \in [Robots -> [Robots -> [Cells -> Stamp]]]
           /\ QueueOK(net, SoundPackets)
  BY DEF MerkleInv, MerkleTypeOK, LoopTypeOK, ComparedIsKnown

\* Packets whose hashes are of the cells below the node they name.
Shaped ==
    {m \in Packet \cup MerklePacket :
        m.kind \in {"probe", "children"} => m.digest \in [Below[m.node] -> Stamp]}

LEMMA PacketShapes ==
    /\ SoundPackets \subseteq Shaped
    /\ \A m \in Shaped :
        /\ m.wait \in Nat /\ m.from \in Robots /\ m.to \in Robots
        /\ m.kind \in {"delta", "ack", "probe", "children", "match", "patch"}
        /\ m.kind \in {"delta", "patch"} => m.update \in Update
        /\ m.kind \in {"probe", "children", "match"} =>
               m.node \in Nodes /\ Below[m.node] \subseteq Cells
        /\ m.kind \in {"probe", "children"} => m.digest \in [Below[m.node] -> Stamp]
  <1>1. \A m \in Packet : /\ m.wait \in Nat /\ m.from \in Robots /\ m.to \in Robots
                          /\ m.kind \in {"delta", "ack"} /\ m.update \in Update
    BY DEF Packet
  <1>2. \A m \in MerklePacket :
            /\ m.wait \in Nat /\ m.from \in Robots /\ m.to \in Robots
            /\ m.kind \in {"probe", "children", "match", "patch"}
            /\ m.kind = "patch" => m.update \in Update
            /\ m.kind \in {"probe", "children", "match"} => m.node \in Nodes
    BY DEF MerklePacket
  <1>3. \A n \in Nodes : Below[n] \subseteq Cells
    BY BelowIsDefined
  <1>4. QED
    BY <1>1, <1>2, <1>3 DEF SoundPackets, SoundDigest, Shaped

\* A step that moves replicas forward keeps packets sound.
LEMMA MerklePacketsStaySound ==
    ASSUME MerkleInv, Grows, emitted \subseteq emitted',
           beliefs' \in [Robots -> [Cells -> Stamp]]
    PROVE  SoundPackets \subseteq SoundPackets'
  <1>1. SUFFICES ASSUME NEW m \in SoundPackets PROVE m \in SoundPackets'
    OBVIOUS
  <1>2. m \in Shaped /\ m.from \in Robots
    BY PacketShapes
  <1>3. CASE m.kind \in {"probe", "children"}
    <2>1. SoundDigest(m)
      BY <1>3 DEF SoundPackets
    <2>2. ASSUME NEW c \in Below[m.node] PROVE AtLeast(beliefs'[m.from][c], m.digest[c])
      <3>1. c \in Cells /\ m.digest[c] \in Stamp
        BY <1>2, <1>3, PacketShapes
      <3>2. AtLeast(beliefs[m.from][c], m.digest[c])
        BY <2>1 DEF SoundDigest
      <3>3. QED
        BY <1>2, <3>1, <3>2, StillKnown, MerkleTypes
    <2>3. SoundDigest(m)'
      BY <2>1, <2>2 DEF SoundDigest
    <2>4. QED
      BY <1>3, <2>3 DEF SoundPackets
  <1>4. CASE m.kind \notin {"probe", "children"}
    BY <1>4 DEF SoundPackets
  <1>5. QED
    BY <1>3, <1>4

LEMMA MerkleQuiet ==
    ASSUME MerkleInv, UNCHANGED <<beliefs, emitted, policy, outbox>>
    PROVE  /\ HonestReports' /\ OutboxHonest' /\ policy' = "one_shot"
           /\ SoundPackets' = SoundPackets
  <1>1. SoundPackets' = SoundPackets
    BY DEF SoundPackets, SoundDigest
  <1>2. HonestReports' /\ OutboxHonest'
    BY MerkleTypes DEF HonestReports, Legitimate, OutboxHonest
  <1>3. QED
    BY <1>1, <1>2, MerkleTypes

-----------------------------------------------------------------------------
\* The order of answers in a queue q, for replicas b and comparisons k.

BroughtTo(m, c, b) ==
    IF m.kind = "patch" THEN m.update.stamp
    ELSE IF m.kind = "children" THEN m.digest[c] ELSE b[m.to][c]

UpToDate(m, b, k) ==
    \A c \in Settles(m) : AtLeast(BroughtTo(m, c, b), k[m.to][m.from][c])

NotOlder(a, m, b) ==
    \A c \in Settles(m) :
        (a.kind = "children" /\ c \in Below[a.node] /\ a.from = m.from /\ a.to = m.to)
        => AtLeast(BroughtTo(m, c, b), a.digest[c])

Ordered(q, b, k) ==
    \A j \in 1 .. Len(q) :
        UpToDate(q[j], b, k) /\ \A i \in 1 .. j - 1 : NotOlder(q[i], q[j], b)

Held == [Robots -> [Cells -> Stamp]]
Comparisons == [Robots -> [Robots -> [Cells -> Stamp]]]

LEMMA AnswersAreOrdered ==
    /\ AnswersInOrder <=> Ordered(net, beliefs, compared)
    /\ AnswersInOrder' <=> Ordered(net', beliefs', compared')
  <1>1. AnswersInOrder => Ordered(net, beliefs, compared)
    BY DEF AnswersInOrder, Ordered, UpToDate, NotOlder, Brought, BroughtTo
  <1>2. Ordered(net, beliefs, compared) => AnswersInOrder
    BY DEF AnswersInOrder, Ordered, UpToDate, NotOlder, Brought, BroughtTo
  <1>3. AnswersInOrder' => Ordered(net', beliefs', compared')
    BY DEF AnswersInOrder, Ordered, UpToDate, NotOlder, Brought, BroughtTo, Settles
  <1>4. Ordered(net', beliefs', compared') => AnswersInOrder'
    BY DEF AnswersInOrder, Ordered, UpToDate, NotOlder, Brought, BroughtTo, Settles
  <1>5. QED
    BY <1>1, <1>2, <1>3, <1>4

LEMMA SettledCells ==
    ASSUME NEW m \in Shaped, NEW c \in Settles(m), NEW b \in Held
    PROVE  /\ c \in Cells /\ BroughtTo(m, c, b) \in Stamp
           /\ m.kind \in {"children", "match", "patch"}
           /\ m.to \in Robots /\ m.from \in Robots
  <1>1. m.kind \in {"children", "match", "patch"} /\ m.to \in Robots /\ m.from \in Robots
    BY PacketShapes DEF Settles
  <1>2. CASE m.kind = "patch"
    <2>1. m.update \in Update /\ c = m.update.cell
      BY <1>2, PacketShapes DEF Settles
    <2>2. QED
      BY <1>1, <1>2, <2>1 DEF BroughtTo, Update
  <1>3. CASE m.kind = "children"
    <2>1. c \in Below[m.node] /\ c \in Cells /\ m.digest \in [Below[m.node] -> Stamp]
      BY <1>3, PacketShapes DEF Settles
    <2>2. QED
      BY <1>1, <1>3, <2>1 DEF BroughtTo
  <1>4. CASE m.kind = "match"
    <2>1. c \in Cells
      BY <1>4, PacketShapes DEF Settles
    <2>2. BroughtTo(m, c, b) = b[m.to][c]
      BY <1>4 DEF BroughtTo
    <2>3. QED
      BY <1>1, <1>4, <2>1, <2>2 DEF Held
  <1>5. QED
    BY <1>1, <1>2, <1>3, <1>4

\* The order holds on as replicas move forward.
LEMMA OrderGrows ==
    ASSUME NEW q \in Seq(Shaped), NEW b \in Held, NEW b2 \in Held, NEW k \in Comparisons,
           \A r \in Robots, c \in Cells : AtLeast(b2[r][c], b[r][c]),
           Ordered(q, b, k)
    PROVE  Ordered(q, b2, k)
  <1>1. ASSUME NEW m \in Shaped, NEW c \in Settles(m)
        PROVE  AtLeast(BroughtTo(m, c, b2), BroughtTo(m, c, b))
    <2>1. c \in Cells /\ m.to \in Robots
      BY SettledCells
    <2>2. QED
      BY <2>1 DEF BroughtTo, AtLeast
  <1>2. ASSUME NEW m \in Shaped, UpToDate(m, b, k) PROVE UpToDate(m, b2, k)
    <2>1. SUFFICES ASSUME NEW c \in Settles(m)
                   PROVE  AtLeast(BroughtTo(m, c, b2), k[m.to][m.from][c])
      BY DEF UpToDate
    <2>2. /\ BroughtTo(m, c, b) \in Stamp /\ BroughtTo(m, c, b2) \in Stamp
          /\ c \in Cells /\ m.to \in Robots /\ m.from \in Robots
      BY SettledCells
    <2>3. k[m.to][m.from][c] \in Stamp
      BY <2>2 DEF Comparisons
    <2>4. AtLeast(BroughtTo(m, c, b), k[m.to][m.from][c])
      BY <1>2 DEF UpToDate
    <2>5. QED
      BY <1>1, <2>2, <2>3, <2>4, AtLeastTransitive
  <1>3. ASSUME NEW a \in Shaped, NEW m \in Shaped, NotOlder(a, m, b) PROVE NotOlder(a, m, b2)
    <2>1. SUFFICES ASSUME NEW c \in Settles(m), a.kind = "children", c \in Below[a.node],
                          a.from = m.from, a.to = m.to
                   PROVE  AtLeast(BroughtTo(m, c, b2), a.digest[c])
      BY DEF NotOlder
    <2>2. BroughtTo(m, c, b) \in Stamp /\ BroughtTo(m, c, b2) \in Stamp
      BY SettledCells
    <2>3. a.digest[c] \in Stamp
      BY <2>1, PacketShapes
    <2>4. AtLeast(BroughtTo(m, c, b), a.digest[c])
      BY <1>3, <2>1 DEF NotOlder
    <2>5. QED
      BY <1>1, <2>2, <2>3, <2>4, AtLeastTransitive
  <1>4. \A i \in 1 .. Len(q) : q[i] \in Shaped
    OBVIOUS
  <1>5. \A j \in 1 .. Len(q) : \A i \in 1 .. j - 1 : i \in 1 .. Len(q)
    OBVIOUS
  <1>6. QED
    BY <1>2, <1>3, <1>4, <1>5 DEF Ordered

\* A packet that has been handled leaves the others in order.
LEMMA OrderTail ==
    ASSUME NEW q \in Seq(Shaped), q # <<>>, NEW b, NEW k, Ordered(q, b, k)
    PROVE  Ordered(Tail(q), b, k)
  <1>1. /\ Len(Tail(q)) = Len(q) - 1 /\ Len(q) \in Nat
        /\ \A i \in 1 .. Len(Tail(q)) : Tail(q)[i] = q[i + 1]
    BY TailShifts
  <1>2. SUFFICES ASSUME NEW j \in 1 .. Len(Tail(q))
                 PROVE  /\ UpToDate(Tail(q)[j], b, k)
                        /\ \A i \in 1 .. j - 1 : NotOlder(Tail(q)[i], Tail(q)[j], b)
    BY DEF Ordered
  <1>3. j + 1 \in 1 .. Len(q) /\ \A i \in 1 .. j - 1 : i + 1 \in 1 .. (j + 1) - 1
                                                 /\ i \in 1 .. Len(Tail(q))
    BY <1>1
  <1>4. UpToDate(q[j + 1], b, k) /\ \A i \in 1 .. (j + 1) - 1 : NotOlder(q[i], q[j + 1], b)
    BY <1>3 DEF Ordered
  <1>5. QED
    BY <1>1, <1>3, <1>4

\* A packet that is sent is no older than those before it.
LEMMA OrderAppends ==
    ASSUME NEW q \in Seq(Shaped), NEW b, NEW k, Ordered(q, b, k), NEW m \in Shaped, NEW kept,
           UpToDate(m, b, k), \A i \in 1 .. Len(q) : NotOlder(q[i], m, b)
    PROVE  Ordered(q \o Sent(kept, m), b, k)
  <1> DEFINE n == q \o Sent(kept, m)
  <1>1. /\ Len(n) \in {Len(q), Len(q) + 1} /\ Len(q) \in Nat
        /\ \A i \in 1 .. Len(q) : n[i] = q[i]
        /\ Len(n) = Len(q) + 1 => n[Len(n)] = m
    BY SentAppends
  <1> HIDE DEF n
  <1>2. ASSUME NEW j \in 1 .. Len(n)
        PROVE  UpToDate(n[j], b, k) /\ \A i \in 1 .. j - 1 : NotOlder(n[i], n[j], b)
    <2>1. \A i \in 1 .. j - 1 : i \in 1 .. Len(q)
      BY <1>1
    <2>2. CASE j \in 1 .. Len(q)
      BY <1>1, <2>1, <2>2 DEF Ordered
    <2>3. CASE j \notin 1 .. Len(q)
      <3>1. n[j] = m
        BY <1>1, <2>3
      <3>2. QED
        BY <1>1, <2>1, <3>1
    <2>4. QED
      BY <2>2, <2>3
  <1>3. Ordered(n, b, k)
    BY <1>2 DEF Ordered
  <1>4. QED
    BY <1>3 DEF n

\* The order does not depend on how long the packets still wait.
LEMMA OrderTicks ==
    ASSUME NEW q, NEW n, Len(n) = Len(q), NEW b, NEW k, Ordered(q, b, k),
           \A i \in 1 .. Len(q) :
               /\ n[i].kind = q[i].kind /\ n[i].from = q[i].from /\ n[i].to = q[i].to
               /\ q[i].kind \in {"children", "match"} => n[i].node = q[i].node
               /\ q[i].kind = "children" => n[i].digest = q[i].digest
               /\ q[i].kind = "patch" => n[i].update = q[i].update,
           Len(q) \in Nat
    PROVE  Ordered(n, b, k)
  <1>1. ASSUME NEW j \in 1 .. Len(q)
        PROVE  /\ Settles(n[j]) = Settles(q[j])
               /\ \A c \in Settles(q[j]) : BroughtTo(n[j], c, b) = BroughtTo(q[j], c, b)
    BY <1>1 DEF Settles, BroughtTo
  <1>2. SUFFICES ASSUME NEW j \in 1 .. Len(q)
                 PROVE  UpToDate(n[j], b, k) /\ \A i \in 1 .. j - 1 : NotOlder(n[i], n[j], b)
    BY DEF Ordered
  <1>3. UpToDate(q[j], b, k) /\ \A i \in 1 .. j - 1 : NotOlder(q[i], q[j], b)
    BY DEF Ordered
  <1>4. UpToDate(n[j], b, k)
    BY <1>1, <1>3 DEF UpToDate
  <1>5. ASSUME NEW i \in 1 .. j - 1 PROVE NotOlder(n[i], n[j], b)
    <2>1. i \in 1 .. Len(q)
      OBVIOUS
    <2>2. NotOlder(q[i], q[j], b)
      BY <1>3
    <2>3. QED
      BY <1>1, <2>1, <2>2 DEF NotOlder
  <1>6. QED
    BY <1>4, <1>5

-----------------------------------------------------------------------------
\* What the steps have in common.

LEMMA MerkleAssembles ==
    ASSUME LoopTypeOK', HonestReports', OutboxHonest', policy' = "one_shot",
           QueueOK(net', SoundPackets'),
           probing' \in BOOLEAN, asked' \subseteq Robots,
           pending' \in [Robots -> [Robots -> SUBSET Nodes]],
           compared' \in Comparisons,
           \A q, p \in Robots, c \in Cells : AtLeast(beliefs'[p][c], compared'[q][p][c]),
           Ordered(net', beliefs', compared'),
           NoBranchLost'
    PROVE  MerkleInv'
  <1>1. QueueOK(net, SoundPackets)'
    BY DEF QueueOK
  <1>2. SoundPackets' \subseteq Shaped
    BY DEF SoundPackets, SoundDigest, Shaped
  <1>3. \A i \in 1 .. Len(net') : net'[i] \in Shaped
    BY <1>2 DEF QueueOK
  <1>4. \A m \in Shaped : m.kind \in {"probe", "children"} => DOMAIN m.digest = Below[m.node]
    BY PacketShapes
  <1>5. \A i \in 1 .. Len(net') :
            net'[i].kind \in {"probe", "children"} => DOMAIN net'[i].digest = Below[net'[i].node]
    BY <1>3, <1>4
  <1>6. MerkleTypeOK'
    BY <1>5 DEF MerkleTypeOK, Comparisons
  <1>7. ComparedIsKnown'
    BY DEF ComparedIsKnown, Comparisons
  <1>8. AnswersInOrder'
    BY AnswersAreOrdered
  <1>9. QED
    BY <1>1, <1>6, <1>7, <1>8 DEF MerkleInv

\* Comparisons stay true, and answers in order, as replicas move forward.
LEMMA ComparisonsStay ==
    ASSUME MerkleInv, Grows, beliefs' \in Held, UNCHANGED compared
    PROVE  /\ compared' \in Comparisons
           /\ \A q, p \in Robots, c \in Cells : AtLeast(beliefs'[p][c], compared'[q][p][c])
           /\ Ordered(net, beliefs', compared')
           /\ net \in Seq(Shaped)
  <1>1. beliefs \in Held /\ compared \in Comparisons /\ QueueOK(net, SoundPackets)
    BY MerkleTypes DEF Held, Comparisons
  <1>2. net \in Seq(Shaped)
    <2>1. QueueOK(net, Shaped)
      BY <1>1, PacketShapes, QueueWidens
    <2>2. QED
      BY <2>1 DEF QueueOK
  <1>3. Ordered(net, beliefs, compared)
    BY AnswersAreOrdered DEF MerkleInv
  <1>4. Ordered(net, beliefs', compared)
    BY <1>1, <1>2, <1>3, OrderGrows DEF Grows
  <1>5. ASSUME NEW q \in Robots, NEW p \in Robots, NEW c \in Cells
        PROVE  AtLeast(beliefs'[p][c], compared[q][p][c])
    <2>1. AtLeast(beliefs[p][c], compared[q][p][c])
      BY DEF MerkleInv, ComparedIsKnown
    <2>2. compared[q][p][c] \in Stamp
      BY <1>1 DEF Comparisons
    <2>3. QED
      BY <1>1, <2>1, <2>2, StillKnown DEF Held
  <1>6. QED
    BY <1>1, <1>2, <1>4, <1>5

\* No branch is lost while none is removed.
LEMMA BranchesStay ==
    ASSUME MerkleInv, Grows, beliefs' \in Held, UNCHANGED compared,
           \A q, p \in Robots : pending[q][p] \subseteq pending'[q][p]
    PROVE  NoBranchLost'
  <1>1. SUFFICES ASSUME NEW q \in Robots, NEW p \in Robots, NEW c \in Cells
                 PROVE  \/ AtLeast(beliefs'[q][c], compared'[q][p][c])
                        \/ \E n \in pending'[q][p] : c \in Below[n]
    BY DEF NoBranchLost
  <1>2. CASE AtLeast(beliefs[q][c], compared[q][p][c])
    <2>1. compared[q][p][c] \in Stamp
      BY MerkleTypes
    <2>2. QED
      BY <1>2, <2>1, StillKnown, MerkleTypes DEF Held
  <1>3. CASE ~AtLeast(beliefs[q][c], compared[q][p][c])
    <2>1. \E n \in pending[q][p] : c \in Below[n]
      BY <1>3 DEF MerkleInv, NoBranchLost
    <2>2. QED
      BY <2>1
  <1>4. QED
    BY <1>2, <1>3

\* The steps that leave replicas, reports, packets and comparisons alone.
LEMMA MerkleQuietStep ==
    ASSUME MerkleInv, LoopTypeOK', UNCHANGED <<beliefs, emitted, net, policy, outbox, compared>>,
           probing' \in BOOLEAN, asked' \subseteq Robots, UNCHANGED pending
    PROVE  MerkleInv'
  <1>1. HonestReports' /\ OutboxHonest' /\ policy' = "one_shot" /\ SoundPackets' = SoundPackets
    BY MerkleQuiet
  <1>2. QueueOK(net', SoundPackets')
    BY <1>1, MerkleTypes
  <1>3. Grows /\ beliefs' \in Held
    BY UnchangedGrows, MerkleTypes DEF Held
  <1>4. NoBranchLost'
    BY <1>3, BranchesStay
  <1>5. /\ compared' \in Comparisons
        /\ \A q, p \in Robots, c \in Cells : AtLeast(beliefs'[p][c], compared'[q][p][c])
        /\ Ordered(net', beliefs', compared')
    BY <1>3, ComparisonsStay
  <1>6. QED
    BY <1>1, <1>2, <1>4, <1>5, MerkleTypes, MerkleAssembles

\* An answer brings at least what its sender holds.
LEMMA AnswerIsCurrent ==
    ASSUME MerkleInv, NEW m \in Shaped,
           \A c \in Settles(m) : AtLeast(BroughtTo(m, c, beliefs), beliefs[m.from][c])
    PROVE  /\ UpToDate(m, beliefs, compared)
           /\ \A a \in SoundPackets : NotOlder(a, m, beliefs)
  <1>1. beliefs \in Held
    BY MerkleTypes DEF Held
  <1>2. ASSUME NEW c \in Settles(m)
        PROVE  /\ c \in Cells /\ m.to \in Robots /\ m.from \in Robots
               /\ BroughtTo(m, c, beliefs) \in Stamp /\ beliefs[m.from][c] \in Stamp
    BY <1>1, SettledCells DEF Held
  <1>3. ASSUME NEW c \in Settles(m)
        PROVE  AtLeast(BroughtTo(m, c, beliefs), compared[m.to][m.from][c])
    <2>1. AtLeast(beliefs[m.from][c], compared[m.to][m.from][c])
      BY <1>2 DEF MerkleInv, ComparedIsKnown
    <2>2. compared[m.to][m.from][c] \in Stamp
      BY <1>2, MerkleTypes
    <2>3. QED
      BY <1>2, <2>1, <2>2, AtLeastTransitive
  <1>4. ASSUME NEW a \in SoundPackets, NEW c \in Settles(m), a.kind = "children",
               c \in Below[a.node], a.from = m.from
        PROVE  AtLeast(BroughtTo(m, c, beliefs), a.digest[c])
    <2>1. AtLeast(beliefs[a.from][c], a.digest[c])
      BY <1>4 DEF SoundPackets, SoundDigest
    <2>2. a.digest[c] \in Stamp
      BY <1>4, PacketShapes
    <2>3. QED
      BY <1>2, <1>4, <2>1, <2>2, AtLeastTransitive
  <1>5. QED
    BY <1>3, <1>4 DEF UpToDate, NotOlder

-----------------------------------------------------------------------------
\* The steps.

LEMMA MerkleInitEstablishes ==
    ASSUME Init, MerkleInit
    PROVE  MerkleInv
  <1>1. LoopTypeOK /\ HonestReports
    BY LoopStarts DEF Init
  <1>2. /\ net = <<>> /\ outbox = [r \in Robots |-> {}] /\ policy = "one_shot"
        /\ probing = FALSE /\ asked = {}
        /\ pending = [q \in Robots |-> [p \in Robots |-> {}]]
        /\ compared = [q \in Robots |-> [p \in Robots |-> [c \in Cells |-> InitialStamp]]]
        /\ beliefs = [r \in Robots |-> [c \in Cells |-> InitialStamp]]
    BY MerkleAssumption DEF Init, LoopInit, DeliveryInit, MerkleInit
  <1>3. QueueOK(net, SoundPackets) /\ AnswersInOrder
    BY <1>2 DEF QueueOK, AnswersInOrder
  <1>4. OutboxHonest
    BY <1>2 DEF OutboxHonest
  <1>5. \A q, p \in Robots : compared[q][p] \in [Cells -> Stamp]
    BY <1>2, InitialStampIsStamp
  <1>6. ComparedIsKnown
    BY <1>2, <1>5 DEF ComparedIsKnown, AtLeast
  <1>7. NoBranchLost
    BY <1>2 DEF NoBranchLost, AtLeast
  <1>8. MerkleTypeOK
    <2>1. pending \in [Robots -> [Robots -> SUBSET Nodes]]
      BY <1>2
    <2>2. Len(net) = 0
      BY <1>2
    <2>3. \A i \in 1 .. Len(net) : net[i].kind \in {"probe", "children"} =>
              DOMAIN net[i].digest = Below[net[i].node]
      BY <2>2
    <2>4. probing \in BOOLEAN /\ asked \subseteq Robots
      BY <1>2
    <2>5. QED
      BY <1>1, <1>5, <2>1, <2>3, <2>4 DEF MerkleTypeOK
  <1>9. QED
    BY <1>1, <1>2, <1>3, <1>4, <1>6, <1>7, <1>8 DEF MerkleInv

LEMMA MerkleStutter ==
    ASSUME MerkleInv, UNCHANGED allVars
    PROVE  MerkleInv' /\ UNCHANGED <<beliefs, emitted>>
  <1>1. UNCHANGED <<step, phase, turn, beliefs, emitted, net, data, control, policy, outbox, tried,
                    probing, asked, pending, compared>>
    BY DEF allVars, vars, loopVars, deliveryVars, merkleVars
  <1>2. LoopTypeOK'
    BY <1>1, MerkleTypes DEF LoopTypeOK
  <1>3. QED
    BY <1>1, <1>2, MerkleTypes, MerkleQuietStep

LEMMA MerkleEndArrivals ==
    ASSUME MerkleInv, EndArrivals, UNCHANGED <<deliveryVars, merkleVars>>
    PROVE  MerkleInv' /\ UNCHANGED <<beliefs, emitted>>
  <1>1. /\ phase' = "sense"
        /\ UNCHANGED <<step, turn, beliefs, emitted, net, data, control, policy, outbox,
                       probing, asked, pending, compared>>
    BY DEF EndArrivals, deliveryVars, merkleVars
  <1>2. LoopTypeOK'
    BY <1>1, MerkleTypes DEF LoopTypeOK, Phases
  <1>3. QED
    BY <1>1, <1>2, MerkleTypes, MerkleQuietStep

LEMMA MerkleEndDeltas ==
    ASSUME MerkleInv, NEW s \in Robots, EndDeltas(s)
    PROVE  MerkleInv' /\ UNCHANGED <<beliefs, emitted>>
  <1>1. /\ EndSending(s, "dispatch") /\ probing' \in BOOLEAN
        /\ UNCHANGED <<asked, pending, compared>>
    BY DEF EndDeltas
  <1>2. LoopTypeOK' /\ UNCHANGED <<step, beliefs, emitted, net, data, control, policy, outbox>>
    BY <1>1, MerkleTypes, EndSendingFacts DEF Phases
  <1>3. QED
    BY <1>1, <1>2, MerkleTypes, MerkleQuietStep

LEMMA MerkleEndProbes ==
    ASSUME MerkleInv, NEW q \in Robots, EndProbes(q)
    PROVE  MerkleInv' /\ UNCHANGED <<beliefs, emitted>>
  <1>1. /\ PassTurn(q, "settle") /\ probing' \in BOOLEAN /\ asked' = {}
        /\ UNCHANGED <<step, beliefs, emitted, net, data, control, policy, outbox,
                       pending, compared>>
    BY DEF EndProbes, deliveryVars
  <1>2. turn' \in Robots /\ phase' \in Phases
    BY <1>1, PassTurnFacts, MerkleTypes DEF Phases
  <1>3. LoopTypeOK'
    BY <1>1, <1>2, MerkleTypes DEF LoopTypeOK
  <1>4. QED
    BY <1>1, <1>3, MerkleQuietStep

LEMMA MerkleSense ==
    ASSUME MerkleInv, NEW r \in Robots, NEW w \in Shown(r), Sense(r, w), UNCHANGED merkleVars
    PROVE  MerkleInv' /\ Sharing!Look(r)
  <1>1. OutboxHonest' /\ LoopTypeOK' /\ UNCHANGED <<step, net, data, control, policy, tried>>
    BY MerkleTypes, SenseQueues
  <1>2. Sharing!Look(r)
    BY MerkleTypes, ObserveImplements DEF Sense
  <1>3. HonestReports' /\ Grows /\ emitted \subseteq emitted'
    BY <1>2, MerkleTypes, SharingStep DEF Sharing!Next
  <1>4. beliefs' \in Held
    BY <1>1 DEF LoopTypeOK, Held
  <1>5. SoundPackets \subseteq SoundPackets'
    BY <1>3, <1>4, MerklePacketsStaySound DEF Held
  <1>6. QueueOK(net', SoundPackets')
    BY <1>1, <1>5, MerkleTypes, QueueWidens
  <1>7. UNCHANGED <<probing, asked, pending, compared>>
    BY DEF merkleVars
  <1>8. /\ NoBranchLost'
        /\ compared' \in Comparisons
        /\ \A q, p \in Robots, c \in Cells : AtLeast(beliefs'[p][c], compared'[q][p][c])
        /\ Ordered(net', beliefs', compared')
    BY <1>1, <1>3, <1>4, <1>7, BranchesStay, ComparisonsStay
  <1>9. QED
    BY <1>1, <1>2, <1>3, <1>6, <1>7, <1>8, MerkleTypes, MerkleAssembles

\* A step that only adds a packet to the queue, or nothing.
LEMMA MerkleSends ==
    ASSUME MerkleInv, LoopTypeOK', UNCHANGED <<beliefs, emitted, policy, compared>>,
           OutboxHonest',
           NEW q, QueueOK(q, SoundPackets), Ordered(q, beliefs, compared),
           NEW m \in SoundPackets, m.wait = Delay, NEW kept,
           net' = q \o Sent(kept, m) \/ net' = q,
           \A c \in Settles(m) : AtLeast(BroughtTo(m, c, beliefs), beliefs[m.from][c]),
           probing' \in BOOLEAN, asked' \subseteq Robots,
           pending' \in [Robots -> [Robots -> SUBSET Nodes]],
           \A r, p \in Robots : pending[r][p] \subseteq pending'[r][p]
    PROVE  MerkleInv'
  <1>1. HonestReports' /\ policy' = "one_shot"
    BY MerkleTypes DEF HonestReports, Legitimate
  <1>2. SoundPackets' = SoundPackets
    BY DEF SoundPackets, SoundDigest
  <1>3. QueueOK(q \o Sent(kept, m), SoundPackets)
    BY PacketShapes, QueueAppends, LoopAssumption
  <1>4. QueueOK(net', SoundPackets')
    BY <1>2, <1>3
  <1>5. Ordered(net', beliefs, compared)
    <2>1. /\ UpToDate(m, beliefs, compared)
          /\ \A a \in SoundPackets : NotOlder(a, m, beliefs)
      BY PacketShapes, AnswerIsCurrent
    <2>2. QueueOK(q, Shaped)
      BY PacketShapes, QueueWidens
    <2>3. q \in Seq(Shaped) /\ \A i \in 1 .. Len(q) : q[i] \in SoundPackets
      BY <2>2 DEF QueueOK
    <2>4. Ordered(q \o Sent(kept, m), beliefs, compared)
      BY <2>1, <2>3, PacketShapes, OrderAppends
    <2>5. QED
      BY <2>4
  <1>6. Grows /\ beliefs' \in Held
    BY UnchangedGrows, MerkleTypes DEF Held
  <1>7. NoBranchLost'
    BY <1>6, BranchesStay
  <1>8. /\ compared' \in Comparisons
        /\ \A r, p \in Robots, c \in Cells : AtLeast(beliefs'[p][c], compared'[r][p][c])
    BY <1>6, ComparisonsStay
  <1>9. Ordered(net', beliefs', compared')
    BY <1>5
  <1>10. QED
    BY <1>1, <1>4, <1>7, <1>8, <1>9, MerkleAssembles

LEMMA MerkleSendDelta ==
    ASSUME MerkleInv, NEW s \in Robots, NEW t \in outbox[s], NEW kept \in Survivals,
           SendDelta(s, t, kept)
    PROVE  MerkleInv' /\ UNCHANGED <<beliefs, emitted>>
  <1>1. Attempt(s, t, kept) /\ UNCHANGED <<probing, asked, pending, compared>>
    BY DEF SendDelta, merkleVars
  <1>2. /\ OutboxHonest' /\ LoopTypeOK'
        /\ Delta(s, t) \in Packet /\ Delta(s, t).kind = "delta" /\ Delta(s, t).wait = Delay
        /\ Delta(s, t).update \in emitted /\ ~Delta(s, t).keyed
        /\ net' = net \o Sent(kept, Delta(s, t))
        /\ UNCHANGED <<step, phase, turn, beliefs, emitted, control, policy>>
    BY <1>1, MerkleTypes, AttemptSends
  <1>3. Delta(s, t) \in SoundPackets /\ Settles(Delta(s, t)) = {}
    BY <1>2 DEF SoundPackets, Settles
  <1>4. Ordered(net, beliefs, compared)
    BY AnswersAreOrdered DEF MerkleInv
  <1>5. MerkleInv'
    BY <1>1, <1>2, <1>3, <1>4, MerkleTypes, MerkleSends
  <1>6. QED
    BY <1>2, <1>5

\* The node that is probed next is one of the tree.
LEMMA SelectedIsNode ==
    ASSUME NEW nodes \in SUBSET Nodes
    PROVE  Open(nodes) \subseteq Nodes /\ Selected(Open(nodes)) \in Open(nodes)
  <1>1. PICK i \in Nat : Nodes = 1 .. i * Fanout + 1
    BY TreeShape
  <1> DEFINE N == i * Fanout + 1
             S == Open(nodes)
             gaps == {d \in 0 .. N : N - d \in S}
  <1>2. N \in Nat /\ Nodes = 1 .. N
    BY <1>1, MerkleAssumption
  <1> HIDE DEF N
  <1>3. S \subseteq 1 .. N /\ S # {}
    BY <1>2, RootCovers DEF Open
  <1> HIDE DEF S
  <1>4. \A n \in S : N - n \in gaps /\ n \in Nat
    <2>1. ASSUME NEW n \in S PROVE N - n \in gaps /\ n \in Nat
      <3>1. n \in 1 .. N
        BY <1>3
      <3>2. N - n \in 0 .. N /\ N - (N - n) = n
        BY <1>2, <3>1
      <3>3. QED
        BY <3>1, <3>2
    <2>2. QED
      BY <2>1
  <1>5. gaps \in SUBSET Nat /\ gaps # {}
    <2>1. PICK n \in S : TRUE
      BY <1>3
    <2>2. N - n \in gaps
      BY <1>4
    <2>3. gaps \subseteq Nat
      BY <1>2
    <2>4. QED
      BY <2>2, <2>3
  <1>6. PICK d \in gaps : \A e \in gaps : d <= e
    <2> HIDE DEF gaps
    <2>1. QED
      BY <1>5, LeastExists
  <1>7. N - d \in S /\ \A n \in S : n <= N - d
    <2>1. d \in 0 .. N /\ N - d \in S
      BY <1>6
    <2> HIDE DEF gaps
    <2>2. \A n \in S : d <= N - n /\ n \in Nat
      BY <1>4, <1>6
    <2>3. QED
      BY <1>2, <2>1, <2>2
  <1>8. Selected(S) \in S
    BY <1>7 DEF Selected
  <1>9. QED
    BY <1>2, <1>3, <1>8 DEF S

LEMMA MerkleSendProbe ==
    ASSUME MerkleInv, NEW q \in Robots, NEW p \in Robots, NEW kept \in Survivals,
           SendProbe(q, p, kept)
    PROVE  MerkleInv' /\ UNCHANGED <<beliefs, emitted>>
  <1> DEFINE n == Selected(Open(pending[q][p]))
             m == Probe(q, p, n)
  <1>1. /\ asked' = asked \cup {p}
        /\ pending' = [pending EXCEPT ![q][p] = Open(@)]
        /\ \/ /\ ProbeFits(q) /\ control' = [control EXCEPT ![q] = @ - ProbeBytes]
              /\ net' = net \o Sent(kept, m)
           \/ UNCHANGED <<control, net>>
        /\ UNCHANGED <<step, phase, turn, beliefs, emitted, data, policy, outbox,
                       probing, compared>>
    BY DEF SendProbe, deliveryVars
  <1>2. n \in Nodes /\ Open(pending[q][p]) \subseteq Nodes
    BY SelectedIsNode, MerkleTypes
  <1>3. Below[n] \subseteq Cells /\ beliefs[q] \in [Cells -> Stamp]
    BY <1>2, BelowIsDefined, MerkleTypes
  <1> HIDE DEF n
  <1>4. Digest(beliefs[q], n) \in [Below[n] -> Stamp]
    BY <1>3 DEF Digest
  <1>5. \A c \in Below[n] : AtLeast(beliefs[q][c], Digest(beliefs[q], n)[c])
    BY DEF Digest, AtLeast
  <1>6. /\ m.kind = "probe" /\ m.from = q /\ m.node = n /\ m.digest = Digest(beliefs[q], n)
        /\ m.wait = Delay
        /\ m = [kind |-> "probe", from |-> q, to |-> p, node |-> n,
                digest |-> Digest(beliefs[q], n), wait |-> Delay]
    BY DEF Probe
  <1>7. m \in MerklePacket
    BY <1>2, <1>4, <1>6, LoopAssumption DEF MerklePacket
  <1>8. m \in SoundPackets /\ Settles(m) = {}
    BY <1>4, <1>5, <1>6, <1>7 DEF SoundPackets, SoundDigest, Settles
  <1> HIDE DEF m
  <1>9. control' \in [Robots -> 0 .. ControlCap]
    <2>1. ProbeBytes \in Nat
      BY DEF ProbeBytes
    <2>2. CanSpend(control[q], ProbeBytes) =>
              [control EXCEPT ![q] = @ - ProbeBytes] \in [Robots -> 0 .. ControlCap]
      <3> HIDE DEF ProbeBytes
      <3>1. QED
        BY <2>1, LedgerPays, MerkleTypes, LoopAssumption
    <2>3. QED
      BY <1>1, <2>2, MerkleTypes DEF ProbeFits
  <1>10. LoopTypeOK'
    BY <1>1, <1>9, MerkleTypes DEF LoopTypeOK
  <1>11. /\ pending' \in [Robots -> [Robots -> SUBSET Nodes]]
         /\ \A r, s \in Robots : pending[r][s] \subseteq pending'[r][s]
    <2>1. pending[q][p] \subseteq Open(pending[q][p])
      BY DEF Open
    <2>2. QED
      BY <1>1, <1>2, <2>1, MerkleTypes
  <1>12. OutboxHonest'
    BY <1>1, MerkleTypes DEF OutboxHonest
  <1>13. Ordered(net, beliefs, compared)
    BY AnswersAreOrdered DEF MerkleInv
  <1>14. MerkleInv'
    BY <1>1, <1>6, <1>8, <1>10, <1>11, <1>12, <1>13, MerkleTypes, MerkleSends
  <1>15. QED
    BY <1>1, <1>14

\* The packet at the head of a drain.
LEMMA MerkleHead ==
    ASSUME MerkleInv, Draining
    PROVE  /\ Head(net) \in SoundPackets /\ Head(net) = net[1] /\ Head(net) \in Shaped
           /\ Head(net).from \in Robots /\ Head(net).to \in Robots
           /\ Due /\ net # <<>> /\ net \in Seq(Shaped)
           /\ QueueOK(Tail(net), SoundPackets)
           /\ Ordered(Tail(net), beliefs, compared)
           /\ UpToDate(Head(net), beliefs, compared)
           /\ Len(net) \in Nat /\ Len(net) >= 1 /\ Len(Tail(net)) = Len(net) - 1
           /\ \A i \in 1 .. Len(Tail(net)) :
                  Tail(net)[i] = net[i + 1] /\ NotOlder(Head(net), Tail(net)[i], beliefs)
  <1>1. Due /\ net # <<>>
    BY DEF Draining, Due
  <1>2. /\ Head(net) \in SoundPackets /\ Head(net) = net[1]
        /\ QueueOK(Tail(net), SoundPackets)
        /\ Len(net) \in Nat /\ Len(net) >= 1 /\ Len(Tail(net)) = Len(net) - 1
        /\ \A i \in 1 .. Len(Tail(net)) : Tail(net)[i] = net[i + 1]
    BY <1>1, MerkleTypes, QueueHead
  <1>3. Ordered(net, beliefs, compared)
    BY AnswersAreOrdered DEF MerkleInv
  <1>4. net \in Seq(Shaped)
    <2>1. QueueOK(net, Shaped)
      BY PacketShapes, MerkleTypes, QueueWidens
    <2>2. QED
      BY <2>1 DEF QueueOK
  <1>5. Ordered(Tail(net), beliefs, compared)
    BY <1>1, <1>3, <1>4, OrderTail
  <1>6. UpToDate(Head(net), beliefs, compared)
    BY <1>2, <1>3 DEF Ordered
  <1>7. ASSUME NEW i \in 1 .. Len(Tail(net)) PROVE NotOlder(Head(net), Tail(net)[i], beliefs)
    <2>1. i + 1 \in 1 .. Len(net) /\ 1 \in 1 .. (i + 1) - 1
      BY <1>2
    <2>2. QED
      BY <1>2, <1>3, <2>1 DEF Ordered
  <1>8. QED
    BY <1>1, <1>2, <1>4, <1>5, <1>6, <1>7, PacketShapes

\* A cell that a robot does not know holds the stamp that every other supersedes.
LEMMA UnknownIsOldest ==
    ASSUME MerkleInv, NEW r \in Robots, NEW c \in Cells
    PROVE  /\ ~Known(beliefs[r][c]) => beliefs[r][c] = InitialStamp
           /\ AtLeast(beliefs[r][c], InitialStamp)
  <1>1. CASE beliefs[r][c] = InitialStamp
    BY <1>1 DEF AtLeast
  <1>2. CASE beliefs[r][c] # InitialStamp
    <2> DEFINE u == [cell |-> c, stamp |-> beliefs[r][c]]
    <2>1. u \in emitted /\ u.cell = c /\ u.stamp = beliefs[r][c]
      BY <1>2, MerkleTypes DEF HonestReports, Legitimate
    <2> HIDE DEF u
    <2>2. beliefs[r][c].version > 0 /\ beliefs[r][c].state = Truth[c]
      BY <2>1, MerkleTypes DEF HonestReports
    <2>3. beliefs[r][c] \in Stamp /\ Truth[c] \in SensedState
      BY MerkleTypes, LoopAssumption
    <2>4. AtLeast(beliefs[r][c], InitialStamp)
      BY <2>2, <2>3, ReportedIsNewer
    <2>5. Known(beliefs[r][c])
      BY <2>2, <2>3 DEF Known, SensedState, UNKNOWN, FREE, BLOCKED
    <2>6. QED
      BY <2>4, <2>5
  <1>3. QED
    BY <1>1, <1>2

\* The head of the queue is handled and answered, or not.
LEMMA MerkleAnswers ==
    ASSUME MerkleInv, Draining, NEW a \in SoundPackets, a.wait = Delay, NEW kept,
           \A c \in Settles(a) : AtLeast(BroughtTo(a, c, beliefs), beliefs[a.from][c]),
           net' = Tail(net) \o Sent(kept, a) \/ net' = Tail(net),
           data' \in [Robots -> 0 .. DataCap], control' \in [Robots -> 0 .. ControlCap],
           UNCHANGED <<step, phase, turn, beliefs, emitted, policy, outbox,
                       probing, asked, pending, compared>>
    PROVE  MerkleInv'
  <1>1. LoopTypeOK'
    BY MerkleTypes DEF LoopTypeOK
  <1>2. OutboxHonest'
    BY MerkleTypes DEF OutboxHonest
  <1>3. QueueOK(Tail(net), SoundPackets) /\ Ordered(Tail(net), beliefs, compared)
    BY MerkleHead
  <1>4. QED
    BY <1>1, <1>2, <1>3, MerkleTypes, MerkleSends

\* A ledger after an answer, and the queue.
LEMMA AnswerPays ==
    ASSUME NEW cap \in Nat, NEW left \in [Robots -> 0 .. cap], NEW r \in Robots,
           NEW bytes \in Nat, NEW kept, NEW a
    PROVE  /\ AnswerPaid(left, r, bytes) \in [Robots -> 0 .. cap]
           /\ AnswerQueued(left, r, bytes, kept, a) \in {Tail(net), Tail(net) \o Sent(kept, a)}
  <1>1. AnswerPaid(left, r, bytes) \in [Robots -> 0 .. cap]
    BY LedgerPays DEF AnswerPaid
  <1>2. QED
    BY <1>1 DEF AnswerQueued

LEMMA MerkleHandleProbe ==
    ASSUME MerkleInv, NEW kept \in Survivals, HandleProbe(kept)
    PROVE  MerkleInv' /\ UNCHANGED <<beliefs, emitted>>
  <1> DEFINE m == Head(net)
  <1>1. /\ Draining /\ m.kind = "probe"
        /\ UNCHANGED <<step, phase, turn, beliefs, emitted, policy, outbox,
                       probing, asked, pending, compared>>
        /\ \/ /\ Matches(m) \/ (IsLeaf(m.node) /\ KnownBelow(m) = {})
              /\ control' = AnswerPaid(control, m.to, MatchBytes)
              /\ net' = AnswerQueued(control, m.to, MatchBytes, kept, Match(m))
              /\ UNCHANGED data
           \/ \E c \in KnownBelow(m) :
              /\ data' = AnswerPaid(data, m.to, PatchBytes(1))
              /\ net' = AnswerQueued(data, m.to, PatchBytes(1), kept, LeafPatch(m, c))
              /\ UNCHANGED control
           \/ /\ ~IsLeaf(m.node)
              /\ control' = AnswerPaid(control, m.to, ChildrenBytes)
              /\ net' = AnswerQueued(control, m.to, ChildrenBytes, kept, Branches(m))
              /\ UNCHANGED data
    BY DEF HandleProbe, AnswerControl, deliveryVars, merkleVars
  <1>2. m \in SoundPackets /\ m \in Shaped /\ m.from \in Robots /\ m.to \in Robots
    BY <1>1, MerkleHead
  <1> HIDE DEF m
  <1>3. /\ SoundDigest(m) /\ m.node \in Nodes /\ Below[m.node] \subseteq Cells
        /\ m.digest \in [Below[m.node] -> Stamp]
    BY <1>1, <1>2, PacketShapes DEF SoundPackets
  <1>4. MatchBytes \in Nat /\ PatchBytes(1) \in Nat /\ ChildrenBytes \in Nat
    BY MerkleAssumption DEF MatchBytes, PatchBytes, DeltaBytes, ChildrenBytes
  <1>5. Delay \in Nat /\ DataCap \in Nat /\ ControlCap \in Nat
    BY LoopAssumption
  <1>6. beliefs[m.to] \in [Cells -> Stamp] /\ beliefs[m.from] \in [Cells -> Stamp]
    BY <1>2, MerkleTypes
  <1>7. CASE /\ Matches(m) \/ (IsLeaf(m.node) /\ KnownBelow(m) = {})
             /\ control' = AnswerPaid(control, m.to, MatchBytes)
             /\ net' = AnswerQueued(control, m.to, MatchBytes, kept, Match(m))
             /\ UNCHANGED data
    <2> DEFINE a == Match(m)
    <2>1. /\ a = [kind |-> "match", from |-> m.to, to |-> m.from, node |-> m.node, wait |-> Delay]
          /\ a.kind = "match" /\ a.from = m.to /\ a.to = m.from /\ a.node = m.node
          /\ a.wait = Delay
      BY DEF Match
    <2>2. a \in MerklePacket
      BY <1>2, <1>3, <1>5, <2>1 DEF MerklePacket
    <2>3. a \in SoundPackets
      BY <2>1, <2>2 DEF SoundPackets
    <2>4. ASSUME NEW c \in Below[m.node] PROVE AtLeast(beliefs[m.from][c], beliefs[m.to][c])
      <3>1. CASE Matches(m)
        <4>1. Digest(beliefs[m.to], m.node)[c] = m.digest[c]
          BY <3>1 DEF Matches
        <4>2. Digest(beliefs[m.to], m.node)[c] = beliefs[m.to][c]
          BY DEF Digest
        <4>3. QED
          BY <1>3, <4>1, <4>2 DEF SoundDigest
      <3>2. CASE KnownBelow(m) = {}
        <4>1. ~Known(beliefs[m.to][c])
          BY <3>2 DEF KnownBelow
        <4>2. QED
          BY <1>2, <1>3, <4>1, UnknownIsOldest
      <3>3. QED
        BY <1>7, <3>1, <3>2
    <2>5. \A c \in Settles(a) : AtLeast(BroughtTo(a, c, beliefs), beliefs[a.from][c])
      BY <2>1, <2>4 DEF Settles, BroughtTo
    <2> HIDE DEF a
    <2>6. /\ control' \in [Robots -> 0 .. ControlCap]
          /\ net' \in {Tail(net), Tail(net) \o Sent(kept, a)}
      BY <1>2, <1>4, <1>5, <1>7, AnswerPays, MerkleTypes DEF a
    <2>7. QED
      BY <1>1, <1>7, <2>1, <2>3, <2>5, <2>6, MerkleTypes, MerkleAnswers
  <1>8. ASSUME NEW c \in KnownBelow(m),
               data' = AnswerPaid(data, m.to, PatchBytes(1)),
               net' = AnswerQueued(data, m.to, PatchBytes(1), kept, LeafPatch(m, c)),
               UNCHANGED control
        PROVE  MerkleInv'
    <2> DEFINE u == [cell |-> c, stamp |-> beliefs[m.to][c]]
               a == LeafPatch(m, c)
    <2>1. /\ a = [kind |-> "patch", from |-> m.to, to |-> m.from, update |-> u, wait |-> Delay]
          /\ a.kind = "patch" /\ a.from = m.to /\ a.to = m.from /\ a.update = u
          /\ a.wait = Delay
      BY DEF LeafPatch
    <2>2. c \in Cells /\ Known(beliefs[m.to][c])
      BY <1>3 DEF KnownBelow
    <2>3. u \in emitted /\ u \in Update
      BY <1>2, <2>2, KnownWasReported, MerkleTypes
    <2>4. a \in MerklePacket
      BY <1>2, <1>5, <2>1, <2>3 DEF MerklePacket
    <2>5. a \in SoundPackets
      BY <2>1, <2>3, <2>4 DEF SoundPackets
    <2>6. \A b \in Settles(a) : AtLeast(BroughtTo(a, b, beliefs), beliefs[a.from][b])
      BY <2>1 DEF Settles, BroughtTo, AtLeast
    <2> HIDE DEF a, u
    <2>7. /\ data' \in [Robots -> 0 .. DataCap]
          /\ net' \in {Tail(net), Tail(net) \o Sent(kept, a)}
      BY <1>2, <1>4, <1>5, <1>8, AnswerPays, MerkleTypes DEF a
    <2>8. QED
      BY <1>1, <1>8, <2>1, <2>5, <2>6, <2>7, MerkleTypes, MerkleAnswers
  <1>9. CASE /\ ~IsLeaf(m.node)
             /\ control' = AnswerPaid(control, m.to, ChildrenBytes)
             /\ net' = AnswerQueued(control, m.to, ChildrenBytes, kept, Branches(m))
             /\ UNCHANGED data
    <2> DEFINE a == Branches(m)
               d == Digest(beliefs[m.to], m.node)
    <2>1. /\ a = [kind |-> "children", from |-> m.to, to |-> m.from, node |-> m.node,
                  digest |-> d, wait |-> Delay]
          /\ a.kind = "children" /\ a.from = m.to /\ a.to = m.from /\ a.node = m.node
          /\ a.digest = d /\ a.wait = Delay
      BY DEF Branches
    <2>2. d \in [Below[m.node] -> Stamp] /\ \A c \in Below[m.node] : d[c] = beliefs[m.to][c]
      BY <1>3, <1>6 DEF Digest
    <2> HIDE DEF d
    <2>3. a \in MerklePacket
      BY <1>2, <1>3, <1>5, <2>1, <2>2 DEF MerklePacket
    <2>4. SoundDigest(a)
      BY <2>1, <2>2 DEF SoundDigest, AtLeast
    <2>5. a \in SoundPackets
      BY <1>9, <2>1, <2>3, <2>4 DEF SoundPackets
    <2>6. \A c \in Settles(a) : AtLeast(BroughtTo(a, c, beliefs), beliefs[a.from][c])
      BY <2>1, <2>2 DEF Settles, BroughtTo, AtLeast
    <2> HIDE DEF a
    <2>7. /\ control' \in [Robots -> 0 .. ControlCap]
          /\ net' \in {Tail(net), Tail(net) \o Sent(kept, a)}
      BY <1>2, <1>4, <1>5, <1>9, AnswerPays, MerkleTypes DEF a
    <2>8. QED
      BY <1>1, <1>9, <2>1, <2>5, <2>6, <2>7, MerkleTypes, MerkleAnswers
  <1>10. QED
    BY <1>1, <1>7, <1>8, <1>9

LEMMA MerkleHandleDelta ==
    ASSUME MerkleInv, NEW kept \in Survivals, HandleDelta(kept), UNCHANGED merkleVars
    PROVE  MerkleInv' /\ Sharing!Next
  <1> DEFINE m == Head(net)
  <1>1. Draining /\ m.kind = "delta"
    BY DEF HandleDelta
  <1>2. /\ m \in SoundPackets /\ m.to \in Robots /\ QueueOK(Tail(net), SoundPackets)
        /\ net # <<>> /\ net \in Seq(Shaped)
    BY <1>1, MerkleHead
  <1>3. m.update \in emitted /\ ~m.keyed
    BY <1>1, <1>2 DEF SoundPackets
  <1>4. /\ beliefs' = [beliefs EXCEPT ![m.to] = Received(@, m.update)]
        /\ net' = Tail(net)
        /\ UNCHANGED <<step, phase, turn, emitted, data, control, policy, outbox,
                       probing, asked, pending, compared>>
    BY <1>3 DEF HandleDelta, merkleVars
  <1> HIDE DEF m
  <1>5. beliefs' \in Held /\ Sharing!Learn(m.to)
    BY <1>2, <1>3, <1>4, MerkleTypes, ReceivedImplements DEF Held
  <1>6. HonestReports' /\ Grows /\ emitted \subseteq emitted'
    BY <1>2, <1>5, MerkleTypes, SharingStep DEF Sharing!Next
  <1>7. QueueOK(net', SoundPackets')
    BY <1>2, <1>4, <1>5, <1>6, MerklePacketsStaySound, QueueWidens DEF Held
  <1>8. /\ NoBranchLost'
        /\ compared' \in Comparisons
        /\ \A q, p \in Robots, c \in Cells : AtLeast(beliefs'[p][c], compared'[q][p][c])
        /\ Ordered(net, beliefs', compared')
    BY <1>4, <1>5, <1>6, BranchesStay, ComparisonsStay
  <1>9. Ordered(net', beliefs', compared')
    BY <1>2, <1>4, <1>8, OrderTail
  <1>10. OutboxHonest'
    BY <1>4, MerkleTypes DEF OutboxHonest
  <1>11. LoopTypeOK'
    BY <1>4, <1>5, MerkleTypes DEF LoopTypeOK, Held
  <1>12. MerkleInv'
    BY <1>4, <1>6, <1>7, <1>8, <1>9, <1>10, <1>11, MerkleTypes, MerkleAssembles
  <1>13. QED
    BY <1>2, <1>5, <1>12 DEF Sharing!Next

\* What a robot can go by once a node has been split: a cell below the node is
\* below a child that differs, or the hash held what the robot itself holds.
LEMMA SplitKeepsCells ==
    ASSUME NEW n \in Nodes, ~IsLeaf(n), NEW belief \in [Cells -> Stamp],
           NEW theirs \in [Below[n] -> Stamp], NEW c \in Below[n]
    PROVE  \/ belief[c] = theirs[c]
           \/ \E k \in Mismatches(belief, n, theirs) : c \in Below[k]
  <1>1. PICK k \in Children(n) : c \in Below[k]
    BY BranchBelow
  <1>2. CASE Digest(belief, k) = Digest(theirs, k)
    <2>1. Digest(belief, k)[c] = belief[c] /\ Digest(theirs, k)[c] = theirs[c]
      BY <1>1 DEF Digest
    <2>2. QED
      BY <1>2, <2>1
  <1>3. CASE Digest(belief, k) # Digest(theirs, k)
    BY <1>1, <1>3 DEF Mismatches
  <1>4. QED
    BY <1>2, <1>3

\* A node is discarded or split: what was below it need not be looked for in it.
Moved(q, p, n, more) ==
    pending' = [pending EXCEPT ![q][p] = (@ \ {n}) \cup more]

Settled(q, p, n, more) ==
    \A c \in Below[n] :
        \/ AtLeast(beliefs'[q][c], compared[q][p][c])
        \/ \E k \in more : c \in Below[k]

LEMMA BranchesMove ==
    ASSUME MerkleInv, NEW q \in Robots, NEW p \in Robots, NEW n, NEW more \in SUBSET Nodes,
           beliefs' \in Held, Grows, UNCHANGED compared,
           Moved(q, p, n, more), Settled(q, p, n, more)
    PROVE  pending' \in [Robots -> [Robots -> SUBSET Nodes]] /\ NoBranchLost'
  <1>1. pending' \in [Robots -> [Robots -> SUBSET Nodes]]
    BY MerkleTypes DEF Moved
  <1>2. ASSUME NEW r \in Robots, NEW s \in Robots, NEW c \in Cells
        PROVE  \/ AtLeast(beliefs'[r][c], compared[r][s][c])
               \/ \E k \in pending'[r][s] : c \in Below[k]
    <2>1. CASE AtLeast(beliefs[r][c], compared[r][s][c])
      <3>1. compared[r][s][c] \in Stamp
        BY MerkleTypes
      <3>2. QED
        BY <2>1, <3>1, StillKnown, MerkleTypes DEF Held
    <2>2. CASE ~AtLeast(beliefs[r][c], compared[r][s][c])
      <3>1. PICK k \in pending[r][s] : c \in Below[k]
        BY <2>2 DEF MerkleInv, NoBranchLost
      <3>2. CASE r = q /\ s = p /\ k = n
        <4>1. pending'[r][s] = (pending[r][s] \ {n}) \cup more
          BY <3>2, MerkleTypes DEF Moved
        <4>2. QED
          BY <3>1, <3>2, <4>1 DEF Settled
      <3>3. CASE ~(r = q /\ s = p /\ k = n)
        <4>1. k \in pending'[r][s]
          BY <3>1, <3>3, MerkleTypes DEF Moved
        <4>2. QED
          BY <3>1, <4>1
      <3>4. QED
        BY <3>2, <3>3
    <2>3. QED
      BY <2>1, <2>2
  <1>3. QED
    BY <1>1, <1>2 DEF NoBranchLost

\* The children of a node arrive that is not the root, or of the root.
LEMMA MerkleHandleChildren ==
    ASSUME MerkleInv, HandleChildren
    PROVE  MerkleInv' /\ UNCHANGED <<beliefs, emitted>>
  <1> DEFINE m == Head(net)
             more == Mismatches(beliefs[m.to], m.node, m.digest)
  <1>1. /\ Draining /\ m.kind = "children"
        /\ pending' = [pending EXCEPT ![m.to][m.from] = (@ \ {m.node}) \cup more]
        /\ compared' = IF m.node = 1
               THEN [compared EXCEPT ![m.to][m.from] = m.digest] ELSE compared
        /\ net' = Tail(net)
        /\ UNCHANGED <<step, phase, turn, beliefs, emitted, data, control, policy, outbox,
                       probing, asked>>
    BY DEF HandleChildren, deliveryVars
  <1>2. /\ m \in SoundPackets /\ m \in Shaped /\ m.to \in Robots /\ m.from \in Robots
        /\ QueueOK(Tail(net), SoundPackets)
        /\ Ordered(Tail(net), beliefs, compared) /\ UpToDate(m, beliefs, compared)
        /\ Len(Tail(net)) \in Nat
        /\ \A i \in 1 .. Len(Tail(net)) : NotOlder(m, Tail(net)[i], beliefs)
    BY <1>1, MerkleHead
  <1> HIDE DEF m
  <1>3. /\ SoundDigest(m) /\ ~IsLeaf(m.node) /\ m.node \in Nodes
        /\ m.digest \in [Below[m.node] -> Stamp] /\ Below[m.node] \subseteq Cells
    BY <1>1, <1>2, PacketShapes DEF SoundPackets
  <1>4. beliefs[m.to] \in [Cells -> Stamp]
    BY <1>2, MerkleTypes
  <1>5. more \in SUBSET Nodes
    <2>1. Children(m.node) \subseteq Nodes
      BY <1>3, ChildrenFollow
    <2>2. QED
      BY <2>1 DEF Mismatches
  <1>6. \A c \in Below[m.node] :
            beliefs[m.to][c] = m.digest[c] \/ \E k \in more : c \in Below[k]
    BY <1>3, <1>4, SplitKeepsCells
  <1> HIDE DEF more
  <1>7. beliefs' \in Held /\ Grows /\ beliefs \in Held
    BY <1>1, UnchangedGrows, MerkleTypes DEF Held
  <1>8. ASSUME m.node # 1
        PROVE  /\ pending' \in [Robots -> [Robots -> SUBSET Nodes]]
               /\ compared' \in Comparisons
               /\ \A q, p \in Robots, c \in Cells : AtLeast(beliefs'[p][c], compared'[q][p][c])
               /\ Ordered(net', beliefs', compared')
               /\ NoBranchLost'
    <2>1. UNCHANGED compared
      BY <1>1, <1>8
    <2>2. \A c \in Below[m.node] : AtLeast(m.digest[c], compared[m.to][m.from][c])
      BY <1>1, <1>2 DEF UpToDate, Settles, BroughtTo
    <2>3. Settled(m.to, m.from, m.node, more) /\ Moved(m.to, m.from, m.node, more)
      BY <1>1, <1>6, <2>2 DEF Settled, Moved
    <2>4. pending' \in [Robots -> [Robots -> SUBSET Nodes]] /\ NoBranchLost'
      BY <1>2, <1>5, <1>7, <2>1, <2>3, BranchesMove
    <2>5. /\ compared' \in Comparisons
          /\ \A q, p \in Robots, c \in Cells : AtLeast(beliefs'[p][c], compared'[q][p][c])
      BY <1>7, <2>1, ComparisonsStay
    <2>6. Ordered(net', beliefs', compared')
      BY <1>1, <1>2, <2>1
    <2>7. QED
      BY <2>4, <2>5, <2>6
  <1>9. ASSUME m.node = 1
        PROVE  /\ pending' \in [Robots -> [Robots -> SUBSET Nodes]]
               /\ compared' \in Comparisons
               /\ \A q, p \in Robots, c \in Cells : AtLeast(beliefs'[p][c], compared'[q][p][c])
               /\ Ordered(net', beliefs', compared')
               /\ NoBranchLost'
    <2>1. Below[m.node] = Cells
      BY <1>9, RootCovers
    <2>2. compared' = [compared EXCEPT ![m.to][m.from] = m.digest]
      BY <1>1, <1>9
    <2>3. compared \in Comparisons
      BY MerkleTypes DEF Comparisons
    <2>4. /\ compared' \in Comparisons
          /\ compared'[m.to][m.from] = m.digest
          /\ \A q, p \in Robots :
                 ~(q = m.to /\ p = m.from) => compared'[q][p] = compared[q][p]
      BY <1>2, <1>3, <2>1, <2>2, <2>3 DEF Comparisons
    <2>5. pending' \in [Robots -> [Robots -> SUBSET Nodes]]
      BY <1>1, <1>2, <1>5, MerkleTypes
    <2>6. ASSUME NEW q \in Robots, NEW p \in Robots, NEW c \in Cells
          PROVE  /\ AtLeast(beliefs'[p][c], compared'[q][p][c])
                 /\ \/ AtLeast(beliefs'[q][c], compared'[q][p][c])
                    \/ \E k \in pending'[q][p] : c \in Below[k]
      <3>1. CASE q = m.to /\ p = m.from
        <4>1. AtLeast(beliefs[p][c], compared'[q][p][c])
          BY <1>3, <2>1, <2>4, <3>1 DEF SoundDigest
        <4>2. pending'[q][p] = (pending[q][p] \ {m.node}) \cup more
          BY <1>1, <1>2, <3>1, MerkleTypes
        <4>3. AtLeast(beliefs[q][c], compared'[q][p][c]) \/ \E k \in more : c \in Below[k]
          BY <1>6, <2>1, <2>4, <3>1 DEF AtLeast
        <4>4. QED
          BY <1>1, <4>1, <4>2, <4>3
      <3>2. CASE ~(q = m.to /\ p = m.from)
        <4>1. compared'[q][p] = compared[q][p] /\ pending'[q][p] = pending[q][p]
          BY <1>1, <1>2, <2>4, <3>2, MerkleTypes
        <4>2. QED
          BY <1>1, <4>1 DEF MerkleInv, NoBranchLost, ComparedIsKnown
      <3>3. QED
        BY <3>1, <3>2
    <2>7. NoBranchLost'
      BY <2>6 DEF NoBranchLost
    <2>8. Ordered(net', beliefs', compared')
      <3>1. SUFFICES ASSUME NEW j \in 1 .. Len(Tail(net))
                     PROVE  UpToDate(Tail(net)[j], beliefs, compared')
        BY <1>1, <1>2 DEF Ordered
      <3>2. PICK x : x = Tail(net)[j]
        OBVIOUS
      <3>3. UpToDate(x, beliefs, compared) /\ NotOlder(m, x, beliefs)
        BY <1>2, <3>2 DEF Ordered
      <3>4. x \in Shaped
        BY <1>2, <3>2, PacketShapes DEF QueueOK
      <3>5. ASSUME NEW c \in Settles(x)
            PROVE  AtLeast(BroughtTo(x, c, beliefs), compared'[x.to][x.from][c])
        <4>1. c \in Cells /\ x.to \in Robots /\ x.from \in Robots
          BY <1>7, <3>4, SettledCells
        <4>2. CASE x.to = m.to /\ x.from = m.from
          <5>1. AtLeast(BroughtTo(x, c, beliefs), m.digest[c])
            BY <1>1, <2>1, <3>3, <4>1, <4>2 DEF NotOlder
          <5>2. QED
            BY <2>4, <4>2, <5>1
        <4>3. CASE ~(x.to = m.to /\ x.from = m.from)
          <5>1. compared'[x.to][x.from] = compared[x.to][x.from]
            BY <2>4, <4>1, <4>3
          <5>2. QED
            BY <3>3, <5>1 DEF UpToDate
        <4>4. QED
          BY <4>2, <4>3
      <3>6. UpToDate(x, beliefs, compared')
        BY <3>5 DEF UpToDate
      <3>7. QED
        BY <3>2, <3>6
    <2>9. QED
      BY <2>4, <2>5, <2>6, <2>7, <2>8
  <1>10. /\ pending' \in [Robots -> [Robots -> SUBSET Nodes]]
         /\ compared' \in Comparisons
         /\ \A q, p \in Robots, c \in Cells : AtLeast(beliefs'[p][c], compared'[q][p][c])
         /\ Ordered(net', beliefs', compared')
         /\ NoBranchLost'
    BY <1>8, <1>9
  <1>11. HonestReports' /\ OutboxHonest' /\ policy' = "one_shot" /\ SoundPackets' = SoundPackets
    BY <1>1, MerkleQuiet
  <1>12. LoopTypeOK'
    BY <1>1, MerkleTypes DEF LoopTypeOK
  <1>13. QueueOK(net', SoundPackets') /\ probing' \in BOOLEAN /\ asked' \subseteq Robots
    BY <1>1, <1>2, <1>11, MerkleTypes
  <1>14. MerkleInv'
    BY <1>10, <1>11, <1>12, <1>13, MerkleAssembles
  <1>15. QED
    BY <1>1, <1>14

LEMMA MerkleHandleMatch ==
    ASSUME MerkleInv, HandleMatch
    PROVE  MerkleInv' /\ UNCHANGED <<beliefs, emitted>>
  <1> DEFINE m == Head(net)
  <1>1. /\ Draining /\ m.kind = "match"
        /\ pending' = [pending EXCEPT ![m.to][m.from] = @ \ {m.node}]
        /\ net' = Tail(net)
        /\ UNCHANGED <<step, phase, turn, beliefs, emitted, data, control, policy, outbox,
                       probing, asked, compared>>
    BY DEF HandleMatch, deliveryVars
  <1>2. /\ m \in SoundPackets /\ m.to \in Robots /\ m.from \in Robots
        /\ QueueOK(Tail(net), SoundPackets)
        /\ Ordered(Tail(net), beliefs, compared) /\ UpToDate(m, beliefs, compared)
    BY <1>1, MerkleHead
  <1> HIDE DEF m
  <1>3. beliefs' \in Held /\ Grows
    BY <1>1, UnchangedGrows, MerkleTypes DEF Held
  <1>4. \A c \in Below[m.node] : AtLeast(beliefs'[m.to][c], compared[m.to][m.from][c])
    BY <1>1, <1>2 DEF UpToDate, Settles, BroughtTo
  <1>5. Moved(m.to, m.from, m.node, {}) /\ Settled(m.to, m.from, m.node, {})
    BY <1>1, <1>4 DEF Moved, Settled
  <1>6. pending' \in [Robots -> [Robots -> SUBSET Nodes]] /\ NoBranchLost'
    BY <1>1, <1>2, <1>3, <1>5, BranchesMove
  <1>7. /\ compared' \in Comparisons
        /\ \A q, p \in Robots, c \in Cells : AtLeast(beliefs'[p][c], compared'[q][p][c])
    BY <1>1, <1>3, ComparisonsStay
  <1>8. Ordered(net', beliefs', compared')
    BY <1>1, <1>2
  <1>9. HonestReports' /\ OutboxHonest' /\ policy' = "one_shot" /\ SoundPackets' = SoundPackets
    BY <1>1, MerkleQuiet
  <1>10. LoopTypeOK'
    BY <1>1, MerkleTypes DEF LoopTypeOK
  <1>11. QueueOK(net', SoundPackets') /\ probing' \in BOOLEAN /\ asked' \subseteq Robots
    BY <1>1, <1>2, <1>9, MerkleTypes
  <1>12. MerkleInv'
    BY <1>6, <1>7, <1>8, <1>9, <1>10, <1>11, MerkleAssembles
  <1>13. QED
    BY <1>1, <1>12

LEMMA MerkleHandlePatch ==
    ASSUME MerkleInv, HandlePatch
    PROVE  MerkleInv' /\ Sharing!Next
  <1> DEFINE m == Head(net)
             c == m.update.cell
  <1>1. /\ Draining /\ m.kind = "patch"
        /\ pending' = [pending EXCEPT ![m.to][m.from] = @ \ {LeafNode(m.update.cell)}]
        /\ beliefs' = [beliefs EXCEPT ![m.to] = Received(@, m.update)]
        /\ net' = Tail(net)
        /\ UNCHANGED <<step, phase, turn, emitted, data, control, policy, outbox,
                       probing, asked, compared>>
    BY DEF HandlePatch, deliveryVars
  <1>2. /\ m \in SoundPackets /\ m \in Shaped /\ m.to \in Robots /\ m.from \in Robots
        /\ QueueOK(Tail(net), SoundPackets) /\ UpToDate(m, beliefs, compared)
        /\ net # <<>> /\ net \in Seq(Shaped)
    BY <1>1, MerkleHead
  <1> HIDE DEF m
  <1>3. m.update \in emitted /\ c \in Cells /\ m.update.stamp \in Stamp
    BY <1>1, <1>2, MerkleTypes DEF SoundPackets, Update
  <1>4. beliefs' \in Held /\ Sharing!Learn(m.to)
    BY <1>1, <1>2, <1>3, MerkleTypes, ReceivedImplements DEF Held
  <1>5. HonestReports' /\ Grows /\ emitted \subseteq emitted'
    BY <1>2, <1>4, MerkleTypes, SharingStep DEF Sharing!Next
  <1>6. AtLeast(beliefs'[m.to][c], m.update.stamp)
    <2>1. beliefs'[m.to][c] = Apply(beliefs[m.to][c], m.update.stamp)
      BY <1>1, <1>2, <1>3, MerkleTypes DEF Received
    <2>2. beliefs[m.to][c] \in Stamp
      BY <1>2, <1>3, MerkleTypes
    <2>3. QED
      BY <1>3, <2>1, <2>2, ApplyIsGreater
  <1>7. AtLeast(beliefs'[m.to][c], compared[m.to][m.from][c])
    <2>1. AtLeast(m.update.stamp, compared[m.to][m.from][c])
      BY <1>1, <1>2 DEF UpToDate, Settles, BroughtTo
    <2>2. compared[m.to][m.from][c] \in Stamp /\ beliefs'[m.to][c] \in Stamp
      BY <1>2, <1>3, <1>4, MerkleTypes DEF Held
    <2>3. QED
      BY <1>3, <1>6, <2>1, <2>2, AtLeastTransitive
  <1>8. Below[LeafNode(c)] = {c}
    BY <1>3, LeafBelow
  <1>9. Moved(m.to, m.from, LeafNode(c), {}) /\ Settled(m.to, m.from, LeafNode(c), {})
    BY <1>1, <1>7, <1>8 DEF Moved, Settled
  <1>10. pending' \in [Robots -> [Robots -> SUBSET Nodes]] /\ NoBranchLost'
    <2>1. UNCHANGED compared /\ {} \in SUBSET Nodes /\ m.to \in Robots /\ m.from \in Robots
      BY <1>1, <1>2
    <2> HIDE DEF c
    <2>2. QED
      BY <1>4, <1>5, <1>9, <2>1, BranchesMove
  <1>11. /\ compared' \in Comparisons
         /\ \A q, p \in Robots, b \in Cells : AtLeast(beliefs'[p][b], compared'[q][p][b])
         /\ Ordered(net, beliefs', compared')
    BY <1>1, <1>4, <1>5, ComparisonsStay
  <1>12. Ordered(net', beliefs', compared')
    BY <1>1, <1>2, <1>11, OrderTail
  <1>13. QueueOK(net', SoundPackets')
    BY <1>1, <1>2, <1>4, <1>5, MerklePacketsStaySound, QueueWidens DEF Held
  <1>14. OutboxHonest'
    BY <1>1, MerkleTypes DEF OutboxHonest
  <1>15. LoopTypeOK'
    BY <1>1, <1>4, MerkleTypes DEF LoopTypeOK, Held
  <1>16. MerkleInv'
    BY <1>1, <1>5, <1>10, <1>11, <1>12, <1>13, <1>14, <1>15, MerkleTypes, MerkleAssembles
  <1>17. QED
    BY <1>2, <1>4, <1>16 DEF Sharing!Next

\* A sound packet stays one as its wait runs down.
LEMMA MerklePacketWaits ==
    ASSUME NEW m \in SoundPackets, m.wait > 0
    PROVE  LET n == [m EXCEPT !.wait = @ - 1] IN
           /\ n \in SoundPackets
           /\ n.wait = m.wait - 1 /\ n.kind = m.kind /\ n.from = m.from /\ n.to = m.to
           /\ m.kind \in {"children", "match"} => n.node = m.node
           /\ m.kind = "children" => n.digest = m.digest
           /\ m.kind = "patch" => n.update = m.update
  <1> DEFINE n == [m EXCEPT !.wait = @ - 1]
  <1>1. m \in Packet \cup MerklePacket /\ m.wait - 1 \in Nat
    BY PacketShapes DEF SoundPackets
  <1>2. /\ n \in Packet \cup MerklePacket /\ n.wait = m.wait - 1
        /\ n.kind = m.kind /\ n.from = m.from /\ n.to = m.to
        /\ m.kind = "delta" => n.update = m.update /\ n.keyed = m.keyed
        /\ m.kind = "patch" => n.update = m.update
        /\ m.kind \in {"probe", "children"} => n.node = m.node /\ n.digest = m.digest
        /\ m.kind = "match" => n.node = m.node
    BY <1>1 DEF Packet, MerklePacket
  <1> HIDE DEF n
  <1>3. n \in SoundPackets
    BY <1>2 DEF SoundPackets, SoundDigest
  <1>4. QED
    BY <1>2, <1>3 DEF n

LEMMA MerkleEndStep ==
    ASSUME MerkleInv, EndStep, UNCHANGED <<deliveryVars, merkleVars>>
    PROVE  MerkleInv' /\ UNCHANGED <<beliefs, emitted>>
  <1>1. UNCHANGED <<turn, beliefs, emitted, policy, outbox, probing, asked, pending, compared>>
    BY DEF EndStep, deliveryVars, merkleVars
  <1>2. LoopTypeOK'
    BY MerkleTypes, EndStepTypes
  <1>3. HonestReports' /\ OutboxHonest' /\ policy' = "one_shot" /\ SoundPackets' = SoundPackets
    BY <1>1, MerkleQuiet
  <1>4. /\ QueueOK(net', SoundPackets)
        /\ Len(net') = Len(net)
        /\ \A i \in 1 .. Len(net) :
               net'[i] = [net[i] EXCEPT !.wait = @ - 1] /\ net[i].wait > 0
    BY MerkleTypes, PacketShapes, MerklePacketWaits, QueueTicks
  <1>5. Grows /\ beliefs' \in Held
    BY <1>1, UnchangedGrows, MerkleTypes DEF Held
  <1>6. /\ compared' \in Comparisons
        /\ \A q, p \in Robots, c \in Cells : AtLeast(beliefs'[p][c], compared'[q][p][c])
        /\ Ordered(net, beliefs', compared') /\ net \in Seq(Shaped)
    BY <1>1, <1>5, ComparisonsStay
  <1>7. Ordered(net', beliefs', compared')
    <2>1. \A i \in 1 .. Len(net) : net[i] \in SoundPackets
      BY MerkleTypes DEF QueueOK
    <2>2. \A i \in 1 .. Len(net) :
              /\ net'[i].kind = net[i].kind /\ net'[i].from = net[i].from
              /\ net'[i].to = net[i].to
              /\ net[i].kind \in {"children", "match"} => net'[i].node = net[i].node
              /\ net[i].kind = "children" => net'[i].digest = net[i].digest
              /\ net[i].kind = "patch" => net'[i].update = net[i].update
      BY <1>4, <2>1, MerklePacketWaits
    <2>3. Len(net) \in Nat
      BY <1>6
    <2>4. QED
      BY <1>4, <1>6, <2>2, <2>3, OrderTicks
  <1>8. NoBranchLost'
    BY <1>1, <1>5, BranchesStay
  <1>9. QED
    BY <1>1, <1>2, <1>3, <1>4, <1>6, <1>7, <1>8, MerkleTypes, MerkleAssembles

-----------------------------------------------------------------------------
LEMMA MerkleStep ==
    ASSUME MerkleInv, [MerkleNext]_allVars
    PROVE  MerkleInv' /\ [Sharing!Next]_(Sharing!sharingVars)
  <1>1. CASE EndArrivals /\ UNCHANGED <<deliveryVars, merkleVars>>
    BY <1>1, MerkleEndArrivals DEF Sharing!sharingVars
  <1>2. ASSUME NEW r \in Robots, NEW w \in Shown(r), Sense(r, w), UNCHANGED merkleVars
        PROVE  MerkleInv' /\ Sharing!Next
    BY <1>2, MerkleSense DEF Sharing!Next
  <1>3. ASSUME NEW s \in Robots, NEW t \in outbox[s], NEW kept \in Survivals, SendDelta(s, t, kept)
        PROVE  MerkleInv' /\ UNCHANGED <<beliefs, emitted>>
    BY <1>3, MerkleSendDelta
  <1>4. ASSUME NEW s \in Robots, EndDeltas(s)
        PROVE  MerkleInv' /\ UNCHANGED <<beliefs, emitted>>
    BY <1>4, MerkleEndDeltas
  <1>5. ASSUME NEW q \in Robots, NEW p \in Robots, NEW kept \in Survivals, SendProbe(q, p, kept)
        PROVE  MerkleInv' /\ UNCHANGED <<beliefs, emitted>>
    BY <1>5, MerkleSendProbe
  <1>6. ASSUME NEW q \in Robots, EndProbes(q)
        PROVE  MerkleInv' /\ UNCHANGED <<beliefs, emitted>>
    BY <1>6, MerkleEndProbes
  <1>7. ASSUME NEW kept \in Survivals, HandleDelta(kept), UNCHANGED merkleVars
        PROVE  MerkleInv' /\ Sharing!Next
    BY <1>7, MerkleHandleDelta
  <1>8. ASSUME NEW kept \in Survivals, HandleProbe(kept)
        PROVE  MerkleInv' /\ UNCHANGED <<beliefs, emitted>>
    BY <1>8, MerkleHandleProbe
  <1>9. CASE HandleChildren
    BY <1>9, MerkleHandleChildren DEF Sharing!sharingVars
  <1>10. CASE HandleMatch
    BY <1>10, MerkleHandleMatch DEF Sharing!sharingVars
  <1>11. CASE HandlePatch
    BY <1>11, MerkleHandlePatch
  <1>12. CASE EndStep /\ UNCHANGED <<deliveryVars, merkleVars>>
    BY <1>12, MerkleEndStep DEF Sharing!sharingVars
  <1>13. CASE UNCHANGED allVars
    BY <1>13, MerkleStutter DEF Sharing!sharingVars
  <1>14. QED
    BY <1>1, <1>2, <1>3, <1>4, <1>5, <1>6, <1>7, <1>8, <1>9, <1>10, <1>11, <1>12, <1>13
       DEF MerkleNext, Sharing!sharingVars

\* For every team, map, fanout, budget, delay and number of teammates per step:
\* hashes under way are of what their senders hold by now, and the answers that
\* a robot sends to another are in order.
THEOREM MerkleInvariance == MerkleSpec => []MerkleInv
  <1>1. Init /\ MerkleInit => MerkleInv
    BY MerkleInitEstablishes
  <1>2. MerkleInv /\ [MerkleNext]_allVars => MerkleInv'
    BY MerkleStep
  <1>3. QED
    BY <1>1, <1>2, PTL DEF MerkleSpec

\* The types, and with them both ledgers: probes and hashes of children never
\* overdraw the control budget, nor leaf patches the data budget; the nodes
\* retained exist.
THEOREM MerkleTypeCorrect == MerkleSpec => []MerkleTypeOK
  <1>1. MerkleInv => MerkleTypeOK
    BY DEF MerkleInv
  <1>2. QED
    BY <1>1, MerkleInvariance, PTL

\* No sibling branch is forgotten before it is settled, for a tree of any
\* fanout and depth and whatever the link loses or delays.
THEOREM BranchesAreKept == MerkleSpec => []NoBranchLost
  <1>1. MerkleInv => NoBranchLost
    BY DEF MerkleInv
  <1>2. QED
    BY <1>1, MerkleInvariance, PTL

\* Merkle anti-entropy implements the abstract map sharing.
THEOREM MerkleRefinement == MerkleSpec => MerkleImplementsSharing
  <1>1. Init /\ MerkleInit => Sharing!Init
    BY LoopStarts DEF Init
  <1>2. MerkleInv /\ [MerkleNext]_allVars => [Sharing!Next]_(Sharing!sharingVars)
    BY MerkleStep
  <1>3. QED
    BY <1>1, <1>2, MerkleInvariance, PTL
       DEF MerkleSpec, MerkleImplementsSharing, Sharing!Spec

=============================================================================
