-------------------------- MODULE SuiteRunnerProofs --------------------------
(***************************************************************************)
(* Proofs about the suite runner and the search for decision-critical      *)
(* tasks.                                                                  *)
(***************************************************************************)
EXTENDS SuiteRunner, PlannerProofs

-----------------------------------------------------------------------------
\* Indices and recursion.

LEMMA FirstIsLeast ==
    ASSUME NEW S \in SUBSET Nat, S # {}
    PROVE  First(S) \in S /\ \A j \in S : First(S) <= j
  BY LeastNumber DEF First

\* A value for every index, each from the one before it.
Looped(f, N, first, step) ==
    \A n \in 0 .. N : f[n] = IF n = 0 THEN first ELSE step[<<n, f[n - 1]>>]

LEMMA IndexedLoopExists ==
    ASSUME NEW V, NEW N \in Nat, NEW first \in V, NEW step \in [(1 .. N) \X V -> V]
    PROVE  \E f \in [0 .. N -> V] : Looped(f, N, first, step)
  <1> DEFINE Loop(f, M) ==
                \A n \in 0 .. M : f[n] = IF n = 0 THEN first ELSE step[<<n, f[n - 1]>>]
             S == {M \in Nat : M <= N => \E f \in [0 .. M -> V] : Loop(f, M)}
  <1>1. 0 \in S
    <2>1. [n \in 0 .. 0 |-> first] \in [0 .. 0 -> V] /\ Loop([n \in 0 .. 0 |-> first], 0)
      OBVIOUS
    <2>2. QED
      BY <2>1
  <1>2. \A M \in Nat : M \in S => M + 1 \in S
    <2>1. SUFFICES ASSUME NEW M \in Nat, NEW f \in [0 .. M -> V], Loop(f, M), M + 1 <= N
                   PROVE  \E g \in [0 .. M + 1 -> V] : Loop(g, M + 1)
      OBVIOUS
    <2> DEFINE last == step[<<M + 1, f[M]>>]
               g == [n \in 0 .. M + 1 |-> IF n = M + 1 THEN last ELSE f[n]]
    <2>2. last \in V
      <3>1. M + 1 \in 1 .. N /\ f[M] \in V
        BY <2>1
      <3>2. QED
        BY <3>1
    <2>3. g \in [0 .. M + 1 -> V]
      <3> HIDE DEF last
      <3>1. QED
        BY <2>2
    <2>4. ASSUME NEW n \in 0 .. M + 1
          PROVE  g[n] = IF n = 0 THEN first ELSE step[<<n, g[n - 1]>>]
      <3>1. CASE n = M + 1
        <4>1. n # 0 /\ n - 1 = M /\ g[M] = f[M] /\ g[n] = last
          BY <3>1
        <4>2. QED
          BY <3>1, <4>1
      <3>2. CASE n # M + 1
        <4>1. n \in 0 .. M /\ g[n] = f[n]
          BY <3>2
        <4>2. CASE n = 0
          BY <2>1, <4>1, <4>2
        <4>3. CASE n # 0
          <5>1. g[n - 1] = f[n - 1]
            BY <4>1, <4>3
          <5>2. QED
            BY <2>1, <4>1, <4>3, <5>1
        <4>4. QED
          BY <4>2, <4>3
      <3>3. QED
        BY <3>1, <3>2
    <2>5. QED
      BY <2>3, <2>4
  <1>3. \A M \in Nat : M \in S
    <2> HIDE DEF S
    <2>1. QED
      BY <1>1, <1>2, InductionInSet
  <1>4. N \in S
    <2> HIDE DEF S
    <2>1. QED
      BY <1>3
  <1>5. \E f \in [0 .. N -> V] : Loop(f, N)
    <2> HIDE DEF Loop
    <2>1. QED
      BY <1>4
  <1>6. QED
    BY <1>5 DEF Looped

-----------------------------------------------------------------------------
\* Walking alone.

LEMMA PlanIsSequence ==
    ASSUME NEW blocked, NEW start \in Positions, NEW goal \in Positions
    PROVE  /\ AStarPath(blocked, start, goal) \in Seq(Positions)
           /\ NextOn(AStarPath(blocked, start, goal), start) \in Positions
  <1> DEFINE p == AStarPath(blocked, start, goal)
  <1>1. BestPath(p, start, goal, blocked)
    BY AStarIsShortest
  <1> HIDE DEF p
  <1>2. p \in Seq(Positions)
    <2>1. CASE p = <<>>
      <3>1. <<>> \in Seq(Positions)
        OBVIOUS
      <3>2. QED
        BY <2>1, <3>1
    <2>2. CASE p # <<>>
      BY <1>1, <2>2 DEF BestPath, Walk
    <2>3. QED
      BY <2>1, <2>2
  <1>3. NextOn(p, start) \in Positions
    BY <1>2 DEF NextOn
  <1>4. QED
    BY <1>2, <1>3 DEF p

\* Where a robot that has come along a walk goes next, and the walk then.
Ahead(bitmap, radius, goal, w) ==
    NextOn(AStarPath(ObservedMap(bitmap, CellsOf(w), radius), w[Len(w)], goal), w[Len(w)])

Gone(bitmap, radius, goal, w) ==
    IF Ahead(bitmap, radius, goal, w) = w[Len(w)] \/ Ahead(bitmap, radius, goal, w) \in bitmap
    THEN w ELSE Append(w, Ahead(bitmap, radius, goal, w))

LEMMA WalkAloneIsDefined ==
    ASSUME NEW bitmap, NEW radius, NEW start \in Positions, NEW goal \in Positions
    PROVE  /\ WalkAlone(bitmap, radius, start, goal, 0) = <<start>>
           /\ \A n \in Nat : WalkAlone(bitmap, radius, start, goal, n + 1)
                = Gone(bitmap, radius, goal, WalkAlone(bitmap, radius, start, goal, n))
           /\ \A n \in Nat : WalkAlone(bitmap, radius, start, goal, n) \in Seq(Positions) \ {<<>>}
  <1> DEFINE V == Seq(Positions) \ {<<>>}
             first == <<start>>
             step == [w \in V |-> Gone(bitmap, radius, goal, w)]
             Body(g) == [n \in Nat |-> IF n = 0 THEN <<start>>
                                       ELSE Gone(bitmap, radius, goal, g[n - 1])]
             walk == CHOOSE g : g = Body(g)
  <1>1. first \in V
    OBVIOUS
  <1>2. step \in [V -> V]
    <2>1. ASSUME NEW w \in V PROVE Gone(bitmap, radius, goal, w) \in V
      <3>1. w[Len(w)] \in Positions
        OBVIOUS
      <3>2. Ahead(bitmap, radius, goal, w) \in Positions
        BY <3>1, PlanIsSequence DEF Ahead
      <3>3. QED
        BY <3>2 DEF Gone
    <2>2. QED
      BY <2>1
  <1>3. PICK f \in [Nat -> V] : \A n \in Nat : f[n] = IF n = 0 THEN first ELSE step[f[n - 1]]
    <2> HIDE DEF V, first, step
    <2>1. QED
      BY <1>1, <1>2, LoopExists
  <1>4. f = Body(f)
    <2>1. ASSUME NEW n \in Nat
          PROVE  f[n] = IF n = 0 THEN <<start>> ELSE Gone(bitmap, radius, goal, f[n - 1])
      <3>1. CASE n = 0
        BY <1>3, <3>1
      <3>2. CASE n # 0
        <4>1. f[n - 1] \in V
          BY <3>2
        <4> HIDE DEF V
        <4>2. QED
          BY <1>3, <3>2, <4>1
      <3>3. QED
        BY <3>1, <3>2
    <2>2. QED
      BY <2>1
  <1>5. walk = Body(walk)
    <2> HIDE DEF Body
    <2>1. QED
      BY <1>4
  <1>6. \A n \in Nat : WalkAlone(bitmap, radius, start, goal, n) = walk[n]
    BY DEF WalkAlone, Gone, Ahead
  <1> HIDE DEF walk
  <1>7. walk[0] = <<start>> /\ \A n \in Nat : walk[n + 1] = Gone(bitmap, radius, goal, walk[n])
    <2>1. \A n \in Nat : walk[n] = IF n = 0 THEN <<start>>
                                   ELSE Gone(bitmap, radius, goal, walk[n - 1])
      BY <1>5
    <2>2. \A n \in Nat : n + 1 \in Nat /\ n + 1 # 0 /\ (n + 1) - 1 = n
      OBVIOUS
    <2>3. QED
      BY <2>1, <2>2
  <1>8. \A n \in Nat : walk[n] \in V
    <2> DEFINE S == {n \in Nat : walk[n] \in V}
    <2>1. 0 \in S
      BY <1>1, <1>7
    <2>2. ASSUME NEW n \in Nat, n \in S PROVE n + 1 \in S
      <3>1. walk[n] \in V
        BY <2>2
      <3>2. step[walk[n]] = Gone(bitmap, radius, goal, walk[n]) /\ step[walk[n]] \in V
        <4>1. step[walk[n]] \in V
          <5> HIDE DEF step, V
          <5>1. QED
            BY <1>2, <3>1
        <4>2. QED
          BY <3>1, <4>1
      <3>3. walk[n + 1] \in V
        <4> HIDE DEF step, V
        <4>1. QED
          BY <1>7, <3>2
      <3>4. QED
        BY <3>3
    <2> HIDE DEF S
    <2>3. \A n \in Nat : n \in S
      BY <2>1, <2>2, InductionInSet
    <2>4. QED
      BY <2>3 DEF S
  <1>9. \A n \in Nat : n + 1 \in Nat
    OBVIOUS
  <1>10. QED
    BY <1>6, <1>7, <1>8, <1>9

\* A shortest path comes to no cell twice.
LEMMA NoCellTwice ==
    ASSUME NEW p, NEW start \in Positions, NEW goal \in Positions, NEW blocked,
           p # <<>>, BestPath(p, start, goal, blocked),
           NEW i \in DOMAIN p, NEW j \in DOMAIN p, p[i] = p[j]
    PROVE  i = j
  <1>1. /\ Walk(p, start, goal, blocked) /\ Len(p) <= Inf
        /\ \A q : Walk(q, start, goal, blocked) /\ Len(q) <= Inf => Len(p) <= Len(q)
    BY DEF BestPath
  <1>2. /\ p \in Seq(Positions) /\ Len(p) \in Nat \ {0} /\ p[1] = start /\ p[Len(p)] = goal
        /\ \A k \in 1 .. Len(p) : p[k] \in Positions \ blocked
        /\ \A k \in 1 .. Len(p) - 1 : Manhattan(p[k], p[k + 1]) = 1
    BY <1>1 DEF Walk, ValidPath
  <1>3. ASSUME NEW a \in 1 .. Len(p), NEW b \in 1 .. Len(p), a < b, p[a] = p[b] PROVE FALSE
    <2> DEFINE n == Len(p) - (b - a)
               At(k) == IF k <= a THEN k ELSE k + (b - a)
               q == [k \in 1 .. n |-> p[At(k)]]
    <2>1. n \in Nat /\ a <= n /\ n < Len(p) /\ n # 0 /\ a \in 1 .. n
      BY <1>2, <1>3
    <2>2. \A k \in 1 .. n : At(k) \in 1 .. Len(p)
      BY <1>2, <1>3
    <2>3. q \in Seq(Positions) /\ Len(q) = n /\ \A k \in 1 .. n : q[k] = p[At(k)]
      <3> HIDE DEF At, n
      <3>1. \A k \in 1 .. n : p[At(k)] \in Positions
        BY <1>2, <2>2
      <3>2. QED
        BY <2>1, <3>1
    <2>4. p[At(1)] = start /\ p[At(n)] = goal
      <3>1. At(1) = 1
        BY <1>3
      <3>2. CASE n = a
        <4>1. b = Len(p) /\ At(n) = a
          BY <1>2, <1>3, <3>2
        <4>2. QED
          BY <1>2, <1>3, <3>1, <4>1
      <3>3. CASE n # a
        <4>1. n > a
          BY <2>1, <3>3
        <4>2. At(n) = n + (b - a)
          BY <2>1, <4>1
        <4>3. At(n) = Len(p)
          BY <1>2, <4>2
        <4>4. QED
          BY <1>2, <3>1, <4>3
      <3>4. QED
        BY <3>2, <3>3
    <2>5. ASSUME NEW k \in 1 .. n - 1 PROVE Manhattan(p[At(k)], p[At(k + 1)]) = 1
      <3>1. CASE k = a
        <4>1. At(k) = a /\ At(k + 1) = b + 1 /\ b \in 1 .. Len(p) - 1
          BY <1>2, <1>3, <2>1, <3>1
        <4>2. QED
          BY <1>2, <1>3, <4>1
      <3>2. CASE k # a
        <4>1. At(k + 1) = At(k) + 1 /\ At(k) \in 1 .. Len(p) - 1
          BY <1>2, <1>3, <2>1, <3>2
        <4>2. QED
          BY <1>2, <4>1
      <3>3. QED
        BY <3>1, <3>2
    <2> HIDE DEF At, n, q
    <2>6. /\ q # <<>> /\ 1 \in 1 .. n /\ n \in 1 .. n
          /\ \A k \in 1 .. n - 1 : k \in 1 .. n /\ k + 1 \in 1 .. n
      BY <2>1, <2>3
    <2>7. Walk(q, start, goal, blocked)
      <3>1. q[1] = start /\ q[Len(q)] = goal
        BY <2>3, <2>4, <2>6
      <3>2. \A k \in 1 .. Len(q) : q[k] \in Positions \ blocked
        BY <1>2, <2>2, <2>3
      <3>3. \A k \in 1 .. Len(q) - 1 : Manhattan(q[k], q[k + 1]) = 1
        BY <2>3, <2>5, <2>6
      <3>4. QED
        BY <2>3, <2>6, <3>1, <3>2, <3>3 DEF Walk, ValidPath
    <2>8. Len(q) <= Inf
      BY <1>1, <1>2, <2>1, <2>3, InfIsPositive
    <2>9. QED
      BY <1>1, <1>2, <2>1, <2>3, <2>7, <2>8
  <1>4. i \in 1 .. Len(p) /\ j \in 1 .. Len(p)
    BY <1>2
  <1>5. QED
    BY <1>2, <1>3, <1>4

BeginsWith(walk, prefix) == Len(walk) >= Len(prefix) /\ SubSeq(walk, 1, Len(prefix)) = prefix

\* A robot whose plan, made anew at every step, goes on along a prefix walks it.
LEMMA WalkFollowsPrefix ==
    ASSUME NEW bitmap, NEW radius, NEW start \in Positions, NEW goal \in Positions,
           NEW prefix \in Seq(Positions), prefix # <<>>, prefix[1] = start,
           CellsOf(prefix) \cap bitmap = {},
           \A i, j \in DOMAIN prefix : prefix[i] = prefix[j] => i = j,
           DynamicPrefixIsConsistent(bitmap, radius, prefix, goal),
           NEW n \in Nat, Len(prefix) <= n + 1
    PROVE  BeginsWith(WalkAlone(bitmap, radius, start, goal, n), prefix)
  <1> DEFINE walk(k) == WalkAlone(bitmap, radius, start, goal, k)
             N == Len(prefix)
  <1>1. /\ walk(0) = <<start>>
        /\ \A k \in Nat : walk(k + 1) = Gone(bitmap, radius, goal, walk(k))
        /\ \A k \in Nat : walk(k) \in Seq(Positions) \ {<<>>}
    <2>1. WalkAlone(bitmap, radius, start, goal, 0) = <<start>>
      BY WalkAloneIsDefined
    <2>2. \A k \in Nat : WalkAlone(bitmap, radius, start, goal, k + 1)
                = Gone(bitmap, radius, goal, WalkAlone(bitmap, radius, start, goal, k))
      BY WalkAloneIsDefined
    <2>3. \A k \in Nat : WalkAlone(bitmap, radius, start, goal, k) \in Seq(Positions) \ {<<>>}
      BY WalkAloneIsDefined
    <2>4. QED
      BY <2>1, <2>2, <2>3
  <1> HIDE DEF walk
  <1>2. N \in Nat \ {0} /\ \A i \in 1 .. N : prefix[i] \in Positions
    OBVIOUS
  <1> DEFINE S == {k \in Nat : k < N => walk(k) = SubSeq(prefix, 1, k + 1)}
             T == {k \in Nat : k + 1 >= N =>
                        Len(walk(k)) >= N /\ SubSeq(walk(k), 1, N) = prefix}
  <1>3. \A k \in Nat : k \in S
    <2>1. 0 \in S
      <3>1. SubSeq(prefix, 1, 1) = <<prefix[1]>>
        <4> DEFINE s == SubSeq(prefix, 1, 1)
        <4>1. s \in Seq(Positions) /\ Len(s) = 1 /\ s[1] = prefix[1]
          BY <1>2
        <4> HIDE DEF s
        <4>2. s = <<prefix[1]>>
          BY <4>1
        <4>3. QED
          BY <4>2 DEF s
      <3>2. walk(0) = SubSeq(prefix, 1, 0 + 1)
        <4>1. walk(0) = <<prefix[1]>> /\ 0 + 1 = 1
          BY <1>1
        <4>2. QED
          BY <3>1, <4>1
      <3>3. QED
        BY <3>2
    <2>2. ASSUME NEW k \in Nat, k \in S PROVE k + 1 \in S
      <3>1. SUFFICES ASSUME k + 1 < N PROVE walk(k + 1) = SubSeq(prefix, 1, (k + 1) + 1)
        OBVIOUS
      <3> DEFINE w == SubSeq(prefix, 1, k + 1)
                 c == prefix[k + 2]
      <3>2. walk(k) = w
        BY <1>2, <2>2, <3>1
      <3>3. Len(w) = k + 1 /\ w[Len(w)] = prefix[k + 1]
        BY <1>2, <3>1
      <3>4. Ahead(bitmap, radius, goal, w) = c
        <4>1. ActionAfter(bitmap, radius, SubSeq(prefix, 1, k + 1), goal, {}, {}) = prefix[(k + 1) + 1]
          <5>1. k + 1 \in 1 .. Len(prefix) - 1
            BY <3>1
          <5>2. QED
            BY <5>1 DEF DynamicPrefixIsConsistent
        <4>2. (ObservedMap(bitmap, CellsOf(w), radius) \ {}) \cup {}
                = ObservedMap(bitmap, CellsOf(w), radius)
          OBVIOUS
        <4>3. Ahead(bitmap, radius, goal, w) = prefix[(k + 1) + 1]
          <5> HIDE DEF w
          <5>1. ActionAfter(bitmap, radius, w, goal, {}, {}) = prefix[(k + 1) + 1]
            BY <4>1 DEF w
          <5>2. QED
            BY <4>2, <5>1 DEF ActionAfter, Ahead
        <4>4. (k + 1) + 1 = k + 2
          OBVIOUS
        <4>5. QED
          BY <4>3, <4>4
      <3>5. c # prefix[k + 1] /\ c \notin bitmap /\ c \in Positions
        <4>1. k + 1 \in DOMAIN prefix /\ k + 2 \in DOMAIN prefix /\ k + 1 # k + 2
          BY <3>1
        <4>2. c \in CellsOf(prefix)
          BY <4>1 DEF CellsOf
        <4>3. QED
          BY <4>1, <4>2
      <3>6. Append(w, c) = SubSeq(prefix, 1, (k + 1) + 1)
        BY <1>2, <3>1
      <3> HIDE DEF w, c
      <3>7. Gone(bitmap, radius, goal, w) = Append(w, c)
        BY <3>3, <3>4, <3>5 DEF Gone
      <3>8. QED
        BY <1>1, <3>2, <3>6, <3>7
    <2> HIDE DEF S
    <2>3. QED
      BY <2>1, <2>2, InductionInSet
  <1>4. \A k \in Nat : k \in T
    <2>1. ASSUME NEW k \in Nat, k + 1 = N
          PROVE  Len(walk(k)) >= N /\ SubSeq(walk(k), 1, N) = prefix
      <3>1. walk(k) = SubSeq(prefix, 1, N)
        BY <1>2, <1>3, <2>1
      <3>2. SubSeq(prefix, 1, N) = prefix
        BY <1>2
      <3>3. QED
        BY <1>2, <3>1, <3>2
    <2>2. 0 \in T
      BY <1>2, <2>1
    <2>3. ASSUME NEW k \in Nat, k \in T PROVE k + 1 \in T
      <3>1. CASE (k + 1) + 1 = N
        BY <2>1, <3>1
      <3>2. CASE (k + 1) + 1 # N /\ (k + 1) + 1 >= N
        <4>1. Len(walk(k)) >= N /\ SubSeq(walk(k), 1, N) = prefix
          BY <1>2, <2>3, <3>2
        <4> DEFINE a == Ahead(bitmap, radius, goal, walk(k))
                   w == walk(k)
        <4>2. w \in Seq(Positions) /\ Len(w) >= N
          BY <1>1, <4>1
        <4>3. walk(k + 1) = w \/ walk(k + 1) = Append(w, a)
          BY <1>1 DEF Gone
        <4> HIDE DEF a, w
        <4>4. CASE walk(k + 1) = w
          BY <4>1, <4>4 DEF w
        <4>5. CASE walk(k + 1) = Append(w, a)
          <5> DEFINE u == Append(w, a)
          <5>1. Len(u) = Len(w) + 1 /\ \A i \in 1 .. N : u[i] = w[i]
            BY <1>2, <4>2
          <5>2. SubSeq(u, 1, N) = SubSeq(w, 1, N) /\ Len(u) >= N
            BY <1>2, <4>2, <5>1
          <5>3. SubSeq(u, 1, N) = prefix /\ walk(k + 1) = u
            BY <4>1, <4>5, <5>2 DEF w
          <5> HIDE DEF u
          <5>4. QED
            BY <5>2, <5>3
        <4>6. QED
          BY <4>3, <4>4, <4>5
      <3>3. CASE (k + 1) + 1 < N
        <4>1. ~((k + 1) + 1 >= N)
          BY <1>2, <3>3
        <4>2. QED
          BY <4>1
      <3>4. (k + 1) + 1 = N \/ (k + 1) + 1 < N \/ ((k + 1) + 1 # N /\ (k + 1) + 1 >= N)
        BY <1>2
      <3>5. QED
        BY <3>1, <3>2, <3>3, <3>4
    <2> HIDE DEF T
    <2>4. QED
      BY <2>2, <2>3, InductionInSet
  <1>5. N <= n + 1
    OBVIOUS
  <1>6. QED
    BY <1>2, <1>4, <1>5 DEF walk, BeginsWith

-----------------------------------------------------------------------------
\* The candidates.

\* What DecisionsNeedHelp says of a candidate, and what packing needs to know.
Decisive(bitmap, radius, horizon, c) ==
    /\ NeedsHelp(bitmap, radius, c, {c.obstacle}, horizon)
    /\ NextOn(AStarPath(ObservedMap(bitmap, CellsOf(c.prefix), radius) \cup {c.obstacle},
                        c.commitment, c.goal), c.commitment) = c.truth[c.divergence + 1]
    /\ ValidPath(c.truth, c.start, c.goal, bitmap)
    /\ c.start \in Positions /\ c.goal \in Positions /\ c.start # c.goal
    /\ c.observers \subseteq {o \in Positions \ bitmap : Chebyshev(o, c.obstacle) <= radius}

\* Paths part after a cell that both have.
LEMMA DivergenceIsOnPath ==
    ASSUME NEW left \in Seq(Positions), NEW right \in Seq(Positions), NEW n \in Nat,
           FirstDivergence(left, right) = n, n # 0
    PROVE  n + 1 <= Len(left)
  <1> DEFINE apart == {i \in DOMAIN left \cap DOMAIN right : left[i] # right[i]}
  <1>1. apart # {} /\ First(apart) - 1 = n
    BY DEF FirstDivergence
  <1>2. apart \in SUBSET Nat
    OBVIOUS
  <1>3. \A i \in apart : i \in 1 .. Len(left)
    OBVIOUS
  <1> HIDE DEF apart
  <1>4. First(apart) \in apart
    BY <1>1, <1>2, FirstIsLeast
  <1>5. QED
    BY <1>1, <1>3, <1>4

\* The walk of a seeker that goes along a prefix to where it commits itself.
LEMMA SeekerNeedsHelp ==
    ASSUME NEW bitmap, NEW radius, NEW horizon \in Nat, NEW mark, NEW prefix \in Seq(Positions),
           mark.start \in Positions, mark.goal \in Positions, mark.obstacle \in bitmap,
           prefix # <<>>, prefix[1] = mark.start, prefix[Len(prefix)] = mark.commitment,
           Len(prefix) <= horizon + 1,
           CellsOf(prefix) \cap bitmap = {},
           \A i, j \in DOMAIN prefix : prefix[i] = prefix[j] => i = j,
           DynamicPrefixIsConsistent(bitmap, radius, prefix, mark.goal),
           \A c \in CellsOf(prefix) : Chebyshev(c, mark.obstacle) > radius,
           NEW known,
           LET alone == ObservedMap(bitmap, CellsOf(prefix), radius)
               Act(blocked) ==
                    NextOn(AStarPath(blocked, mark.commitment, mark.goal), mark.commitment)
           IN  Act(alone) # Act(alone \cup known) /\ Act(alone \cup known) # mark.commitment
    PROVE  NeedsHelp(bitmap, radius, mark, known, horizon)
  <1> DEFINE walk == WalkAlone(bitmap, radius, mark.start, mark.goal, horizon)
             N == Len(prefix)
             reached == {i \in DOMAIN walk : walk[i] = mark.commitment}
  <1>1. Len(walk) >= N /\ SubSeq(walk, 1, N) = prefix /\ walk \in Seq(Positions)
    <2>1. walk \in Seq(Positions)
      BY WalkAloneIsDefined
    <2>2. BeginsWith(WalkAlone(bitmap, radius, mark.start, mark.goal, horizon), prefix)
      BY WalkFollowsPrefix
    <2>3. QED
      BY <2>1, <2>2 DEF BeginsWith
  <1> HIDE DEF walk
  <1>2. N \in Nat \ {0}
    OBVIOUS
  <1>3. Len(walk) \in Nat /\ \A i \in 1 .. N : i \in DOMAIN walk /\ walk[i] = prefix[i]
    <2>1. Len(walk) \in Nat
      BY <1>1
    <2>2. \A i \in 1 .. N : SubSeq(walk, 1, N)[i] = walk[i]
      BY <1>1, <1>2
    <2>3. QED
      BY <1>1, <1>2, <2>1, <2>2
  <1>4. N \in reached
    BY <1>2, <1>3
  <1>5. reached \in SUBSET Nat /\ reached # {}
    BY <1>1, <1>4
  <1>6. \A i \in reached : walk[i] = mark.commitment
    OBVIOUS
  <1>7. \A i \in reached : i \in 1 .. Len(walk)
    BY <1>1
  <1> HIDE DEF reached
  <1>8. First(reached) = N
    <2>1. First(reached) \in reached /\ First(reached) <= N
      BY <1>4, <1>5, FirstIsLeast
    <2>2. First(reached) \in 1 .. N
      BY <1>2, <1>7, <2>1, <1>3
    <2>3. prefix[First(reached)] = prefix[N]
      BY <1>3, <1>6, <2>1, <2>2
    <2>4. First(reached) \in DOMAIN prefix /\ N \in DOMAIN prefix
      BY <1>2, <2>2
    <2>5. QED
      BY <2>3, <2>4
  <1>9. CellsOf(SubSeq(walk, 1, First(reached))) = CellsOf(prefix)
    BY <1>1, <1>8
  <1> DEFINE seen == CellsOf(SubSeq(walk, 1, First(reached)))
  <1>10. seen = CellsOf(prefix)
    BY <1>9
  <1>11. NeedsHelp(bitmap, radius, mark, known, horizon) =
            LET alone == ObservedMap(bitmap, seen, radius)
                Act(blocked) ==
                    NextOn(AStarPath(blocked, mark.commitment, mark.goal), mark.commitment)
            IN  /\ mark.obstacle \in bitmap
                /\ reached # {}
                /\ \A c \in seen : Chebyshev(c, mark.obstacle) > radius
                /\ Act(alone) # Act(alone \cup known)
                /\ Act(alone \cup known) # mark.commitment
    BY DEF NeedsHelp, walk, reached
  <1> HIDE DEF seen
  <1>12. QED
    BY <1>5, <1>10, <1>11

\* Every obstacle that passes the tests of _candidate_from_draw makes a decision
\* that needs help.
LEMMA ChebyshevIsMutual ==
    ASSUME NEW a \in Positions, NEW b \in Positions
    PROVE  Chebyshev(a, b) = Chebyshev(b, a) /\ Chebyshev(a, b) \in Nat
  <1>1. a[1] \in Int /\ a[2] \in Int /\ b[1] \in Int /\ b[2] \in Int
    BY PositionIsPair
  <1>2. Abs(a[1] - b[1]) = Abs(b[1] - a[1]) /\ Abs(a[2] - b[2]) = Abs(b[2] - a[2])
    BY <1>1 DEF Abs
  <1>3. Abs(a[1] - b[1]) \in Nat /\ Abs(a[2] - b[2]) \in Nat
    BY <1>1 DEF Abs
  <1>4. QED
    BY <1>2, <1>3 DEF Chebyshev

LEMMA CandidateIsDecisive ==
    ASSUME NEW bitmap \in SUBSET Positions, NEW radius \in Int, NEW horizon \in Int,
           NEW draw \in [start : Positions, goal : Positions], NEW cell \in bitmap,
           Divergence(bitmap, radius, draw, cell) \in 2 .. horizon,
           Qualifies(bitmap, radius, PairCandidate(bitmap, radius, draw, cell))
    PROVE  Decisive(bitmap, radius, horizon, PairCandidate(bitmap, radius, draw, cell))
  <1> DEFINE c == PairCandidate(bitmap, radius, draw, cell)
             path == FreePath(bitmap, radius, draw)
             d == Divergence(bitmap, radius, draw, cell)
             prefix == SubSeq(path, 1, d)
             truth == AStarPath(bitmap, draw.start, draw.goal)
             seen == ObservedMap(bitmap, CellsOf(prefix), radius)
             Turn(freed, blocked) == ActionAfter(bitmap, radius, prefix, draw.goal, freed, blocked)
  <1>1. draw.start \in Positions /\ draw.goal \in Positions
    OBVIOUS
  <1>2. d \in Nat /\ 2 <= d /\ d <= horizon /\ horizon \in Nat
    OBVIOUS
  <1>3. /\ c.start = draw.start /\ c.goal = draw.goal /\ c.obstacle = cell
        /\ c.commitment = prefix[d] /\ c.divergence = d /\ c.prefix = prefix
        /\ c.free_next = Turn({cell}, {}) /\ c.blocked_next = Turn({}, {cell})
        /\ c.truth = truth
        /\ c.observers \subseteq SquareCells(cell, radius) \ bitmap
    BY DEF PairCandidate
  <1>4. path \in Seq(Positions) /\ d + 1 <= Len(path)
    <2>1. path \in Seq(Positions)
      BY <1>1, PlanIsSequence DEF FreePath
    <2> DEFINE right == AStarPath(ObservedMap(bitmap, {draw.start}, radius) \cup {cell},
                                  draw.start, draw.goal)
    <2>2. right \in Seq(Positions)
      BY <1>1, PlanIsSequence
    <2>3. FirstDivergence(path, right) = d
      BY DEF Divergence
    <2> HIDE DEF path, right, d
    <2>4. QED
      BY <1>2, <2>1, <2>2, <2>3, DivergenceIsOnPath
  <1>5. BestPath(truth, draw.start, draw.goal, bitmap)
    BY <1>1, AStarIsShortest
  <1>6. /\ CellsOf(prefix) \cap bitmap = {}
        /\ \A a \in CellsOf(prefix) : Chebyshev(a, cell) > radius
        /\ prefix[d] \notin {Turn({cell}, {}), Turn({}, {cell})}
        /\ Turn({cell}, {}) # Turn({}, {cell})
        /\ Len(truth) > d
        /\ Prefix(truth, d) = prefix /\ truth[d + 1] = Turn({}, {cell})
        /\ DynamicPrefixIsConsistent(bitmap, radius, prefix, draw.goal)
    <2> HIDE DEF path, d, prefix, truth, Turn
    <2>1. Qualifies(bitmap, radius, c)
      OBVIOUS
    <2> HIDE DEF c
    <2>2. QED
      BY <1>3, <2>1 DEF Qualifies, HiddenOnTheWay
  <1> HIDE DEF c, path, d, truth
  <1>7. prefix \in Seq(Positions) /\ Len(prefix) = d
    BY <1>2, <1>4
  <1>8. truth \in Seq(Positions) /\ truth # <<>> /\ ValidPath(truth, draw.start, draw.goal, bitmap)
    <2>1. truth \in Seq(Positions)
      BY <1>1, PlanIsSequence DEF truth
    <2>2. truth # <<>>
      BY <1>2, <1>6, <2>1
    <2>3. QED
      BY <1>5, <2>1, <2>2 DEF BestPath, Walk
  <1>9. \A i \in 1 .. d : prefix[i] = truth[i]
    <2>1. prefix = SubSeq(truth, 1, d)
      BY <1>2, <1>6, <1>8 DEF Prefix
    <2>2. QED
      BY <1>2, <1>6, <1>8, <2>1
  <1> HIDE DEF prefix
  <1>10. \A i, j \in DOMAIN prefix : prefix[i] = prefix[j] => i = j
    <2>1. \A i, j \in DOMAIN truth : truth[i] = truth[j] => i = j
      BY <1>1, <1>5, <1>8, NoCellTwice
    <2>2. \A i \in DOMAIN prefix : i \in 1 .. d /\ i \in DOMAIN truth
      BY <1>2, <1>6, <1>7, <1>8
    <2>3. QED
      BY <1>9, <2>1, <2>2
  <1>11. prefix # <<>> /\ prefix[1] = draw.start /\ prefix[Len(prefix)] = prefix[d]
    BY <1>2, <1>7, <1>8, <1>9 DEF ValidPath
  <1>12. seen \ {cell} = seen
    <2>1. SUFFICES ASSUME cell \in seen PROVE FALSE
      OBVIOUS
    <2>2. PICK a \in CellsOf(prefix) : Chebyshev(cell, a) <= radius
      BY <2>1 DEF ObservedMap
    <2>3. a \in Positions /\ cell \in Positions
      BY <1>7, <2>2 DEF CellsOf
    <2>4. Chebyshev(a, cell) = Chebyshev(cell, a) /\ Chebyshev(a, cell) \in Nat
      BY <2>3, ChebyshevIsMutual
    <2>5. Chebyshev(a, cell) > radius
      BY <1>6, <2>2
    <2>6. QED
      BY <2>2, <2>4, <2>5
  <1> DEFINE Act(blocked) == NextOn(AStarPath(blocked, prefix[d], draw.goal), prefix[d])
  <1>13. Turn({cell}, {}) = Act(seen) /\ Turn({}, {cell}) = Act(seen \cup {cell})
    <2>1. (seen \ {cell}) \cup {} = seen /\ (seen \ {}) \cup {cell} = seen \cup {cell}
      BY <1>12
    <2> HIDE DEF seen
    <2>2. /\ Turn({cell}, {}) = Act((seen \ {cell}) \cup {})
          /\ Turn({}, {cell}) = Act((seen \ {}) \cup {cell})
      BY <1>7 DEF ActionAfter, seen
    <2>3. QED
      BY <2>1, <2>2
  <1>14. NeedsHelp(bitmap, radius, c, {c.obstacle}, horizon)
    <2>1. /\ c.start \in Positions /\ c.goal \in Positions /\ c.obstacle \in bitmap
          /\ prefix[1] = c.start /\ prefix[Len(prefix)] = c.commitment
          /\ Len(prefix) <= horizon + 1
      BY <1>1, <1>2, <1>3, <1>7, <1>11
    <2>2. /\ CellsOf(prefix) \cap bitmap = {}
          /\ DynamicPrefixIsConsistent(bitmap, radius, prefix, c.goal)
          /\ \A a \in CellsOf(prefix) : Chebyshev(a, c.obstacle) > radius
      BY <1>3, <1>6
    <2>3. LET alone == ObservedMap(bitmap, CellsOf(prefix), radius)
              Go1(blocked) == NextOn(AStarPath(blocked, c.commitment, c.goal), c.commitment)
          IN  /\ Go1(alone) # Go1(alone \cup {c.obstacle})
              /\ Go1(alone \cup {c.obstacle}) # c.commitment
      BY <1>3, <1>6, <1>13
    <2>4. QED
      BY <1>2, <1>7, <1>10, <1>11, <2>1, <2>2, <2>3, SeekerNeedsHelp
  <1>15. c.start # c.goal
    <2>1. 1 \in DOMAIN truth /\ Len(truth) \in DOMAIN truth /\ Len(truth) # 1
      BY <1>2, <1>6, <1>8
    <2>2. truth[1] = draw.start /\ truth[Len(truth)] = draw.goal
      BY <1>8 DEF ValidPath
    <2>3. \A i, j \in DOMAIN truth : truth[i] = truth[j] => i = j
      BY <1>1, <1>5, <1>8, NoCellTwice
    <2>4. truth[1] # truth[Len(truth)]
      BY <2>1, <2>3
    <2>5. draw.start # draw.goal
      BY <2>2, <2>4
    <2>6. QED
      BY <1>3, <2>5
  <1>16. c.observers \subseteq {o \in Positions \ bitmap : Chebyshev(o, c.obstacle) <= radius}
    BY <1>3 DEF SquareCells
  <1>17. NextOn(AStarPath(ObservedMap(bitmap, CellsOf(c.prefix), radius) \cup {c.obstacle},
                          c.commitment, c.goal), c.commitment) = c.truth[c.divergence + 1]
    BY <1>3, <1>6, <1>13
  <1>18. ValidPath(c.truth, c.start, c.goal, bitmap)
    BY <1>3, <1>8
  <1>19. c.start \in Positions /\ c.goal \in Positions
    BY <1>1, <1>3
  <1>20. Decisive(bitmap, radius, horizon, c)
    BY <1>14, <1>15, <1>16, <1>17, <1>18, <1>19 DEF Decisive
  <1>21. QED
    BY <1>20 DEF c

\* _candidate_from_draw makes nothing, or a candidate that needs help.
LEMMA MadeIsDecisive ==
    ASSUME NEW bitmap \in SUBSET Positions, NEW radius \in Int, NEW horizon \in Int,
           NEW draw \in [start : Positions, goal : Positions],
           CandidateFromDraw(bitmap, radius, horizon, draw) # <<>>
    PROVE  Decisive(bitmap, radius, horizon, CandidateFromDraw(bitmap, radius, horizon, draw)[1])
  <1> DEFINE path == FreePath(bitmap, radius, draw)
             end == Smaller(Len(path), horizon + radius + 3)
             Makes(cell) ==
                /\ /\ cell \in bitmap
                   /\ Chebyshev(draw.start, cell) > radius
                   /\ Divergence(bitmap, radius, draw, cell) \in 2 .. horizon
                /\ Qualifies(bitmap, radius, PairCandidate(bitmap, radius, draw, cell))
             places == {i \in DOMAIN path : radius + 2 <= i /\ i <= end /\ Makes(path[i])}
             cell == path[First(places)]
  <1>1. /\ places # {}
        /\ CandidateFromDraw(bitmap, radius, horizon, draw)
                = <<PairCandidate(bitmap, radius, draw, cell)>>
    BY DEF CandidateFromDraw
  <1>2. path \in Seq(Positions)
    BY PlanIsSequence DEF FreePath
  <1>3. places \in SUBSET Nat
    <2> HIDE DEF path, Makes, end
    <2>1. QED
      BY <1>2
  <1>4. First(places) \in places
    <2> HIDE DEF places
    <2>1. QED
      BY <1>1, <1>3, FirstIsLeast
  <1>5. Makes(cell)
    <2> HIDE DEF path, Makes, end
    <2>1. \A i \in places : Makes(path[i])
      OBVIOUS
    <2> HIDE DEF places
    <2>2. QED
      BY <1>4, <2>1
  <1>6. Decisive(bitmap, radius, horizon, PairCandidate(bitmap, radius, draw, cell))
    <2>1. /\ cell \in bitmap /\ Divergence(bitmap, radius, draw, cell) \in 2 .. horizon
          /\ Qualifies(bitmap, radius, PairCandidate(bitmap, radius, draw, cell))
      BY <1>5
    <2> HIDE DEF cell
    <2>2. QED
      BY <2>1, CandidateIsDecisive
  <1>7. QED
    BY <1>1, <1>6

-----------------------------------------------------------------------------
\* Packing.

\* The states of the flood of _bounded_bfs, in which no step makes another path
\* to where it began.
Floods(start) ==
    LET Paths == UNION {[D -> Seq(Positions)] : D \in SUBSET Positions}
    IN  {f \in [queue : Seq(Positions), paths : Paths] :
            /\ start \in DOMAIN f.paths /\ f.paths[start] = <<start>>
            /\ \A i \in DOMAIN f.queue : f.queue[i] \in DOMAIN f.paths}

Flooded(bitmap, f) ==
    LET current == Head(f.queue)
        found == IF Len(f.paths[current]) > Farthest THEN <<>>
                 ELSE NewNeighbours(current, bitmap \cup DOMAIN f.paths)
    IN  IF f.queue = <<>> THEN f
        ELSE [queue |-> Tail(f.queue) \o found,
              paths |-> [c \in DOMAIN f.paths \cup CellsOf(found) |->
                            IF c \in DOMAIN f.paths THEN f.paths[c]
                            ELSE Append(f.paths[current], c)]]

LEMMA NewNeighboursAreCells ==
    ASSUME NEW cell, NEW seen
    PROVE  NewNeighbours(cell, seen) \in Seq(Positions)
  <1> DEFINE Kept(row, column) ==
                LET c == <<cell[1] + row, cell[2] + column>>
                IN  IF c \in Positions \ seen THEN <<c>> ELSE <<>>
  <1>1. \A row, column : Kept(row, column) \in Seq(Positions)
    <2>1. SUFFICES ASSUME NEW row, NEW column PROVE Kept(row, column) \in Seq(Positions)
      OBVIOUS
    <2> DEFINE c == <<cell[1] + row, cell[2] + column>>
    <2>2. CASE c \in Positions \ seen
      <3> HIDE DEF c
      <3>1. <<c>> \in Seq(Positions)
        BY <2>2
      <3>2. Kept(row, column) = <<c>>
        BY <2>2 DEF c
      <3>3. QED
        BY <3>1, <3>2
    <2>3. CASE c \notin Positions \ seen
      <3>1. Kept(row, column) = <<>>
        BY <2>3
      <3>2. <<>> \in Seq(Positions)
        OBVIOUS
      <3>3. QED
        BY <3>1, <3>2
    <2>4. QED
      BY <2>2, <2>3
  <1>2. NewNeighbours(cell, seen) = Kept(-1, 0) \o Kept(1, 0) \o Kept(0, -1) \o Kept(0, 1)
    BY DEF NewNeighbours
  <1> HIDE DEF Kept
  <1>3. /\ Kept(-1, 0) \in Seq(Positions) /\ Kept(1, 0) \in Seq(Positions)
        /\ Kept(0, -1) \in Seq(Positions) /\ Kept(0, 1) \in Seq(Positions)
    BY <1>1
  <1>4. \A a, b \in Seq(Positions) : a \o b \in Seq(Positions)
    OBVIOUS
  <1>5. QED
    BY <1>2, <1>3, <1>4

LEMMA FloodedIsFlood ==
    ASSUME NEW bitmap, NEW start \in Positions, NEW f \in Floods(start)
    PROVE  Flooded(bitmap, f) \in Floods(start)
  <1> DEFINE current == Head(f.queue)
             found == IF Len(f.paths[current]) > Farthest THEN <<>>
                      ELSE NewNeighbours(current, bitmap \cup DOMAIN f.paths)
             paths == [c \in DOMAIN f.paths \cup CellsOf(found) |->
                            IF c \in DOMAIN f.paths THEN f.paths[c]
                            ELSE Append(f.paths[current], c)]
             queue == Tail(f.queue) \o found
             Paths == UNION {[D -> Seq(Positions)] : D \in SUBSET Positions}
  <1>1. SUFFICES ASSUME f.queue # <<>> PROVE [queue |-> queue, paths |-> paths] \in Floods(start)
    BY DEF Flooded
  <1>2. /\ f.queue \in Seq(Positions) /\ f.paths \in Paths
        /\ start \in DOMAIN f.paths /\ f.paths[start] = <<start>>
        /\ \A i \in DOMAIN f.queue : f.queue[i] \in DOMAIN f.paths
    BY DEF Floods
  <1>3. PICK D \in SUBSET Positions : f.paths \in [D -> Seq(Positions)]
    BY <1>2
  <1>4. found \in Seq(Positions)
    <2>1. <<>> \in Seq(Positions)
      OBVIOUS
    <2>2. NewNeighbours(current, bitmap \cup DOMAIN f.paths) \in Seq(Positions)
      BY NewNeighboursAreCells
    <2>3. QED
      BY <2>1, <2>2
  <1> HIDE DEF found
  <1>5. CellsOf(found) \subseteq Positions /\ \A i \in DOMAIN found : found[i] \in CellsOf(found)
    BY <1>4 DEF CellsOf
  <1>6. 1 \in DOMAIN f.queue /\ current = f.queue[1] /\ Len(f.queue) \in Nat \ {0}
    BY <1>1, <1>2
  <1>7. f.paths[current] \in Seq(Positions)
    BY <1>2, <1>3, <1>6
  <1>8. \A c \in CellsOf(found) : Append(f.paths[current], c) \in Seq(Positions)
    BY <1>5, <1>7
  <1> HIDE DEF current
  <1>9. /\ DOMAIN paths = D \cup CellsOf(found)
        /\ paths \in [D \cup CellsOf(found) -> Seq(Positions)]
        /\ \A c \in D : paths[c] = f.paths[c]
    BY <1>3, <1>8
  <1> HIDE DEF paths
  <1>10. paths \in Paths /\ start \in DOMAIN paths /\ paths[start] = <<start>>
    <2>1. D \cup CellsOf(found) \in SUBSET Positions
      BY <1>5
    <2>2. paths \in Paths
      BY <1>9, <2>1
    <2>3. start \in D
      BY <1>2, <1>3
    <2>4. QED
      BY <1>2, <1>9, <2>2, <2>3
  <1>11. queue \in Seq(Positions) /\ \A i \in DOMAIN queue : queue[i] \in DOMAIN paths
    <2>1. Tail(f.queue) \in Seq(Positions) /\ Len(Tail(f.queue)) = Len(f.queue) - 1
          /\ \A i \in 1 .. Len(f.queue) - 1 : Tail(f.queue)[i] = f.queue[i + 1]
      BY <1>1, <1>2, <1>6
    <2>2. queue \in Seq(Positions) /\ Len(queue) = (Len(f.queue) - 1) + Len(found)
      BY <1>4, <2>1
    <2>3. ASSUME NEW i \in 1 .. Len(queue) PROVE queue[i] \in DOMAIN paths
      <3>1. CASE i <= Len(f.queue) - 1
        <4>1. i + 1 \in DOMAIN f.queue
          BY <1>2, <1>6, <3>1
        <4>2. i \in 1 .. Len(f.queue) - 1
          BY <1>6, <3>1
        <4>3. queue[i] = Tail(f.queue)[i]
          BY <1>4, <2>1, <4>2
        <4>4. queue[i] \in D
          BY <1>2, <1>3, <2>1, <4>1, <4>2, <4>3
        <4>5. QED
          BY <1>9, <4>4
      <3>2. CASE ~(i <= Len(f.queue) - 1)
        <4> DEFINE j == i - (Len(f.queue) - 1)
        <4>1. j \in 1 .. Len(found)
          BY <1>4, <1>6, <2>2, <3>2
        <4>2. queue[i] = found[j]
          <5> DEFINE s == Tail(f.queue)
          <5>1. s \in Seq(Positions) /\ Len(s) = Len(f.queue) - 1 /\ Len(s) \in Nat
                /\ Len(found) \in Nat /\ i \in Nat /\ i <= Len(queue)
            BY <1>4, <1>6, <2>1, <2>2
          <5>2. queue = s \o found
            OBVIOUS
          <5>3. i \in Len(s) + 1 .. Len(s) + Len(found) /\ j = i - Len(s)
            <6> HIDE DEF s, queue
            <6>1. QED
              BY <1>6, <2>2, <3>2, <5>1
          <5> HIDE DEF s, queue, j
          <5>4. (s \o found)[i] = found[i - Len(s)]
            BY <1>4, <5>1, <5>3
          <5>5. QED
            BY <5>2, <5>3, <5>4
        <4>3. found[j] \in CellsOf(found)
          <5>1. DOMAIN found = 1 .. Len(found)
            BY <1>4
          <5> HIDE DEF j
          <5>2. QED
            BY <1>5, <4>1, <5>1
        <4>4. QED
          BY <1>9, <4>2, <4>3
      <3>3. QED
        BY <3>1, <3>2
    <2>4. QED
      BY <2>2, <2>3
  <1> HIDE DEF queue, Paths
  <1>12. [queue |-> queue, paths |-> paths] \in [queue : Seq(Positions), paths : Paths]
    BY <1>10, <1>11
  <1>13. QED
    BY <1>10, <1>11, <1>12 DEF Floods, Paths

\* The path to where a flood begins has one cell, and it comes to cells only.
LEMMA FloodBeginsWithStart ==
    ASSUME NEW bitmap, NEW start \in Positions
    PROVE  /\ DOMAIN BoundedBFS(bitmap, start) \subseteq Positions
           /\ BoundedBFS(bitmap, start)[start] = <<start>>
  <1> DEFINE V == Floods(start)
             first == [queue |-> <<start>>, paths |-> [c \in {start} |-> <<start>>]]
             step == [f \in V |-> Flooded(bitmap, f)]
             Body(g) == [n \in Nat |-> IF n = 0 THEN first ELSE Flooded(bitmap, g[n - 1])]
             flood == CHOOSE g : g = Body(g)
  <1>1. first \in V
    <2> DEFINE paths == [c \in {start} |-> <<start>>]
    <2>1. paths \in [{start} -> Seq(Positions)] /\ {start} \in SUBSET Positions
      OBVIOUS
    <2>2. <<start>> \in Seq(Positions) /\ DOMAIN <<start>> = {1} /\ <<start>>[1] = start
      OBVIOUS
    <2>3. DOMAIN paths = {start} /\ paths[start] = <<start>>
      OBVIOUS
    <2> HIDE DEF paths
    <2>4. QED
      BY <2>1, <2>2, <2>3 DEF Floods, paths
  <1>2. step \in [V -> V]
    BY FloodedIsFlood
  <1> HIDE DEF V
  <1>3. PICK f \in [Nat -> V] : \A n \in Nat : f[n] = IF n = 0 THEN first ELSE step[f[n - 1]]
    <2> HIDE DEF first, step
    <2>1. QED
      BY <1>1, <1>2, LoopExists
  <1>4. f = Body(f)
    <2> HIDE DEF first
    <2>1. ASSUME NEW n \in Nat
          PROVE  f[n] = IF n = 0 THEN first ELSE Flooded(bitmap, f[n - 1])
      <3>1. CASE n = 0
        BY <1>3, <3>1
      <3>2. CASE n # 0
        <4>1. f[n - 1] \in V
          BY <3>2
        <4>2. QED
          BY <1>3, <3>2, <4>1
      <3>3. QED
        BY <3>1, <3>2
    <2>2. QED
      BY <2>1
  <1>5. flood = Body(flood)
    <2> HIDE DEF Body
    <2>1. QED
      BY <1>4
  <1>6. BoundedBFS(bitmap, start) = flood[Rows * Cols].paths
    BY DEF BoundedBFS, Flooded
  <1> HIDE DEF flood, first
  <1>7. \A n \in Nat : flood[n] \in V
    <2> DEFINE S == {n \in Nat : flood[n] \in V}
    <2>1. \A n \in Nat : flood[n] = IF n = 0 THEN first ELSE Flooded(bitmap, flood[n - 1])
      BY <1>5
    <2>2. 0 \in S
      BY <1>1, <2>1
    <2>3. ASSUME NEW n \in Nat, n \in S PROVE n + 1 \in S
      <3>1. flood[n + 1] = Flooded(bitmap, flood[n])
        <4>1. n + 1 \in Nat /\ n + 1 # 0 /\ (n + 1) - 1 = n
          OBVIOUS
        <4>2. QED
          BY <2>1, <4>1
      <3>2. flood[n + 1] \in V
        BY <2>3, <3>1, FloodedIsFlood DEF V
      <3>3. QED
        BY <3>2
    <2> HIDE DEF S
    <2>4. \A n \in Nat : n \in S
      BY <2>2, <2>3, InductionInSet
    <2>5. QED
      BY <2>4 DEF S
  <1>8. Rows * Cols \in Nat
    BY GridAssumption
  <1>9. flood[Rows * Cols] \in Floods(start)
    BY <1>7, <1>8 DEF V
  <1>10. QED
    BY <1>6, <1>9 DEF Floods

Ends(selected) ==
    UNION {{p.observer.start, p.observer.goal, p.candidate.start, p.candidate.goal} :
            p \in CellsOf(selected)}

\* Candidates that may be packed, and packings of them: no end is used twice.
AllDecisive(bitmap, radius, horizon, C) == \A c \in C : Decisive(bitmap, radius, horizon, c)

Packings(C) ==
    {selected \in Seq([observer : [start : Positions, goal : Positions], candidate : C]) :
        /\ \A p \in CellsOf(selected) : p.observer.start \in p.candidate.observers
        /\ IsFiniteSet(Ends(selected)) /\ Cardinality(Ends(selected)) = 4 * Len(selected)}

LEMMA EmptyIsPacking ==
    ASSUME NEW C
    PROVE  <<>> \in Packings(C)
  <1>1. CellsOf(<<>>) = {}
    BY DEF CellsOf
  <1>2. Ends(<<>>) = {}
    BY <1>1 DEF Ends
  <1>3. IsFiniteSet({}) /\ Cardinality({}) = 0
    BY FS_EmptySet
  <1>4. Len(<<>>) = 0 /\ <<>> \in Seq([observer : [start : Positions, goal : Positions], candidate : C])
    OBVIOUS
  <1>5. Cardinality(Ends(<<>>)) = 4 * Len(<<>>)
    <2>1. Cardinality(Ends(<<>>)) = 0
      BY <1>2, <1>3
    <2>2. 4 * Len(<<>>) = 0
      BY <1>4
    <2>3. QED
      BY <2>1, <2>2
  <1>6. IsFiniteSet(Ends(<<>>)) /\ \A p \in CellsOf(<<>>) : p.observer.start \in p.candidate.observers
    BY <1>1, <1>2, <1>3
  <1> DEFINE e == <<>>
  <1>7. /\ e \in Seq([observer : [start : Positions, goal : Positions], candidate : C])
        /\ \A p \in CellsOf(e) : p.observer.start \in p.candidate.observers
        /\ IsFiniteSet(Ends(e)) /\ Cardinality(Ends(e)) = 4 * Len(e)
    BY <1>4, <1>5, <1>6
  <1> HIDE DEF e
  <1>8. e \in Packings(C)
    BY <1>7 DEF Packings
  <1>9. QED
    BY <1>8 DEF e

LEMMA FourMore ==
    ASSUME NEW S, IsFiniteSet(S), NEW a, NEW b, NEW c, NEW d,
           a \notin S, b \notin S, c \notin S, d \notin S,
           a # b, a # c, a # d, b # c, b # d, c # d
    PROVE  /\ IsFiniteSet(S \cup {a, b, c, d})
           /\ Cardinality(S \cup {a, b, c, d}) = Cardinality(S) + 4
  <1> DEFINE A == S \cup {a}
             B == A \cup {b}
             C == B \cup {c}
             D == C \cup {d}
  <1>1. Cardinality(S) \in Nat
    BY FS_CardinalityType
  <1>2. IsFiniteSet(A) /\ Cardinality(A) = Cardinality(S) + 1
    BY FS_AddElement
  <1>3. b \notin A /\ c \notin A /\ d \notin A
    OBVIOUS
  <1> HIDE DEF A
  <1>4. IsFiniteSet(B) /\ Cardinality(B) = Cardinality(A) + 1
    BY <1>2, <1>3, FS_AddElement
  <1>5. c \notin B /\ d \notin B
    BY <1>3
  <1> HIDE DEF B
  <1>6. IsFiniteSet(C) /\ Cardinality(C) = Cardinality(B) + 1
    BY <1>4, <1>5, FS_AddElement
  <1>7. d \notin C
    BY <1>5
  <1> HIDE DEF C
  <1>8. IsFiniteSet(D) /\ Cardinality(D) = Cardinality(C) + 1
    BY <1>6, <1>7, FS_AddElement
  <1>9. D = S \cup {a, b, c, d}
    BY DEF A, B, C
  <1>10. Cardinality(D) = Cardinality(S) + 4
    BY <1>1, <1>2, <1>4, <1>6, <1>8
  <1>11. QED
    BY <1>8, <1>9, <1>10

\* A pair that may be selected keeps the ends apart.
LEMMA SelectedIsPacking ==
    ASSUME NEW bitmap, NEW radius, NEW horizon, NEW C, AllDecisive(bitmap, radius, horizon, C),
           NEW c \in C, NEW selected \in Packings(C), NEW p \in Selectable(bitmap, c, selected)
    PROVE  Append(selected, p) \in Packings(C)
  <1> DEFINE pairs == CellsOf(selected)
             keys == SeekerKeys(c)
             occupied == Occupied(pairs) \cup keys
             starts == StartCells(pairs) \cup {c.start}
             PairRecords == [observer : [start : Positions, goal : Positions], candidate : C]
             ends == {p.observer.start, p.observer.goal, p.candidate.start, p.candidate.goal}
  <1>1. /\ c.start \in Positions /\ c.goal \in Positions /\ c.start # c.goal
        /\ c.observers \subseteq Positions
    BY DEF AllDecisive, Decisive
  <1>2. /\ selected \in Seq(PairRecords)
        /\ \A q \in pairs : q.observer.start \in q.candidate.observers
        /\ IsFiniteSet(Ends(selected)) /\ Cardinality(Ends(selected)) = 4 * Len(selected)
    BY DEF Packings
  <1>3. /\ keys \cap Occupied(pairs) = {}
        /\ \E o \in ObserverRoutes(bitmap, c, occupied, starts) :
                p = [observer |-> o, candidate |-> c]
    <2> HIDE DEF pairs, keys
    <2>1. p \in IF \/ keys \cap Occupied(pairs) # {}
                   \/ \E q \in pairs :
                        Manhattan(c.obstacle, q.candidate.obstacle) < ObstacleGap
                   \/ ~Apart(c.start, StartCells(pairs))
                THEN {}
                ELSE {[observer |-> o, candidate |-> c] :
                        o \in ObserverRoutes(bitmap, c, occupied, starts)}
      BY DEF Selectable, pairs, keys
    <2>2. QED
      BY <2>1
  <1>4. PICK o \in ObserverRoutes(bitmap, c, occupied, starts) :
                p = [observer |-> o, candidate |-> c]
    BY <1>3
  <1>5. PICK s \in {a \in c.observers \ occupied : Apart(a, starts)} :
            o \in {[start |-> s, goal |-> goal] : goal \in
                    {a \in DOMAIN BoundedBFS(bitmap, s) \ (occupied \cup {c.start, c.goal}) :
                        /\ Len(BoundedBFS(bitmap, s)[a]) - 1 \in ObserverSteps
                        /\ CellsOf(Tail(BoundedBFS(bitmap, s)[a]))
                            \cap CellsOf(Prefix(c.truth, c.divergence + 1)) = {}}}
    BY DEF ObserverRoutes
  <1>6. PICK g \in DOMAIN BoundedBFS(bitmap, s) \ (occupied \cup {c.start, c.goal}) :
            o = [start |-> s, goal |-> g] /\ Len(BoundedBFS(bitmap, s)[g]) - 1 \in ObserverSteps
    BY <1>5
  <1>7. s \in Positions /\ s \in c.observers /\ s \notin occupied
    BY <1>1, <1>5
  <1>8. g \in Positions /\ g \notin occupied /\ g # s
    <2>1. DOMAIN BoundedBFS(bitmap, s) \subseteq Positions
      BY <1>7, FloodBeginsWithStart
    <2>2. BoundedBFS(bitmap, s)[s] = <<s>>
      BY <1>7, FloodBeginsWithStart
    <2>3. g # s
      <3>1. SUFFICES ASSUME g = s PROVE FALSE
        OBVIOUS
      <3>2. Len(BoundedBFS(bitmap, s)[g]) = 1
        BY <2>2, <3>1
      <3>3. QED
        BY <1>6, <3>2, SearchAssumption
    <2>4. QED
      BY <1>6, <2>1, <2>3
  <1>9. /\ p.observer.start = s /\ p.observer.goal = g /\ p.candidate = c
        /\ p \in PairRecords /\ ends = {s, g, c.start, c.goal}
    BY <1>1, <1>4, <1>6, <1>7, <1>8
  <1>10. Ends(selected) \subseteq Occupied(pairs)
    BY DEF Ends, Occupied, SeekerKeys
  <1>11. /\ c.start \notin Ends(selected) /\ c.goal \notin Ends(selected)
         /\ s \notin Ends(selected) /\ g \notin Ends(selected)
         /\ s # c.start /\ s # c.goal /\ g # c.start /\ g # c.goal
    <2>1. c.start \in keys /\ c.goal \in keys
      BY DEF SeekerKeys
    <2> HIDE DEF keys, pairs
    <2>2. QED
      BY <1>3, <1>7, <1>8, <1>10, <2>1
  <1> DEFINE next == Append(selected, p)
  <1>12. next \in Seq(PairRecords) /\ Len(next) = Len(selected) + 1 /\ CellsOf(next) = pairs \cup {p}
    <2>1. next \in Seq(PairRecords) /\ Len(next) = Len(selected) + 1 /\ next[Len(selected) + 1] = p
          /\ \A i \in 1 .. Len(selected) : next[i] = selected[i]
      BY <1>2, <1>9
    <2>2. DOMAIN next = 1 .. Len(selected) + 1 /\ DOMAIN selected = 1 .. Len(selected)
          /\ Len(selected) \in Nat
      BY <1>2, <2>1
    <2> HIDE DEF next
    <2>3. ASSUME NEW a \in CellsOf(next) PROVE a \in pairs \cup {p}
      <3>1. PICK i \in DOMAIN next : a = next[i]
        BY <2>3 DEF CellsOf
      <3>2. CASE i = Len(selected) + 1
        BY <2>1, <3>1, <3>2
      <3>3. CASE i # Len(selected) + 1
        <4>1. i \in DOMAIN selected /\ a = selected[i]
          BY <2>1, <2>2, <3>1, <3>3
        <4>2. QED
          BY <4>1 DEF CellsOf
      <3>4. QED
        BY <3>2, <3>3
    <2>4. ASSUME NEW a \in pairs PROVE a \in CellsOf(next)
      <3>1. PICK i \in DOMAIN selected : a = selected[i]
        BY <2>4 DEF CellsOf
      <3>2. i \in DOMAIN next /\ a = next[i]
        BY <2>1, <2>2, <3>1
      <3>3. QED
        BY <3>2 DEF CellsOf
    <2>5. p \in CellsOf(next)
      <3>1. Len(selected) + 1 \in DOMAIN next
        BY <2>2
      <3>2. QED
        BY <2>1, <3>1 DEF CellsOf
    <2>6. QED
      BY <2>1, <2>3, <2>4, <2>5
  <1>13. Ends(next) = Ends(selected) \cup {s, g, c.start, c.goal}
    <2>1. Ends(next) = Ends(selected) \cup ends
      <3> HIDE DEF next
      <3>1. QED
        BY <1>12 DEF Ends
    <2>2. QED
      BY <1>9, <2>1
  <1>14. IsFiniteSet(Ends(next)) /\ Cardinality(Ends(next)) = Cardinality(Ends(selected)) + 4
    <2> DEFINE S == Ends(selected)
               a == c.start
               b == c.goal
    <2>1. IsFiniteSet(S) /\ s \notin S /\ g \notin S /\ a \notin S /\ b \notin S
          /\ s # g /\ s # a /\ s # b /\ g # a /\ g # b /\ a # b
      BY <1>1, <1>2, <1>8, <1>11
    <2>2. Ends(next) = S \cup {s, g, a, b}
      BY <1>13
    <2> HIDE DEF S, a, b
    <2>3. /\ IsFiniteSet(S \cup {s, g, a, b})
          /\ Cardinality(S \cup {s, g, a, b}) = Cardinality(S) + 4
      BY <2>1, FourMore
    <2>4. QED
      BY <2>2, <2>3 DEF S
  <1>15. Cardinality(Ends(next)) = 4 * Len(next)
    <2>1. Len(selected) \in Nat
      BY <1>2
    <2>2. QED
      BY <1>2, <1>12, <1>14, <2>1
  <1>16. \A q \in CellsOf(next) : q.observer.start \in q.candidate.observers
    BY <1>2, <1>7, <1>9, <1>12
  <1> HIDE DEF next
  <1>17. next \in Packings(C)
    BY <1>12, <1>14, <1>15, <1>16 DEF Packings
  <1>18. QED
    BY <1>17 DEF next

\* Whatever the order of the candidates, what _pack_candidates selects is a packing.
LEMMA PackedIsPacking ==
    ASSUME NEW bitmap, NEW radius, NEW horizon, NEW C, AllDecisive(bitmap, radius, horizon, C),
           NEW candidates \in Seq(C), NEW pair_count
    PROVE  PackCandidates(bitmap, candidates, pair_count) \subseteq Packings(C)
  <1> DEFINE V == SUBSET Packings(C)
             N == Len(candidates)
             first == {<<>>}
             Step(n, v) == UNION {
                LET pairs == Selectable(bitmap, candidates[n], selected)
                IN  IF Len(selected) = pair_count \/ pairs = {} THEN {selected}
                    ELSE {Append(selected, p) : p \in pairs}
              : selected \in v}
             step == [a \in (1 .. N) \X V |-> Step(a[1], a[2])]
             Body(g) == [n \in 0 .. N |-> IF n = 0 THEN {<<>>} ELSE Step(n, g[n - 1])]
             packed == CHOOSE g : g = Body(g)
  <1>1. N \in Nat /\ \A n \in 1 .. N : candidates[n] \in C
    OBVIOUS
  <1>2. first \in V
    BY EmptyIsPacking
  <1>3. ASSUME NEW n \in 1 .. N, NEW v \in V PROVE Step(n, v) \in V
    <2>1. SUFFICES ASSUME NEW x \in Step(n, v) PROVE x \in Packings(C)
      OBVIOUS
    <2>2. PICK selected \in v :
            x \in IF Len(selected) = pair_count
                     \/ Selectable(bitmap, candidates[n], selected) = {} THEN {selected}
                  ELSE {Append(selected, p) : p \in Selectable(bitmap, candidates[n], selected)}
      BY <2>1
    <2>3. CASE x = selected
      BY <2>2, <2>3
    <2>4. CASE \E p \in Selectable(bitmap, candidates[n], selected) : x = Append(selected, p)
      BY <1>1, <2>2, <2>4, SelectedIsPacking
    <2>5. QED
      BY <2>2, <2>3, <2>4
  <1>4. step \in [(1 .. N) \X V -> V]
    <2> HIDE DEF V, Step
    <2>1. \A a \in (1 .. N) \X V : a[1] \in 1 .. N /\ a[2] \in V
      OBVIOUS
    <2>2. \A a \in (1 .. N) \X V : Step(a[1], a[2]) \in V
      BY <1>3, <2>1
    <2>3. QED
      BY <2>2
  <1> HIDE DEF V, Step
  <1>5. PICK f \in [0 .. N -> V] :
            \A n \in 0 .. N : f[n] = IF n = 0 THEN first ELSE step[<<n, f[n - 1]>>]
    <2> HIDE DEF first, step, N
    <2>1. \E f \in [0 .. N -> V] : Looped(f, N, first, step)
      BY <1>1, <1>2, <1>4, IndexedLoopExists
    <2>2. QED
      BY <2>1 DEF Looped
  <1>6. f = Body(f)
    <2>1. ASSUME NEW n \in 0 .. N
          PROVE  f[n] = IF n = 0 THEN {<<>>} ELSE Step(n, f[n - 1])
      <3>1. CASE n = 0
        BY <1>5, <3>1
      <3>2. CASE n # 0
        <4>1. n \in 1 .. N /\ n - 1 \in 0 .. N
          BY <1>1, <3>2
        <4>2. <<n, f[n - 1]>> \in (1 .. N) \X V
          BY <4>1
        <4>3. step[<<n, f[n - 1]>>] = Step(n, f[n - 1])
          BY <4>2
        <4>4. QED
          BY <1>5, <3>2, <4>3
      <3>3. QED
        BY <3>1, <3>2
    <2>2. QED
      BY <2>1
  <1>7. packed = Body(packed)
    <2> HIDE DEF Body
    <2>1. QED
      BY <1>6
  <1>8. PackCandidates(bitmap, candidates, pair_count) = packed[N]
    BY DEF PackCandidates, Step
  <1> HIDE DEF packed
  <1>9. \A n \in 0 .. N : packed[n] = IF n = 0 THEN {<<>>} ELSE Step(n, packed[n - 1])
    BY <1>7
  <1> DEFINE S == {n \in Nat : n <= N => packed[n] \in V}
  <1>10. 0 \in S
    BY <1>1, <1>2, <1>9
  <1>11. ASSUME NEW n \in Nat, n \in S PROVE n + 1 \in S
    <2>1. SUFFICES ASSUME n + 1 <= N PROVE packed[n + 1] \in V
      OBVIOUS
    <2>2. n <= N /\ n + 1 \in 1 .. N /\ n + 1 \in 0 .. N /\ n + 1 # 0 /\ (n + 1) - 1 = n
      BY <1>1, <2>1
    <2>3. packed[n + 1] = Step(n + 1, packed[n])
      BY <1>9, <2>2
    <2>4. packed[n] \in V
      BY <1>11, <2>2
    <2>5. QED
      BY <1>3, <2>2, <2>3, <2>4
  <1> HIDE DEF S
  <1>12. \A n \in Nat : n \in S
    BY <1>10, <1>11, InductionInSet
  <1>13. packed[N] \in V
    BY <1>1, <1>12 DEF S
  <1>14. QED
    BY <1>8, <1>13 DEF V

-----------------------------------------------------------------------------
\* Plans.

LEMMA AppendFacts ==
    ASSUME NEW S, NEW s \in Seq(S), NEW e \in S
    PROVE  /\ Append(s, e) \in Seq(S) /\ Len(Append(s, e)) = Len(s) + 1
           /\ DOMAIN Append(s, e) = DOMAIN s \cup {Len(s) + 1}
           /\ Append(s, e)[Len(s) + 1] = e
           /\ \A i \in DOMAIN s : Append(s, e)[i] = s[i]
           /\ CellsOf(Append(s, e)) = CellsOf(s) \cup {e}
  <1> DEFINE t == Append(s, e)
  <1>1. /\ t \in Seq(S) /\ Len(t) = Len(s) + 1 /\ t[Len(s) + 1] = e
        /\ \A i \in 1 .. Len(s) : t[i] = s[i]
    OBVIOUS
  <1>2. DOMAIN t = 1 .. Len(s) + 1 /\ DOMAIN s = 1 .. Len(s) /\ Len(s) \in Nat
    BY <1>1
  <1> HIDE DEF t
  <1>3. DOMAIN t = DOMAIN s \cup {Len(s) + 1}
    BY <1>2
  <1>4. CellsOf(t) = CellsOf(s) \cup {e}
    <2>1. ASSUME NEW x \in CellsOf(t) PROVE x \in CellsOf(s) \cup {e}
      <3>1. PICK i \in DOMAIN t : x = t[i]
        BY <2>1 DEF CellsOf
      <3>2. CASE i = Len(s) + 1
        BY <1>1, <3>1, <3>2
      <3>3. CASE i \in DOMAIN s
        BY <1>1, <1>2, <3>1, <3>3 DEF CellsOf
      <3>4. QED
        BY <1>3, <3>2, <3>3
    <2>2. ASSUME NEW i \in DOMAIN s PROVE s[i] \in CellsOf(t)
      <3>1. i \in DOMAIN t /\ t[i] = s[i]
        BY <1>1, <1>2, <1>3
      <3>2. QED
        BY <3>1 DEF CellsOf
    <2>3. e \in CellsOf(t)
      <3>1. Len(s) + 1 \in DOMAIN t /\ t[Len(s) + 1] = e
        BY <1>1, <1>3
      <3>2. QED
        BY <3>1 DEF CellsOf
    <2>4. CellsOf(s) \subseteq CellsOf(t)
      BY <2>2 DEF CellsOf
    <2>5. QED
      BY <2>1, <2>3, <2>4
  <1>5. QED
    BY <1>1, <1>2, <1>3, <1>4 DEF t

LEMMA ConcatFacts ==
    ASSUME NEW S, NEW s \in Seq(S), NEW t \in Seq(S)
    PROVE  /\ s \o t \in Seq(S) /\ Len(s \o t) = Len(s) + Len(t)
           /\ \A i \in 1 .. Len(s) : (s \o t)[i] = s[i]
           /\ \A i \in 1 .. Len(t) : (s \o t)[Len(s) + i] = t[i]
  OBVIOUS

\* dict.fromkeys keeps every member.
LEMMA DistinctKeepsAll ==
    ASSUME NEW S, NEW seq \in Seq(S)
    PROVE  Distinct(seq) \in Seq(S) /\ CellsOf(Distinct(seq)) = CellsOf(seq)
  <1> DEFINE N == Len(seq)
             V == Seq(S)
             Step(n, v) == IF \E i \in 1 .. n - 1 : seq[i] = seq[n] THEN v ELSE Append(v, seq[n])
             step == [a \in (1 .. N) \X V |-> Step(a[1], a[2])]
             Body(g) == [n \in 0 .. N |-> IF n = 0 THEN <<>> ELSE Step(n, g[n - 1])]
             found == CHOOSE g : g = Body(g)
  <1>1. N \in Nat /\ DOMAIN seq = 1 .. N /\ \A n \in 1 .. N : seq[n] \in S
    OBVIOUS
  <1>2. <<>> \in V
    OBVIOUS
  <1>3. \A n \in 1 .. N, v \in V : Step(n, v) \in V
    BY <1>1
  <1>4. step \in [(1 .. N) \X V -> V]
    <2> HIDE DEF V, Step, N
    <2>1. \A a \in (1 .. N) \X V : a[1] \in 1 .. N /\ a[2] \in V
      OBVIOUS
    <2>2. \A a \in (1 .. N) \X V : Step(a[1], a[2]) \in V
      BY <1>3, <2>1
    <2>3. QED
      BY <2>2
  <1> DEFINE first == <<>>
  <1>5. PICK f \in [0 .. N -> V] :
            \A n \in 0 .. N : f[n] = IF n = 0 THEN first ELSE step[<<n, f[n - 1]>>]
    <2>1. first \in V
      BY <1>2
    <2> HIDE DEF step, N, V, first
    <2>2. \E f \in [0 .. N -> V] : Looped(f, N, first, step)
      BY <1>1, <1>4, <2>1, IndexedLoopExists
    <2>3. QED
      BY <2>2 DEF Looped
  <1> HIDE DEF V, Step
  <1>6. f = Body(f)
    <2>1. ASSUME NEW n \in 0 .. N
          PROVE  f[n] = IF n = 0 THEN <<>> ELSE Step(n, f[n - 1])
      <3>1. CASE n = 0
        BY <1>5, <3>1
      <3>2. CASE n # 0
        <4>1. n \in 1 .. N /\ n - 1 \in 0 .. N
          BY <1>1, <3>2
        <4>2. <<n, f[n - 1]>> \in (1 .. N) \X V
          BY <4>1
        <4>3. step[<<n, f[n - 1]>>] = Step(n, f[n - 1])
          BY <4>2
        <4>4. QED
          BY <1>5, <3>2, <4>3
      <3>3. QED
        BY <3>1, <3>2
    <2>2. QED
      BY <2>1
  <1>7. found = Body(found)
    <2> HIDE DEF Body
    <2>1. QED
      BY <1>6
  <1>8. Distinct(seq) = found[N]
    BY DEF Distinct, Step
  <1> HIDE DEF found
  <1>9. \A n \in 0 .. N : found[n] = IF n = 0 THEN <<>> ELSE Step(n, found[n - 1])
    BY <1>7
  <1> DEFINE T == {n \in Nat : n <= N =>
                    found[n] \in V /\ CellsOf(found[n]) = {seq[i] : i \in 1 .. n}}
  <1>10. 0 \in T
    <2>1. found[0] = <<>> /\ 1 .. 0 = {}
      BY <1>1, <1>9
    <2>2. QED
      BY <1>2, <2>1 DEF CellsOf
  <1>11. ASSUME NEW n \in Nat, n \in T PROVE n + 1 \in T
    <2>1. SUFFICES ASSUME n + 1 <= N
                   PROVE  found[n + 1] \in V /\ CellsOf(found[n + 1]) = {seq[i] : i \in 1 .. n + 1}
      OBVIOUS
    <2>2. n <= N /\ n + 1 \in 1 .. N /\ n + 1 \in 0 .. N /\ n + 1 # 0 /\ (n + 1) - 1 = n
      BY <1>1, <2>1
    <2>3. found[n + 1] = Step(n + 1, found[n])
      BY <1>9, <2>2
    <2>4. found[n] \in V /\ CellsOf(found[n]) = {seq[i] : i \in 1 .. n}
      BY <1>11, <2>2
    <2>5. {seq[i] : i \in 1 .. n + 1} = {seq[i] : i \in 1 .. n} \cup {seq[n + 1]}
      <3>1. 1 .. n + 1 = (1 .. n) \cup {n + 1}
        OBVIOUS
      <3>2. QED
        BY <3>1
    <2>6. CASE \E i \in 1 .. n : seq[i] = seq[n + 1]
      <3>1. found[n + 1] = found[n]
        BY <2>2, <2>3, <2>6 DEF Step
      <3>2. seq[n + 1] \in {seq[i] : i \in 1 .. n}
        BY <2>6
      <3>3. QED
        BY <2>4, <2>5, <3>1, <3>2
    <2>7. CASE ~\E i \in 1 .. n : seq[i] = seq[n + 1]
      <3>1. found[n + 1] = Append(found[n], seq[n + 1])
        BY <2>2, <2>3, <2>7 DEF Step
      <3>2. seq[n + 1] \in S
        BY <1>1, <2>2
      <3>3. /\ Append(found[n], seq[n + 1]) \in Seq(S)
            /\ CellsOf(Append(found[n], seq[n + 1])) = CellsOf(found[n]) \cup {seq[n + 1]}
        BY <2>4, <3>2, AppendFacts DEF V
      <3>4. QED
        BY <2>4, <2>5, <3>1, <3>3 DEF V
    <2>8. QED
      BY <2>6, <2>7
  <1> HIDE DEF T
  <1>12. \A n \in Nat : n \in T
    BY <1>10, <1>11, InductionInSet
  <1>13. found[N] \in V /\ CellsOf(found[N]) = {seq[i] : i \in 1 .. N}
    BY <1>1, <1>12 DEF T
  <1>14. CellsOf(seq) = {seq[i] : i \in 1 .. N}
    BY <1>1 DEF CellsOf
  <1>15. QED
    BY <1>8, <1>13, <1>14 DEF V

\* What FlattenSeq makes, from the front.
LEMMA FlattenIsDefined ==
    ASSUME NEW S, NEW seqs \in Seq(Seq(S))
    PROVE  \E f \in [0 .. Len(seqs) -> Seq(S)] :
                /\ f[0] = <<>> /\ \A n \in 1 .. Len(seqs) : f[n] = f[n - 1] \o seqs[n]
                /\ FlattenSeq(seqs) = f[Len(seqs)]
  <1> DEFINE N == Len(seqs)
             V == Seq(S)
             first == <<>>
             step == [a \in (1 .. N) \X V |-> a[2] \o seqs[a[1]]]
             Body(g) == [n \in 1 .. N |-> IF n = 1 THEN seqs[n] ELSE g[n - 1] \o seqs[n]]
             flatten == CHOOSE g : g = Body(g)
  <1>1. N \in Nat /\ DOMAIN seqs = 1 .. N /\ \A n \in 1 .. N : seqs[n] \in V
    OBVIOUS
  <1>2. first \in V
    OBVIOUS
  <1>3. step \in [(1 .. N) \X V -> V]
    <2> HIDE DEF N
    <2>1. \A a \in (1 .. N) \X V : a[1] \in 1 .. N /\ a[2] \in V
      OBVIOUS
    <2>2. \A a \in (1 .. N) \X V : a[2] \o seqs[a[1]] \in V
      BY <1>1, <2>1
    <2>3. QED
      BY <2>2
  <1>4. PICK f \in [0 .. N -> V] :
            \A n \in 0 .. N : f[n] = IF n = 0 THEN first ELSE step[<<n, f[n - 1]>>]
    <2> HIDE DEF step, N, V, first
    <2>1. \E f \in [0 .. N -> V] : Looped(f, N, first, step)
      BY <1>1, <1>2, <1>3, IndexedLoopExists
    <2>2. QED
      BY <2>1 DEF Looped
  <1>5. f[0] = <<>> /\ \A n \in 1 .. N : f[n] = f[n - 1] \o seqs[n]
    <2>1. f[0] = <<>>
      <3> HIDE DEF step, V, N
      <3>1. 0 \in 0 .. N
        BY <1>1
      <3>2. QED
        BY <1>4, <3>1
    <2>2. ASSUME NEW n \in 1 .. N PROVE f[n] = f[n - 1] \o seqs[n]
      <3>1. n \in 0 .. N /\ n # 0 /\ n - 1 \in 0 .. N
        BY <1>1
      <3>2. f[n - 1] \in V
        BY <3>1
      <3> HIDE DEF V
      <3>3. <<n, f[n - 1]>> \in (1 .. N) \X V
        BY <3>2
      <3>4. step[<<n, f[n - 1]>>] = f[n - 1] \o seqs[n]
        BY <3>3
      <3> HIDE DEF step
      <3>5. QED
        BY <1>4, <3>1, <3>4
    <2>3. QED
      BY <2>1, <2>2
  <1>6. CASE N = 0
    <2>1. FlattenSeq(seqs) = seqs
      BY <1>6 DEF FlattenSeq
    <2>2. seqs = <<>>
      BY <1>1, <1>6
    <2>3. QED
      BY <1>5, <1>6, <2>1, <2>2
  <1>7. CASE N # 0
    <2> DEFINE g == [n \in 1 .. N |-> f[n]]
    <2>1. g = Body(g)
      <3>1. ASSUME NEW n \in 1 .. N
            PROVE  f[n] = IF n = 1 THEN seqs[n] ELSE g[n - 1] \o seqs[n]
        <4>1. CASE n = 1
          <5>1. f[n] = f[n - 1] \o seqs[n] /\ n - 1 = 0
            <6>1. f[n] = f[n - 1] \o seqs[n]
              <7> HIDE DEF N, Body
              <7>1. QED
                BY <1>5
            <6>2. n - 1 = 0
              BY <4>1
            <6>3. QED
              BY <6>1, <6>2
          <5>2. f[n] = <<>> \o seqs[n]
            BY <1>5, <5>1
          <5>3. seqs[n] \in Seq(S)
            BY <1>1
          <5>4. <<>> \o seqs[n] = seqs[n]
            BY <5>3
          <5>5. QED
            BY <4>1, <5>2, <5>4
        <4>2. CASE n # 1
          <5>1. n - 1 \in 1 .. N
            BY <1>1, <4>2
          <5>2. g[n - 1] = f[n - 1]
            BY <5>1
          <5>3. QED
            BY <1>5, <4>2, <5>2
        <4>3. QED
          BY <4>1, <4>2
      <3>2. QED
        BY <3>1
    <2>2. flatten = Body(flatten)
      <3> HIDE DEF Body, g
      <3>1. QED
        BY <2>1
    <2>3. FlattenSeq(seqs) = flatten[N]
      BY <1>7 DEF FlattenSeq
    <2> HIDE DEF flatten
    <2>4. \A n \in 1 .. N : flatten[n] = IF n = 1 THEN seqs[n] ELSE flatten[n - 1] \o seqs[n]
      BY <2>2
    <2> DEFINE T == {n \in Nat : n \in 1 .. N => flatten[n] = f[n]}
    <2>5. 0 \in T
      OBVIOUS
    <2>6. ASSUME NEW n \in Nat, n \in T PROVE n + 1 \in T
      <3>1. SUFFICES ASSUME n + 1 \in 1 .. N PROVE flatten[n + 1] = f[n + 1]
        OBVIOUS
      <3>2. CASE n = 0
        <4>1. 1 \in 1 .. N /\ 1 - 1 = 0
          BY <3>1, <3>2
        <4>2. flatten[1] = seqs[1] /\ f[1] = <<>> \o seqs[1]
          <5> HIDE DEF N
          <5>1. f[1] = f[1 - 1] \o seqs[1]
            BY <1>5, <4>1
          <5>2. QED
            BY <1>5, <2>4, <4>1, <5>1
        <4>3. seqs[1] \in Seq(S)
          BY <1>1, <3>1, <3>2
        <4>4. <<>> \o seqs[1] = seqs[1]
          BY <4>3
        <4>5. QED
          BY <3>2, <4>2, <4>4
      <3>3. CASE n # 0
        <4>1. n \in 1 .. N /\ n + 1 # 1 /\ (n + 1) - 1 = n
          BY <1>1, <3>1, <3>3
        <4>2. flatten[n] = f[n]
          BY <2>6, <4>1
        <4>3. flatten[n + 1] = flatten[n] \o seqs[n + 1] /\ f[n + 1] = f[n] \o seqs[n + 1]
          BY <1>5, <2>4, <3>1, <4>1
        <4>4. QED
          BY <4>2, <4>3
      <3>4. QED
        BY <3>2, <3>3
    <2> HIDE DEF T
    <2>7. \A n \in Nat : n \in T
      BY <2>5, <2>6, InductionInSet
    <2>8. flatten[N] = f[N]
      BY <1>1, <1>7, <2>7 DEF T
    <2>9. QED
      BY <1>5, <2>3, <2>8
  <1>8. QED
    BY <1>6, <1>7

LEMMA FlattenIsSequence ==
    ASSUME NEW S, NEW seqs \in Seq(Seq(S))
    PROVE  FlattenSeq(seqs) \in Seq(S)
  <1>1. PICK f \in [0 .. Len(seqs) -> Seq(S)] : FlattenSeq(seqs) = f[Len(seqs)]
    BY FlattenIsDefined
  <1>2. Len(seqs) \in 0 .. Len(seqs)
    OBVIOUS
  <1>3. QED
    BY <1>1, <1>2

\* Where a member is, of sequences of the same length.
LEMMA FlattenAt ==
    ASSUME NEW S, NEW seqs \in Seq(Seq(S)), NEW w \in Nat,
           \A i \in DOMAIN seqs : Len(seqs[i]) = w
    PROVE  /\ Len(FlattenSeq(seqs)) = Len(seqs) * w
           /\ \A i \in 1 .. Len(seqs), j \in 1 .. w :
                    FlattenSeq(seqs)[(i - 1) * w + j] = seqs[i][j]
  <1> DEFINE N == Len(seqs)
  <1>1. PICK f \in [0 .. N -> Seq(S)] :
            /\ f[0] = <<>> /\ \A n \in 1 .. N : f[n] = f[n - 1] \o seqs[n]
            /\ FlattenSeq(seqs) = f[N]
    BY FlattenIsDefined
  <1>2. N \in Nat /\ \A i \in 1 .. N : seqs[i] \in Seq(S) /\ Len(seqs[i]) = w
    OBVIOUS
  <1> HIDE DEF N
  <1>3. \A n \in Nat : n * w \in Nat /\ (n + 1) * w = n * w + w
    OBVIOUS
  <1>4. \A m, n \in Nat : m < n => m * w + w <= n * w
    OBVIOUS
  <1> DEFINE T == {n \in Nat : n <= N =>
                    /\ Len(f[n]) = n * w
                    /\ \A i \in 1 .. n, j \in 1 .. w : f[n][(i - 1) * w + j] = seqs[i][j]}
  <1>5. 0 \in T
    <2>1. Len(f[0]) = 0 * w /\ 1 .. 0 = {}
      BY <1>1
    <2>2. QED
      BY <2>1
  <1>6. ASSUME NEW n \in Nat, n \in T PROVE n + 1 \in T
    <2> DEFINE H == /\ Len(f[n + 1]) = (n + 1) * w
                    /\ \A i \in 1 .. n + 1, j \in 1 .. w :
                            f[n + 1][(i - 1) * w + j] = seqs[i][j]
    <2>1. SUFFICES ASSUME n + 1 <= N PROVE H
      <3>1. n + 1 \in Nat
        BY <1>6
      <3>2. (n + 1 <= N => H) => n + 1 \in T
        <4>1. n + 1 \in T <=> n + 1 \in Nat /\ (n + 1 <= N => H)
          OBVIOUS
        <4> HIDE DEF T, H
        <4>2. QED
          BY <3>1, <4>1
      <3> HIDE DEF T, H
      <3>3. QED
        BY <3>2
    <2>2. n <= N /\ n + 1 \in 1 .. N /\ n \in 0 .. N /\ (n + 1) - 1 = n
      BY <1>2, <2>1
    <2>3. /\ Len(f[n]) = n * w
          /\ \A i \in 1 .. n, j \in 1 .. w : f[n][(i - 1) * w + j] = seqs[i][j]
      BY <1>6, <2>2
    <2>4. f[n] \in Seq(S) /\ f[n + 1] = f[n] \o seqs[n + 1]
      BY <1>1, <2>2
    <2>5. seqs[n + 1] \in Seq(S) /\ Len(seqs[n + 1]) = w
      BY <1>2, <2>2
    <2> DEFINE s == f[n]
               t == seqs[n + 1]
    <2>6. /\ Len(s \o t) = Len(s) + Len(t)
          /\ \A i \in 1 .. Len(s) : (s \o t)[i] = s[i]
          /\ \A i \in 1 .. Len(t) : (s \o t)[Len(s) + i] = t[i]
      <3>1. s \in Seq(S) /\ t \in Seq(S)
        BY <2>4, <2>5
      <3> HIDE DEF s, t
      <3>2. QED
        BY <3>1, ConcatFacts
    <2>7. Len(f[n + 1]) = (n + 1) * w
      BY <1>3, <2>3, <2>4, <2>5, <2>6
    <2>8. ASSUME NEW i \in 1 .. n + 1, NEW j \in 1 .. w
          PROVE  f[n + 1][(i - 1) * w + j] = seqs[i][j]
      <3> DEFINE k == (i - 1) * w
      <3>1. CASE i = n + 1
        <4>1. i - 1 = n
          BY <3>1
        <4>2. k = Len(s)
          BY <2>3, <4>1
        <4>3. (s \o t)[Len(s) + j] = t[j]
          BY <2>5, <2>6
        <4>4. QED
          BY <2>4, <3>1, <4>2, <4>3
      <3>2. CASE i # n + 1
        <4>1. i \in 1 .. n /\ i - 1 \in Nat /\ i - 1 < n
          BY <3>2
        <4>2. k \in Nat /\ k + w <= n * w /\ n * w \in Nat
          BY <1>3, <1>4, <4>1
        <4> HIDE DEF k
        <4>3. k + j \in 1 .. Len(s)
          BY <2>3, <4>2
        <4>4. (s \o t)[k + j] = s[k + j]
          BY <2>6, <4>3
        <4>5. s[k + j] = seqs[i][j]
          BY <2>3, <4>1 DEF k
        <4>6. QED
          BY <2>4, <4>4, <4>5 DEF k
      <3>3. QED
        BY <3>1, <3>2
    <2> HIDE DEF T
    <2>9. QED
      BY <2>7, <2>8
  <1> HIDE DEF T
  <1>7. \A n \in Nat : n \in T
    BY <1>5, <1>6, InductionInSet
  <1>8. /\ Len(f[N]) = N * w
        /\ \A i \in 1 .. N, j \in 1 .. w : f[N][(i - 1) * w + j] = seqs[i][j]
    <2>1. N \in T /\ N <= N
      BY <1>2, <1>7
    <2>2. QED
      BY <2>1 DEF T
  <1>9. QED
    BY <1>1, <1>8 DEF N

Trials == [trial : Int, layout : Int, network : Int]

Wants == [density : Int, radius : Int, layout : Int]

\* A plan that is accepted is made of numbers.
LEMMA PlanIsTyped ==
    ASSUME NEW c \in Configs, PlanAccepted(c)
    PROVE  /\ TrialPlan(c) \in Seq(Trials)
           /\ Layouts(c) \in Seq(Int)
           /\ CellsOf(Layouts(c)) = {TrialPlan(c)[i].layout : i \in DOMAIN TrialPlan(c)}
           /\ Groups(c) \in Seq([density : Int, radius : Int])
           /\ Wanted(c) \in Seq(Wants)
  <1>1. /\ c.densities \in Seq(Int) /\ c.radii \in Seq(Int) /\ c.layouts \in Seq(Seq(Int))
        /\ c.networks \in Seq(Seq(Int)) /\ c.seeds \in Seq(Int)
        /\ (c.layouts = <<>>) = (c.networks = <<>>)
    BY DEF Configs, PlanAccepted
  <1>2. TrialPlan(c) \in Seq(Trials)
    <2>1. CASE c.layouts = <<>>
      <3>1. TrialPlan(c) = [i \in DOMAIN c.seeds |->
                [trial |-> c.seeds[i], layout |-> c.seeds[i], network |-> c.seeds[i]]]
        BY <2>1 DEF TrialPlan
      <3>2. \A i \in DOMAIN c.seeds :
                [trial |-> c.seeds[i], layout |-> c.seeds[i], network |-> c.seeds[i]] \in Trials
        BY <1>1 DEF Trials
      <3>3. DOMAIN c.seeds = 1 .. Len(c.seeds) /\ Len(c.seeds) \in Nat
        BY <1>1
      <3>4. QED
        BY <3>1, <3>2, <3>3
    <2>2. CASE c.layouts # <<>>
      <3> DEFINE layouts == c.layouts[1]
                 networks == c.networks[1]
                 row(i) == [j \in DOMAIN networks |->
                                [trial |-> (i - 1) * Len(networks) + j - 1,
                                 layout |-> c.layouts[1][i], network |-> networks[j]]]
                 rows == [i \in DOMAIN layouts |-> row(i)]
      <3>1. layouts \in Seq(Int) /\ networks \in Seq(Int)
        BY <1>1, <2>2
      <3>2. TrialPlan(c) = FlattenSeq(rows)
        BY <2>2 DEF TrialPlan
      <3> HIDE DEF networks
      <3>3. ASSUME NEW i \in DOMAIN layouts PROVE row(i) \in Seq(Trials)
        <4>1. i \in Int /\ layouts[i] \in Int /\ Len(networks) \in Int
          BY <3>1
        <4>2. DOMAIN networks = 1 .. Len(networks) /\ Len(networks) \in Nat
          BY <3>1
        <4>3. ASSUME NEW j \in DOMAIN networks
              PROVE  [trial |-> (i - 1) * Len(networks) + j - 1,
                      layout |-> c.layouts[1][i], network |-> networks[j]] \in Trials
          <5>1. j \in Int /\ networks[j] \in Int
            BY <3>1, <4>2
          <5>2. (i - 1) * Len(networks) + j - 1 \in Int
            BY <4>1, <5>1
          <5>3. QED
            BY <4>1, <5>1, <5>2 DEF Trials
        <4>4. QED
          BY <4>2, <4>3
      <3>4. DOMAIN layouts = 1 .. Len(layouts) /\ Len(layouts) \in Nat
        BY <3>1
      <3> HIDE DEF row, layouts
      <3>5. rows \in Seq(Seq(Trials))
        BY <3>3, <3>4
      <3> HIDE DEF rows
      <3>6. QED
        BY <3>2, <3>5, FlattenIsSequence
    <2>3. QED
      BY <2>1, <2>2
  <1> DEFINE plan == TrialPlan(c)
             layouts == [i \in DOMAIN plan |-> plan[i].layout]
  <1>3. layouts \in Seq(Int)
    <2> HIDE DEF plan
    <2>1. plan \in Seq(Trials)
      BY <1>2 DEF plan
    <2>2. DOMAIN plan = 1 .. Len(plan) /\ Len(plan) \in Nat /\ \A i \in DOMAIN plan : plan[i].layout \in Int
      <3>1. DOMAIN plan = 1 .. Len(plan) /\ Len(plan) \in Nat
        BY <2>1
      <3>2. ASSUME NEW i \in DOMAIN plan PROVE plan[i].layout \in Int
        <4>1. plan[i] \in Trials
          BY <2>1
        <4>2. QED
          BY <4>1 DEF Trials
      <3>3. QED
        BY <3>1, <3>2
    <2>3. QED
      BY <2>2
  <1>4. Layouts(c) = Distinct(layouts)
    BY DEF Layouts
  <1>5. CellsOf(layouts) = {plan[i].layout : i \in DOMAIN plan}
    <2> HIDE DEF plan
    <2>1. QED
      BY DEF CellsOf
  <1>6. Layouts(c) \in Seq(Int) /\ CellsOf(Layouts(c)) = {plan[i].layout : i \in DOMAIN plan}
    <2> HIDE DEF layouts
    <2>1. Distinct(layouts) \in Seq(Int) /\ CellsOf(Distinct(layouts)) = CellsOf(layouts)
      BY <1>3, DistinctKeepsAll
    <2>2. QED
      BY <1>4, <1>5, <2>1
  <1> DEFINE G == [density : Int, radius : Int]
  <1>7. Groups(c) \in Seq(G)
    <2> DEFINE radii == Distinct(c.radii)
               group(i) == [j \in DOMAIN radii |-> [density |-> c.densities[i], radius |-> radii[j]]]
               groups == [i \in DOMAIN c.densities |-> group(i)]
    <2>1. radii \in Seq(Int)
      BY <1>1, DistinctKeepsAll
    <2>2. Groups(c) = FlattenSeq(groups)
      BY DEF Groups
    <2> HIDE DEF radii
    <2>3. ASSUME NEW i \in DOMAIN c.densities PROVE group(i) \in Seq(G)
      <3>1. c.densities[i] \in Int
        BY <1>1
      <3>2. DOMAIN radii = 1 .. Len(radii) /\ Len(radii) \in Nat /\ \A j \in DOMAIN radii : radii[j] \in Int
        BY <2>1
      <3>3. QED
        BY <3>1, <3>2
    <2>4. DOMAIN c.densities = 1 .. Len(c.densities) /\ Len(c.densities) \in Nat
      BY <1>1
    <2> HIDE DEF group, G
    <2>5. groups \in Seq(Seq(G))
      BY <2>3, <2>4
    <2> HIDE DEF groups
    <2>6. QED
      BY <2>2, <2>5, FlattenIsSequence
  <1>8. Wanted(c) \in Seq(Wants)
    <2> DEFINE groups == Groups(c)
               all == Layouts(c)
               row(g) == [l \in DOMAIN all |-> [density |-> groups[g].density,
                                radius |-> groups[g].radius, layout |-> all[l]]]
               rows == [g \in DOMAIN groups |-> row(g)]
    <2>1. groups \in Seq(G) /\ all \in Seq(Int)
      BY <1>6, <1>7
    <2>2. Wanted(c) = FlattenSeq(rows)
      BY DEF Wanted
    <2> HIDE DEF groups, all
    <2>3. ASSUME NEW g \in DOMAIN groups PROVE row(g) \in Seq(Wants)
      <3>1. groups[g].density \in Int /\ groups[g].radius \in Int
        <4>1. groups[g] \in G
          <5> HIDE DEF G
          <5>1. QED
            BY <2>1
        <4>2. QED
          BY <4>1
      <3>2. DOMAIN all = 1 .. Len(all) /\ Len(all) \in Nat /\ \A j \in DOMAIN all : all[j] \in Int
        BY <2>1
      <3>3. QED
        BY <3>1, <3>2 DEF Wants
    <2>4. DOMAIN groups = 1 .. Len(groups) /\ Len(groups) \in Nat
      BY <2>1
    <2> HIDE DEF row
    <2>5. rows \in Seq(Seq(Wants))
      BY <2>3, <2>4
    <2> HIDE DEF rows
    <2>6. QED
      BY <2>2, <2>5, FlattenIsSequence
  <1>9. QED
    BY <1>2, <1>6, <1>7, <1>8 DEF plan

-----------------------------------------------------------------------------
\* What a suite is, wherever it stands.

Fields == {"pc", "study", "built", "paths", "tasks", "accepted", "episodes"}

Step(s) ==
    \/ CheckOutput(s) \/ MakeOutput(s) \/ MakeInstances(s) \/ Plan(s)
    \/ Generate(s) \/ SampleMap(s) \/ GiveUp(s) \/ DrawPair(s) \/ BuildInstance(s)
    \/ SaveMap(s) \/ SaveTable(s) \/ Freeze(s) \/ EndManifest(s) \/ Launch(s) \/ OpenFiles(s)
    \/ StartEpisode(s) \/ FinishEpisode(s) \/ PoolBreaks(s)
    \/ WriteRow(s) \/ SpillTraces(s) \/ WriteTraces(s) \/ RaiseFailure(s) \/ ShutDown(s)
    \/ OpenSummary(s) \/ WriteSummary(s) \/ OpenList(s) \/ EndList(s)
    \/ Crash(s)

\* The plan of the study has been looked at.
Planned(s) ==
    at[s].pc \notin {"start", "ready", "entered", "planning", "refused", "failed", "crashed"}

Building(s) == at[s].pc \in {"searching", "selected", "saving", "naming"}

Unbuilt(s) == at[s].pc \in {"start", "ready", "entered", "planning"}

Well(s) ==
    /\ DOMAIN at[s] = Fields
    /\ at[s].study \in DOMAIN job[s].studies
    /\ at[s].built \in Nat
    /\ Planned(s) => PlanAccepted(Config(s)) /\ at[s].built <= Len(Wanted(Config(s)))
    /\ Building(s) => at[s].built < Len(Wanted(Config(s)))
    /\ Unbuilt(s) => at[s].built = 0

Shaped ==
    /\ job \in [Suites -> Jobs]
    /\ DOMAIN at = Suites /\ DOMAIN search = Suites
    /\ \A s \in Suites : Well(s)

\* What a step of one suite leaves to the others.
Alone(s) ==
    /\ job' = job /\ DOMAIN at' = DOMAIN at /\ DOMAIN search' = DOMAIN search
    /\ \A r \in Suites \ {s} : at'[r] = at[r] /\ search'[r] = search[r]

LEMMA StepsAreAlone ==
    ASSUME NEW s \in Suites, Step(s)
    PROVE  Alone(s)
  <1>1. CASE CheckOutput(s)
    BY <1>1 DEF Alone, CheckOutput, Go, Episode
  <1>2. CASE MakeOutput(s)
    BY <1>2 DEF Alone, MakeOutput, Go, Episode
  <1>3. CASE MakeInstances(s)
    <2>1. \E new : at' = [at EXCEPT ![s] = new]
      <3>1. CASE Dir(s).instances
        BY <1>3, <3>1 DEF MakeInstances, Go
      <3>2. CASE ~(Dir(s).instances)
        BY <1>3, <3>2 DEF MakeInstances, Go
      <3>3. QED
        BY <3>1, <3>2
    <2>2. QED
      BY <1>3, <2>1 DEF Alone, MakeInstances
  <1>4. CASE Plan(s)
    BY <1>4 DEF Alone, Plan, Go, Episode
  <1>5. CASE Generate(s)
    BY <1>5 DEF Alone, Generate, Go, Episode
  <1>6. CASE SampleMap(s)
    BY <1>6 DEF Alone, SampleMap, Go, Episode
  <1>7. CASE GiveUp(s)
    BY <1>7 DEF Alone, GiveUp, Go, Episode
  <1>8. CASE DrawPair(s)
    BY <1>8 DEF Alone, DrawPair, Go, Episode
  <1>9. CASE BuildInstance(s)
    BY <1>9 DEF Alone, BuildInstance, Go, Episode
  <1>10. CASE SaveMap(s)
    BY <1>10 DEF Alone, SaveMap, Go, Episode
  <1>11. CASE SaveTable(s)
    <2>1. \E new : at' = [at EXCEPT ![s] = new]
      BY <1>11, ZenonT(60) DEF SaveTable
    <2>2. job' = job /\ search' = search
      BY <1>11, ZenonT(60) DEF SaveTable
    <2>3. QED
      BY <2>1, <2>2 DEF Alone
  <1>12. CASE Freeze(s)
    <2>1. \E new : at' = [at EXCEPT ![s] = new]
      <3>1. CASE at[s].accepted = {}
        BY <1>12, <3>1 DEF Freeze, Go
      <3>2. CASE ~(at[s].accepted = {})
        BY <1>12, <3>2 DEF Freeze, Go
      <3>3. QED
        BY <3>1, <3>2
    <2>2. QED
      BY <1>12, <2>1 DEF Alone, Freeze
  <1>13. CASE EndManifest(s)
    BY <1>13 DEF Alone, EndManifest, Go, Episode
  <1>14. CASE Launch(s)
    <2>1. \E new : at' = [at EXCEPT ![s] = new]
      <3>1. CASE Config(s).workers < 1 \/ (Config(s).workers > 1 /\ at[s].tasks = <<>>)
        BY <1>14, <3>1 DEF Launch, Go
      <3>2. CASE ~(Config(s).workers < 1 \/ (Config(s).workers > 1 /\ at[s].tasks = <<>>))
        BY <1>14, <3>2 DEF Launch, Go
      <3>3. QED
        BY <3>1, <3>2
    <2>2. QED
      BY <1>14, <2>1 DEF Alone, Launch
  <1>15. CASE OpenFiles(s)
    BY <1>15 DEF Alone, OpenFiles, Go, Episode
  <1>16. CASE StartEpisode(s)
    BY <1>16 DEF Alone, StartEpisode, Go, Episode
  <1>17. CASE FinishEpisode(s)
    BY <1>17 DEF Alone, FinishEpisode, Go, Episode
  <1>18. CASE PoolBreaks(s)
    BY <1>18 DEF Alone, PoolBreaks, Go, Episode
  <1>19. CASE WriteRow(s)
    BY <1>19 DEF Alone, WriteRow, Go, Episode
  <1>20. CASE SpillTraces(s)
    BY <1>20 DEF Alone, SpillTraces, Go, Episode
  <1>21. CASE WriteTraces(s)
    BY <1>21 DEF Alone, WriteTraces, Go, Episode
  <1>22. CASE RaiseFailure(s)
    <2>1. \E new : at' = [at EXCEPT ![s] = new]
      BY <1>22 DEF RaiseFailure
    <2>2. job' = job /\ search' = search
      BY <1>22 DEF RaiseFailure
    <2>3. QED
      BY <2>1, <2>2 DEF Alone
  <1>23. CASE ShutDown(s)
    BY <1>23 DEF Alone, ShutDown, Go, Episode
  <1>24. CASE OpenSummary(s)
    BY <1>24 DEF Alone, OpenSummary, Go, Episode
  <1>25. CASE WriteSummary(s)
    BY <1>25 DEF Alone, WriteSummary, Go, Episode
  <1>26. CASE OpenList(s)
    BY <1>26 DEF Alone, OpenList, Go, Episode
  <1>27. CASE EndList(s)
    BY <1>27 DEF Alone, EndList, Go, Episode
  <1>28. CASE Crash(s)
    BY <1>28 DEF Alone, Crash, Go, Episode
  <1>29. QED
    BY <1>1, <1>2, <1>3, <1>4, <1>5, <1>6, <1>7, <1>8, <1>9, <1>10, <1>11, <1>12, <1>13, <1>14, <1>15, <1>16, <1>17, <1>18, <1>19, <1>20, <1>21, <1>22, <1>23, <1>24, <1>25, <1>26, <1>27, <1>28 DEF Step

\* A suite that keeps its study and what it has built may move to where less is asked.
LEMMA WellKept ==
    ASSUME Shaped, NEW s \in Suites, job' = job, DOMAIN at'[s] = Fields,
           at'[s].study = at[s].study, at'[s].built = at[s].built,
           ~Planned(s)' \/ (Planned(s) /\ (Building(s)' => Building(s))),
           Unbuilt(s)' => Unbuilt(s)
    PROVE  Well(s)'
  BY DEF Shaped, Well, Config, Planned, Building

LEMMA JobsAreConfigs ==
    ASSUME Shaped, NEW s \in Suites
    PROVE  /\ job[s] \in Jobs /\ job[s].studies \in Seq(Configs)
           /\ \A n \in DOMAIN job[s].studies : job[s].studies[n] \in Configs
           /\ DOMAIN job[s].studies \in {{1}, {1, 2}}
           /\ Config(s) \in Configs
  <1>1. job[s] \in Jobs /\ at[s].study \in DOMAIN job[s].studies
    BY DEF Shaped, Well
  <1>2. /\ job[s].studies \in Seq(Configs) /\ Len(job[s].studies) \in {1, 2}
    BY <1>1 DEF Jobs
  <1> DEFINE seq == job[s].studies
             C == Configs
  <1>3. seq \in Seq(C) /\ Len(seq) \in {1, 2}
    BY <1>2
  <1> HIDE DEF seq, C
  <1>4. \A n \in DOMAIN seq : seq[n] \in C
    BY <1>3
  <1>5. DOMAIN seq = {1} \/ DOMAIN seq = {1, 2}
    <2>1. DOMAIN seq = 1 .. Len(seq)
      BY <1>3
    <2>2. 1 .. 1 = {1} /\ 1 .. 2 = {1, 2}
      OBVIOUS
    <2>3. QED
      BY <1>3, <2>1, <2>2
  <1>6. QED
    BY <1>1, <1>2, <1>4, <1>5 DEF seq, C, Config

LEMMA StepsKeepShape ==
    ASSUME Shaped, NEW s \in Suites, Step(s)
    PROVE  Shaped'
  <1> DEFINE KeepsStudy == /\ DOMAIN at'[s] = Fields /\ at'[s].study = at[s].study
                           /\ at'[s].built = at[s].built
             MovesOn == /\ ~Planned(s)' \/ (Planned(s) /\ (Building(s)' => Building(s)))
                        /\ Unbuilt(s)' => Unbuilt(s)
  <1>1. /\ job \in [Suites -> Jobs] /\ DOMAIN at = Suites /\ DOMAIN search = Suites
        /\ s \in DOMAIN at /\ DOMAIN at[s] = Fields
        /\ {"pc", "study", "built", "paths", "tasks", "accepted", "episodes"} \subseteq DOMAIN at[s]
    BY DEF Shaped, Well, Fields
  <1>2. Alone(s)
    BY StepsAreAlone
  <1>3. job' = job /\ DOMAIN at' = Suites /\ DOMAIN search' = Suites
    BY <1>1, <1>2 DEF Alone
  <1>4. KeepsStudy /\ MovesOn => Well(s)'
    BY <1>3, WellKept
  <1>5. SUFFICES Well(s)'
    <2>1. ASSUME Well(s)', NEW r \in Suites PROVE Well(r)'
      <3>1. CASE r = s
        BY <2>1, <3>1
      <3>2. CASE r # s
        <4>1. at'[r] = at[r] /\ job' = job /\ Well(r)
          BY <1>2, <3>2 DEF Alone, Shaped
        <4>2. QED
          BY <4>1 DEF Well, Planned, Building, Unbuilt, Config
      <3>3. QED
        BY <3>1, <3>2
    <2>2. QED
      BY <1>1, <1>3, <2>1 DEF Shaped
  <1>6. CASE CheckOutput(s)
    <2>1. KeepsStudy
      BY <1>1, <1>6 DEF CheckOutput, Go, Episode
    <2>2. MovesOn
      BY <1>1, <1>6 DEF CheckOutput, Go, Episode, Planned, Building, Unbuilt
    <2>3. QED
      BY <1>4, <2>1, <2>2
  <1>7. CASE MakeOutput(s)
    <2>1. KeepsStudy
      BY <1>1, <1>7 DEF MakeOutput, Go, Episode
    <2>2. MovesOn
      BY <1>1, <1>7 DEF MakeOutput, Go, Episode, Planned, Building, Unbuilt
    <2>3. QED
      BY <1>4, <2>1, <2>2
  <1>8. CASE MakeInstances(s)
    <2>1. CASE Dir(s).instances
      <3>1. Go(s, "failed")
        BY <1>8, <2>1 DEF MakeInstances
      <3>2. KeepsStudy
        BY <1>1, <3>1 DEF Go
      <3>3. MovesOn
        BY <1>1, <1>8, <3>1 DEF MakeInstances, Go, Planned, Building, Unbuilt
      <3>4. QED
        BY <1>4, <3>2, <3>3
    <2>2. CASE ~(Dir(s).instances)
      <3>1. Go(s, "planning")
        BY <1>8, <2>2 DEF MakeInstances
      <3>2. KeepsStudy
        BY <1>1, <3>1 DEF Go
      <3>3. MovesOn
        BY <1>1, <1>8, <3>1 DEF MakeInstances, Go, Planned, Building, Unbuilt
      <3>4. QED
        BY <1>4, <3>2, <3>3
    <2>3. QED
      BY <2>1, <2>2
  <1>9. CASE Plan(s)
    <2>1. CASE PlanAccepted(Config(s))
      <3>1. KeepsStudy /\ at'[s].pc = "generating"
        BY <1>1, <1>9, <2>1 DEF Plan, Go
      <3>2. at'[s].built <= Len(Wanted(Config(s)))
        <4>1. at[s].built = 0 /\ Config(s) \in Configs
          BY <1>9, JobsAreConfigs DEF Plan, Shaped, Well, Unbuilt
        <4>2. Len(Wanted(Config(s))) \in Nat
          <5>1. Wanted(Config(s)) \in Seq(Wants)
            BY <2>1, <4>1, PlanIsTyped
          <5>2. QED
            BY <5>1
        <4>3. QED
          BY <3>1, <4>1, <4>2
      <3>3. QED
        BY <1>3, <2>1, <3>1, <3>2 DEF Shaped, Well, Config, Building, Unbuilt
    <2>2. CASE ~PlanAccepted(Config(s))
      <3>1. KeepsStudy /\ at'[s].pc = "failed"
        BY <1>1, <1>9, <2>2 DEF Plan, Go
      <3>2. QED
        BY <1>4, <3>1 DEF Planned, Unbuilt, Building
    <2>3. QED
      BY <2>1, <2>2
  <1>10. CASE Generate(s)
    <2>1. KeepsStudy /\ Planned(s) /\ at[s].built < Len(Wanted(Config(s)))
      BY <1>1, <1>10 DEF Generate, Go, Planned
    <2>2. Config(s)' = Config(s)
      BY <1>3, <2>1 DEF Config
    <2>3. at'[s].pc \in {"failed", "searching", "saving"}
      <3>1. \E pc \in {"failed", "searching", "saving"} : Go(s, pc)
        BY <1>10 DEF Generate
      <3>2. QED
        BY <1>1, <3>1 DEF Go
    <2>4. QED
      BY <1>3, <2>1, <2>2, <2>3 DEF Shaped, Well, Unbuilt
  <1>11. CASE SampleMap(s)
    <2>1. KeepsStudy
      BY <1>1, <1>11 DEF SampleMap, Go, Episode
    <2>2. MovesOn
      BY <1>1, <1>11 DEF SampleMap, Go, Episode, Planned, Building, Unbuilt
    <2>3. QED
      BY <1>4, <2>1, <2>2
  <1>12. CASE GiveUp(s)
    <2>1. KeepsStudy
      BY <1>1, <1>12 DEF GiveUp, Go, Episode
    <2>2. MovesOn
      BY <1>1, <1>12 DEF GiveUp, Go, Episode, Planned, Building, Unbuilt
    <2>3. QED
      BY <1>4, <2>1, <2>2
  <1>13. CASE DrawPair(s)
    <2>1. KeepsStudy
      BY <1>1, <1>13 DEF DrawPair, Go, Episode
    <2>2. MovesOn
      BY <1>1, <1>13 DEF DrawPair, Go, Episode, Planned, Building, Unbuilt
    <2>3. QED
      BY <1>4, <2>1, <2>2
  <1>14. CASE BuildInstance(s)
    <2>1. KeepsStudy
      BY <1>1, <1>14 DEF BuildInstance, Go, Episode
    <2>2. MovesOn
      BY <1>1, <1>14 DEF BuildInstance, Go, Episode, Planned, Building, Unbuilt
    <2>3. QED
      BY <1>4, <2>1, <2>2
  <1>15. CASE SaveMap(s)
    <2>1. KeepsStudy
      BY <1>1, <1>15 DEF SaveMap, Go, Episode
    <2>2. MovesOn
      BY <1>1, <1>15 DEF SaveMap, Go, Episode, Planned, Building, Unbuilt
    <2>3. QED
      BY <1>4, <2>1, <2>2
  <1>16. CASE SaveTable(s)
    <2>1. /\ DOMAIN at'[s] = Fields /\ at'[s].study = at[s].study
          /\ at'[s].built = at[s].built + 1 /\ at'[s].pc = "generating"
      <3>1. \E p, a, z : at' = [at EXCEPT ![s].pc = "generating", ![s].built = at[s].built + 1,
                                    ![s].paths = p, ![s].accepted = a, ![s].tasks = z]
        BY <1>16, ZenonT(60) DEF SaveTable
      <3>2. QED
        BY <1>1, <3>1
    <2>2. Config(s)' = Config(s)
      BY <1>3, <2>1 DEF Config
    <2>3. Building(s) /\ Planned(s)
      BY <1>16 DEF SaveTable, Building, Planned
    <2>4. PlanAccepted(Config(s)) /\ at[s].built < Len(Wanted(Config(s))) /\ at[s].built \in Nat
      BY <2>3 DEF Shaped, Well
    <2>5. Len(Wanted(Config(s))) \in Nat
      <3>1. Wanted(Config(s)) \in Seq(Wants)
        BY <2>4, JobsAreConfigs, PlanIsTyped
      <3>2. QED
        BY <3>1
    <2>6. at'[s].built <= Len(Wanted(Config(s)))
      BY <2>1, <2>4, <2>5
    <2>7. at[s].study \in DOMAIN job[s].studies
      BY DEF Shaped, Well
    <2>8. QED
      BY <1>3, <2>1, <2>2, <2>4, <2>6, <2>7 DEF Well, Unbuilt, Building
  <1>17. CASE Freeze(s)
    <2>1. CASE at[s].accepted = {}
      <3>1. Go(s, "frozen")
        BY <1>17, <2>1 DEF Freeze
      <3>2. KeepsStudy
        BY <1>1, <3>1 DEF Go
      <3>3. MovesOn
        BY <1>1, <1>17, <3>1 DEF Freeze, Go, Planned, Building, Unbuilt
      <3>4. QED
        BY <1>4, <3>2, <3>3
    <2>2. CASE ~(at[s].accepted = {})
      <3>1. Go(s, "freezing")
        BY <1>17, <2>2 DEF Freeze
      <3>2. KeepsStudy
        BY <1>1, <3>1 DEF Go
      <3>3. MovesOn
        BY <1>1, <1>17, <3>1 DEF Freeze, Go, Planned, Building, Unbuilt
      <3>4. QED
        BY <1>4, <3>2, <3>3
    <2>3. QED
      BY <2>1, <2>2
  <1>18. CASE EndManifest(s)
    <2>1. KeepsStudy
      BY <1>1, <1>18 DEF EndManifest, Go, Episode
    <2>2. MovesOn
      BY <1>1, <1>18 DEF EndManifest, Go, Episode, Planned, Building, Unbuilt
    <2>3. QED
      BY <1>4, <2>1, <2>2
  <1>19. CASE Launch(s)
    <2>1. CASE Config(s).workers < 1 \/ (Config(s).workers > 1 /\ at[s].tasks = <<>>)
      <3>1. Go(s, "failed")
        BY <1>19, <2>1 DEF Launch
      <3>2. KeepsStudy
        BY <1>1, <3>1 DEF Go
      <3>3. MovesOn
        BY <1>1, <1>19, <3>1 DEF Launch, Go, Planned, Building, Unbuilt
      <3>4. QED
        BY <1>4, <3>2, <3>3
    <2>2. CASE ~(Config(s).workers < 1 \/ (Config(s).workers > 1 /\ at[s].tasks = <<>>))
      <3>1. \E e : at' = [at EXCEPT ![s].pc = "opening", ![s].episodes = e]
        BY <1>19, <2>2 DEF Launch
      <3>2. KeepsStudy
        BY <1>1, <3>1 DEF Go
      <3>3. MovesOn
        BY <1>1, <1>19, <3>1 DEF Launch, Go, Planned, Building, Unbuilt
      <3>4. QED
        BY <1>4, <3>2, <3>3
    <2>3. QED
      BY <2>1, <2>2
  <1>20. CASE OpenFiles(s)
    <2>1. KeepsStudy
      BY <1>1, <1>20 DEF OpenFiles, Go, Episode
    <2>2. MovesOn
      BY <1>1, <1>20 DEF OpenFiles, Go, Episode, Planned, Building, Unbuilt
    <2>3. QED
      BY <1>4, <2>1, <2>2
  <1>21. CASE StartEpisode(s)
    <2>1. KeepsStudy
      BY <1>1, <1>21 DEF StartEpisode, Go, Episode
    <2>2. MovesOn
      BY <1>1, <1>21 DEF StartEpisode, Go, Episode, Planned, Building, Unbuilt
    <2>3. QED
      BY <1>4, <2>1, <2>2
  <1>22. CASE FinishEpisode(s)
    <2>1. KeepsStudy
      BY <1>1, <1>22 DEF FinishEpisode, Go, Episode
    <2>2. MovesOn
      BY <1>1, <1>22 DEF FinishEpisode, Go, Episode, Planned, Building, Unbuilt
    <2>3. QED
      BY <1>4, <2>1, <2>2
  <1>23. CASE PoolBreaks(s)
    <2>1. KeepsStudy
      BY <1>1, <1>23 DEF PoolBreaks, Go, Episode
    <2>2. MovesOn
      BY <1>1, <1>23 DEF PoolBreaks, Go, Episode, Planned, Building, Unbuilt
    <2>3. QED
      BY <1>4, <2>1, <2>2
  <1>24. CASE WriteRow(s)
    <2>1. KeepsStudy
      BY <1>1, <1>24 DEF WriteRow, Go, Episode
    <2>2. MovesOn
      BY <1>1, <1>24 DEF WriteRow, Go, Episode, Planned, Building, Unbuilt
    <2>3. QED
      BY <1>4, <2>1, <2>2
  <1>25. CASE SpillTraces(s)
    <2>1. KeepsStudy
      BY <1>1, <1>25 DEF SpillTraces, Go, Episode
    <2>2. MovesOn
      BY <1>1, <1>25 DEF SpillTraces, Go, Episode, Planned, Building, Unbuilt
    <2>3. QED
      BY <1>4, <2>1, <2>2
  <1>26. CASE WriteTraces(s)
    <2>1. KeepsStudy
      BY <1>1, <1>26 DEF WriteTraces, Go, Episode
    <2>2. MovesOn
      BY <1>1, <1>26 DEF WriteTraces, Go, Episode, Planned, Building, Unbuilt
    <2>3. QED
      BY <1>4, <2>1, <2>2
  <1>27. CASE RaiseFailure(s)
    <2>1. KeepsStudy
      BY <1>1, <1>27 DEF RaiseFailure, Go, Episode
    <2>2. MovesOn
      BY <1>1, <1>27 DEF RaiseFailure, Go, Episode, Planned, Building, Unbuilt
    <2>3. QED
      BY <1>4, <2>1, <2>2
  <1>28. CASE ShutDown(s)
    <2>1. KeepsStudy
      BY <1>1, <1>28 DEF ShutDown, Go, Episode
    <2>2. MovesOn
      BY <1>1, <1>28 DEF ShutDown, Go, Episode, Planned, Building, Unbuilt
    <2>3. QED
      BY <1>4, <2>1, <2>2
  <1>29. CASE OpenSummary(s)
    <2>1. KeepsStudy
      BY <1>1, <1>29 DEF OpenSummary, Go, Episode
    <2>2. MovesOn
      BY <1>1, <1>29 DEF OpenSummary, Go, Episode, Planned, Building, Unbuilt
    <2>3. QED
      BY <1>4, <2>1, <2>2
  <1>30. CASE WriteSummary(s)
    <2> DEFINE n == at[s].study
    <2>1. CASE job[s].kind = "suite" \/ n = Len(job[s].studies)
      <3>1. at'[s].pc \in {"done", "listing"} /\ KeepsStudy
        BY <1>1, <1>30, <2>1 DEF WriteSummary
      <3>2. MovesOn
        BY <1>30, <3>1 DEF WriteSummary, Planned, Building, Unbuilt
      <3>3. QED
        BY <1>4, <3>1, <3>2
    <2>2. CASE ~(job[s].kind = "suite" \/ n = Len(job[s].studies))
      <3>1. at'[s] = [NewSuite(n + 1) EXCEPT !.pc = "ready"]
        BY <1>1, <1>30, <2>2 DEF WriteSummary
      <3>2. /\ DOMAIN at'[s] = Fields /\ at'[s].study = n + 1 /\ at'[s].built = 0
            /\ at'[s].pc = "ready"
        BY <3>1 DEF NewSuite, Fields
      <3>3. n + 1 \in DOMAIN job[s].studies
        <4>1. n \in DOMAIN job[s].studies /\ DOMAIN job[s].studies \in {{1}, {1, 2}}
          BY JobsAreConfigs DEF Shaped, Well
        <4>2. DOMAIN job[s].studies = 1 .. Len(job[s].studies) /\ Len(job[s].studies) \in Nat
          BY JobsAreConfigs
        <4>3. QED
          BY <2>2, <4>1, <4>2
      <3>4. QED
        BY <1>3, <3>2, <3>3 DEF Well, Unbuilt, Building, Planned
    <2>3. QED
      BY <2>1, <2>2
  <1>31. CASE OpenList(s)
    <2>1. KeepsStudy
      BY <1>1, <1>31 DEF OpenList, Go, Episode
    <2>2. MovesOn
      BY <1>1, <1>31 DEF OpenList, Go, Episode, Planned, Building, Unbuilt
    <2>3. QED
      BY <1>4, <2>1, <2>2
  <1>32. CASE EndList(s)
    <2>1. KeepsStudy
      BY <1>1, <1>32 DEF EndList, Go, Episode
    <2>2. MovesOn
      BY <1>1, <1>32 DEF EndList, Go, Episode, Planned, Building, Unbuilt
    <2>3. QED
      BY <1>4, <2>1, <2>2
  <1>33. CASE Crash(s)
    <2>1. KeepsStudy
      BY <1>1, <1>33 DEF Crash, Go, Episode
    <2>2. MovesOn
      BY <1>1, <1>33 DEF Crash, Go, Episode, Planned, Building, Unbuilt
    <2>3. QED
      BY <1>4, <2>1, <2>2
  <1>34. QED
    BY <1>6, <1>7, <1>8, <1>9, <1>10, <1>11, <1>12, <1>13, <1>14, <1>15, <1>16, <1>17, <1>18, <1>19, <1>20, <1>21, <1>22, <1>23, <1>24, <1>25, <1>26, <1>27, <1>28, <1>29, <1>30, <1>31, <1>32, <1>33 DEF Step

LEMMA InitIsShaped ==
    ASSUME Init
    PROVE  Shaped
  <1>1. job \in [Suites -> Jobs]
    BY SuiteAssumption DEF Init
  <1>2. ASSUME NEW s \in Suites PROVE Well(s)
    <2>1. at[s] = NewSuite(1)
      BY DEF Init
    <2>2. DOMAIN at[s] = Fields /\ at[s].study = 1 /\ at[s].built = 0 /\ at[s].pc = "start"
      BY <2>1 DEF NewSuite, Fields
    <2>3. 1 \in DOMAIN job[s].studies
      <3>1. job[s] \in Jobs
        BY <1>1
      <3>2. job[s].studies \in Seq(Configs) /\ Len(job[s].studies) \in {1, 2}
        BY <3>1 DEF Jobs
      <3>3. QED
        BY <3>2
    <2>4. QED
      BY <2>2, <2>3 DEF Well, Planned, Building, Unbuilt
  <1>3. QED
    BY <1>1, <1>2 DEF Init, Shaped

\* A suite keeps its shape, and no step concerns more than one.
THEOREM SuitesAreShaped == Spec => []Shaped
  <1>1. Init => Shaped
    BY InitIsShaped
  <1>2. Shaped /\ [Next]_vars => Shaped'
    <2>1. SUFFICES ASSUME Shaped, [Next]_vars PROVE Shaped'
      OBVIOUS
    <2>2. CASE Next
      <3>1. PICK s \in Suites : Step(s)
        BY <2>2 DEF Next, Step
      <3>2. QED
        BY <2>1, <3>1, StepsKeepShape
    <2>3. CASE UNCHANGED vars
      BY <2>1, <2>3 DEF vars, Shaped, Well, Planned, Building, Unbuilt, Config
    <2>4. QED
      BY <2>1, <2>2, <2>3
  <1>3. QED
    BY <1>1, <1>2, PTL DEF Spec

-----------------------------------------------------------------------------
\* The search.

SearchRecords(C) ==
    [bitmap : SUBSET Positions, attempt : Nat, drawn : Nat, seen : SUBSET Draws,
     candidates : Seq(C), selected : Packings(C)]

\* All candidates of the search are decisive on its map, for what is wanted.
Fine(s, C) ==
    /\ search[s] \in SearchRecords(C)
    /\ AllDecisive(search[s].bitmap, Want(s).radius, Config(s).horizon, C)

SearchIsFine ==
    \A s \in Suites : at[s].pc \in {"searching", "selected"} => \E C : Fine(s, C)

LEMMA WantIsTyped ==
    ASSUME Shaped, NEW s \in Suites, Planned(s), at[s].built < Len(Wanted(Config(s)))
    PROVE  Want(s) \in Wants /\ Config(s).horizon \in Int
  <1> DEFINE c == Config(s)
             wanted == Wanted(c)
             k == at[s].built
  <1>1. c \in Configs /\ PlanAccepted(c) /\ k \in Nat
    BY JobsAreConfigs DEF Shaped, Well
  <1>2. wanted \in Seq(Wants)
    BY <1>1, PlanIsTyped
  <1>3. k < Len(wanted)
    OBVIOUS
  <1> HIDE DEF wanted, k
  <1>4. wanted[k + 1] \in Wants
    BY <1>1, <1>2, <1>3
  <1>5. Want(s) \in Wants
    BY <1>4 DEF Want, wanted, k
  <1>6. c.horizon \in Int
    <2> HIDE DEF c
    <2>1. QED
      BY <1>1 DEF Configs
  <1>7. QED
    BY <1>5, <1>6

LEMMA NoSearchIsFine ==
    ASSUME NEW attempt \in Nat, NEW bitmap \in SUBSET Positions, NEW radius, NEW horizon
    PROVE  /\ [NoSearch EXCEPT !.bitmap = bitmap, !.attempt = attempt] \in SearchRecords({})
           /\ NoSearch \in SearchRecords({})
           /\ AllDecisive(bitmap, radius, horizon, {})
  <1> DEFINE e == <<>>
  <1>1. e \in Packings({})
    BY EmptyIsPacking
  <1>2. e \in Seq({})
    OBVIOUS
  <1> HIDE DEF e
  <1> DEFINE P == Packings({})
             Q == Seq({})
             B == SUBSET Positions
             S == SUBSET Draws
             R == [bitmap : B, attempt : Nat, drawn : Nat, seen : S, candidates : Q, selected : P]
  <1>3. {} \in B /\ {} \in S
    OBVIOUS
  <1>4. NoSearch \in R
    <2> HIDE DEF P, Q, B, S
    <2>1. NoSearch = [bitmap |-> {}, attempt |-> 0, drawn |-> 0, seen |-> {}, candidates |-> e,
                      selected |-> e]
      BY DEF NoSearch, e
    <2>2. QED
      BY <1>1, <1>2, <1>3, <2>1 DEF P, Q
  <1>5. [NoSearch EXCEPT !.bitmap = bitmap, !.attempt = attempt] \in R
    <2>1. bitmap \in B
      OBVIOUS
    <2> HIDE DEF P, Q, B, S
    <2>2. QED
      BY <1>4, <2>1
  <1>6. R = SearchRecords({})
    BY DEF SearchRecords
  <1> HIDE DEF R
  <1>7. QED
    BY <1>4, <1>5, <1>6 DEF AllDecisive

\* More candidates make more packings.
LEMMA PackingsGrow ==
    ASSUME NEW C, NEW D, C \subseteq D
    PROVE  Seq(C) \subseteq Seq(D) /\ Packings(C) \subseteq Packings(D)
  <1>1. Seq(C) \subseteq Seq(D)
    OBVIOUS
  <1> DEFINE P == [observer : [start : Positions, goal : Positions], candidate : C]
             Q == [observer : [start : Positions, goal : Positions], candidate : D]
  <1>2. P \subseteq Q
    OBVIOUS
  <1> HIDE DEF P, Q
  <1>3. Seq(P) \subseteq Seq(Q)
    BY <1>2
  <1>4. Packings(C) \subseteq Packings(D)
    BY <1>3 DEF Packings, P, Q
  <1>5. QED
    BY <1>1, <1>4

LEMMA InsertedIsSequence ==
    ASSUME NEW C, NEW candidates \in Seq(C), NEW i \in 0 .. Len(candidates), NEW c \in C
    PROVE  Inserted(candidates, i, c) \in Seq(C)
  <1>1. SubSeq(candidates, 1, i) \in Seq(C)
    OBVIOUS
  <1>2. SubSeq(candidates, i + 1, Len(candidates)) \in Seq(C)
    OBVIOUS
  <1>3. <<c>> \in Seq(C)
    OBVIOUS
  <1> DEFINE a == SubSeq(candidates, 1, i)
             b == SubSeq(candidates, i + 1, Len(candidates))
  <1> HIDE DEF a, b
  <1>4. a \o <<c>> \o b \in Seq(C)
    BY <1>1, <1>2, <1>3 DEF a, b
  <1>5. QED
    BY <1>4 DEF Inserted, a, b

\* A draw leaves the search as good as it was.
LEMMA DrawnIsFine ==
    ASSUME NEW C, NEW before \in SearchRecords(C), NEW radius \in Int, NEW horizon \in Int,
           AllDecisive(before.bitmap, radius, horizon, C),
           NEW draw \in Draws, NEW pair_count,
           NEW next \in Drawn(before, draw, radius, horizon, pair_count)
    PROVE  \E D : next \in SearchRecords(D) /\ AllDecisive(next.bitmap, radius, horizon, D)
  <1> DEFINE made == IF draw \in before.seen THEN <<>>
                     ELSE CandidateFromDraw(before.bitmap, radius, horizon, draw)
             plain == [before EXCEPT !.drawn = @ + 1, !.seen = @ \cup {draw}]
  <1>1. /\ before.bitmap \in SUBSET Positions /\ before.candidates \in Seq(C)
        /\ before.drawn \in Nat /\ before.seen \in SUBSET Draws
    BY DEF SearchRecords
  <1>2. plain \in SearchRecords(C) /\ plain.bitmap = before.bitmap
    <2>1. /\ before.drawn + 1 \in Nat /\ before.seen \cup {draw} \in SUBSET Draws
          /\ before.attempt \in Nat /\ before.selected \in Packings(C)
      BY <1>1 DEF SearchRecords
    <2> DEFINE S == SUBSET Draws
               P == Packings(C)
               Q == Seq(C)
               B == SUBSET Positions
    <2>2. /\ before \in [bitmap : B, attempt : Nat, drawn : Nat, seen : S, candidates : Q,
                         selected : P]
          /\ before.drawn + 1 \in Nat /\ before.seen \cup {draw} \in S
      BY <2>1 DEF SearchRecords
    <2> HIDE DEF S, P, Q, B
    <2>3. /\ plain \in [bitmap : B, attempt : Nat, drawn : Nat, seen : S, candidates : Q,
                         selected : P]
          /\ plain.bitmap = before.bitmap
      BY <2>2
    <2> HIDE DEF plain
    <2>4. QED
      BY <2>3 DEF SearchRecords, S, P, Q, B
  <1>3. CASE made = <<>>
    <2>1. next = plain
      BY <1>3 DEF Drawn
    <2>2. QED
      BY <1>2, <2>1
  <1>4. CASE made # <<>>
    <2> DEFINE c == made[1]
               D == C \cup {c}
    <2>1. Decisive(before.bitmap, radius, horizon, c)
      <3>1. draw \in [start : Positions, goal : Positions]
        BY SuiteAssumption
      <3>2. made = CandidateFromDraw(before.bitmap, radius, horizon, draw)
        BY <1>4
      <3> HIDE DEF made
      <3>3. CandidateFromDraw(before.bitmap, radius, horizon, draw) # <<>>
        BY <1>4, <3>2
      <3>4. Decisive(before.bitmap, radius, horizon,
                     CandidateFromDraw(before.bitmap, radius, horizon, draw)[1])
        BY <1>1, <3>1, <3>3, MadeIsDecisive
      <3>5. QED
        BY <3>2, <3>4
    <2>2. AllDecisive(before.bitmap, radius, horizon, D)
      <3> HIDE DEF c
      <3>1. QED
        BY <2>1 DEF AllDecisive
    <2>3. \E i \in 0 .. Len(before.candidates) :
            LET candidates == Inserted(before.candidates, i, c)
            IN  next \in {[plain EXCEPT !.candidates = candidates, !.selected = selected] :
                    selected \in PackCandidates(before.bitmap, candidates, pair_count)}
      BY <1>4 DEF Drawn
    <2> HIDE DEF plain, c
    <2>4. PICK i \in 0 .. Len(before.candidates) :
            \E selected \in PackCandidates(before.bitmap, Inserted(before.candidates, i, c), pair_count) :
                next = [plain EXCEPT !.candidates = Inserted(before.candidates, i, c),
                                     !.selected = selected]
      BY <2>3
    <2> DEFINE candidates == Inserted(before.candidates, i, c)
    <2>5. PICK selected \in PackCandidates(before.bitmap, candidates, pair_count) :
            next = [plain EXCEPT !.candidates = candidates, !.selected = selected]
      BY <2>4
    <2>6. C \subseteq D /\ c \in D
      OBVIOUS
    <2> HIDE DEF D
    <2>7. Seq(C) \subseteq Seq(D) /\ Packings(C) \subseteq Packings(D)
      BY <2>6, PackingsGrow
    <2>8. candidates \in Seq(D)
      <3>1. before.candidates \in Seq(D)
        BY <1>1, <2>7
      <3>2. QED
        BY <2>6, <3>1, InsertedIsSequence
    <2> HIDE DEF candidates
    <2>9. selected \in Packings(D)
      BY <2>2, <2>5, <2>8, PackedIsPacking
    <2>10. next \in SearchRecords(D) /\ next.bitmap = before.bitmap
      BY <1>2, <2>5, <2>8, <2>9 DEF SearchRecords
    <2>11. QED
      BY <2>2, <2>10
  <1>5. QED
    BY <1>3, <1>4

\* Only a generation begins a search, only maps and draws go on with it.
LEMMA SearchesAreLocal ==
    ASSUME Shaped, NEW s \in Suites, Step(s)
    PROVE  \/ at'[s].pc \notin {"searching", "selected"}
           \/ /\ at'[s].pc = at[s].pc /\ at'[s].study = at[s].study
              /\ at'[s].built = at[s].built /\ search'[s] = search[s]
           \/ Generate(s) \/ SampleMap(s) \/ DrawPair(s)
  <1>1. /\ s \in DOMAIN at /\ s \in DOMAIN search /\ DOMAIN at[s] = Fields
        /\ {"pc", "study", "built", "paths", "tasks", "accepted", "episodes"} \subseteq DOMAIN at[s]
    BY DEF Shaped, Well, Fields
  <1>2. CASE CheckOutput(s)
    <2>1. \E pc \in {"refused", "ready"} : Go(s, pc)
      BY <1>2 DEF CheckOutput
    <2>2. QED
      BY <1>1, <2>1 DEF Go
  <1>3. CASE MakeOutput(s)
    BY <1>1, <1>3 DEF MakeOutput, Go, Episode
  <1>4. CASE MakeInstances(s)
    <2>1. \E pc \in {"failed", "planning"} : Go(s, pc)
      BY <1>4 DEF MakeInstances
    <2>2. QED
      BY <1>1, <2>1 DEF Go
  <1>5. CASE Plan(s)
    <2>1. \E pc \in {"failed", "generating"} : Go(s, pc)
      BY <1>5 DEF Plan
    <2>2. QED
      BY <1>1, <2>1 DEF Go
  <1>6. CASE GiveUp(s)
    BY <1>1, <1>6 DEF GiveUp, Go, Episode
  <1>7. CASE BuildInstance(s)
    <2>1. \E pc \in {"failed", "saving"} : Go(s, pc)
      BY <1>7 DEF BuildInstance
    <2>2. QED
      BY <1>1, <2>1 DEF Go
  <1>8. CASE SaveMap(s)
    BY <1>1, <1>8 DEF SaveMap, Go, Episode
  <1>9. CASE SaveTable(s)
    <2>1. \E b, p, a, z : at' = [at EXCEPT ![s].pc = "generating", ![s].built = b,
                                    ![s].paths = p, ![s].accepted = a, ![s].tasks = z]
      BY <1>9 DEF SaveTable
    <2>2. QED
      BY <1>1, <2>1 DEF Go
  <1>10. CASE Freeze(s)
    <2>1. \E pc \in {"frozen", "freezing"} : Go(s, pc)
      BY <1>10 DEF Freeze
    <2>2. QED
      BY <1>1, <2>1 DEF Go
  <1>11. CASE EndManifest(s)
    BY <1>1, <1>11 DEF EndManifest, Go, Episode
  <1>12. CASE Launch(s)
    <2>1. Go(s, "failed") \/ \E e : at' = [at EXCEPT ![s].pc = "opening", ![s].episodes = e]
      BY <1>12 DEF Launch
    <2>2. QED
      BY <1>1, <2>1 DEF Go
  <1>13. CASE OpenFiles(s)
    BY <1>1, <1>13 DEF OpenFiles, Go, Episode
  <1>14. CASE StartEpisode(s)
    <2>1. search' = search /\ \E e : at' = [at EXCEPT ![s].episodes = e]
      BY <1>14 DEF StartEpisode, Episode
    <2>2. /\ at'[s].pc = at[s].pc /\ at'[s].study = at[s].study
          /\ at'[s].built = at[s].built /\ search'[s] = search[s]
      <3>1. PICK e : at' = [at EXCEPT ![s].episodes = e]
        BY <2>1
      <3>2. QED
        BY <1>1, <2>1, <3>1
    <2>3. QED
      BY <2>2
  <1>15. CASE FinishEpisode(s)
    <2>1. search' = search /\ \E e : at' = [at EXCEPT ![s].episodes = e]
      BY <1>15 DEF FinishEpisode, Episode
    <2>2. /\ at'[s].pc = at[s].pc /\ at'[s].study = at[s].study
          /\ at'[s].built = at[s].built /\ search'[s] = search[s]
      <3>1. PICK e : at' = [at EXCEPT ![s].episodes = e]
        BY <2>1
      <3>2. QED
        BY <1>1, <2>1, <3>1
    <2>3. QED
      BY <2>2
  <1>16. CASE PoolBreaks(s)
    BY <1>1, <1>16 DEF PoolBreaks, Go, Episode
  <1>17. CASE WriteRow(s)
    BY <1>1, <1>17 DEF WriteRow, Go, Episode
  <1>18. CASE SpillTraces(s)
    BY <1>1, <1>18 DEF SpillTraces, Go, Episode
  <1>19. CASE WriteTraces(s)
    BY <1>1, <1>19 DEF WriteTraces, Go, Episode
  <1>20. CASE RaiseFailure(s)
    <2>1. \E e : at' = [at EXCEPT ![s].pc = "failing", ![s].episodes = e]
      BY <1>20 DEF RaiseFailure
    <2>2. QED
      BY <1>1, <2>1 DEF Go
  <1>21. CASE ShutDown(s)
    BY <1>1, <1>21 DEF ShutDown, Go, Episode
  <1>22. CASE OpenSummary(s)
    BY <1>1, <1>22 DEF OpenSummary, Go, Episode
  <1>23. CASE WriteSummary(s)
    <2>1. \/ \E pc \in {"done", "listing"} : Go(s, pc)
          \/ at' = [at EXCEPT ![s] = [NewSuite(at[s].study + 1) EXCEPT !.pc = "ready"]]
      BY <1>23 DEF WriteSummary, Go
    <2>2. QED
      BY <1>1, <2>1 DEF Go, NewSuite
  <1>24. CASE OpenList(s)
    BY <1>1, <1>24 DEF OpenList, Go, Episode
  <1>25. CASE EndList(s)
    BY <1>1, <1>25 DEF EndList, Go, Episode
  <1>26. CASE Crash(s)
    BY <1>1, <1>26 DEF Crash, Go, Episode
  <1>27. QED
    BY <1>2, <1>3, <1>4, <1>5, <1>6, <1>7, <1>8, <1>9, <1>10, <1>11, <1>12, <1>13, <1>14, <1>15, <1>16, <1>17, <1>18, <1>19, <1>20, <1>21, <1>22, <1>23, <1>24, <1>25, <1>26 DEF Step

LEMMA StepsKeepSearches ==
    ASSUME Shaped, Shaped', SearchIsFine, NEW s \in Suites, Step(s)
    PROVE  SearchIsFine'
  <1>1. s \in DOMAIN at /\ s \in DOMAIN search /\ DOMAIN at[s] = Fields /\ "pc" \in DOMAIN at[s]
    BY DEF Shaped, Well, Fields
  <1>2. Alone(s) /\ job' = job
    BY StepsAreAlone DEF Alone
  <1>3. ASSUME at'[s].pc \in {"searching", "selected"} PROVE \E C : Fine(s, C)'
    <2>1. CASE /\ at'[s].pc = at[s].pc /\ at'[s].study = at[s].study
               /\ at'[s].built = at[s].built /\ search'[s] = search[s]
      <3>1. PICK C : Fine(s, C)
        BY <1>3, <2>1 DEF SearchIsFine
      <3>2. Want(s)' = Want(s) /\ Config(s)' = Config(s)
        BY <1>2, <2>1 DEF Want, Config
      <3>3. Fine(s, C)'
        BY <2>1, <3>1, <3>2 DEF Fine
      <3>4. QED
        BY <3>3
    <2>2. CASE Generate(s)
      <3>1. search'[s] = NoSearch
        BY <1>1, <2>2 DEF Generate
      <3>2. Fine(s, {})'
        <4>1. /\ NoSearch \in SearchRecords({})
              /\ AllDecisive(NoSearch.bitmap, Want(s)'.radius, Config(s)'.horizon, {})
          BY NoSearchIsFine, 0 \in Nat, {} \in SUBSET Positions DEF AllDecisive
        <4>2. QED
          BY <3>1, <4>1 DEF Fine
      <3>3. QED
        BY <3>2
    <2>3. CASE SampleMap(s)
      <3>1. at[s].pc = "searching" /\ at' = at
        BY <2>3 DEF SampleMap
      <3>2. PICK C : Fine(s, C)
        BY <3>1 DEF SearchIsFine
      <3>3. PICK bitmap \in Bitmaps : search' = [search EXCEPT ![s] = Sampled(search[s], bitmap)]
        BY <2>3 DEF SampleMap
      <3>4. search'[s] = [NoSearch EXCEPT !.bitmap = bitmap, !.attempt = search[s].attempt + 1]
        BY <1>1, <3>3 DEF Sampled
      <3>5. bitmap \in SUBSET Positions /\ search[s].attempt + 1 \in Nat
        BY <3>2, SuiteAssumption DEF Fine, SearchRecords
      <3> DEFINE next == [NoSearch EXCEPT !.bitmap = bitmap, !.attempt = search[s].attempt + 1]
      <3>6. next \in SearchRecords({})
        BY <3>5, NoSearchIsFine
      <3> HIDE DEF next
      <3>7. Fine(s, {})'
        BY <3>4, <3>6 DEF Fine, AllDecisive, next
      <3>8. QED
        BY <3>7
    <2>4. CASE DrawPair(s)
      <3>1. at[s].pc = "searching"
        BY <2>4 DEF DrawPair
      <3>2. PICK C : Fine(s, C)
        BY <3>1 DEF SearchIsFine
      <3>3. PICK draw \in Draws : \E next \in Drawn(search[s], draw, Want(s).radius,
                                            Config(s).horizon, PairCount(s)) :
                /\ search' = [search EXCEPT ![s] = next]
                /\ Go(s, IF Len(next.selected) = PairCount(s) THEN "selected" ELSE "searching")
        BY <2>4 DEF DrawPair
      <3>4. PICK next \in Drawn(search[s], draw, Want(s).radius, Config(s).horizon, PairCount(s)) :
                search' = [search EXCEPT ![s] = next] /\ \E pc : Go(s, pc)
        BY <3>3
      <3>5. search'[s] = next /\ at'[s].study = at[s].study /\ at'[s].built = at[s].built
        <4>1. PICK pc : Go(s, pc)
          BY <3>4
        <4>2. at'[s].study = at[s].study /\ at'[s].built = at[s].built
          BY <1>1, <4>1 DEF Go, Fields
        <4>3. QED
          BY <1>1, <3>4, <4>2
      <3>6. Want(s)' = Want(s) /\ Config(s)' = Config(s)
        BY <1>2, <3>5 DEF Want, Config
      <3>7. Want(s).radius \in Int /\ Config(s).horizon \in Int
        <4>1. Want(s) \in Wants /\ Config(s).horizon \in Int
          BY <3>1, WantIsTyped DEF Shaped, Well, Building, Planned
        <4>2. QED
          BY <4>1 DEF Wants
      <3>8. \E D : next \in SearchRecords(D) /\ AllDecisive(next.bitmap, Want(s).radius, Config(s).horizon, D)
        <4>1. /\ search[s] \in SearchRecords(C)
              /\ AllDecisive(search[s].bitmap, Want(s).radius, Config(s).horizon, C)
          BY <3>2 DEF Fine
        <4>2. QED
          BY <3>4, <3>7, <4>1, DrawnIsFine
      <3>9. QED
        BY <3>5, <3>6, <3>8 DEF Fine
    <2>5. QED
      BY <1>3, <2>1, <2>2, <2>3, <2>4, SearchesAreLocal
  <1>4. ASSUME NEW r \in Suites, r # s, at'[r].pc \in {"searching", "selected"}
        PROVE  \E C : Fine(r, C)'
    <2>1. at'[r] = at[r] /\ search'[r] = search[r]
      BY <1>2, <1>4 DEF Alone
    <2>2. PICK C : Fine(r, C)
      BY <1>4, <2>1 DEF SearchIsFine
    <2>3. Want(r)' = Want(r) /\ Config(r)' = Config(r)
      BY <1>2, <2>1 DEF Want, Config
    <2>4. Fine(r, C)'
      BY <2>1, <2>2, <2>3 DEF Fine
    <2>5. QED
      BY <2>4
  <1>5. QED
    BY <1>3, <1>4 DEF SearchIsFine

\* What has been selected needs help, and no end of it is there twice.
LEMMA FineNeedsHelp ==
    ASSUME Shaped, SearchIsFine
    PROVE  DecisionsNeedHelp
  <1>1. SUFFICES ASSUME NEW s \in Suites, at[s].pc = "selected"
                 PROVE  /\ ~DuplicateEnds(search[s].selected)
                        /\ \A p \in CellsOf(search[s].selected) :
                            LET c == p.candidate
                                informed == ObservedMap(search[s].bitmap, CellsOf(c.prefix), Want(s).radius)
                                                \cup {c.obstacle}
                            IN  /\ NeedsHelp(search[s].bitmap, Want(s).radius, c, {c.obstacle},
                                             Config(s).horizon)
                                /\ NextOn(AStarPath(informed, c.commitment, c.goal), c.commitment)
                                        = c.truth[c.divergence + 1]
                                /\ ValidPath(c.truth, c.start, c.goal, search[s].bitmap)
                                /\ Chebyshev(p.observer.start, c.obstacle) <= Want(s).radius
                                /\ p.observer.start \notin search[s].bitmap
    BY DEF DecisionsNeedHelp
  <1> DEFINE selected == search[s].selected
             bitmap == search[s].bitmap
  <1>2. PICK C : Fine(s, C)
    BY <1>1 DEF SearchIsFine
  <1>3. /\ selected \in Packings(C)
        /\ AllDecisive(bitmap, Want(s).radius, Config(s).horizon, C)
    BY <1>2 DEF Fine, SearchRecords
  <1> HIDE DEF selected, bitmap
  <1>4. /\ selected \in Seq([observer : [start : Positions, goal : Positions], candidate : C])
        /\ \A p \in CellsOf(selected) : p.observer.start \in p.candidate.observers
        /\ Cardinality(Ends(selected)) = 4 * Len(selected)
    BY <1>3 DEF Packings
  <1>5. ~DuplicateEnds(selected)
    <2>1. DuplicateEnds(selected) <=> Cardinality(Ends(selected)) < 4 * Len(selected)
      BY DEF DuplicateEnds, Ends
    <2>2. Len(selected) \in Nat
      BY <1>4
    <2>3. QED
      BY <1>4, <2>1, <2>2
  <1>6. ASSUME NEW p \in CellsOf(selected)
        PROVE  /\ Decisive(bitmap, Want(s).radius, Config(s).horizon, p.candidate)
               /\ p.observer.start \in p.candidate.observers
    <2> DEFINE P == [observer : [start : Positions, goal : Positions], candidate : C]
    <2>1. p \in P
      <3> HIDE DEF P
      <3>1. selected \in Seq(P)
        BY <1>4 DEF P
      <3>2. PICK i \in DOMAIN selected : p = selected[i]
        BY DEF CellsOf
      <3>3. QED
        BY <3>1, <3>2
    <2>2. p.candidate \in C
      BY <2>1
    <2>3. QED
      BY <1>3, <1>4, <2>2 DEF AllDecisive
  <1>7. QED
    BY <1>5, <1>6 DEF Decisive, selected, bitmap

\* Every accepted natural task is decision-critical: _select_natural_pairs never
\* lets a pair through that does not need the help it is to be given.
THEOREM AcceptedTasksNeedHelp == Spec => []DecisionsNeedHelp
  <1>1. Init => SearchIsFine
    <2>1. SUFFICES ASSUME Init PROVE SearchIsFine
      OBVIOUS
    <2>2. \A s \in Suites : at[s].pc = "start"
      BY <2>1 DEF Init, NewSuite
    <2>3. QED
      BY <2>2 DEF SearchIsFine
  <1>2. Shaped /\ Shaped' /\ SearchIsFine /\ [Next]_vars => SearchIsFine'
    <2>1. SUFFICES ASSUME Shaped, Shaped', SearchIsFine, [Next]_vars PROVE SearchIsFine'
      OBVIOUS
    <2>2. CASE Next
      <3>1. PICK s \in Suites : Step(s)
        BY <2>2 DEF Next, Step
      <3>2. QED
        BY <2>1, <3>1, StepsKeepSearches
    <2>3. CASE UNCHANGED vars
      <3>1. job' = job /\ at' = at /\ search' = search
        BY <2>3 DEF vars
      <3>2. QED
        BY <2>1, <3>1 DEF SearchIsFine, Fine, Want, Config
    <2>4. QED
      BY <2>1, <2>2, <2>3
  <1>3. Shaped /\ SearchIsFine => DecisionsNeedHelp
    BY FineNeedsHelp
  <1>4. QED
    BY <1>1, <1>2, <1>3, SuitesAreShaped, PTL DEF Spec

-----------------------------------------------------------------------------
\* Whose a directory is.

DirFields ==
    {"made", "instances", "maps", "tables", "manifest", "opened", "rows", "traces", "spilled",
     "summary", "by"}

\* A suite that has not yet put anything into the directory of its study.
Fresh(s) == at[s].pc \in {"start", "ready", "entered"}

Owning(s) == at[s].pc \notin {"start", "ready", "entered", "refused", "failed", "crashed"}

\* A directory belongs to the suite that made its instances.
Exclusive ==
    /\ DOMAIN disk = {"manifest", "study"} /\ DOMAIN disk.study = 1 .. 2
    /\ \A n \in 1 .. 2 : LET dir == disk.study[n] IN
        /\ DOMAIN dir = DirFields
        /\ dir.by \subseteq Suites
        /\ \A r, s \in dir.by : r = s
        /\ dir.instances <=> dir.by # {}
        /\ ~dir.instances => \A f \in DirFields \ {"made"} : dir[f] = NewDirectory[f]
        /\ \A s \in dir.by : n <= at[s].study
    /\ \A s \in Suites :
        /\ Owning(s) => s \in Dir(s).by
        /\ Fresh(s) \/ at[s].pc = "refused" => s \notin Dir(s).by
        /\ Fresh(s) => \A f \in Fields \ {"pc"} : at[s][f] = NewSuite(at[s].study)[f]

-----------------------------------------------------------------------------
\* What a suite of configuration c, when it stands at a, has put into its directory d.

Wanting(t) == [density |-> t.density, radius |-> t.radius, layout |-> t.layout]

\* The tasks of a study, on instances that are there.
TasksOn(c, tables) ==
    {t \in [density : Int, radius : Int, trial : Int, layout : Int, network : Int, loss : Int,
            delay : Int, planner : STRING, policy : STRING, path : tables] :
        t.path = Instance(c, Wanting(t))}

\* The instances made so far are there, and the tasks are made from them.
BuiltFine(c, a, d) ==
    /\ a.tasks \in Seq(TasksOn(c, d.tables))
    /\ DOMAIN a.paths = {Wanted(c)[j] : j \in 1 .. a.built}
    /\ \A w \in DOMAIN a.paths : a.paths[w] = Instance(c, w) /\ Instance(c, w) \in d.tables
    /\ d.tables \subseteq d.maps
    /\ c.family = "natural_critical_random" => a.accepted = d.tables

EpisodesFine(a, d) ==
    /\ DOMAIN a.episodes \subseteq DOMAIN a.tasks
    /\ \A i \in DOMAIN a.episodes : a.episodes[i] \in
            {"waiting", "running", "row", "refused", "late", "broken", "cancelled"}
    /\ DOMAIN a.episodes # {} /\ a.accepted # {} => d.manifest = "whole"

RowOf(c, tasks, i) ==
    [number |-> i, task |-> tasks[i], instance |-> tasks[i].path, link |-> LinkSeed(c, tasks[i])]

RowsFine(c, a, d) ==
    /\ d.rows \in Seq({RowOf(c, a.tasks, i) : i \in DOMAIN a.tasks})
    /\ Len(d.rows) <= Len(a.tasks)
    /\ \A i \in DOMAIN d.rows :
        d.rows[i] = RowOf(c, a.tasks, i) /\ i \in DOMAIN a.episodes /\ a.episodes[i] = "row"

TracesFine(d) == d.traces \in Seq(Nat) /\ d.spilled \in BOOLEAN /\ TracesFollow(d)

SummaryFine(a, d) ==
    d.summary # "absent" =>
        /\ \A i \in DOMAIN a.tasks : i \in DOMAIN a.episodes /\ a.episodes[i] = "row"
        /\ Len(d.traces) = Len(a.tasks)

\* Before the pool is started.
Early == {"planning", "generating", "searching", "selected", "saving", "naming",
          "freezing", "frozen"}

\* What depends on where the suite stands.
StageFine(c, a, d) ==
    /\ a.pc \in Early => DOMAIN a.episodes = {} /\ d.rows = <<>> /\ d.traces = <<>> /\ ~d.spilled
    /\ a.pc = "naming" => Instance(c, Wanted(c)[a.built + 1]) \in d.maps
    /\ a.pc = "frozen" /\ a.accepted # {} => d.manifest = "whole"
    /\ a.pc \in {"opening", "collecting"} => Len(d.traces) = Len(d.rows) /\ ~d.spilled
    /\ a.pc = "tracing" => Len(d.rows) = Len(d.traces) + 1
    /\ a.pc \notin {"summing", "done", "listing", "ending", "crashed"} => d.summary = "absent"
    /\ a.pc = "summing" => d.summary # "absent"

Work(c, a, d) ==
    /\ BuiltFine(c, a, d) /\ EpisodesFine(a, d) /\ RowsFine(c, a, d) /\ TracesFine(d)
    /\ SummaryFine(a, d) /\ StageFine(c, a, d)

Owned == \A s \in Suites : s \in Dir(s).by => Work(Config(s), at[s], Dir(s))

\* What holds of a directory whoever has left it.
Sound(d) == d.tables \subseteq d.maps /\ TracesFollow(d) /\ Matched(d)

Whole(n) == disk.study[n].summary = "whole"

\* Studies are finished in their order.
Finished ==
    /\ \A n \in 1 .. 2 : disk.study[n].made /\ n > 1 => Whole(n - 1)
    /\ \A s \in Suites :
        /\ \A n \in 1 .. 2 : n < at[s].study => Whole(n)
        /\ at[s].pc \in {"listing", "ending"} => \A n \in DOMAIN job[s].studies : Whole(n)
    /\ disk.manifest # "absent" =>
        \E s \in Suites : \A n \in DOMAIN job[s].studies : Whole(n)

Consistent == Exclusive /\ Owned /\ (\A n \in 1 .. 2 : Sound(disk.study[n])) /\ Finished

-----------------------------------------------------------------------------
\* What a suite does in its directory, one thing at a time.

\* The files that the work of a suite is seen from.
Files == {"maps", "tables", "manifest", "rows", "traces", "spilled", "summary"}

SameFiles(d, e, changed) == \A f \in Files \ changed : e[f] = d[f]

SameBuilt(a, b) ==
    b.built = a.built /\ b.paths = a.paths /\ b.tasks = a.tasks /\ b.accepted = a.accepted

EpisodeStates == {"waiting", "running", "row", "refused", "late", "broken", "cancelled"}

AtTheEnd == {"summing", "done", "listing", "ending", "crashed"}

LEMMA FilesAre ==
    ASSUME NEW d, NEW e, SameFiles(d, e, {})
    PROVE  /\ e.maps = d.maps /\ e.tables = d.tables /\ e.manifest = d.manifest
           /\ e.rows = d.rows /\ e.traces = d.traces /\ e.spilled = d.spilled
           /\ e.summary = d.summary
  BY DEF SameFiles, Files

\* A move of the program counter to where no more is asked.
LEMMA MovedOn ==
    ASSUME NEW c, NEW a, NEW b, NEW d, NEW e, Work(c, a, d),
           SameBuilt(a, b), b.episodes = a.episodes, SameFiles(d, e, {}),
           \/ b.pc = a.pc
           \/ /\ b.pc \in Early => a.pc \in Early
              /\ b.pc \notin {"naming", "opening", "collecting", "tracing", "summing"}
              /\ b.pc = "frozen" => a.accepted = {}
              /\ b.pc \notin AtTheEnd => a.pc \notin AtTheEnd
    PROVE  Work(c, b, e)
  <1>1. /\ e.maps = d.maps /\ e.tables = d.tables /\ e.manifest = d.manifest
        /\ e.rows = d.rows /\ e.traces = d.traces /\ e.spilled = d.spilled
        /\ e.summary = d.summary
    BY FilesAre
  <1>2. b.built = a.built /\ b.paths = a.paths /\ b.tasks = a.tasks /\ b.accepted = a.accepted
    BY DEF SameBuilt
  <1>3. BuiltFine(c, b, e)
    BY <1>1, <1>2 DEF Work, BuiltFine
  <1>4. EpisodesFine(b, e)
    BY <1>1, <1>2 DEF Work, EpisodesFine
  <1>5. RowsFine(c, b, e)
    BY <1>1, <1>2 DEF Work, RowsFine
  <1>6. TracesFine(e)
    BY <1>1 DEF Work, TracesFine, TracesFollow
  <1>7. SummaryFine(b, e)
    BY <1>1, <1>2 DEF Work, SummaryFine
  <1>8. StageFine(c, b, e)
    BY <1>1, <1>2 DEF Work, StageFine, AtTheEnd
  <1>9. QED
    BY <1>3, <1>4, <1>5, <1>6, <1>7, <1>8 DEF Work

\* Episodes begin, end or are given up; a row that is there stays.
LEMMA EpisodesGoOn ==
    ASSUME NEW c, NEW a, NEW b, NEW d, NEW e, Work(c, a, d),
           SameBuilt(a, b), SameFiles(d, e, {}),
           DOMAIN b.episodes = DOMAIN a.episodes,
           \A i \in DOMAIN a.episodes :
                /\ b.episodes[i] \in EpisodeStates
                /\ a.episodes[i] = "row" => b.episodes[i] = "row",
           b.pc = a.pc \/ (a.pc = "collecting" /\ b.pc = "failing")
    PROVE  Work(c, b, e)
  <1>1. /\ e.maps = d.maps /\ e.tables = d.tables /\ e.manifest = d.manifest
        /\ e.rows = d.rows /\ e.traces = d.traces /\ e.spilled = d.spilled
        /\ e.summary = d.summary
    BY FilesAre
  <1>2. b.built = a.built /\ b.paths = a.paths /\ b.tasks = a.tasks /\ b.accepted = a.accepted
    BY DEF SameBuilt
  <1>3. BuiltFine(c, b, e)
    BY <1>1, <1>2 DEF Work, BuiltFine
  <1>4. EpisodesFine(b, e)
    BY <1>1, <1>2 DEF Work, EpisodesFine, EpisodeStates
  <1>5. RowsFine(c, b, e)
    BY <1>1, <1>2 DEF Work, RowsFine
  <1>6. TracesFine(e)
    BY <1>1 DEF Work, TracesFine, TracesFollow
  <1>7. SummaryFine(b, e)
    BY <1>1, <1>2 DEF Work, SummaryFine
  <1>8. StageFine(c, b, e)
    BY <1>1, <1>2 DEF Work, StageFine, Early
  <1>9. QED
    BY <1>3, <1>4, <1>5, <1>6, <1>7, <1>8 DEF Work

LEMMA Launched ==
    ASSUME NEW c, NEW a, NEW b, NEW d, NEW e, Work(c, a, d),
           SameBuilt(a, b), SameFiles(d, e, {}), a.pc = "frozen", b.pc = "opening",
           b.episodes = [i \in DOMAIN a.tasks |-> "waiting"]
    PROVE  Work(c, b, e)
  <1>1. /\ e.maps = d.maps /\ e.tables = d.tables /\ e.manifest = d.manifest
        /\ e.rows = d.rows /\ e.traces = d.traces /\ e.spilled = d.spilled
        /\ e.summary = d.summary
    BY FilesAre
  <1>2. b.built = a.built /\ b.paths = a.paths /\ b.tasks = a.tasks /\ b.accepted = a.accepted
    BY DEF SameBuilt
  <1>3. BuiltFine(c, b, e)
    BY <1>1, <1>2 DEF Work, BuiltFine
  <1>4. /\ d.rows = <<>> /\ d.traces = <<>> /\ ~d.spilled /\ d.summary = "absent"
        /\ a.accepted # {} => d.manifest = "whole"
    BY DEF Work, StageFine, Early
  <1>5. EpisodesFine(b, e)
    BY <1>1, <1>2, <1>4 DEF EpisodesFine
  <1>6. RowsFine(c, b, e)
    BY <1>1, <1>2, <1>4 DEF Work, RowsFine
  <1>7. TracesFine(e)
    BY <1>1 DEF Work, TracesFine, TracesFollow
  <1>8. SummaryFine(b, e)
    BY <1>1, <1>4 DEF SummaryFine
  <1>9. StageFine(c, b, e)
    BY <1>1, <1>2, <1>4 DEF StageFine, Early
  <1>10. QED
    BY <1>3, <1>5, <1>6, <1>7, <1>8, <1>9 DEF Work

LEMMA MapSaved ==
    ASSUME NEW c, NEW a, NEW b, NEW d, NEW e, Work(c, a, d),
           SameBuilt(a, b), b.episodes = a.episodes, a.pc = "saving", b.pc = "naming",
           SameFiles(d, e, {"maps"}),
           e.maps = d.maps \cup {Instance(c, Wanted(c)[a.built + 1])}
    PROVE  Work(c, b, e)
  <1>1. /\ e.tables = d.tables /\ e.manifest = d.manifest
        /\ e.rows = d.rows /\ e.traces = d.traces /\ e.spilled = d.spilled
        /\ e.summary = d.summary
    BY DEF SameFiles, Files
  <1>2. b.built = a.built /\ b.paths = a.paths /\ b.tasks = a.tasks /\ b.accepted = a.accepted
    BY DEF SameBuilt
  <1>3. BuiltFine(c, b, e)
    BY <1>1, <1>2 DEF Work, BuiltFine
  <1>4. EpisodesFine(b, e)
    BY <1>1, <1>2 DEF Work, EpisodesFine
  <1>5. RowsFine(c, b, e)
    BY <1>1, <1>2 DEF Work, RowsFine
  <1>6. TracesFine(e)
    BY <1>1 DEF Work, TracesFine, TracesFollow
  <1>7. SummaryFine(b, e)
    BY <1>1, <1>2 DEF Work, SummaryFine
  <1>8. StageFine(c, b, e)
    BY <1>1, <1>2 DEF Work, StageFine, Early
  <1>9. QED
    BY <1>3, <1>4, <1>5, <1>6, <1>7, <1>8 DEF Work

\* The list of accepted instances is written before there are any episodes.
LEMMA ManifestPut ==
    ASSUME NEW c, NEW a, NEW b, NEW d, NEW e, Work(c, a, d),
           SameBuilt(a, b), b.episodes = a.episodes, SameFiles(d, e, {"manifest"}),
           \/ a.pc = "generating" /\ b.pc = "freezing"
           \/ a.pc = "freezing" /\ b.pc = "frozen" /\ e.manifest = "whole"
    PROVE  Work(c, b, e)
  <1>1. /\ e.maps = d.maps /\ e.tables = d.tables
        /\ e.rows = d.rows /\ e.traces = d.traces /\ e.spilled = d.spilled
        /\ e.summary = d.summary
    BY DEF SameFiles, Files
  <1>2. b.built = a.built /\ b.paths = a.paths /\ b.tasks = a.tasks /\ b.accepted = a.accepted
    BY DEF SameBuilt
  <1>3. BuiltFine(c, b, e)
    BY <1>1, <1>2 DEF Work, BuiltFine
  <1>4. DOMAIN a.episodes = {}
    BY DEF Work, StageFine, Early
  <1>5. EpisodesFine(b, e)
    BY <1>2, <1>4 DEF EpisodesFine
  <1>6. RowsFine(c, b, e)
    BY <1>1, <1>2 DEF Work, RowsFine
  <1>7. TracesFine(e)
    BY <1>1 DEF Work, TracesFine, TracesFollow
  <1>8. SummaryFine(b, e)
    BY <1>1, <1>2 DEF Work, SummaryFine
  <1>9. StageFine(c, b, e)
    BY <1>1, <1>2 DEF Work, StageFine, Early
  <1>10. QED
    BY <1>3, <1>5, <1>6, <1>7, <1>8, <1>9 DEF Work

LEMMA FilesOpened ==
    ASSUME NEW c, NEW a, NEW b, NEW d, NEW e, Work(c, a, d),
           SameBuilt(a, b), b.episodes = a.episodes, SameFiles(d, e, {}),
           a.pc = "opening", b.pc = "collecting"
    PROVE  Work(c, b, e)
  <1>1. /\ e.maps = d.maps /\ e.tables = d.tables /\ e.manifest = d.manifest
        /\ e.rows = d.rows /\ e.traces = d.traces /\ e.spilled = d.spilled
        /\ e.summary = d.summary
    BY FilesAre
  <1>2. b.built = a.built /\ b.paths = a.paths /\ b.tasks = a.tasks /\ b.accepted = a.accepted
    BY DEF SameBuilt
  <1>3. BuiltFine(c, b, e)
    BY <1>1, <1>2 DEF Work, BuiltFine
  <1>4. EpisodesFine(b, e)
    BY <1>1, <1>2 DEF Work, EpisodesFine
  <1>5. RowsFine(c, b, e)
    BY <1>1, <1>2 DEF Work, RowsFine
  <1>6. TracesFine(e)
    BY <1>1 DEF Work, TracesFine, TracesFollow
  <1>7. SummaryFine(b, e)
    BY <1>1, <1>2 DEF Work, SummaryFine
  <1>8. StageFine(c, b, e)
    BY <1>1, <1>2 DEF Work, StageFine, Early
  <1>9. QED
    BY <1>3, <1>4, <1>5, <1>6, <1>7, <1>8 DEF Work

\* The row of the next task is appended when its episode has come to its end.
LEMMA RowWritten ==
    ASSUME NEW c, NEW a, NEW b, NEW d, NEW e, Work(c, a, d),
           SameBuilt(a, b), b.episodes = a.episodes, SameFiles(d, e, {"rows"}),
           a.pc = "collecting", b.pc = "tracing",
           Len(d.rows) + 1 \in DOMAIN a.episodes, a.episodes[Len(d.rows) + 1] = "row",
           e.rows = Append(d.rows, RowOf(c, a.tasks, Len(d.rows) + 1))
    PROVE  Work(c, b, e)
  <1> DEFINE R == {RowOf(c, a.tasks, i) : i \in DOMAIN a.tasks}
             n == Len(d.rows)
             row == RowOf(c, a.tasks, n + 1)
  <1>1. /\ e.maps = d.maps /\ e.tables = d.tables /\ e.manifest = d.manifest
        /\ e.traces = d.traces /\ e.spilled = d.spilled /\ e.summary = d.summary
    BY DEF SameFiles, Files
  <1>2. b.built = a.built /\ b.paths = a.paths /\ b.tasks = a.tasks /\ b.accepted = a.accepted
    BY DEF SameBuilt
  <1>3. /\ d.summary = "absent" /\ Len(d.traces) = n /\ ~d.spilled
        /\ d.traces \in Seq(Nat) /\ \A i \in DOMAIN d.traces : d.traces[i] = i
    BY DEF Work, StageFine, AtTheEnd, TracesFine, TracesFollow
  <1>4. n + 1 \in DOMAIN a.tasks /\ row \in R
    BY DEF Work, EpisodesFine
  <1>5. d.rows \in Seq(R)
    BY DEF Work, RowsFine
  <1>6. /\ e.rows \in Seq(R) /\ Len(e.rows) = n + 1 /\ DOMAIN e.rows = DOMAIN d.rows \cup {n + 1}
        /\ e.rows[n + 1] = row /\ \A i \in DOMAIN d.rows : e.rows[i] = d.rows[i]
    <2> HIDE DEF row, R
    <2>1. e.rows = Append(d.rows, row)
      BY DEF row
    <2>2. QED
      BY <1>4, <1>5, <2>1, AppendFacts
  <1>7. n + 1 <= Len(a.tasks)
    <2>1. a.tasks \in Seq(TasksOn(c, d.tables))
      BY DEF Work, BuiltFine
    <2>2. DOMAIN a.tasks = 1 .. Len(a.tasks)
      BY <2>1
    <2>3. QED
      BY <1>4, <2>2
  <1>8. BuiltFine(c, b, e)
    BY <1>1, <1>2 DEF Work, BuiltFine
  <1>9. EpisodesFine(b, e)
    BY <1>1, <1>2 DEF Work, EpisodesFine
  <1>10. RowsFine(c, b, e)
    <2>1. ASSUME NEW i \in DOMAIN e.rows
          PROVE  e.rows[i] = RowOf(c, a.tasks, i) /\ i \in DOMAIN a.episodes /\ a.episodes[i] = "row"
      <3>1. CASE i = n + 1
        BY <1>6, <3>1
      <3>2. CASE i \in DOMAIN d.rows
        BY <1>6, <3>2 DEF Work, RowsFine
      <3>3. QED
        BY <1>6, <2>1, <3>1, <3>2
    <2>2. QED
      BY <1>2, <1>6, <1>7, <2>1 DEF RowsFine
  <1>11. TracesFine(e)
    <2>1. Len(e.rows) - Len(e.traces) = 1
      <3>1. n \in Nat
        BY <1>5
      <3>2. QED
        BY <1>1, <1>3, <1>6, <3>1
    <2>2. e.spilled \in BOOLEAN
      BY <1>1 DEF Work, TracesFine
    <2>3. QED
      BY <1>1, <1>3, <2>1, <2>2 DEF TracesFine, TracesFollow
  <1>12. SummaryFine(b, e)
    BY <1>1, <1>3 DEF SummaryFine
  <1>13. StageFine(c, b, e)
    BY <1>1, <1>2, <1>3, <1>6 DEF StageFine, Early
  <1>14. QED
    BY <1>8, <1>9, <1>10, <1>11, <1>12, <1>13 DEF Work

LEMMA TracesSpilled ==
    ASSUME NEW c, NEW a, NEW d, NEW e, Work(c, a, d),
           SameFiles(d, e, {"spilled"}), a.pc = "tracing", e.spilled = TRUE
    PROVE  Work(c, a, e)
  <1>1. /\ e.maps = d.maps /\ e.tables = d.tables /\ e.manifest = d.manifest
        /\ e.rows = d.rows /\ e.traces = d.traces /\ e.summary = d.summary
    BY DEF SameFiles, Files
  <1>2. BuiltFine(c, a, e)
    BY <1>1 DEF Work, BuiltFine
  <1>3. EpisodesFine(a, e)
    BY <1>1 DEF Work, EpisodesFine
  <1>4. RowsFine(c, a, e)
    BY <1>1 DEF Work, RowsFine
  <1>5. TracesFine(e)
    <2>1. Len(d.rows) = Len(d.traces) + 1 /\ Len(d.traces) \in Nat
      BY DEF Work, StageFine, TracesFine
    <2>2. Len(e.rows) - Len(e.traces) = 1 /\ Len(e.traces) < Len(e.rows)
      BY <1>1, <2>1
    <2>3. d.traces \in Seq(Nat) /\ \A i \in DOMAIN d.traces : d.traces[i] = i
      BY DEF Work, TracesFine, TracesFollow
    <2>4. TracesFollow(e)
      BY <1>1, <2>2, <2>3 DEF TracesFollow
    <2>5. e.spilled \in BOOLEAN
      OBVIOUS
    <2>6. QED
      BY <1>1, <2>3, <2>4, <2>5 DEF TracesFine
  <1>6. SummaryFine(a, e)
    BY <1>1 DEF Work, SummaryFine
  <1>7. StageFine(c, a, e)
    BY <1>1 DEF Work, StageFine, Early
  <1>8. QED
    BY <1>2, <1>3, <1>4, <1>5, <1>6, <1>7 DEF Work

\* The traces of the last row are appended.
LEMMA TracesWritten ==
    ASSUME NEW c, NEW a, NEW b, NEW d, NEW e, Work(c, a, d),
           SameBuilt(a, b), b.episodes = a.episodes, SameFiles(d, e, {"spilled", "traces"}),
           a.pc = "tracing", b.pc = "collecting", e.spilled = FALSE,
           e.traces = Append(d.traces, d.rows[Len(d.rows)].number)
    PROVE  Work(c, b, e)
  <1> DEFINE n == Len(d.traces)
             number == d.rows[Len(d.rows)].number
  <1>1. /\ e.maps = d.maps /\ e.tables = d.tables /\ e.manifest = d.manifest
        /\ e.rows = d.rows /\ e.summary = d.summary
    BY DEF SameFiles, Files
  <1>2. b.built = a.built /\ b.paths = a.paths /\ b.tasks = a.tasks /\ b.accepted = a.accepted
    BY DEF SameBuilt
  <1>3. /\ d.summary = "absent" /\ Len(d.rows) = n + 1 /\ n \in Nat
        /\ d.traces \in Seq(Nat) /\ \A i \in DOMAIN d.traces : d.traces[i] = i
    BY DEF Work, StageFine, AtTheEnd, TracesFine, TracesFollow
  <1>4. number = n + 1
    <2>1. n + 1 \in DOMAIN d.rows
      BY <1>3 DEF Work, RowsFine
    <2>2. d.rows[n + 1] = RowOf(c, a.tasks, n + 1)
      BY <2>1 DEF Work, RowsFine
    <2>3. QED
      BY <1>3, <2>2 DEF RowOf
  <1>5. /\ e.traces \in Seq(Nat) /\ Len(e.traces) = n + 1
        /\ DOMAIN e.traces = DOMAIN d.traces \cup {n + 1}
        /\ e.traces[n + 1] = n + 1 /\ \A i \in DOMAIN d.traces : e.traces[i] = d.traces[i]
    <2> HIDE DEF number
    <2>1. e.traces = Append(d.traces, number) /\ number \in Nat
      BY <1>3, <1>4 DEF number
    <2>2. QED
      BY <1>3, <1>4, <2>1, AppendFacts
  <1>6. BuiltFine(c, b, e)
    BY <1>1, <1>2 DEF Work, BuiltFine
  <1>7. EpisodesFine(b, e)
    BY <1>1, <1>2 DEF Work, EpisodesFine
  <1>8. RowsFine(c, b, e)
    BY <1>1, <1>2 DEF Work, RowsFine
  <1>9. TracesFine(e)
    <2>1. \A i \in DOMAIN e.traces : e.traces[i] = i
      BY <1>3, <1>5
    <2>2. Len(e.rows) - Len(e.traces) = 0
      BY <1>1, <1>3, <1>5
    <2>3. e.spilled \in BOOLEAN /\ ~e.spilled
      OBVIOUS
    <2>4. TracesFollow(e)
      BY <2>1, <2>2, <2>3 DEF TracesFollow
    <2>5. QED
      BY <1>5, <2>3, <2>4 DEF TracesFine
  <1>10. SummaryFine(b, e)
    BY <1>1, <1>3 DEF SummaryFine
  <1>11. StageFine(c, b, e)
    BY <1>1, <1>2, <1>3, <1>5 DEF StageFine, Early
  <1>12. QED
    BY <1>6, <1>7, <1>8, <1>9, <1>10, <1>11 DEF Work

\* A summary is begun when all rows are there.
LEMMA SummaryOpened ==
    ASSUME NEW c, NEW a, NEW b, NEW d, NEW e, Work(c, a, d),
           SameBuilt(a, b), b.episodes = a.episodes, SameFiles(d, e, {"summary"}),
           a.pc = "collecting", b.pc = "summing", e.summary # "absent", Len(d.rows) = Len(a.tasks)
    PROVE  Work(c, b, e)
  <1>1. /\ e.maps = d.maps /\ e.tables = d.tables /\ e.manifest = d.manifest
        /\ e.rows = d.rows /\ e.traces = d.traces /\ e.spilled = d.spilled
    BY DEF SameFiles, Files
  <1>2. b.built = a.built /\ b.paths = a.paths /\ b.tasks = a.tasks /\ b.accepted = a.accepted
    BY DEF SameBuilt
  <1>3. BuiltFine(c, b, e)
    BY <1>1, <1>2 DEF Work, BuiltFine
  <1>4. EpisodesFine(b, e)
    BY <1>1, <1>2 DEF Work, EpisodesFine
  <1>5. RowsFine(c, b, e)
    BY <1>1, <1>2 DEF Work, RowsFine
  <1>6. TracesFine(e)
    BY <1>1 DEF Work, TracesFine, TracesFollow
  <1>7. SummaryFine(b, e)
    <2>1. d.rows \in Seq({RowOf(c, a.tasks, i) : i \in DOMAIN a.tasks})
      BY DEF Work, RowsFine
    <2>2. a.tasks \in Seq(TasksOn(c, d.tables))
      BY DEF Work, BuiltFine
    <2>3. DOMAIN d.rows = 1 .. Len(d.rows) /\ DOMAIN a.tasks = 1 .. Len(a.tasks)
      BY <2>1, <2>2
    <2>4. \A i \in DOMAIN a.tasks : i \in DOMAIN a.episodes /\ a.episodes[i] = "row"
      BY <2>3 DEF Work, RowsFine
    <2>5. Len(d.traces) = Len(a.tasks)
      BY DEF Work, StageFine
    <2>6. QED
      BY <1>1, <1>2, <2>4, <2>5 DEF SummaryFine
  <1>8. StageFine(c, b, e)
    BY DEF StageFine, Early
  <1>9. QED
    BY <1>3, <1>4, <1>5, <1>6, <1>7, <1>8 DEF Work

LEMMA SummaryWritten ==
    ASSUME NEW c, NEW a, NEW b, NEW d, NEW e, Work(c, a, d),
           SameBuilt(a, b), b.episodes = a.episodes, SameFiles(d, e, {"summary"}),
           a.pc = "summing", b.pc \in {"done", "listing"}
    PROVE  Work(c, b, e)
  <1>1. /\ e.maps = d.maps /\ e.tables = d.tables /\ e.manifest = d.manifest
        /\ e.rows = d.rows /\ e.traces = d.traces /\ e.spilled = d.spilled
    BY DEF SameFiles, Files
  <1>2. b.built = a.built /\ b.paths = a.paths /\ b.tasks = a.tasks /\ b.accepted = a.accepted
    BY DEF SameBuilt
  <1>3. BuiltFine(c, b, e)
    BY <1>1, <1>2 DEF Work, BuiltFine
  <1>4. EpisodesFine(b, e)
    BY <1>1, <1>2 DEF Work, EpisodesFine
  <1>5. RowsFine(c, b, e)
    BY <1>1, <1>2 DEF Work, RowsFine
  <1>6. TracesFine(e)
    BY <1>1 DEF Work, TracesFine, TracesFollow
  <1>7. SummaryFine(b, e)
    BY <1>1, <1>2 DEF Work, SummaryFine, StageFine
  <1>8. StageFine(c, b, e)
    BY DEF StageFine, Early
  <1>9. QED
    BY <1>3, <1>4, <1>5, <1>6, <1>7, <1>8 DEF Work

-----------------------------------------------------------------------------
\* The tasks of a group.

LEMMA ListIsSequence ==
    ASSUME NEW S, NEW V, NEW s \in Seq(V), NEW f, f = [i \in DOMAIN s |-> f[i]],
           \A i \in DOMAIN s : f[i] \in S
    PROVE  f \in Seq(S)
  <1>1. DOMAIN s = 1 .. Len(s) /\ Len(s) \in Nat
    OBVIOUS
  <1>2. QED
    BY <1>1

\* Every instance that the tasks of a group name has its path by then.
LEMMA GroupTasksAreOn ==
    ASSUME NEW c \in Configs, PlanAccepted(c), NEW g \in [density : Int, radius : Int],
           NEW paths, NEW tables,
           \A l \in CellsOf(Layouts(c)) :
                LET w == [density |-> g.density, radius |-> g.radius, layout |-> l]
                IN  paths[w] = Instance(c, w) /\ Instance(c, w) \in tables
    PROVE  GroupTasks(c, g, paths) \in Seq(TasksOn(c, tables))
  <1> DEFINE T == TasksOn(c, tables)
             plan == TrialPlan(c)
             want(t) == [density |-> g.density, radius |-> g.radius, layout |-> plan[t].layout]
             task(t, l, d, p, o) ==
                [density |-> g.density, radius |-> g.radius, trial |-> plan[t].trial,
                 layout |-> plan[t].layout, network |-> plan[t].network,
                 loss |-> c.losses[l], delay |-> c.delays[d], planner |-> c.planners[p],
                 policy |-> c.policies[o], path |-> paths[want(t)]]
             ofPlanner(t, l, d, p) == [o \in DOMAIN c.policies |-> task(t, l, d, p, o)]
             ofDelay(t, l, d) == [p \in DOMAIN c.planners |-> ofPlanner(t, l, d, p)]
             ofLoss(t, l) == [d \in DOMAIN c.delays |-> FlattenSeq(ofDelay(t, l, d))]
             ofTrial(t) == [l \in DOMAIN c.losses |-> FlattenSeq(ofLoss(t, l))]
             all == [t \in DOMAIN plan |-> FlattenSeq(ofTrial(t))]
  <1>1. GroupTasks(c, g, paths) = FlattenSeq(all)
    BY DEF GroupTasks
  <1>2. /\ c.losses \in Seq(Int) /\ c.delays \in Seq(Int)
        /\ c.planners \in Seq(STRING) /\ c.policies \in Seq(STRING)
    BY DEF Configs
  <1>3. /\ \A l \in DOMAIN c.losses : c.losses[l] \in Int
        /\ \A d \in DOMAIN c.delays : c.delays[d] \in Int
        /\ \A p \in DOMAIN c.planners : c.planners[p] \in STRING
        /\ \A o \in DOMAIN c.policies : c.policies[o] \in STRING
    BY <1>2
  <1>4. /\ plan \in Seq(Trials)
        /\ \A t \in DOMAIN plan : plan[t].layout \in CellsOf(Layouts(c))
    <2>1. /\ plan \in Seq(Trials)
          /\ CellsOf(Layouts(c)) = {plan[i].layout : i \in DOMAIN plan}
      BY PlanIsTyped
    <2>2. QED
      BY <2>1
  <1>5. ASSUME NEW t \in DOMAIN plan
        PROVE  /\ plan[t].trial \in Int /\ plan[t].layout \in Int /\ plan[t].network \in Int
               /\ paths[want(t)] = Instance(c, want(t)) /\ Instance(c, want(t)) \in tables
    <2>1. plan[t] \in Trials
      <3> HIDE DEF plan
      <3>1. QED
        BY <1>4
    <2>2. paths[want(t)] = Instance(c, want(t)) /\ Instance(c, want(t)) \in tables
      <3> HIDE DEF plan
      <3>1. QED
        BY <1>4
    <2>3. QED
      BY <2>1, <2>2 DEF Trials
  <1> HIDE DEF plan
  <1>6. ASSUME NEW t \in DOMAIN plan, NEW l \in DOMAIN c.losses, NEW d \in DOMAIN c.delays,
               NEW p \in DOMAIN c.planners, NEW o \in DOMAIN c.policies
        PROVE  task(t, l, d, p, o) \in T
    <2> DEFINE k == task(t, l, d, p, o)
    <2>1. k \in [density : Int, radius : Int, trial : Int, layout : Int, network : Int, loss : Int,
                 delay : Int, planner : STRING, policy : STRING, path : tables]
      BY <1>3, <1>5
    <2>2. Wanting(k) = want(t) /\ k.path = paths[want(t)]
      BY DEF Wanting
    <2> HIDE DEF k, want
    <2>3. k.path = Instance(c, Wanting(k))
      BY <1>5, <2>2
    <2>4. k \in T
      BY <2>1, <2>3 DEF TasksOn
    <2>5. QED
      BY <2>4 DEF k
  <1> HIDE DEF task, T
  <1>7. ASSUME NEW t \in DOMAIN plan, NEW l \in DOMAIN c.losses, NEW d \in DOMAIN c.delays,
               NEW p \in DOMAIN c.planners
        PROVE  ofPlanner(t, l, d, p) \in Seq(T)
    BY <1>2, <1>6, ListIsSequence
  <1> HIDE DEF ofPlanner
  <1>8. ASSUME NEW t \in DOMAIN plan, NEW l \in DOMAIN c.losses, NEW d \in DOMAIN c.delays
        PROVE  FlattenSeq(ofDelay(t, l, d)) \in Seq(T)
    <2>1. ofDelay(t, l, d) \in Seq(Seq(T))
      BY <1>2, <1>7, ListIsSequence
    <2> HIDE DEF ofDelay
    <2>2. QED
      BY <2>1, FlattenIsSequence
  <1> HIDE DEF ofDelay
  <1>9. ASSUME NEW t \in DOMAIN plan, NEW l \in DOMAIN c.losses
        PROVE  FlattenSeq(ofLoss(t, l)) \in Seq(T)
    <2>1. ofLoss(t, l) \in Seq(Seq(T))
      BY <1>2, <1>8, ListIsSequence
    <2> HIDE DEF ofLoss
    <2>2. QED
      BY <2>1, FlattenIsSequence
  <1> HIDE DEF ofLoss
  <1>10. ASSUME NEW t \in DOMAIN plan
         PROVE  FlattenSeq(ofTrial(t)) \in Seq(T)
    <2>1. \A l \in DOMAIN c.losses : ofTrial(t)[l] \in Seq(T)
      BY <1>9
    <2>2. ofTrial(t) = [l \in DOMAIN c.losses |-> ofTrial(t)[l]]
      OBVIOUS
    <2> HIDE DEF ofTrial
    <2>3. ofTrial(t) \in Seq(Seq(T))
      BY <1>2, <2>1, <2>2, ListIsSequence
    <2>4. QED
      BY <2>3, FlattenIsSequence
  <1> HIDE DEF ofTrial
  <1>11. all \in Seq(Seq(T))
    BY <1>4, <1>10, ListIsSequence
  <1> HIDE DEF all
  <1>12. FlattenSeq(all) \in Seq(T)
    BY <1>11, FlattenIsSequence
  <1>13. QED
    BY <1>1, <1>12 DEF T

LEMMA ProductGrows ==
    ASSUME NEW n \in Nat, NEW k \in Int, NEW m \in Int, k <= m
    PROVE  k * n <= m * n
  OBVIOUS

\* The number of the group that a multiple of its length completes.
LEMMA GroupNumber ==
    ASSUME NEW n \in Nat \ {0}, NEW m \in Nat \ {0}, m % n = 0
    PROVE  (m - 1) \div n + 1 \in Nat \ {0} /\ m = ((m - 1) \div n + 1) * n
  <1> DEFINE k == m \div n
             q == (m - 1) \div n
             r == (m - 1) % n
  <1>1. m = k * n /\ k \in Int
    OBVIOUS
  <1>2. q \in Int /\ r \in 0 .. n - 1 /\ m - 1 = q * n + r
    OBVIOUS
  <1> HIDE DEF k, q, r
  <1>3. q + 1 = k
    <2>1. (k - q) * n = r + 1
      <3>1. (k - q) * n = k * n - q * n
        BY <1>1, <1>2
      <3>2. QED
        BY <1>1, <1>2, <3>1
    <2>2. (k - q) * n \in 1 .. n
      BY <1>2, <2>1
    <2>3. k - q >= 1
      <3>1. SUFFICES ASSUME k - q <= 0 PROVE FALSE
        BY <1>1, <1>2
      <3>2. (k - q) * n <= 0 * n
        BY <1>1, <1>2, <3>1, ProductGrows
      <3>3. QED
        BY <1>1, <1>2, <2>2, <3>2
    <2>4. k - q <= 1
      <3>1. SUFFICES ASSUME 2 <= k - q PROVE FALSE
        BY <1>1, <1>2
      <3>2. 2 * n <= (k - q) * n
        BY <1>1, <1>2, <3>1, ProductGrows
      <3>3. QED
        BY <1>1, <1>2, <2>2, <3>2
    <2>5. QED
      BY <1>1, <1>2, <2>3, <2>4
  <1>4. k >= 1
    <2>1. SUFFICES ASSUME k <= 0 PROVE FALSE
      BY <1>1
    <2>2. k * n <= 0 * n
      BY <1>1, <2>1, ProductGrows
    <2>3. QED
      BY <1>1, <2>2
  <1>5. QED
    BY <1>1, <1>2, <1>3, <1>4 DEF q

\* When the last instance of a group is made, those before it are there.
LEMMA GroupIsBuilt ==
    ASSUME NEW c \in Configs, PlanAccepted(c), NEW m \in Nat \ {0}, m <= Len(Wanted(c)),
           m % Len(Layouts(c)) = 0
    PROVE  LET g == Groups(c)[(m - 1) \div Len(Layouts(c)) + 1]
           IN  /\ g \in [density : Int, radius : Int]
               /\ \A l \in CellsOf(Layouts(c)) :
                    [density |-> g.density, radius |-> g.radius, layout |-> l]
                        \in {Wanted(c)[j] : j \in 1 .. m}
  <1> DEFINE groups == Groups(c)
             all == Layouts(c)
             G == [density : Int, radius : Int]
             n == Len(all)
             q == (m - 1) \div n + 1
             row(k) == [l \in DOMAIN all |-> [density |-> groups[k].density,
                              radius |-> groups[k].radius, layout |-> all[l]]]
             rows == [k \in DOMAIN groups |-> row(k)]
  <1>1. groups \in Seq(G) /\ all \in Seq(Int)
    BY PlanIsTyped
  <1>2. Wanted(c) = FlattenSeq(rows)
    BY DEF Wanted
  <1>3. m % n = 0
    OBVIOUS
  <1> HIDE DEF groups, all, G
  <1>4. \A k \in DOMAIN groups : groups[k] \in G
    BY <1>1
  <1>5. DOMAIN all = 1 .. n /\ n \in Nat /\ \A l \in DOMAIN all : all[l] \in Int
    BY <1>1
  <1>6. ASSUME NEW k \in DOMAIN groups PROVE row(k) \in Seq(Wants) /\ Len(row(k)) = n
    <2>1. groups[k].density \in Int /\ groups[k].radius \in Int
      BY <1>4 DEF G
    <2>2. \A l \in DOMAIN all : row(k)[l] \in Wants
      BY <1>5, <2>1 DEF Wants
    <2>3. DOMAIN row(k) = 1 .. n
      BY <1>5
    <2> HIDE DEF row
    <2>4. row(k) = [l \in DOMAIN all |-> row(k)[l]]
      BY DEF row
    <2>5. row(k) \in Seq(Wants)
      BY <1>1, <2>2, <2>4, ListIsSequence
    <2>6. QED
      BY <1>5, <2>3, <2>5
  <1>7. DOMAIN rows = DOMAIN groups /\ \A k \in DOMAIN groups : rows[k] = row(k)
    OBVIOUS
  <1>8. rows \in Seq(Seq(Wants)) /\ Len(rows) = Len(groups)
    <2> HIDE DEF row
    <2>1. rows \in Seq(Seq(Wants))
      BY <1>1, <1>6, ListIsSequence
    <2>2. QED
      BY <1>1, <2>1
  <1>9. /\ Len(Wanted(c)) = Len(groups) * n
        /\ \A k \in 1 .. Len(groups), j \in 1 .. n : Wanted(c)[(k - 1) * n + j] = row(k)[j]
    <2> HIDE DEF row, rows, n
    <2>1. \A k \in DOMAIN rows : Len(rows[k]) = n
      BY <1>6, <1>7
    <2>2. rows \in Seq(Seq(Wants)) /\ n \in Nat
      BY <1>5, <1>8
    <2>3. Len(FlattenSeq(rows)) = Len(rows) * n
      BY ONLY <2>1, <2>2, FlattenAt
    <2>4. \A k \in 1 .. Len(rows), j \in 1 .. n : FlattenSeq(rows)[(k - 1) * n + j] = rows[k][j]
      BY ONLY <2>1, <2>2, FlattenAt
    <2>5. DOMAIN groups = 1 .. Len(groups)
      BY <1>1
    <2>6. Len(Wanted(c)) = Len(groups) * n
      BY <1>2, <1>8, <2>3
    <2>7. ASSUME NEW k \in 1 .. Len(groups), NEW j \in 1 .. n
          PROVE  Wanted(c)[(k - 1) * n + j] = row(k)[j]
      <3>1. FlattenSeq(rows)[(k - 1) * n + j] = rows[k][j]
        BY <1>8, <2>4
      <3>2. rows[k] = row(k)
        BY <1>7, <2>5
      <3>3. QED
        BY <1>2, <3>1, <3>2
    <2>8. QED
      BY <2>6, <2>7
  <1>10. n # 0
    <2>1. SUFFICES ASSUME n = 0 PROVE FALSE
      OBVIOUS
    <2>2. Len(groups) \in Nat
      BY <1>1
    <2> HIDE DEF n
    <2>3. Len(groups) * n = 0
      BY <2>1, <2>2
    <2>4. QED
      BY <1>9, <2>3
  <1>11. q \in Nat \ {0} /\ m = q * n
    <2> HIDE DEF n
    <2>1. QED
      BY <1>3, <1>5, <1>10, GroupNumber
  <1> HIDE DEF row, rows, q, n
  <1>12. q \in 1 .. Len(groups)
    <2>1. Len(groups) \in Nat
      BY <1>1
    <2>2. SUFFICES ASSUME Len(groups) + 1 <= q PROVE FALSE
      BY <1>11, <2>1
    <2>3. (Len(groups) + 1) * n <= q * n
      BY <1>5, <1>11, <2>1, <2>2, ProductGrows
    <2>4. (Len(groups) + 1) * n = Len(groups) * n + n
      BY <1>5, <2>1
    <2>5. Len(groups) * n \in Nat
      BY <1>5, <2>1
    <2>6. QED
      BY <1>5, <1>9, <1>10, <1>11, <2>3, <2>4, <2>5
  <1>13. q \in DOMAIN groups /\ groups[q] \in G
    <2>1. q \in DOMAIN groups
      BY <1>1, <1>12
    <2>2. QED
      BY <1>4, <2>1
  <1>14. ASSUME NEW l \in CellsOf(all)
         PROVE  [density |-> groups[q].density, radius |-> groups[q].radius, layout |-> l]
                    \in {Wanted(c)[j] : j \in 1 .. m}
    <2>1. PICK j \in DOMAIN all : l = all[j]
      BY DEF CellsOf
    <2>2. j \in 1 .. n
      BY <1>5, <2>1
    <2>3. Wanted(c)[(q - 1) * n + j] = row(q)[j]
      BY <1>9, <1>12, <2>2
    <2>4. row(q)[j] = [density |-> groups[q].density, radius |-> groups[q].radius, layout |-> l]
      BY <2>1 DEF row
    <2>5. (q - 1) * n + j \in 1 .. m
      <3>1. (q - 1) * n = m - n
        BY <1>5, <1>11
      <3>2. 0 * n <= (q - 1) * n
        BY <1>5, <1>11, ProductGrows
      <3>3. QED
        BY <1>5, <2>2, <3>1, <3>2
    <2>6. QED
      BY <2>3, <2>4, <2>5
  <1>15. QED
    BY <1>13, <1>14 DEF groups, q, n, all, G

LEMMA TasksGrow ==
    ASSUME NEW c, NEW tables, NEW more, tables \subseteq more
    PROVE  Seq(TasksOn(c, tables)) \subseteq Seq(TasksOn(c, more))
  <1>1. TasksOn(c, tables) \subseteq TasksOn(c, more)
    <2>1. ASSUME NEW t \in TasksOn(c, tables) PROVE t \in TasksOn(c, more)
      <3>1. t.path \in tables
        BY DEF TasksOn
      <3>2. t.path \in more
        BY <3>1
      <3>3. QED
        BY <3>2 DEF TasksOn
    <2>2. QED
      BY <2>1
  <1>2. QED
    BY <1>1

LEMMA NoRows ==
    ASSUME NEW c, NEW b, NEW e, NEW T, b.tasks \in Seq(T), e.rows = <<>>
    PROVE  RowsFine(c, b, e)
  <1>1. Len(b.tasks) \in Nat
    OBVIOUS
  <1>2. QED
    BY <1>1 DEF RowsFine

WithPath(paths, want, instance) ==
    [w \in DOMAIN paths \cup {want} |-> IF w = want THEN instance ELSE paths[w]]

\* The table of an instance follows its map; the last of a group brings its tasks.
LEMMA TableSaved ==
    ASSUME NEW c \in Configs, PlanAccepted(c), NEW a, NEW b, NEW d, NEW e, Work(c, a, d),
           a.built \in Nat, a.built < Len(Wanted(c)),
           a.pc = "naming", b.pc = "generating", b.built = a.built + 1, b.episodes = a.episodes,
           SameFiles(d, e, {"tables"}), NEW want, NEW instance,
           want = Wanted(c)[a.built + 1], instance = Instance(c, want),
           e.tables = d.tables \cup {instance},
           b.paths = WithPath(a.paths, want, instance),
           c.family = "natural_critical_random" => b.accepted = a.accepted \cup {instance},
           \/ b.tasks = a.tasks
           \/ /\ b.built % Len(Layouts(c)) = 0
              /\ b.tasks = a.tasks \o
                    GroupTasks(c, Groups(c)[(b.built - 1) \div Len(Layouts(c)) + 1], b.paths)
    PROVE  Work(c, b, e)
  <1> DEFINE T == TasksOn(c, e.tables)
             g == Groups(c)[(b.built - 1) \div Len(Layouts(c)) + 1]
  <1>1. /\ e.maps = d.maps /\ e.manifest = d.manifest
        /\ e.rows = d.rows /\ e.traces = d.traces /\ e.spilled = d.spilled
        /\ e.summary = d.summary
    BY DEF SameFiles, Files
  <1>2. /\ DOMAIN a.episodes = {} /\ d.rows = <<>> /\ d.traces = <<>> /\ ~d.spilled
        /\ instance \in d.maps /\ d.summary = "absent"
    BY DEF Work, StageFine, Early
  <1>3. DOMAIN b.paths = {Wanted(c)[j] : j \in 1 .. b.built}
    <2>1. DOMAIN b.paths = {Wanted(c)[j] : j \in 1 .. a.built} \cup {want}
      BY DEF Work, BuiltFine, WithPath
    <2>2. 1 .. b.built = (1 .. a.built) \cup {a.built + 1}
      OBVIOUS
    <2>3. QED
      BY <2>1, <2>2, SMTT(30)
  <1>4. \A w \in DOMAIN b.paths : b.paths[w] = Instance(c, w) /\ Instance(c, w) \in e.tables
    <2>1. ASSUME NEW w \in DOMAIN b.paths
          PROVE  b.paths[w] = Instance(c, w) /\ Instance(c, w) \in e.tables
      <3>1. CASE w = want
        BY <3>1, SMTT(30) DEF WithPath
      <3>2. CASE w # want
        <4>1. w \in DOMAIN a.paths /\ b.paths[w] = a.paths[w]
          BY <3>2 DEF WithPath
        <4>2. QED
          BY <4>1 DEF Work, BuiltFine
      <3>3. QED
        BY <3>1, <3>2, SMTT(30)
    <2>2. QED
      BY <2>1
  <1>5. a.tasks \in Seq(T)
    <2>1. a.tasks \in Seq(TasksOn(c, d.tables)) /\ d.tables \subseteq e.tables
      BY DEF Work, BuiltFine
    <2>2. QED
      BY <2>1, TasksGrow
  <1>6. b.tasks \in Seq(T)
    <2>1. SUFFICES ASSUME b.built % Len(Layouts(c)) = 0,
                          b.tasks = a.tasks \o GroupTasks(c, g, b.paths)
                   PROVE  b.tasks \in Seq(T)
      BY <1>5
    <2>2. b.built \in Nat \ {0} /\ b.built <= Len(Wanted(c))
      <3>1. Wanted(c) \in Seq(Wants)
        BY PlanIsTyped
      <3>2. Len(Wanted(c)) \in Nat
        BY <3>1
      <3>3. QED
        BY <3>2
    <2>3. /\ g \in [density : Int, radius : Int]
          /\ \A l \in CellsOf(Layouts(c)) :
                [density |-> g.density, radius |-> g.radius, layout |-> l] \in DOMAIN b.paths
      BY <1>3, <2>1, <2>2, GroupIsBuilt, ZenonT(60)
    <2> HIDE DEF g
    <2>4. \A l \in CellsOf(Layouts(c)) :
                LET w == [density |-> g.density, radius |-> g.radius, layout |-> l]
                IN  b.paths[w] = Instance(c, w) /\ Instance(c, w) \in e.tables
      BY <1>4, <2>3, SMTT(30)
    <2> DEFINE more == GroupTasks(c, g, b.paths)
    <2>5. more \in Seq(T)
      BY <2>3, <2>4, GroupTasksAreOn
    <2>6. b.tasks = a.tasks \o more
      BY <2>1
    <2> HIDE DEF T, more
    <2>7. a.tasks \o more \in Seq(T)
      BY <1>5, <2>5, SMTT(30)
    <2>8. QED
      BY <2>6, <2>7, SMTT(30)
  <1>7. BuiltFine(c, b, e)
    <2>1. e.tables \subseteq e.maps
      BY <1>1, <1>2 DEF Work, BuiltFine
    <2>2. c.family = "natural_critical_random" => b.accepted = e.tables
      BY DEF Work, BuiltFine
    <2>3. QED
      BY <1>3, <1>4, <1>6, <2>1, <2>2, SMTT(30) DEF BuiltFine
  <1>8. EpisodesFine(b, e)
    BY <1>2 DEF EpisodesFine
  <1>9. RowsFine(c, b, e)
    BY <1>1, <1>2, <1>6, NoRows, SMTT(30)
  <1>10. TracesFine(e)
    BY <1>1 DEF Work, TracesFine, TracesFollow
  <1>11. SummaryFine(b, e)
    BY <1>1, <1>2 DEF SummaryFine
  <1>12. StageFine(c, b, e)
    BY <1>1, <1>2 DEF StageFine, Early
  <1>13. QED
    BY <1>7, <1>8, <1>9, <1>10, <1>11, <1>12 DEF Work

\* A suite that has just made its instances.
LEMMA NothingYet ==
    ASSUME NEW c, NEW a, NEW d, a.pc = "planning", a.built = 0, DOMAIN a.paths = {},
           a.tasks = <<>>, a.accepted = {}, a.episodes = <<>>,
           d.maps = {}, d.tables = {}, d.rows = <<>>, d.traces = <<>>, d.spilled = FALSE,
           d.summary = "absent"
    PROVE  Work(c, a, d)
  <1>1. BuiltFine(c, a, d)
    BY DEF BuiltFine
  <1>2. EpisodesFine(a, d)
    BY DEF EpisodesFine
  <1>3. RowsFine(c, a, d)
    <2>1. a.tasks \in Seq({})
      OBVIOUS
    <2>2. QED
      BY <2>1, NoRows
  <1>4. TracesFine(d)
    <2>1. d.traces \in Seq(Nat) /\ DOMAIN d.traces = {} /\ Len(d.rows) - Len(d.traces) = 0
      OBVIOUS
    <2>2. d.spilled \in BOOLEAN /\ ~d.spilled
      OBVIOUS
    <2>3. TracesFollow(d)
      BY <2>1, <2>2 DEF TracesFollow
    <2>4. QED
      BY <2>1, <2>2, <2>3 DEF TracesFine
  <1>5. SummaryFine(a, d)
    BY DEF SummaryFine
  <1>6. StageFine(c, a, d)
    BY DEF StageFine, Early
  <1>7. QED
    BY <1>1, <1>2, <1>3, <1>4, <1>5, <1>6 DEF Work

\* Rows of one condition, apart from the planner and the policy, have one
\* instance and one seed of losses.
LEMMA WorkIsSound ==
    ASSUME NEW c, NEW a, NEW d, Work(c, a, d)
    PROVE  Sound(d)
  <1>1. d.tables \subseteq d.maps /\ TracesFollow(d)
    BY DEF Work, BuiltFine, TracesFine
  <1>2. ASSUME NEW i \in DOMAIN d.rows
        PROVE  /\ d.rows[i] = RowOf(c, a.tasks, i) /\ i \in DOMAIN a.tasks
               /\ a.tasks[i] \in TasksOn(c, d.tables)
    <2>1. d.rows[i] = RowOf(c, a.tasks, i) /\ i \in DOMAIN a.tasks
      BY DEF Work, RowsFine, EpisodesFine
    <2>2. a.tasks \in Seq(TasksOn(c, d.tables))
      BY DEF Work, BuiltFine
    <2>3. QED
      BY <2>1, <2>2
  <1>3. ASSUME NEW i \in DOMAIN d.rows, NEW j \in DOMAIN d.rows,
               [d.rows[i].task EXCEPT !.planner = d.rows[j].task.planner,
                                      !.policy = d.rows[j].task.policy] = d.rows[j].task
        PROVE  d.rows[i].instance = d.rows[j].instance /\ d.rows[i].link = d.rows[j].link
    <2> DEFINE x == a.tasks[i]
               y == a.tasks[j]
    <2>1. /\ d.rows[i] = RowOf(c, a.tasks, i) /\ d.rows[j] = RowOf(c, a.tasks, j)
          /\ x \in TasksOn(c, d.tables) /\ y \in TasksOn(c, d.tables)
      BY <1>2
    <2>2. /\ d.rows[i].task = x /\ d.rows[i].instance = x.path /\ d.rows[i].link = LinkSeed(c, x)
          /\ d.rows[j].task = y /\ d.rows[j].instance = y.path /\ d.rows[j].link = LinkSeed(c, y)
      BY <2>1 DEF RowOf
    <2> HIDE DEF x, y
    <2>3. [x EXCEPT !.planner = y.planner, !.policy = y.policy] = y
      BY <1>3, <2>2
    <2>4. /\ x.density = y.density /\ x.radius = y.radius /\ x.layout = y.layout
          /\ x.network = y.network /\ x.loss = y.loss /\ x.delay = y.delay
      BY <2>1, <2>3 DEF TasksOn
    <2>5. x.path = Instance(c, Wanting(x)) /\ y.path = Instance(c, Wanting(y))
      BY <2>1 DEF TasksOn
    <2>6. Wanting(x) = Wanting(y) /\ LinkSeed(c, x) = LinkSeed(c, y)
      BY <2>4 DEF Wanting, LinkSeed
    <2>7. QED
      BY <2>2, <2>5, <2>6
  <1>4. Matched(d)
    BY <1>3 DEF Matched
  <1>5. QED
    BY <1>1, <1>4 DEF Sound

-----------------------------------------------------------------------------
\* What a step does to the directories.

\* Directories of other studies are left alone, and the manifest of the matrix
\* until the end.
Elsewhere(s) ==
    /\ DOMAIN disk' = {"manifest", "study"} /\ DOMAIN disk'.study = 1 .. 2
    /\ \A n \in 1 .. 2 : n # at[s].study => disk'.study[n] = disk.study[n]
    /\ disk'.manifest = disk.manifest \/ at[s].pc \in {"listing", "ending"}

Lasting(d, e) ==
    /\ DOMAIN e = DirFields
    /\ e.by = d.by /\ e.instances = d.instances /\ e.made = d.made
    /\ d.summary = "whole" => e.summary = "whole"

\* A suite that owns its directory works in it and then stands at b.
Works(s, b) ==
    /\ s \in Dir(s).by /\ Elsewhere(s)
    /\ Lasting(Dir(s), disk'.study[at[s].study])
    /\ Work(Config(s), b, disk'.study[at[s].study])

GoesOn(s) ==
    /\ Works(s, at'[s]) /\ at'[s].study = at[s].study
    /\ at'[s].pc \notin {"start", "ready", "entered", "refused"}
    /\ at'[s].pc \in {"listing", "ending"} =>
        \/ at[s].pc \in {"listing", "ending"}
        \/ at[s].study = Len(job[s].studies) /\ disk'.study[at[s].study].summary = "whole"

\* It has finished its study and begins the next.
TurnsOver(s) ==
    /\ \E b : Works(s, b)
    /\ disk'.study[at[s].study].summary = "whole"
    /\ at'[s] = [NewSuite(at[s].study + 1) EXCEPT !.pc = "ready"]

Enters(s) ==
    /\ at[s].pc = "ready" /\ Elsewhere(s)
    /\ disk'.study[at[s].study] = [Dir(s) EXCEPT !.made = TRUE]
    /\ at'[s] = [at[s] EXCEPT !.pc = "entered"]

\* It makes the instances of a directory that has none.
Takes(s) ==
    /\ at[s].pc = "entered" /\ Dir(s).by = {} /\ Elsewhere(s)
    /\ LET e == disk'.study[at[s].study]
       IN  /\ DOMAIN e = DirFields /\ e.by = {s} /\ e.instances
           /\ e.made = Dir(s).made /\ e.summary = Dir(s).summary
           /\ Work(Config(s), at'[s], e)
    /\ at'[s].study = at[s].study /\ at'[s].pc = "planning"

\* It has put nothing into the directory, and does not now.
Stands(s) ==
    /\ s \notin Dir(s).by /\ disk' = disk /\ at'[s].study = at[s].study
    /\ at'[s].pc \in {"start", "ready", "entered", "refused", "failed", "crashed"}
    /\ at'[s].pc \in {"start", "ready", "entered"} =>
        Fresh(s) /\ \A f \in Fields \ {"pc"} : at'[s][f] = at[s][f]

LEMMA WhereItStands ==
    ASSUME Shaped, Exclusive, NEW s \in Suites
    PROVE  /\ at[s].study \in 1 .. 2 /\ s \in DOMAIN at /\ DOMAIN at[s] = Fields
           /\ {"pc", "study", "built", "paths", "tasks", "accepted", "episodes"} \subseteq DOMAIN at[s]
           /\ DOMAIN disk = {"manifest", "study"} /\ DOMAIN disk.study = 1 .. 2
           /\ Dir(s) = disk.study[at[s].study] /\ DOMAIN Dir(s) = DirFields
  <1>1. at[s].study \in DOMAIN job[s].studies /\ DOMAIN at[s] = Fields /\ s \in DOMAIN at
    BY DEF Shaped, Well
  <1>2. at[s].study \in 1 .. 2
    BY <1>1, JobsAreConfigs
  <1>3. QED
    BY <1>1, <1>2 DEF Exclusive, Dir, Fields

\* Only the program counter moves.
LEMMA GoWorks ==
    ASSUME Shaped, Exclusive, Owned, NEW s \in Suites, s \in Dir(s).by,
           NEW x, Go(s, x), disk'.study = disk.study, DOMAIN disk' = DOMAIN disk,
           disk'.manifest = disk.manifest \/ at[s].pc \in {"listing", "ending"},
           \/ x = at[s].pc
           \/ /\ x \in Early => at[s].pc \in Early
              /\ x \notin {"naming", "opening", "collecting", "tracing", "summing"}
              /\ x = "frozen" => at[s].accepted = {}
              /\ x \notin AtTheEnd => at[s].pc \notin AtTheEnd,
           x \notin {"start", "ready", "entered", "refused"},
           x \in {"listing", "ending"} => at[s].pc \in {"listing", "ending"}
    PROVE  GoesOn(s)
  <1> DEFINE a == at[s]
             b == at'[s]
             d == Dir(s)
  <1>1. /\ a.study \in 1 .. 2 /\ s \in DOMAIN at
        /\ {"pc", "study", "built", "paths", "tasks", "accepted", "episodes"} \subseteq DOMAIN a
        /\ DOMAIN disk = {"manifest", "study"} /\ DOMAIN disk.study = 1 .. 2
        /\ d = disk.study[a.study] /\ DOMAIN d = DirFields
    BY WhereItStands
  <1>2. b = [a EXCEPT !.pc = x]
    BY <1>1 DEF Go
  <1>3. b.pc = x /\ b.study = a.study /\ SameBuilt(a, b) /\ b.episodes = a.episodes
    BY <1>1, <1>2 DEF SameBuilt
  <1>4. Work(Config(s), a, d)
    BY DEF Owned
  <1>5. SameFiles(d, d, {})
    BY DEF SameFiles
  <1>6. Work(Config(s), b, d)
    <2> HIDE DEF a, b, d
    <2>1. \/ b.pc = a.pc
          \/ /\ b.pc \in Early => a.pc \in Early
             /\ b.pc \notin {"naming", "opening", "collecting", "tracing", "summing"}
             /\ b.pc = "frozen" => a.accepted = {}
             /\ b.pc \notin AtTheEnd => a.pc \notin AtTheEnd
      BY <1>3 DEF a
    <2>2. QED
      BY <1>3, <1>4, <1>5, <2>1, MovedOn
  <1>7. Elsewhere(s) /\ Lasting(d, disk'.study[a.study])
    BY <1>1 DEF Elsewhere, Lasting
  <1>8. Works(s, b)
    BY <1>1, <1>6, <1>7 DEF Works
  <1>9. QED
    BY <1>3, <1>8 DEF GoesOn

\* Something is put into the directory.
LEMMA PutWorks ==
    ASSUME Shaped, Exclusive, NEW s \in Suites, s \in Dir(s).by, NEW b,
           NEW d, Put(s, d), Lasting(Dir(s), d), Work(Config(s), b, d)
    PROVE  Works(s, b) /\ \A f \in DirFields : disk'.study[at[s].study][f] = d[f]
  <1> DEFINE m == at[s].study
             e == disk'.study[m]
  <1>1. /\ m \in 1 .. 2
        /\ DOMAIN disk = {"manifest", "study"} /\ DOMAIN disk.study = 1 .. 2
        /\ DOMAIN Dir(s) = DirFields
    BY WhereItStands
  <1>2. disk' = [disk EXCEPT !.study = [disk.study EXCEPT ![m] = [d EXCEPT !.by = @ \cup {s}]]]
    BY DEF Put
  <1>3. /\ DOMAIN disk' = {"manifest", "study"} /\ disk'.manifest = disk.manifest
        /\ disk'.study = [disk.study EXCEPT ![m] = [d EXCEPT !.by = @ \cup {s}]]
    BY <1>1, <1>2
  <1>4. Elsewhere(s) /\ e = [d EXCEPT !.by = @ \cup {s}]
    BY <1>1, <1>3 DEF Elsewhere
  <1>5. d.by \cup {s} = d.by /\ DOMAIN d = DirFields
    BY DEF Lasting
  <1>6. DOMAIN e = DirFields /\ \A f \in DirFields : e[f] = d[f]
    BY <1>4, <1>5
  <1> HIDE DEF e
  <1>7. SameFiles(d, e, {}) /\ Lasting(Dir(s), e)
    BY <1>6 DEF SameFiles, Files, DirFields, Lasting
  <1>8. Work(Config(s), b, e)
    BY <1>7, MovedOn DEF SameBuilt
  <1>9. QED
    BY <1>4, <1>6, <1>7, <1>8 DEF Works, e

LEMMA OwnersStand ==
    ASSUME Shaped, Exclusive, NEW s \in Suites
    PROVE  /\ Owning(s) => s \in Dir(s).by
           /\ s \in Dir(s).by => at[s].pc \notin {"start", "ready", "entered", "refused"}
  BY DEF Exclusive, Fresh

LEMMA NothingPut ==
    ASSUME Shaped, Exclusive, NEW s \in Suites, disk' = disk
    PROVE  /\ Elsewhere(s) /\ Lasting(Dir(s), disk'.study[at[s].study])
           /\ disk'.study[at[s].study] = Dir(s)
  <1>1. /\ DOMAIN disk = {"manifest", "study"} /\ DOMAIN disk.study = 1 .. 2
        /\ Dir(s) = disk.study[at[s].study] /\ DOMAIN Dir(s) = DirFields
    BY WhereItStands
  <1>2. QED
    BY <1>1 DEF Elsewhere, Lasting

\* Only the episodes move, or what is waiting is given up with the suite.
LEMMA EpisodesWork ==
    ASSUME Shaped, Exclusive, Owned, NEW s \in Suites, s \in Dir(s).by, disk' = disk,
           at'[s].study = at[s].study, SameBuilt(at[s], at'[s]),
           DOMAIN at'[s].episodes = DOMAIN at[s].episodes,
           \A i \in DOMAIN at[s].episodes :
                /\ at'[s].episodes[i] \in EpisodeStates
                /\ at[s].episodes[i] = "row" => at'[s].episodes[i] = "row",
           at'[s].pc = at[s].pc \/ (at[s].pc = "collecting" /\ at'[s].pc = "failing")
    PROVE  GoesOn(s)
  <1> DEFINE a == at[s]
             b == at'[s]
             d == Dir(s)
  <1>1. Work(Config(s), a, d) /\ SameFiles(d, d, {})
    BY DEF Owned, SameFiles
  <1>2. Work(Config(s), b, d)
    <2>1. /\ SameBuilt(a, b) /\ DOMAIN b.episodes = DOMAIN a.episodes
          /\ \A i \in DOMAIN a.episodes :
                /\ b.episodes[i] \in EpisodeStates
                /\ a.episodes[i] = "row" => b.episodes[i] = "row"
          /\ b.pc = a.pc \/ (a.pc = "collecting" /\ b.pc = "failing")
      OBVIOUS
    <2> HIDE DEF a, b, d
    <2>2. QED
      BY <1>1, <2>1, EpisodesGoOn
  <1>3. Works(s, b)
    BY <1>2, NothingPut DEF Works
  <1>4. at[s].pc \notin {"start", "ready", "entered", "refused"}
    BY OwnersStand
  <1>5. QED
    BY <1>3, <1>4 DEF GoesOn

\* The episodes of a suite, those of them that it may start, end or lose.
LEMMA EpisodesAre ==
    ASSUME Shaped, Exclusive, Owned, NEW s \in Suites, s \in Dir(s).by
    PROVE  /\ \A i \in DOMAIN at[s].episodes : at[s].episodes[i] \in EpisodeStates
           /\ \A i \in DOMAIN at[s].episodes :
                i \in DOMAIN at[s].tasks /\ Loads(s, at[s].tasks[i].path)
  <1>1. Work(Config(s), at[s], Dir(s))
    BY DEF Owned
  <1>2. \A i \in DOMAIN at[s].episodes : at[s].episodes[i] \in EpisodeStates
    BY <1>1 DEF Work, EpisodesFine, EpisodeStates
  <1>3. ASSUME NEW i \in DOMAIN at[s].episodes
        PROVE  i \in DOMAIN at[s].tasks /\ Loads(s, at[s].tasks[i].path)
    <2>1. i \in DOMAIN at[s].tasks
      BY <1>1 DEF Work, EpisodesFine
    <2>2. at[s].tasks \in Seq(TasksOn(Config(s), Dir(s).tables))
      BY <1>1 DEF Work, BuiltFine
    <2>3. at[s].tasks[i] \in TasksOn(Config(s), Dir(s).tables)
      BY <2>1, <2>2
    <2>4. at[s].tasks[i].path \in Dir(s).tables
      BY <2>3 DEF TasksOn
    <2>5. Dir(s).tables \subseteq Dir(s).maps
      BY <1>1 DEF Work, BuiltFine
    <2>6. QED
      BY <2>1, <2>4, <2>5 DEF Loads
  <1>4. QED
    BY <1>2, <1>3

LEMMA OneEpisodeMoves ==
    ASSUME Shaped, Exclusive, Owned, NEW s \in Suites, s \in Dir(s).by, disk' = disk,
           NEW i \in DOMAIN at[s].episodes, at[s].episodes[i] # "row",
           NEW x \in EpisodeStates, Episode(s, i, x)
    PROVE  GoesOn(s)
  <1>1. /\ s \in DOMAIN at
        /\ {"pc", "study", "built", "paths", "tasks", "accepted", "episodes"} \subseteq DOMAIN at[s]
    BY WhereItStands
  <1>2. at'[s] = [at[s] EXCEPT !.episodes = [at[s].episodes EXCEPT ![i] = x]]
    BY <1>1 DEF Episode
  <1>3. at'[s].study = at[s].study /\ SameBuilt(at[s], at'[s]) /\ at'[s].pc = at[s].pc
    BY <1>1, <1>2 DEF SameBuilt
  <1>4. at'[s].episodes = [at[s].episodes EXCEPT ![i] = x]
    BY <1>1, <1>2
  <1>5. /\ DOMAIN at'[s].episodes = DOMAIN at[s].episodes
        /\ \A j \in DOMAIN at[s].episodes :
                /\ at'[s].episodes[j] \in EpisodeStates
                /\ at[s].episodes[j] = "row" => at'[s].episodes[j] = "row"
    BY <1>4, EpisodesAre
  <1>6. QED
    BY <1>3, <1>5, EpisodesWork

\* Steps of a suite before it owns its directory.
LEMMA StepsBefore ==
    ASSUME Shaped, Exclusive, NEW s \in Suites
    PROVE  /\ CheckOutput(s) => Stands(s)
           /\ MakeOutput(s) => Enters(s)
           /\ MakeInstances(s) => Stands(s) \/ Takes(s)
           /\ s \notin Dir(s).by /\ (FinishEpisode(s) \/ Crash(s)) => Stands(s)
  <1> DEFINE a == at[s]
             m == at[s].study
  <1>1. /\ m \in 1 .. 2 /\ s \in DOMAIN at /\ DOMAIN a = Fields
        /\ {"pc", "study", "built", "paths", "tasks", "accepted", "episodes"} \subseteq DOMAIN a
        /\ DOMAIN disk = {"manifest", "study"} /\ DOMAIN disk.study = 1 .. 2
        /\ Dir(s) = disk.study[m] /\ DOMAIN Dir(s) = DirFields
    BY WhereItStands
  <1>2. /\ Fresh(s) => s \notin Dir(s).by
        /\ Fresh(s) => \A f \in Fields \ {"pc"} : at[s][f] = NewSuite(m)[f]
    BY DEF Exclusive
  <1>3. CheckOutput(s) => Stands(s)
    <2>1. SUFFICES ASSUME CheckOutput(s) PROVE Stands(s)
      OBVIOUS
    <2>2. a.pc = "start" /\ disk' = disk /\ \E x \in {"refused", "ready"} : Go(s, x)
      BY <2>1 DEF CheckOutput
    <2>3. PICK x \in {"refused", "ready"} : Go(s, x)
      BY <2>2
    <2>4. at'[s] = [a EXCEPT !.pc = x]
      BY <1>1, <2>3 DEF Go
    <2>5. at'[s].pc = x /\ \A f \in Fields \ {"pc"} : at'[s][f] = a[f]
      BY <1>1, <2>4
    <2>6. at'[s].study = m
      BY <2>5 DEF Fields
    <2>7. QED
      BY <1>2, <2>2, <2>5, <2>6 DEF Stands, Fresh
  <1>4. MakeOutput(s) => Enters(s)
    <2>1. SUFFICES ASSUME MakeOutput(s) PROVE Enters(s)
      OBVIOUS
    <2>2. /\ a.pc = "ready" /\ Go(s, "entered")
          /\ disk' = [disk EXCEPT !.study[m].made = TRUE]
      BY <2>1 DEF MakeOutput
    <2>3. disk' = [disk EXCEPT !.study = [disk.study EXCEPT ![m] = [Dir(s) EXCEPT !.made = TRUE]]]
      BY <1>1, <2>2
    <2>4. /\ DOMAIN disk' = {"manifest", "study"} /\ disk'.manifest = disk.manifest
          /\ disk'.study = [disk.study EXCEPT ![m] = [Dir(s) EXCEPT !.made = TRUE]]
      BY <1>1, <2>3
    <2>5. Elsewhere(s) /\ disk'.study[m] = [Dir(s) EXCEPT !.made = TRUE]
      BY <1>1, <2>4 DEF Elsewhere
    <2>6. at'[s] = [a EXCEPT !.pc = "entered"]
      BY <1>1, <2>2 DEF Go
    <2>7. QED
      BY <2>2, <2>5, <2>6 DEF Enters
  <1>5. MakeInstances(s) => Stands(s) \/ Takes(s)
    <2>1. SUFFICES ASSUME MakeInstances(s) PROVE Stands(s) \/ Takes(s)
      OBVIOUS
    <2>2. a.pc = "entered" /\ Fresh(s)
      BY <2>1 DEF MakeInstances, Fresh
    <2>3. CASE Dir(s).instances
      <3>1. Go(s, "failed") /\ disk' = disk
        BY <2>1, <2>3 DEF MakeInstances
      <3>2. at'[s].pc = "failed" /\ at'[s].study = m
        BY <1>1, <3>1 DEF Go
      <3>3. QED
        BY <1>2, <2>2, <3>1, <3>2 DEF Stands
    <2>4. CASE ~Dir(s).instances
      <3> DEFINE d == [Dir(s) EXCEPT !.instances = TRUE]
                 e == disk'.study[m]
                 b == at'[s]
      <3>1. Go(s, "planning") /\ Put(s, d)
        BY <2>1, <2>4 DEF MakeInstances
      <3>2. b = [a EXCEPT !.pc = "planning"]
        BY <1>1, <3>1 DEF Go
      <3>3. b.pc = "planning" /\ \A f \in Fields \ {"pc"} : b[f] = NewSuite(m)[f]
        BY <1>1, <1>2, <2>2, <3>2
      <3>4. /\ Dir(s).by = {}
            /\ \A f \in DirFields \ {"made"} : Dir(s)[f] = NewDirectory[f]
        BY <1>1, <2>4 DEF Exclusive
      <3>5. disk' = [disk EXCEPT !.study = [disk.study EXCEPT ![m] = [d EXCEPT !.by = @ \cup {s}]]]
        BY <3>1 DEF Put
      <3>6. /\ DOMAIN disk' = {"manifest", "study"} /\ disk'.manifest = disk.manifest
            /\ disk'.study = [disk.study EXCEPT ![m] = [d EXCEPT !.by = @ \cup {s}]]
        BY <1>1, <3>5
      <3>7. Elsewhere(s) /\ e = [d EXCEPT !.by = @ \cup {s}]
        BY <1>1, <3>6 DEF Elsewhere
      <3> HIDE DEF e, b
      <3>8. /\ DOMAIN e = DirFields /\ e.by = {s} /\ e.instances = TRUE
            /\ \A f \in DirFields \ {"by", "instances"} : e[f] = Dir(s)[f]
        BY <1>1, <3>4, <3>7 DEF DirFields
      <3>9. /\ e.maps = {} /\ e.tables = {} /\ e.rows = <<>> /\ e.traces = <<>>
            /\ e.spilled = FALSE /\ e.summary = "absent" /\ Dir(s).summary = "absent"
            /\ e.made = Dir(s).made
        BY <3>4, <3>8 DEF DirFields, NewDirectory
      <3>10. /\ b.study = m /\ b.built = 0 /\ DOMAIN b.paths = {} /\ b.tasks = <<>>
             /\ b.accepted = {} /\ b.episodes = <<>>
        BY <3>3 DEF Fields, NewSuite
      <3>11. Work(Config(s), b, e)
        BY <3>3, <3>9, <3>10, NothingYet
      <3>12. Takes(s)
        BY <2>2, <3>3, <3>4, <3>7, <3>8, <3>9, <3>10, <3>11 DEF Takes, e, b
      <3>13. QED
        BY <3>12
    <2>5. QED
      BY <2>3, <2>4
  <1>6. s \notin Dir(s).by /\ (FinishEpisode(s) \/ Crash(s)) => Stands(s)
    <2>1. SUFFICES ASSUME s \notin Dir(s).by, FinishEpisode(s) \/ Crash(s) PROVE Stands(s)
      OBVIOUS
    <2>2. a.pc \in {"start", "ready", "entered", "refused", "failed", "crashed"}
      BY <2>1, OwnersStand DEF Owning
    <2>3. CASE FinishEpisode(s)
      <3>1. disk' = disk /\ \E i \in DOMAIN a.episodes : \E x : Episode(s, i, x)
        BY <2>3 DEF FinishEpisode, Of
      <3>2. PICK i \in DOMAIN a.episodes : \E x : Episode(s, i, x)
        BY <3>1
      <3>3. ~Fresh(s)
        <4>1. Fresh(s) => a.episodes = <<>>
          BY <1>2 DEF Fields, NewSuite
        <4>2. QED
          BY <3>2, <4>1
      <3>4. at'[s].pc = a.pc /\ at'[s].study = m
        BY <1>1, <3>2 DEF Episode
      <3>5. QED
        BY <2>1, <2>2, <3>1, <3>3, <3>4 DEF Stands, Fresh
    <2>4. CASE Crash(s)
      <3>1. disk' = disk /\ Go(s, "crashed")
        BY <2>4 DEF Crash
      <3>2. at'[s].pc = "crashed" /\ at'[s].study = m
        BY <1>1, <3>1 DEF Go
      <3>3. QED
        BY <2>1, <3>1, <3>2 DEF Stands
    <2>5. QED
      BY <2>1, <2>3, <2>4
  <1>7. QED
    BY <1>3, <1>4, <1>5, <1>6

\* Steps of an owner that put nothing into its directory.
LEMMA StepsWithin ==
    ASSUME Shaped, Exclusive, Owned, NEW s \in Suites, s \in Dir(s).by,
           \/ Plan(s) \/ Generate(s) \/ SampleMap(s) \/ GiveUp(s) \/ DrawPair(s) \/ BuildInstance(s)
           \/ Launch(s) \/ StartEpisode(s) \/ FinishEpisode(s) \/ PoolBreaks(s)
           \/ RaiseFailure(s) \/ ShutDown(s) \/ OpenList(s) \/ EndList(s) \/ Crash(s)
    PROVE  GoesOn(s)
  <1> DEFINE a == at[s]
             c == Config(s)
  <1>1. /\ s \in DOMAIN at
        /\ {"pc", "study", "built", "paths", "tasks", "accepted", "episodes"} \subseteq DOMAIN a
        /\ DOMAIN disk = {"manifest", "study"}
    BY WhereItStands
  <1>2. CASE Plan(s)
    <2>1. a.pc = "planning" /\ disk' = disk /\ \E x \in {"generating", "failed"} : Go(s, x)
      BY <1>2 DEF Plan
    <2>2. PICK x \in {"generating", "failed"} : Go(s, x)
      BY <2>1
    <2>3. QED
      BY <2>1, <2>2, GoWorks DEF Early, AtTheEnd
  <1>3. CASE Generate(s)
    <2>1. /\ a.pc = "generating" /\ disk' = disk
          /\ \E x \in {"failed", "searching", "saving"} : Go(s, x)
      BY <1>3 DEF Generate
    <2>2. PICK x \in {"failed", "searching", "saving"} : Go(s, x)
      BY <2>1
    <2>3. QED
      BY <2>1, <2>2, GoWorks DEF Early, AtTheEnd
  <1>4. CASE SampleMap(s)
    <2>1. a.pc = "searching" /\ disk' = disk /\ at' = at
      BY <1>4 DEF SampleMap
    <2>2. Work(c, a, Dir(s))
      BY DEF Owned
    <2>3. Works(s, at'[s])
      BY <2>1, <2>2, NothingPut DEF Works
    <2>4. QED
      BY <2>1, <2>3 DEF GoesOn
  <1>5. CASE GiveUp(s)
    <2>1. a.pc = "searching" /\ disk' = disk /\ Go(s, "failed")
      BY <1>5 DEF GiveUp
    <2>2. QED
      BY <2>1, GoWorks DEF Early, AtTheEnd
  <1>6. CASE DrawPair(s)
    <2>1. /\ a.pc = "searching" /\ disk' = disk
          /\ \E x \in {"selected", "searching"} : Go(s, x)
      BY <1>6 DEF DrawPair
    <2>2. PICK x \in {"selected", "searching"} : Go(s, x)
      BY <2>1
    <2>3. QED
      BY <2>1, <2>2, GoWorks DEF Early, AtTheEnd
  <1>7. CASE BuildInstance(s)
    <2>1. a.pc = "selected" /\ disk' = disk /\ \E x \in {"failed", "saving"} : Go(s, x)
      BY <1>7 DEF BuildInstance
    <2>2. PICK x \in {"failed", "saving"} : Go(s, x)
      BY <2>1
    <2>3. QED
      BY <2>1, <2>2, GoWorks DEF Early, AtTheEnd
  <1>8. CASE Launch(s)
    <2> DEFINE e == [i \in DOMAIN a.tasks |-> "waiting"]
    <2>1. /\ a.pc = "frozen" /\ disk' = disk
          /\ \/ Go(s, "failed")
             \/ at' = [at EXCEPT ![s].pc = "opening", ![s].episodes = e]
      BY <1>8 DEF Launch
    <2>2. CASE Go(s, "failed")
      BY <2>1, <2>2, GoWorks DEF Early, AtTheEnd
    <2>3. CASE at' = [at EXCEPT ![s].pc = "opening", ![s].episodes = e]
      <3> HIDE DEF e
      <3>1. at'[s] = [a EXCEPT !.pc = "opening", !.episodes = e]
        BY <1>1, <2>3
      <3> DEFINE b == at'[s]
      <3>2. /\ b.study = a.study /\ SameBuilt(a, b) /\ b.pc = "opening" /\ b.episodes = e
        BY <1>1, <3>1 DEF SameBuilt
      <3> HIDE DEF b
      <3>3. Work(c, a, Dir(s)) /\ SameFiles(Dir(s), Dir(s), {})
        BY DEF Owned, SameFiles
      <3>4. Work(c, b, Dir(s))
        BY <2>1, <3>2, <3>3, Launched DEF e
      <3>5. Works(s, b)
        BY <2>1, <3>4, NothingPut DEF Works
      <3>6. QED
        BY <3>2, <3>5 DEF GoesOn, b
    <2>4. QED
      BY <2>1, <2>2, <2>3
  <1>9. CASE StartEpisode(s)
    <2>1. disk' = disk /\ \E i \in Of(s, {"waiting"}) : Episode(s, i, "running")
      BY <1>9 DEF StartEpisode
    <2>2. PICK i \in DOMAIN a.episodes : a.episodes[i] = "waiting" /\ Episode(s, i, "running")
      BY <2>1 DEF Of
    <2>3. "running" \in EpisodeStates
      BY DEF EpisodeStates
    <2>4. QED
      BY <2>1, <2>2, <2>3, OneEpisodeMoves
  <1>10. CASE FinishEpisode(s)
    <2>1. disk' = disk /\ \E i \in Of(s, {"running"}) : Episode(s, i, Outcome(s, i))
      BY <1>10 DEF FinishEpisode
    <2>2. PICK i \in DOMAIN a.episodes : a.episodes[i] = "running" /\ Episode(s, i, Outcome(s, i))
      BY <2>1 DEF Of
    <2>3. Outcome(s, i) \in {"refused", "late", "row"}
      <3>1. Loads(s, a.tasks[i].path)
        BY EpisodesAre
      <3>2. QED
        BY <3>1 DEF Outcome
    <2> DEFINE x == Outcome(s, i)
    <2>4. x \in EpisodeStates /\ Episode(s, i, x)
      BY <2>2, <2>3 DEF EpisodeStates
    <2> HIDE DEF x
    <2>5. QED
      BY <2>1, <2>2, <2>4, OneEpisodeMoves
  <1>11. CASE PoolBreaks(s)
    <2>1. /\ disk' = disk
          /\ at' = [at EXCEPT ![s].episodes =
                [i \in DOMAIN @ |-> IF @[i] \in {"waiting", "running"} THEN "broken" ELSE @[i]]]
      BY <1>11 DEF PoolBreaks
    <2> DEFINE e == [i \in DOMAIN a.episodes |->
                        IF a.episodes[i] \in {"waiting", "running"} THEN "broken" ELSE a.episodes[i]]
    <2>2. at'[s] = [a EXCEPT !.episodes = e]
      BY <1>1, <2>1
    <2>3. /\ DOMAIN e = DOMAIN a.episodes
          /\ \A j \in DOMAIN a.episodes :
                /\ e[j] \in EpisodeStates
                /\ a.episodes[j] = "row" => e[j] = "row"
      BY EpisodesAre DEF EpisodeStates
    <2> HIDE DEF e
    <2>4. /\ at'[s].study = a.study /\ SameBuilt(a, at'[s]) /\ at'[s].pc = a.pc
          /\ at'[s].episodes = e
      BY <1>1, <2>2 DEF SameBuilt
    <2>5. QED
      BY <2>1, <2>3, <2>4, EpisodesWork
  <1>12. CASE RaiseFailure(s)
    <2>1. /\ disk' = disk /\ a.pc = "collecting"
          /\ at' = [at EXCEPT ![s].pc = "failing", ![s].episodes =
                [i \in DOMAIN @ |-> IF @[i] = "waiting" THEN "cancelled" ELSE @[i]]]
      BY <1>12 DEF RaiseFailure
    <2> DEFINE e == [i \in DOMAIN a.episodes |->
                        IF a.episodes[i] = "waiting" THEN "cancelled" ELSE a.episodes[i]]
    <2>2. at'[s] = [a EXCEPT !.pc = "failing", !.episodes = e]
      BY <1>1, <2>1
    <2>3. /\ DOMAIN e = DOMAIN a.episodes
          /\ \A j \in DOMAIN a.episodes :
                /\ e[j] \in EpisodeStates
                /\ a.episodes[j] = "row" => e[j] = "row"
      BY EpisodesAre DEF EpisodeStates
    <2> HIDE DEF e
    <2>4. /\ at'[s].study = a.study /\ SameBuilt(a, at'[s]) /\ at'[s].pc = "failing"
          /\ at'[s].episodes = e
      BY <1>1, <2>2 DEF SameBuilt
    <2>5. QED
      BY <2>1, <2>3, <2>4, EpisodesWork
  <1>13. CASE ShutDown(s)
    <2>1. a.pc = "failing" /\ disk' = disk /\ Go(s, "failed")
      BY <1>13 DEF ShutDown
    <2>2. QED
      BY <2>1, GoWorks DEF Early, AtTheEnd
  <1>14. CASE OpenList(s)
    <2>1. /\ a.pc = "listing" /\ Go(s, "ending")
          /\ disk' = [disk EXCEPT !.manifest = "partial"]
      BY <1>14 DEF OpenList
    <2>2. disk'.study = disk.study /\ DOMAIN disk' = DOMAIN disk
      BY <1>1, <2>1
    <2>3. QED
      BY <2>1, <2>2, GoWorks DEF Early, AtTheEnd
  <1>15. CASE EndList(s)
    <2>1. /\ a.pc = "ending" /\ Go(s, "done")
          /\ disk' = [disk EXCEPT !.manifest = "whole"]
      BY <1>15 DEF EndList
    <2>2. disk'.study = disk.study /\ DOMAIN disk' = DOMAIN disk
      BY <1>1, <2>1
    <2>3. QED
      BY <2>1, <2>2, GoWorks DEF Early, AtTheEnd
  <1>16. CASE Crash(s)
    <2>1. disk' = disk /\ Go(s, "crashed")
      BY <1>16 DEF Crash
    <2>2. QED
      BY <2>1, GoWorks DEF Early, AtTheEnd
  <1>17. QED
    BY <1>2, <1>3, <1>4, <1>5, <1>6, <1>7, <1>8, <1>9, <1>10, <1>11, <1>12, <1>13, <1>14, <1>15, <1>16

\* A put of an owner whose program counter moves on.
LEMMA PutGoes ==
    ASSUME Shaped, Exclusive, NEW s \in Suites, s \in Dir(s).by,
           NEW d, Put(s, d), Lasting(Dir(s), d), Work(Config(s), at'[s], d),
           at'[s].study = at[s].study,
           at'[s].pc \notin {"start", "ready", "entered", "refused", "listing", "ending"}
    PROVE  GoesOn(s)
  <1>1. Works(s, at'[s])
    BY PutWorks
  <1>2. QED
    BY <1>1 DEF GoesOn

LEMMA TableSteps ==
    ASSUME Shaped, Exclusive, Owned, NEW s \in Suites, s \in Dir(s).by, SaveTable(s)
    PROVE  GoesOn(s)
  <1> DEFINE a == at[s]
             b == at'[s]
             c == Config(s)
             dir == Dir(s)
             want == Wanted(c)[a.built + 1]
             instance == Instance(c, want)
             d == [Dir(s) EXCEPT !.tables = @ \cup {instance}]
             paths == WithPath(a.paths, want, instance)
             built == a.built + 1
             natural == c.family = "natural_critical_random"
             full == built % Len(Layouts(c)) = 0
             more == GroupTasks(c, Groups(c)[(built - 1) \div Len(Layouts(c)) + 1], paths)
  <1>1. /\ s \in DOMAIN at /\ DOMAIN Dir(s) = DirFields
        /\ {"pc", "study", "built", "paths", "tasks", "accepted", "episodes"} \subseteq DOMAIN a
    BY WhereItStands
  <1>2. a.pc = "naming" /\ Put(s, d)
    BY ZenonT(60) DEF SaveTable, Want
  <1>3. at' = [at EXCEPT ![s].pc = "generating", ![s].built = built, ![s].paths = paths,
                    ![s].accepted = IF natural THEN @ \cup {instance} ELSE @,
                    ![s].tasks = IF full THEN @ \o more ELSE @]
    BY DEF SaveTable, Want, WithPath
  <1>4. Work(c, a, Dir(s))
    BY DEF Owned
  <1>5. c \in Configs /\ PlanAccepted(c) /\ a.built \in Nat /\ a.built < Len(Wanted(c))
    BY <1>2, JobsAreConfigs DEF Shaped, Well, Planned, Building
  <1>6. d = [Dir(s) EXCEPT !.tables = Dir(s).tables \cup {instance}]
    OBVIOUS
  <1> HIDE DEF paths, want, instance, built, full, more, natural
  <1>7. /\ b.pc = "generating" /\ b.study = a.study /\ b.built = built
        /\ b.episodes = a.episodes /\ b.paths = paths
        /\ natural => b.accepted = a.accepted \cup {instance}
        /\ b.tasks = a.tasks \/ (full /\ b.tasks = a.tasks \o more)
    BY <1>1, <1>3
  <1>8. /\ DOMAIN d = DirFields /\ d.tables = Dir(s).tables \cup {instance}
        /\ \A f \in DirFields \ {"tables"} : d[f] = Dir(s)[f]
    BY <1>1, <1>6 DEF DirFields
  <1> HIDE DEF d, b
  <1>9. Lasting(Dir(s), d) /\ SameFiles(Dir(s), d, {"tables"})
    BY <1>8 DEF Lasting, SameFiles, DirFields, Files
  <1>10. /\ want = Wanted(c)[a.built + 1] /\ instance = Instance(c, want) /\ b.built = a.built + 1
         /\ b.paths = WithPath(a.paths, want, instance)
         /\ c.family = "natural_critical_random" => b.accepted = a.accepted \cup {instance}
    BY <1>7 DEF paths, want, instance, natural, built
  <1>11. \/ b.tasks = a.tasks
         \/ /\ b.built % Len(Layouts(c)) = 0
            /\ b.tasks = a.tasks \o
                  GroupTasks(c, Groups(c)[(b.built - 1) \div Len(Layouts(c)) + 1], b.paths)
    <2>1. full => b.built % Len(Layouts(c)) = 0
      BY <1>7 DEF full
    <2>2. more = GroupTasks(c, Groups(c)[(b.built - 1) \div Len(Layouts(c)) + 1], b.paths)
      BY <1>7 DEF more
    <2>3. QED
      BY <1>7, <2>1, <2>2
  <1>12. Work(c, b, d)
    <2>1. c \in Configs /\ PlanAccepted(c) /\ Work(c, a, dir)
      BY <1>4, <1>5
    <2>2. a.built \in Nat /\ a.built < Len(Wanted(c))
      BY <1>5
    <2>3. a.pc = "naming" /\ b.pc = "generating" /\ b.episodes = a.episodes
      BY <1>2, <1>7
    <2>4. SameFiles(dir, d, {"tables"}) /\ d.tables = dir.tables \cup {instance}
      BY <1>8, <1>9
    <2> HIDE DEF a, c, dir
    <2>5. QED
      BY ONLY <1>10, <1>11, <2>1, <2>2, <2>3, <2>4, TableSaved
  <1>13. QED
    BY <1>2, <1>7, <1>9, <1>12, PutGoes DEF b

\* A suite that puts something, without the table of an instance and the summary.
LEMMA StepsPutting ==
    ASSUME Shaped, Exclusive, Owned, NEW s \in Suites, s \in Dir(s).by,
           \/ SaveMap(s) \/ Freeze(s) \/ EndManifest(s) \/ OpenFiles(s)
           \/ WriteRow(s) \/ SpillTraces(s) \/ WriteTraces(s) \/ OpenSummary(s)
    PROVE  GoesOn(s)
  <1> DEFINE a == at[s]
             b == at'[s]
             c == Config(s)
             dir == Dir(s)
  <1>1. /\ s \in DOMAIN at /\ DOMAIN dir = DirFields
        /\ {"pc", "study", "built", "paths", "tasks", "accepted", "episodes"} \subseteq DOMAIN a
    BY WhereItStands
  <1>2. Work(c, a, dir)
    BY DEF Owned
  <1>3. ASSUME NEW x, Go(s, x)
        PROVE  b.pc = x /\ b.study = a.study /\ SameBuilt(a, b) /\ b.episodes = a.episodes
    BY <1>1, <1>3 DEF Go, SameBuilt
  <1>4. CASE SaveMap(s)
    <2> DEFINE d == [dir EXCEPT !.maps = @ \cup {Instance(c, Wanted(c)[a.built + 1])}]
    <2>1. a.pc = "saving" /\ Put(s, d) /\ Go(s, "naming")
      BY <1>4 DEF SaveMap, Want
    <2>2. /\ d.maps = dir.maps \cup {Instance(c, Wanted(c)[a.built + 1])}
          /\ DOMAIN d = DirFields /\ \A f \in DirFields \ {"maps"} : d[f] = dir[f]
      BY <1>1 DEF DirFields
    <2> HIDE DEF d
    <2>3. Lasting(dir, d) /\ SameFiles(dir, d, {"maps"})
      BY <2>2 DEF Lasting, SameFiles, DirFields, Files
    <2>4. b.pc = "naming" /\ b.study = a.study /\ SameBuilt(a, b) /\ b.episodes = a.episodes
      BY <1>3, <2>1
    <2> HIDE DEF a, b, c, dir
    <2>5. Work(c, b, d)
      BY <1>2, <2>1, <2>2, <2>3, <2>4, MapSaved
    <2>6. QED
      BY <2>1, <2>3, <2>4, <2>5, PutGoes DEF a, b, c, dir
  <1>5. CASE Freeze(s)
    <2>1. CASE a.accepted = {}
      <3>1. a.pc = "generating" /\ Go(s, "frozen") /\ disk' = disk
        BY <1>5, <2>1 DEF Freeze
      <3>2. QED
        BY <2>1, <3>1, GoWorks DEF Early, AtTheEnd
    <2>2. CASE a.accepted # {}
      <3> DEFINE d == [dir EXCEPT !.manifest = "partial"]
      <3>1. a.pc = "generating" /\ Put(s, d) /\ Go(s, "freezing")
        BY <1>5, <2>2 DEF Freeze
      <3>2. DOMAIN d = DirFields /\ \A f \in DirFields \ {"manifest"} : d[f] = dir[f]
        BY <1>1
      <3> HIDE DEF d
      <3>3. Lasting(dir, d) /\ SameFiles(dir, d, {"manifest"})
        BY <3>2 DEF Lasting, SameFiles, DirFields, Files
      <3>4. b.pc = "freezing" /\ b.study = a.study /\ SameBuilt(a, b) /\ b.episodes = a.episodes
        BY <1>3, <3>1
      <3> HIDE DEF a, b, c, dir
      <3>5. Work(c, b, d)
        BY <1>2, <3>1, <3>3, <3>4, ManifestPut
      <3>6. QED
        BY <3>1, <3>3, <3>4, <3>5, PutGoes DEF a, b, c, dir
    <2>3. QED
      BY <2>1, <2>2
  <1>6. CASE EndManifest(s)
    <2> DEFINE d == [dir EXCEPT !.manifest = "whole"]
    <2>1. a.pc = "freezing" /\ Put(s, d) /\ Go(s, "frozen")
      BY <1>6 DEF EndManifest
    <2>2. /\ DOMAIN d = DirFields /\ d.manifest = "whole"
          /\ \A f \in DirFields \ {"manifest"} : d[f] = dir[f]
      BY <1>1 DEF DirFields
    <2> HIDE DEF d
    <2>3. Lasting(dir, d) /\ SameFiles(dir, d, {"manifest"})
      BY <2>2 DEF Lasting, SameFiles, DirFields, Files
    <2>4. b.pc = "frozen" /\ b.study = a.study /\ SameBuilt(a, b) /\ b.episodes = a.episodes
      BY <1>3, <2>1
    <2> HIDE DEF a, b, c, dir
    <2>5. Work(c, b, d)
      BY <1>2, <2>1, <2>2, <2>3, <2>4, ManifestPut
    <2>6. QED
      BY <2>1, <2>3, <2>4, <2>5, PutGoes DEF a, b, c, dir
  <1>7. CASE OpenFiles(s)
    <2> DEFINE d == [dir EXCEPT !.opened = TRUE]
    <2>1. a.pc = "opening" /\ Put(s, d) /\ Go(s, "collecting")
      BY <1>7 DEF OpenFiles
    <2>2. DOMAIN d = DirFields /\ \A f \in DirFields \ {"opened"} : d[f] = dir[f]
      BY <1>1
    <2> HIDE DEF d
    <2>3. Lasting(dir, d) /\ SameFiles(dir, d, {})
      BY <2>2 DEF Lasting, SameFiles, DirFields, Files
    <2>4. b.pc = "collecting" /\ b.study = a.study /\ SameBuilt(a, b) /\ b.episodes = a.episodes
      BY <1>3, <2>1
    <2> HIDE DEF a, b, c, dir
    <2>5. Work(c, b, d)
      BY <1>2, <2>1, <2>3, <2>4, FilesOpened
    <2>6. QED
      BY <2>1, <2>3, <2>4, <2>5, PutGoes DEF a, b, c, dir
  <1>8. CASE WriteRow(s)
    <2> DEFINE row == RowOf(c, a.tasks, Len(dir.rows) + 1)
               d == [dir EXCEPT !.rows = Append(@, row)]
    <2>1. a.pc = "collecting" /\ Put(s, d) /\ Go(s, "tracing")
      BY <1>8 DEF WriteRow, NextResult, RowOf
    <2>2. Len(dir.rows) + 1 \in DOMAIN a.episodes /\ a.episodes[Len(dir.rows) + 1] = "row"
      BY <1>8 DEF WriteRow, NextResult, Of
    <2>3. /\ DOMAIN d = DirFields /\ d.rows = Append(dir.rows, row)
          /\ \A f \in DirFields \ {"rows"} : d[f] = dir[f]
      BY <1>1 DEF DirFields
    <2> HIDE DEF d
    <2>4. Lasting(dir, d) /\ SameFiles(dir, d, {"rows"})
      BY <2>3 DEF Lasting, SameFiles, DirFields, Files
    <2>5. b.pc = "tracing" /\ b.study = a.study /\ SameBuilt(a, b) /\ b.episodes = a.episodes
      BY <1>3, <2>1
    <2> HIDE DEF a, b, c, dir
    <2>6. Work(c, b, d)
      BY <1>2, <2>1, <2>2, <2>3, <2>4, <2>5, RowWritten
    <2>7. QED
      BY <2>1, <2>4, <2>5, <2>6, PutGoes DEF a, b, c, dir
  <1>9. CASE SpillTraces(s)
    <2> DEFINE d == [dir EXCEPT !.spilled = TRUE]
    <2>1. a.pc = "tracing" /\ Put(s, d) /\ b = a
      BY <1>9 DEF SpillTraces
    <2>2. /\ DOMAIN d = DirFields /\ d.spilled = TRUE
          /\ \A f \in DirFields \ {"spilled"} : d[f] = dir[f]
      BY <1>1 DEF DirFields
    <2> HIDE DEF d
    <2>3. Lasting(dir, d) /\ SameFiles(dir, d, {"spilled"})
      BY <2>2 DEF Lasting, SameFiles, DirFields, Files
    <2> HIDE DEF a, b, c, dir
    <2>4. Work(c, a, d)
      BY <1>2, <2>1, <2>2, <2>3, TracesSpilled
    <2>5. QED
      BY <2>1, <2>3, <2>4, PutGoes DEF a, b, c, dir
  <1>10. CASE WriteTraces(s)
    <2> DEFINE number == dir.rows[Len(dir.rows)].number
               d == [dir EXCEPT !.spilled = FALSE, !.traces = Append(@, number)]
    <2>1. a.pc = "tracing" /\ Put(s, d) /\ Go(s, "collecting")
      BY <1>10 DEF WriteTraces
    <2>2. /\ DOMAIN d = DirFields /\ d.spilled = FALSE /\ d.traces = Append(dir.traces, number)
          /\ \A f \in DirFields \ {"spilled", "traces"} : d[f] = dir[f]
      BY <1>1 DEF DirFields
    <2> HIDE DEF d
    <2>3. Lasting(dir, d) /\ SameFiles(dir, d, {"spilled", "traces"})
      BY <2>2 DEF Lasting, SameFiles, DirFields, Files
    <2>4. b.pc = "collecting" /\ b.study = a.study /\ SameBuilt(a, b) /\ b.episodes = a.episodes
      BY <1>3, <2>1
    <2> HIDE DEF a, b, c, dir
    <2>5. Work(c, b, d)
      BY <1>2, <2>1, <2>2, <2>3, <2>4, TracesWritten
    <2>6. QED
      BY <2>1, <2>3, <2>4, <2>5, PutGoes DEF a, b, c, dir
  <1>11. CASE OpenSummary(s)
    <2> DEFINE d == [dir EXCEPT !.summary = "partial"]
    <2>1. /\ a.pc = "collecting" /\ Len(dir.rows) = Len(a.tasks)
          /\ Put(s, d) /\ Go(s, "summing")
      BY <1>11 DEF OpenSummary
    <2>2. /\ DOMAIN d = DirFields /\ d.summary # "absent"
          /\ \A f \in DirFields \ {"summary"} : d[f] = dir[f]
      BY <1>1 DEF DirFields
    <2>3. dir.summary = "absent"
      BY <1>2, <2>1 DEF Work, StageFine
    <2> HIDE DEF d
    <2>4. Lasting(dir, d) /\ SameFiles(dir, d, {"summary"})
      BY <2>2, <2>3 DEF Lasting, SameFiles, DirFields, Files
    <2>5. b.pc = "summing" /\ b.study = a.study /\ SameBuilt(a, b) /\ b.episodes = a.episodes
      BY <1>3, <2>1
    <2> HIDE DEF a, b, c, dir
    <2>6. Work(c, b, d)
      BY <1>2, <2>1, <2>2, <2>4, <2>5, SummaryOpened
    <2>7. QED
      BY <2>1, <2>4, <2>5, <2>6, PutGoes DEF a, b, c, dir
  <1>12. QED
    BY <1>4, <1>5, <1>6, <1>7, <1>8, <1>9, <1>10, <1>11

LEMMA SummarySteps ==
    ASSUME Shaped, Exclusive, Owned, NEW s \in Suites, s \in Dir(s).by, WriteSummary(s)
    PROVE  GoesOn(s) \/ TurnsOver(s)
  <1> DEFINE a == at[s]
             c == Config(s)
             dir == Dir(s)
             d == [dir EXCEPT !.summary = "whole"]
             e == disk'.study[a.study]
  <1>1. /\ s \in DOMAIN at /\ DOMAIN dir = DirFields
        /\ {"pc", "study", "built", "paths", "tasks", "accepted", "episodes"} \subseteq DOMAIN a
    BY WhereItStands
  <1>2. /\ a.pc = "summing" /\ Put(s, d)
        /\ at' = [at EXCEPT ![s] =
                    IF job[s].kind = "suite" THEN [a EXCEPT !.pc = "done"]
                    ELSE IF a.study = Len(job[s].studies) THEN [a EXCEPT !.pc = "listing"]
                    ELSE [NewSuite(a.study + 1) EXCEPT !.pc = "ready"]]
    BY DEF WriteSummary
  <1>3. /\ DOMAIN d = DirFields /\ d.summary = "whole"
        /\ \A f \in DirFields \ {"summary"} : d[f] = dir[f]
    BY <1>1 DEF DirFields
  <1> HIDE DEF d
  <1>4. Lasting(dir, d) /\ SameFiles(dir, d, {"summary"})
    BY <1>3 DEF Lasting, SameFiles, DirFields, Files
  <1>5. ASSUME NEW x \in {"done", "listing"}
        PROVE  Works(s, [a EXCEPT !.pc = x]) /\ e.summary = "whole"
    <2> DEFINE b == [a EXCEPT !.pc = x]
    <2>1. SameBuilt(a, b) /\ b.episodes = a.episodes /\ b.pc = x
      BY <1>1 DEF SameBuilt
    <2> HIDE DEF b
    <2>2. Work(c, a, dir)
      BY DEF Owned
    <2>3. Work(c, b, d)
      <3> HIDE DEF a, c, dir
      <3>1. QED
        BY <1>2, <1>4, <2>1, <2>2, SummaryWritten
    <2>4. Works(s, b) /\ \A f \in DirFields : e[f] = d[f]
      BY <1>2, <1>4, <2>3, PutWorks
    <2>5. QED
      BY <1>3, <2>4 DEF b, DirFields
  <1>6. CASE job[s].kind = "suite"
    <2>1. at'[s] = [a EXCEPT !.pc = "done"]
      BY <1>1, <1>2, <1>6
    <2>2. at'[s].pc = "done" /\ at'[s].study = a.study
      BY <1>1, <2>1
    <2>3. QED
      BY <1>5, <2>1, <2>2 DEF GoesOn
  <1>7. CASE job[s].kind # "suite" /\ a.study = Len(job[s].studies)
    <2>1. at'[s] = [a EXCEPT !.pc = "listing"]
      BY <1>1, <1>2, <1>7
    <2>2. at'[s].pc = "listing" /\ at'[s].study = a.study
      BY <1>1, <2>1
    <2>3. QED
      BY <1>5, <1>7, <2>1, <2>2 DEF GoesOn
  <1>8. CASE job[s].kind # "suite" /\ a.study # Len(job[s].studies)
    <2>1. at'[s] = [NewSuite(a.study + 1) EXCEPT !.pc = "ready"]
      BY <1>1, <1>2, <1>8
    <2>2. QED
      BY <1>5, <2>1 DEF TurnsOver
  <1>9. QED
    BY <1>6, <1>7, <1>8

\* Whatever a suite does is one of five things.
LEMMA StepsAreSorted ==
    ASSUME Shaped, Exclusive, Owned, NEW s \in Suites, Step(s)
    PROVE  GoesOn(s) \/ TurnsOver(s) \/ Enters(s) \/ Takes(s) \/ Stands(s)
  <1>1. ASSUME at[s].pc \in {"planning", "generating", "searching", "selected", "saving", "naming",
                    "freezing", "frozen", "opening", "collecting", "tracing", "failing",
                    "summing", "listing", "ending"}
        PROVE  s \in Dir(s).by
    BY <1>1, OwnersStand DEF Owning
  <1>2. CASE CheckOutput(s) \/ MakeOutput(s) \/ MakeInstances(s)
    BY <1>2, StepsBefore
  <1>3. CASE Plan(s) \/ Generate(s) \/ SampleMap(s) \/ GiveUp(s) \/ DrawPair(s) \/ BuildInstance(s)
    <2>1. at[s].pc \in {"planning", "generating", "searching", "selected"}
      BY <1>3 DEF Plan, Generate, SampleMap, GiveUp, DrawPair, BuildInstance
    <2>2. QED
      BY <1>1, <1>3, <2>1, StepsWithin
  <1>4. CASE Launch(s) \/ PoolBreaks(s) \/ RaiseFailure(s) \/ ShutDown(s) \/ OpenList(s) \/ EndList(s)
    <2>1. at[s].pc \in {"frozen", "opening", "collecting", "tracing", "failing", "listing", "ending"}
      BY <1>4 DEF Launch, PoolBreaks, RaiseFailure, ShutDown, OpenList, EndList
    <2>2. QED
      BY <1>1, <1>4, <2>1, StepsWithin
  <1>5. CASE StartEpisode(s)
    <2>1. at[s].pc \in {"opening", "collecting", "tracing"}
      BY <1>5 DEF StartEpisode, MayStart
    <2>2. QED
      BY <1>1, <1>5, <2>1, StepsWithin
  <1>6. CASE FinishEpisode(s) \/ Crash(s)
    BY <1>6, StepsBefore, StepsWithin
  <1>7. CASE SaveMap(s) \/ Freeze(s) \/ EndManifest(s) \/ OpenFiles(s)
             \/ WriteRow(s) \/ SpillTraces(s) \/ WriteTraces(s) \/ OpenSummary(s)
    <2>1. at[s].pc \in {"saving", "generating", "freezing", "opening", "collecting", "tracing"}
      BY <1>7 DEF SaveMap, Freeze, EndManifest, OpenFiles, WriteRow, SpillTraces, WriteTraces,
                  OpenSummary
    <2>2. QED
      BY <1>1, <1>7, <2>1, StepsPutting
  <1>8. CASE SaveTable(s) \/ WriteSummary(s)
    <2>1. at[s].pc \in {"naming", "summing"}
      BY <1>8 DEF SaveTable, WriteSummary
    <2>2. QED
      BY <1>1, <1>8, <2>1, TableSteps, SummarySteps
  <1>9. QED
    BY <1>2, <1>3, <1>4, <1>5, <1>6, <1>7, <1>8 DEF Step

-----------------------------------------------------------------------------
\* That directories stay consistent.

Sorted(s) == GoesOn(s) \/ TurnsOver(s) \/ Enters(s) \/ Takes(s) \/ Stands(s)

\* The directory a suite is in, after its step, seen from the one before.
LEMMA OthersAreKept ==
    ASSUME Shaped, Exclusive, NEW s \in Suites, Sorted(s)
    PROVE  /\ DOMAIN disk' = {"manifest", "study"} /\ DOMAIN disk'.study = 1 .. 2
           /\ \A n \in 1 .. 2 : n # at[s].study => disk'.study[n] = disk.study[n]
           /\ disk'.manifest = disk.manifest \/ at[s].pc \in {"listing", "ending"}
           /\ DOMAIN disk'.study[at[s].study] = DirFields
           /\ \A n \in 1 .. 2 : Whole(n) => disk'.study[n].summary = "whole"
  <1> DEFINE m == at[s].study
  <1>1. /\ m \in 1 .. 2 /\ DOMAIN disk = {"manifest", "study"} /\ DOMAIN disk.study = 1 .. 2
        /\ Dir(s) = disk.study[m] /\ DOMAIN Dir(s) = DirFields
    BY WhereItStands
  <1>2. Elsewhere(s) \/ disk' = disk
    BY DEF Sorted, GoesOn, TurnsOver, Enters, Takes, Stands, Works
  <1>3. /\ DOMAIN disk' = {"manifest", "study"} /\ DOMAIN disk'.study = 1 .. 2
        /\ \A n \in 1 .. 2 : n # m => disk'.study[n] = disk.study[n]
        /\ disk'.manifest = disk.manifest \/ at[s].pc \in {"listing", "ending"}
    BY <1>1, <1>2 DEF Elsewhere
  <1>4. /\ DOMAIN disk'.study[m] = DirFields
        /\ disk.study[m].summary = "whole" => disk'.study[m].summary = "whole"
    <2>1. CASE GoesOn(s) \/ TurnsOver(s)
      BY <1>1, <2>1 DEF GoesOn, TurnsOver, Works, Lasting
    <2>2. CASE Enters(s)
      BY <1>1, <2>2 DEF Enters, DirFields
    <2>3. CASE Takes(s)
      BY <1>1, <2>3 DEF Takes
    <2>4. CASE Stands(s)
      BY <1>1, <2>4 DEF Stands
    <2>5. QED
      BY <2>1, <2>2, <2>3, <2>4 DEF Sorted
  <1>5. \A n \in 1 .. 2 : Whole(n) => disk'.study[n].summary = "whole"
    BY <1>1, <1>3, <1>4 DEF Whole
  <1>6. QED
    BY <1>3, <1>4, <1>5

\* What a directory of Exclusive is, for one study.
OneOwner(n, dir, steps) ==
    /\ DOMAIN dir = DirFields
    /\ dir.by \subseteq Suites
    /\ \A r, s \in dir.by : r = s
    /\ dir.instances <=> dir.by # {}
    /\ ~dir.instances => \A f \in DirFields \ {"made"} : dir[f] = NewDirectory[f]
    /\ \A s \in dir.by : n <= steps[s].study

Standing(r, a, dir) ==
    /\ a.pc \notin {"start", "ready", "entered", "refused", "failed", "crashed"} => r \in dir.by
    /\ a.pc \in {"start", "ready", "entered", "refused"} => r \notin dir.by
    /\ a.pc \in {"start", "ready", "entered"} =>
        \A f \in Fields \ {"pc"} : a[f] = NewSuite(a.study)[f]

LEMMA ExclusiveIs ==
    Exclusive <=>
        /\ DOMAIN disk = {"manifest", "study"} /\ DOMAIN disk.study = 1 .. 2
        /\ \A n \in 1 .. 2 : OneOwner(n, disk.study[n], at)
        /\ \A r \in Suites : Standing(r, at[r], disk.study[at[r].study])
  <1>1. ASSUME Exclusive
        PROVE  /\ DOMAIN disk = {"manifest", "study"} /\ DOMAIN disk.study = 1 .. 2
               /\ \A n \in 1 .. 2 : OneOwner(n, disk.study[n], at)
               /\ \A r \in Suites : Standing(r, at[r], disk.study[at[r].study])
    BY <1>1 DEF Exclusive, OneOwner, Standing, Owning, Fresh, Dir
  <1>2. ASSUME DOMAIN disk = {"manifest", "study"}, DOMAIN disk.study = 1 .. 2,
               \A n \in 1 .. 2 : OneOwner(n, disk.study[n], at),
               \A r \in Suites : Standing(r, at[r], disk.study[at[r].study])
        PROVE  Exclusive
    BY <1>2 DEF Exclusive, OneOwner, Standing, Owning, Fresh, Dir
  <1>3. QED
    BY <1>1, <1>2

LEMMA ExclusiveNext ==
    ASSUME DOMAIN disk' = {"manifest", "study"}, DOMAIN disk'.study = 1 .. 2,
           \A n \in 1 .. 2 : OneOwner(n, disk'.study[n], at'),
           \A r \in Suites : Standing(r, at'[r], disk'.study[at'[r].study])
    PROVE  Exclusive'
  BY DEF Exclusive, OneOwner, Standing, Owning, Fresh, Dir

LEMMA ExclusiveStays ==
    ASSUME Shaped, Shaped', Exclusive, NEW s \in Suites, Alone(s), Sorted(s)
    PROVE  Exclusive'
  <1> DEFINE m == at[s].study
             d == disk.study[m]
             e == disk'.study[m]
             k == at'[s].study
  <1>1. /\ m \in 1 .. 2 /\ DOMAIN at[s] = Fields /\ Dir(s) = d /\ DOMAIN d = DirFields
    BY WhereItStands
  <1>2. /\ DOMAIN disk' = {"manifest", "study"} /\ DOMAIN disk'.study = 1 .. 2
        /\ \A n \in 1 .. 2 : n # m => disk'.study[n] = disk.study[n]
        /\ DOMAIN e = DirFields
    BY OthersAreKept
  <1>3. /\ \A n \in 1 .. 2 : OneOwner(n, disk.study[n], at)
        /\ \A r \in Suites : Standing(r, at[r], disk.study[at[r].study])
    BY ExclusiveIs
  <1>4. \A r \in Suites : at[r].study \in 1 .. 2
    BY WhereItStands
  <1>5. \A r \in Suites : r # s => at'[r] = at[r]
    BY DEF Alone
  <1>6. k \in DOMAIN job[s].studies /\ k \in 1 .. 2
    <2>1. k \in DOMAIN job'[s].studies /\ job' = job
      BY DEF Shaped, Well, Alone
    <2>2. QED
      BY <2>1, JobsAreConfigs
  <1> HIDE DEF m, d, e, k
  <1>7. ASSUME e.by = d.by, e.instances = d.instances,
               ~d.instances => \A f \in DirFields \ {"made"} : e[f] = d[f],
               m <= k, Standing(s, at'[s], disk'.study[k])
        PROVE  Exclusive'
    <2>1. ASSUME NEW n \in 1 .. 2
          PROVE  OneOwner(n, disk'.study[n], at')
      <3>1. OneOwner(n, disk.study[n], at)
        BY <1>3
      <3>2. ASSUME NEW r \in Suites, n <= at[r].study
            PROVE  n <= at'[r].study
        <4>1. CASE r = s
          BY <1>1, <1>6, <1>7, <3>2, <4>1 DEF m, k
        <4>2. CASE r # s
          BY <1>5, <3>2, <4>2
        <4>3. QED
          BY <4>1, <4>2
      <3>3. CASE n = m
        <4>1. OneOwner(n, d, at)
          BY <3>1, <3>3 DEF d, m
        <4>2. OneOwner(n, e, at')
          BY <1>2, <1>7, <3>2, <4>1 DEF OneOwner
        <4>3. QED
          BY <3>3, <4>2 DEF e, m
      <3>4. CASE n # m
        BY <1>2, <3>1, <3>2, <3>4 DEF OneOwner
      <3>5. QED
        BY <3>3, <3>4
    <2>2. ASSUME NEW r \in Suites
          PROVE  Standing(r, at'[r], disk'.study[at'[r].study])
      <3>1. CASE r = s
        BY <1>7, <3>1 DEF k
      <3>2. CASE r # s
        <4>1. Standing(r, at[r], disk.study[at[r].study]) /\ at'[r] = at[r]
          BY <1>3, <1>5, <3>2
        <4>2. disk'.study[at[r].study].by = disk.study[at[r].study].by
          BY <1>2, <1>4, <1>7 DEF d, e, m
        <4>3. QED
          BY <4>1, <4>2 DEF Standing
      <3>3. QED
        BY <3>1, <3>2
    <2>3. QED
      BY <1>2, <2>1, <2>2, ExclusiveNext
  <1>8. CASE GoesOn(s)
    <2>1. /\ e.by = d.by /\ e.instances = d.instances /\ s \in d.by /\ k = m
          /\ at'[s].pc \notin {"start", "ready", "entered", "refused"}
      BY <1>1, <1>8 DEF GoesOn, Works, Lasting, d, e, m, k
    <2>2. OneOwner(m, d, at)
      BY <1>1, <1>3 DEF d
    <2>3. d.instances
      BY <2>1, <2>2 DEF OneOwner
    <2>4. Standing(s, at'[s], disk'.study[k])
      BY <2>1 DEF Standing, e
    <2>5. QED
      BY <1>1, <1>7, <2>1, <2>3, <2>4
  <1>9. CASE TurnsOver(s)
    <2>1. e.by = d.by /\ e.instances = d.instances /\ s \in d.by
      BY <1>1, <1>9 DEF TurnsOver, Works, Lasting, d, e, m
    <2>2. at'[s] = [NewSuite(m + 1) EXCEPT !.pc = "ready"]
      BY <1>9 DEF TurnsOver, m
    <2>3. /\ k = m + 1 /\ at'[s].pc = "ready"
          /\ \A f \in Fields \ {"pc"} : at'[s][f] = NewSuite(k)[f]
      BY <2>2 DEF NewSuite, Fields, k
    <2>4. OneOwner(m, d, at) /\ OneOwner(k, disk.study[k], at)
      BY <1>1, <1>3, <1>6 DEF d
    <2>5. d.instances
      BY <2>1, <2>4 DEF OneOwner
    <2>6. s \notin disk.study[k].by
      BY <1>1, <2>3, <2>4 DEF OneOwner, m
    <2>7. disk'.study[k] = disk.study[k]
      BY <1>1, <1>2, <1>6, <2>3
    <2>8. Standing(s, at'[s], disk'.study[k])
      BY <2>3, <2>6, <2>7 DEF Standing, k
    <2>9. QED
      BY <1>1, <1>7, <2>1, <2>3, <2>5, <2>8
  <1>10. CASE Enters(s)
    <2>1. e = [d EXCEPT !.made = TRUE]
      BY <1>1, <1>10 DEF Enters, d, e, m
    <2>2. \A f \in DirFields \ {"made"} : e[f] = d[f]
      BY <1>1, <2>1
    <2>3. e.by = d.by /\ e.instances = d.instances
      BY <2>2 DEF DirFields
    <2>4. at'[s] = [at[s] EXCEPT !.pc = "entered"] /\ at[s].pc = "ready"
      BY <1>10 DEF Enters
    <2>5. /\ at'[s].pc = "entered" /\ k = m
          /\ \A f \in Fields \ {"pc"} : at'[s][f] = at[s][f]
      BY <1>1, <2>4 DEF Fields, k, m
    <2>6. Standing(s, at[s], d)
      BY <1>3 DEF d, m
    <2>7. Standing(s, at'[s], e)
      BY <2>3, <2>4, <2>5, <2>6 DEF Standing, k, m
    <2>8. QED
      BY <1>1, <1>7, <2>2, <2>3, <2>5, <2>7 DEF e
  <1>11. CASE Stands(s)
    <2>1. /\ s \notin d.by /\ e = d /\ k = m
          /\ at'[s].pc \in {"start", "ready", "entered", "refused", "failed", "crashed"}
          /\ at'[s].pc \in {"start", "ready", "entered"} =>
                Fresh(s) /\ \A f \in Fields \ {"pc"} : at'[s][f] = at[s][f]
      BY <1>1, <1>11 DEF Stands, d, e, k, m
    <2>2. Standing(s, at[s], d)
      BY <1>3 DEF d, m
    <2>3. Standing(s, at'[s], e)
      BY <2>1, <2>2 DEF Standing, Fresh, k, m
    <2>4. QED
      BY <1>1, <1>7, <2>1, <2>3 DEF e
  <1>12. CASE Takes(s)
    <2>1. /\ d.by = {} /\ e.by = {s} /\ e.instances /\ k = m /\ at'[s].pc = "planning"
      BY <1>1, <1>12 DEF Takes, d, e, k, m
    <2>2. ASSUME NEW n \in 1 .. 2
          PROVE  OneOwner(n, disk'.study[n], at')
      <3>1. CASE n = m
        <4>1. OneOwner(n, e, at')
          BY <1>1, <1>2, <2>1, <3>1 DEF OneOwner, k
        <4>2. QED
          BY <3>1, <4>1 DEF e
      <3>2. CASE n # m
        <4>1. OneOwner(n, disk.study[n], at) /\ disk'.study[n] = disk.study[n]
          BY <1>2, <1>3, <3>2
        <4>2. \A r \in Suites : at'[r].study = at[r].study
          BY <1>5, <2>1 DEF k, m
        <4>3. QED
          BY <4>1, <4>2 DEF OneOwner
      <3>3. QED
        BY <3>1, <3>2
    <2>3. ASSUME NEW r \in Suites
          PROVE  Standing(r, at'[r], disk'.study[at'[r].study])
      <3>1. CASE r = s
        <4>1. Standing(s, at'[s], e)
          BY <2>1 DEF Standing
        <4>2. QED
          BY <2>1, <3>1, <4>1 DEF k, e
      <3>2. CASE r # s
        <4>1. Standing(r, at[r], disk.study[at[r].study]) /\ at'[r] = at[r]
          BY <1>3, <1>5, <3>2
        <4>2. CASE at[r].study = m
          <5>1. Standing(r, at[r], d)
            BY <4>1, <4>2 DEF d
          <5>2. Standing(r, at[r], e)
            BY <2>1, <3>2, <5>1 DEF Standing
          <5>3. QED
            BY <4>1, <4>2, <5>2 DEF e
        <4>3. CASE at[r].study # m
          <5>1. disk'.study[at[r].study] = disk.study[at[r].study]
            BY <1>2, <1>4, <4>3
          <5>2. QED
            BY <4>1, <5>1
        <4>4. QED
          BY <4>2, <4>3
      <3>3. QED
        BY <3>1, <3>2
    <2>4. QED
      BY <1>2, <2>2, <2>3, ExclusiveNext
  <1>13. QED
    BY <1>8, <1>9, <1>10, <1>11, <1>12 DEF Sorted

LEMMA OwnedStays ==
    ASSUME Shaped, Shaped', Exclusive, Exclusive', Owned, NEW s \in Suites, Alone(s), Sorted(s)
    PROVE  Owned'
  <1> DEFINE m == at[s].study
             d == disk.study[m]
             e == disk'.study[m]
  <1>1. /\ m \in 1 .. 2 /\ Dir(s) = d /\ DOMAIN d = DirFields
    BY WhereItStands
  <1>2. \A n \in 1 .. 2 : n # m => disk'.study[n] = disk.study[n]
    BY OthersAreKept
  <1>3. SUFFICES ASSUME NEW r \in Suites, r \in disk'.study[at'[r].study].by
                 PROVE  Work(job'[r].studies[at'[r].study], at'[r], disk'.study[at'[r].study])
    BY DEF Owned, Dir, Config
  <1>4. job' = job
    BY DEF Alone
  <1>5. at'[r].pc \notin {"start", "ready", "entered"}
    BY <1>3 DEF Exclusive, Fresh, Dir
  <1>6. CASE r = s
    <2>1. CASE GoesOn(s)
      BY <1>4, <1>6, <2>1 DEF GoesOn, Works, Config
    <2>2. CASE TurnsOver(s)
      <3>1. at'[s] = [NewSuite(m + 1) EXCEPT !.pc = "ready"]
        BY <2>2 DEF TurnsOver
      <3>2. at'[s].pc = "ready"
        BY <3>1 DEF NewSuite
      <3>3. QED
        BY <1>5, <1>6, <3>2
    <2>3. CASE Enters(s)
      <3>1. at'[s] = [at[s] EXCEPT !.pc = "entered"] /\ "pc" \in DOMAIN at[s]
        BY <2>3, WhereItStands DEF Enters
      <3>2. at'[s].pc = "entered"
        BY <3>1
      <3>3. QED
        BY <1>5, <1>6, <3>2
    <2>4. CASE Takes(s)
      BY <1>4, <1>6, <2>4 DEF Takes, Config
    <2>5. CASE Stands(s)
      BY <1>1, <1>3, <1>6, <2>5 DEF Stands
    <2>6. QED
      BY <2>1, <2>2, <2>3, <2>4, <2>5 DEF Sorted
  <1>7. CASE r # s
    <2> DEFINE k == at[r].study
    <2>1. at'[r] = at[r] /\ k \in 1 .. 2
      BY <1>7, WhereItStands DEF Alone
    <2>2. CASE disk'.study[k] = disk.study[k]
      <3>1. r \in Dir(r).by /\ Dir(r) = disk'.study[k]
        BY <1>3, <2>1, <2>2 DEF Dir
      <3>2. Work(Config(r), at[r], Dir(r))
        BY <3>1 DEF Owned
      <3>3. QED
        BY <1>4, <2>1, <3>1, <3>2 DEF Config
    <2>3. CASE disk'.study[k] # disk.study[k]
      <3>1. k = m /\ r \in e.by
        BY <1>2, <1>3, <2>1, <2>3
      <3>2. CASE GoesOn(s) \/ TurnsOver(s)
        <4>1. e.by = d.by /\ s \in d.by
          BY <1>1, <3>2 DEF GoesOn, TurnsOver, Works, Lasting
        <4>2. r = s
          BY <1>1, <3>1, <4>1 DEF Exclusive
        <4>3. QED
          BY <1>7, <4>2
      <3>3. CASE Enters(s)
        <4>1. e = [d EXCEPT !.made = TRUE]
          BY <1>1, <3>3 DEF Enters
        <4>2. \A f \in DirFields \ {"made"} : e[f] = d[f]
          BY <1>1, <4>1
        <4>3. SameFiles(d, e, {}) /\ e.by = d.by
          BY <4>2 DEF SameFiles, Files, DirFields
        <4>4. Dir(r) = d
          BY <3>1 DEF Dir
        <4>5. Work(Config(r), at[r], d)
          BY <3>1, <4>3, <4>4 DEF Owned
        <4>6. SameBuilt(at[r], at[r])
          BY DEF SameBuilt
        <4> HIDE DEF d, e
        <4>7. Work(Config(r), at[r], e)
          BY <4>3, <4>5, <4>6, MovedOn
        <4>8. QED
          BY <1>4, <2>1, <3>1, <4>7 DEF Config, e
      <3>4. CASE Takes(s)
        BY <1>7, <3>1, <3>4 DEF Takes
      <3>5. CASE Stands(s)
        BY <2>3, <3>5 DEF Stands
      <3>6. QED
        BY <3>2, <3>3, <3>4, <3>5 DEF Sorted
    <2>4. QED
      BY <2>2, <2>3
  <1>8. QED
    BY <1>6, <1>7

LEMMA SoundStays ==
    ASSUME Shaped, Exclusive, NEW s \in Suites, Sorted(s), NEW n \in 1 .. 2, Sound(disk.study[n])
    PROVE  Sound(disk'.study[n])
  <1> DEFINE m == at[s].study
             d == disk.study[m]
             e == disk'.study[m]
  <1>1. Dir(s) = d /\ DOMAIN d = DirFields
    BY WhereItStands
  <1>2. CASE n # m
    BY <1>2, OthersAreKept
  <1>3. CASE n = m
    <2>1. CASE GoesOn(s) \/ TurnsOver(s) \/ Takes(s)
      <3>1. PICK b : Work(Config(s), b, e)
        BY <2>1 DEF GoesOn, TurnsOver, Takes, Works
      <3> HIDE DEF e
      <3>2. Sound(e)
        BY <3>1, WorkIsSound
      <3>3. QED
        BY <1>3, <3>2 DEF e
    <2>2. CASE Enters(s)
      <3>1. e = [d EXCEPT !.made = TRUE]
        BY <1>1, <2>2 DEF Enters
      <3>2. \A f \in DirFields \ {"made"} : e[f] = d[f]
        BY <1>1, <3>1
      <3>3. /\ e.tables = d.tables /\ e.maps = d.maps /\ e.rows = d.rows /\ e.traces = d.traces
            /\ e.spilled = d.spilled
        BY <3>2 DEF DirFields
      <3>4. Sound(d)
        BY <1>3
      <3> HIDE DEF d, e
      <3>5. Sound(e)
        <4>1. TracesFollow(e)
          BY <3>3, <3>4, SMTT(30) DEF Sound, TracesFollow
        <4>2. Matched(e)
          <5>1. Matched(d) /\ e.rows = d.rows
            BY <3>3, <3>4 DEF Sound
          <5>2. ASSUME NEW i \in DOMAIN e.rows, NEW j \in DOMAIN e.rows,
                       [e.rows[i].task EXCEPT !.planner = e.rows[j].task.planner,
                                              !.policy = e.rows[j].task.policy] = e.rows[j].task
                PROVE  e.rows[i].instance = e.rows[j].instance /\ e.rows[i].link = e.rows[j].link
            <6> DEFINE x == d.rows[i].task
                       y == d.rows[j].task
            <6>1. x = e.rows[i].task /\ y = e.rows[j].task
              BY <5>1
            <6>2. i \in DOMAIN d.rows /\ j \in DOMAIN d.rows
              BY <5>1
            <6> HIDE DEF x, y
            <6>3. [x EXCEPT !.planner = y.planner, !.policy = y.policy] = y
              BY <5>2, <6>1, SMTT(30)
            <6>4. d.rows[i].instance = d.rows[j].instance /\ d.rows[i].link = d.rows[j].link
              BY <5>1, <6>2, <6>3 DEF Matched, x, y
            <6>5. QED
              BY <5>1, <6>4
          <5>3. QED
            BY <5>2 DEF Matched
        <4>3. QED
          BY <3>3, <3>4, <4>1, <4>2 DEF Sound
      <3>6. QED
        BY <1>3, <3>5 DEF e
    <2>3. CASE Stands(s)
      BY <2>3 DEF Stands
    <2>4. QED
      BY <2>1, <2>2, <2>3 DEF Sorted
  <1>4. QED
    BY <1>2, <1>3

LEMMA FinishedStays ==
    ASSUME Shaped, Shaped', Exclusive, Finished, NEW s \in Suites, Alone(s), Sorted(s)
    PROVE  Finished'
  <1> DEFINE m == at[s].study
             d == disk.study[m]
             e == disk'.study[m]
             studies == DOMAIN job[s].studies
             Ready(n) == disk'.study[n].summary = "whole"
  <1>1. m \in 1 .. 2 /\ Dir(s) = d /\ DOMAIN d = DirFields
    BY WhereItStands
  <1>2. \A n \in 1 .. 2 : n # m => disk'.study[n] = disk.study[n]
    BY OthersAreKept
  <1>3. \A n \in 1 .. 2 : Whole(n) => Ready(n)
    BY OthersAreKept DEF Whole
  <1>4. job' = job /\ \A r \in Suites : r # s => at'[r] = at[r]
    BY DEF Alone
  <1>5. \A r \in Suites : DOMAIN job[r].studies \subseteq 1 .. 2
    BY JobsAreConfigs
  <1>6. \A n \in 1 .. 2 : disk'.study[n].made /\ n > 1 => Ready(n - 1)
    <2>1. SUFFICES ASSUME disk'.study[2].made PROVE Ready(1)
      OBVIOUS
    <2>2. CASE disk.study[2].made
      BY <1>3, <2>2 DEF Finished
    <2>3. CASE ~disk.study[2].made
      <3>1. m = 2 /\ ~d.made
        BY <1>2, <2>1, <2>3
      <3>2. ~GoesOn(s) /\ ~TurnsOver(s) /\ ~Takes(s) /\ ~Stands(s)
        BY <1>1, <2>1, <3>1 DEF GoesOn, TurnsOver, Takes, Stands, Works, Lasting
      <3>3. Whole(1)
        BY <3>1 DEF Finished
      <3>4. QED
        BY <1>3, <3>3
    <2>4. QED
      BY <2>2, <2>3
  <1>7. ASSUME NEW r \in Suites
        PROVE  /\ \A n \in 1 .. 2 : n < at'[r].study => Ready(n)
               /\ at'[r].pc \in {"listing", "ending"} => \A n \in DOMAIN job'[r].studies : Ready(n)
    <2>1. CASE r # s
      BY <1>3, <1>4, <1>5, <2>1 DEF Finished
    <2>2. CASE r = s
      <3>1. \A n \in 1 .. 2 : n < m => Ready(n)
        BY <1>3 DEF Finished
      <3>2. CASE GoesOn(s)
        <4>1. at'[s].study = m
          BY <3>2 DEF GoesOn
        <4>2. ASSUME at'[s].pc \in {"listing", "ending"}
              PROVE  \A n \in studies : Ready(n)
          <5>1. CASE at[s].pc \in {"listing", "ending"}
            BY <1>3, <1>5, <5>1 DEF Finished
          <5>2. CASE at[s].pc \notin {"listing", "ending"}
            <6>1. m = Len(job[s].studies) /\ e.summary = "whole"
              BY <3>2, <4>2, <5>2 DEF GoesOn
            <6>2. studies = 1 .. m
              BY <6>1, JobsAreConfigs
            <6>3. Ready(m)
              BY <6>1
            <6>4. QED
              BY <1>1, <3>1, <6>2, <6>3
          <5>3. QED
            BY <5>1, <5>2
        <4>3. QED
          BY <1>4, <2>2, <3>1, <4>1, <4>2
      <3>3. CASE TurnsOver(s)
        <4>1. at'[s] = [NewSuite(m + 1) EXCEPT !.pc = "ready"] /\ e.summary = "whole"
          BY <3>3 DEF TurnsOver
        <4>2. at'[s].study = m + 1 /\ at'[s].pc = "ready"
          BY <4>1 DEF NewSuite
        <4>3. Ready(m)
          BY <4>1
        <4>4. \A n \in 1 .. 2 : n < m + 1 => n < m \/ n = m
          BY <1>1
        <4>5. QED
          BY <2>2, <3>1, <4>2, <4>3, <4>4
      <3>4. CASE Enters(s)
        <4>1. at'[s] = [at[s] EXCEPT !.pc = "entered"] /\ {"pc", "study"} \subseteq DOMAIN at[s]
          BY <3>4, WhereItStands DEF Enters
        <4>2. at'[s].study = m /\ at'[s].pc = "entered"
          BY <4>1
        <4>3. QED
          BY <2>2, <3>1, <4>2
      <3>5. CASE Takes(s)
        BY <2>2, <3>1, <3>5 DEF Takes
      <3>6. CASE Stands(s)
        BY <2>2, <3>1, <3>6 DEF Stands
      <3>7. QED
        BY <3>2, <3>3, <3>4, <3>5, <3>6 DEF Sorted
    <2>3. QED
      BY <2>1, <2>2
  <1>8. ASSUME disk'.manifest # "absent"
        PROVE  \E r \in Suites : \A n \in DOMAIN job'[r].studies : Ready(n)
    <2>1. CASE disk.manifest # "absent"
      <3>1. PICK r \in Suites : \A n \in DOMAIN job[r].studies : Whole(n)
        BY <2>1 DEF Finished
      <3>2. QED
        BY <1>3, <1>4, <1>5, <3>1
    <2>2. CASE disk.manifest = "absent"
      <3>1. at[s].pc \in {"listing", "ending"}
        BY <1>8, <2>2, OthersAreKept
      <3>2. \A n \in studies : Whole(n)
        BY <3>1 DEF Finished
      <3>3. QED
        BY <1>3, <1>4, <1>5, <3>2
    <2>3. QED
      BY <2>1, <2>2
  <1>9. QED
    BY <1>6, <1>7, <1>8 DEF Finished, Whole

LEMMA ConsistentStays ==
    ASSUME Shaped, Consistent, [Next]_vars
    PROVE  Consistent'
  <1>1. CASE Next
    <2>1. PICK s \in Suites : Step(s)
      BY <1>1 DEF Next, Step
    <2>2. Shaped' /\ Alone(s)
      BY <2>1, StepsKeepShape, StepsAreAlone
    <2>3. Sorted(s)
      BY <2>1, StepsAreSorted DEF Consistent, Sorted
    <2>4. Exclusive'
      BY <2>2, <2>3, ExclusiveStays DEF Consistent
    <2>5. Owned'
      BY <2>2, <2>3, <2>4, OwnedStays DEF Consistent
    <2>6. \A n \in 1 .. 2 : Sound(disk'.study[n])
      BY <2>3, SoundStays DEF Consistent
    <2>7. Finished'
      BY <2>2, <2>3, FinishedStays DEF Consistent
    <2>8. QED
      BY <2>4, <2>5, <2>6, <2>7 DEF Consistent, Sound, TracesFollow, Matched
  <1>2. CASE UNCHANGED vars
    <2>1. job' = job /\ at' = at /\ disk' = disk
      BY <1>2 DEF vars
    <2>2. Exclusive'
      BY <2>1 DEF Consistent, Exclusive, Dir, Owning, Fresh
    <2>3. Owned'
      BY <2>1 DEF Consistent, Owned, Dir, Config
    <2>4. \A n \in 1 .. 2 : Sound(disk'.study[n])
      BY <2>1 DEF Consistent
    <2>5. Finished'
      BY <2>1 DEF Consistent, Finished, Whole
    <2>6. QED
      BY <2>2, <2>3, <2>4, <2>5 DEF Consistent, Sound, TracesFollow, Matched
  <1>3. QED
    BY <1>1, <1>2

LEMMA InitIsConsistent ==
    ASSUME Init
    PROVE  Consistent
  <1>1. /\ at = [s \in Suites |-> NewSuite(1)] /\ DOMAIN disk = {"manifest", "study"}
        /\ disk.manifest = "absent" /\ disk.study = [n \in 1 .. 2 |-> NewDirectory]
    BY DEF Init
  <1>2. \A s \in Suites : at[s] = NewSuite(1) /\ at[s].study = 1 /\ at[s].pc = "start"
    BY <1>1 DEF NewSuite
  <1>3. \A n \in 1 .. 2 : disk.study[n] = NewDirectory
    BY <1>1
  <1>4. \A s \in Suites : Dir(s) = NewDirectory
    BY <1>2, <1>3 DEF Dir
  <1>5. DOMAIN NewDirectory = DirFields /\ NewDirectory.by = {}
    BY DEF NewDirectory, DirFields
  <1>6. ~NewDirectory.instances /\ ~NewDirectory.made
    BY DEF NewDirectory
  <1>7. Exclusive
    BY <1>1, <1>2, <1>3, <1>4, <1>5, <1>6 DEF Exclusive, Owning, Fresh
  <1>8. Owned
    BY <1>4, <1>5 DEF Owned
  <1>9. Sound(NewDirectory)
    <2>1. /\ NewDirectory.tables = {} /\ NewDirectory.maps = {}
          /\ NewDirectory.rows = <<>> /\ NewDirectory.traces = <<>> /\ ~NewDirectory.spilled
      BY DEF NewDirectory
    <2>2. QED
      BY <2>1 DEF Sound, TracesFollow, Matched
  <1>10. Finished
    BY <1>1, <1>2, <1>3, <1>6 DEF Finished
  <1>11. QED
    BY <1>3, <1>7, <1>8, <1>9, <1>10 DEF Consistent

LEMMA OwnedIsReliable ==
    ASSUME Consistent, NEW s \in Suites, s \in Dir(s).by
    PROVE  /\ RowsInOrder(s)
           /\ Of(s, {"unreadable"}) = {}
           /\ Begun(s) /\ Config(s).family = "natural_critical_random" =>
                /\ Dir(s).manifest = "whole"
                /\ at[s].accepted = Dir(s).tables
           /\ Dir(s).summary # "absent" =>
                /\ Of(s, {"row"}) = DOMAIN at[s].tasks
                /\ Len(Dir(s).traces) = Len(at[s].tasks)
  <1> DEFINE c == Config(s)
             a == at[s]
             d == Dir(s)
  <1>1. BuiltFine(c, a, d) /\ EpisodesFine(a, d) /\ RowsFine(c, a, d) /\ SummaryFine(a, d)
    BY DEF Consistent, Owned, Work
  <1>2. ASSUME NEW i \in DOMAIN a.episodes
        PROVE  i \in DOMAIN a.tasks /\ a.tasks[i] \in TasksOn(c, d.tables)
    <2>1. i \in DOMAIN a.tasks /\ a.tasks \in Seq(TasksOn(c, d.tables))
      BY <1>1 DEF EpisodesFine, BuiltFine
    <2>2. QED
      BY <2>1
  <1>3. RowsInOrder(s)
    <2>1. SUFFICES ASSUME NEW i \in DOMAIN d.rows
                   PROVE  /\ d.rows[i].task = a.tasks[i]
                          /\ d.rows[i].instance \in d.tables \cap d.maps
                          /\ d.rows[i].instance.density = d.rows[i].task.density
                          /\ d.rows[i].instance.radius = d.rows[i].task.radius
                          /\ d.rows[i].instance.seed = d.rows[i].task.layout
      BY <1>1 DEF RowsInOrder, RowsFine
    <2> DEFINE t == a.tasks[i]
    <2>2. d.rows[i] = RowOf(c, a.tasks, i) /\ t \in TasksOn(c, d.tables)
      BY <1>1, <1>2 DEF RowsFine
    <2>3. d.rows[i].task = t /\ d.rows[i].instance = t.path
      BY <2>2 DEF RowOf
    <2>4. t.path \in d.tables /\ t.path = Instance(c, Wanting(t))
      BY <2>2 DEF TasksOn
    <2>5. t.path.density = t.density /\ t.path.radius = t.radius /\ t.path.seed = t.layout
      BY <2>4 DEF Instance, Wanting
    <2>6. d.tables \subseteq d.maps
      BY <1>1 DEF BuiltFine
    <2>7. QED
      BY <2>3, <2>4, <2>5, <2>6
  <1>4. Of(s, {"unreadable"}) = {}
    BY <1>1 DEF Of, EpisodesFine
  <1>5. ASSUME Begun(s), c.family = "natural_critical_random"
        PROVE  d.manifest = "whole" /\ a.accepted = d.tables
    <2>1. a.accepted = d.tables
      BY <1>1, <1>5 DEF BuiltFine
    <2>2. PICK i : i \in DOMAIN a.episodes
      BY <1>5 DEF Begun, Of
    <2>3. a.tasks[i].path \in d.tables
      BY <1>2, <2>2 DEF TasksOn
    <2>4. QED
      BY <1>1, <2>1, <2>2, <2>3 DEF EpisodesFine
  <1>6. ASSUME d.summary # "absent"
        PROVE  Of(s, {"row"}) = DOMAIN a.tasks /\ Len(d.traces) = Len(a.tasks)
    BY <1>1, <1>6 DEF SummaryFine, EpisodesFine, Of
  <1>7. QED
    BY <1>3, <1>4, <1>5, <1>6

\* Whatever was killed, failed or raced for a directory, the files in it are
\* the work of one suite, its rows and traces those of its first conditions in
\* their order, run on instances of which both files and, for searched ones, the
\* list are there; a summary stands only over complete files, and the manifest
\* of a matrix only over complete studies: run_suite in cmvr/env/psr_runner.py
\* and the scripts that call it, for all jobs, processes and numbers of workers.
THEOREM OutputsAreConsistent == Spec => []OutputsConsistent
  <1>1. Init => Shaped /\ Consistent
    BY InitIsShaped, InitIsConsistent
  <1>2. Shaped /\ Consistent /\ [Next]_vars => Consistent'
    BY ConsistentStays
  <1>3. Shaped /\ Consistent => OutputsConsistent
    <2>1. SUFFICES ASSUME Shaped, Consistent PROVE OutputsConsistent
      OBVIOUS
    <2>2. ASSUME NEW n \in 1 .. 2
          PROVE  LET dir == disk.study[n] IN
                    /\ Cardinality(dir.by) <= 1
                    /\ dir.tables \subseteq dir.maps
                    /\ TracesFollow(dir) /\ Matched(dir)
                    /\ dir.made /\ n > 1 => disk.study[n - 1].summary = "whole"
      <3> DEFINE dir == disk.study[n]
      <3>1. Cardinality(dir.by) <= 1
        <4>1. CASE dir.by = {}
          BY <4>1, FS_EmptySet
        <4>2. CASE dir.by # {}
          <5>1. PICK s : s \in dir.by
            BY <4>2
          <5>2. dir.by = {s}
            BY <2>1, <5>1 DEF Consistent, Exclusive
          <5>3. Cardinality({s}) = 1
            BY FS_Singleton
          <5>4. QED
            BY <5>2, <5>3
        <4>3. QED
          BY <4>1, <4>2
      <3>2. dir.tables \subseteq dir.maps /\ TracesFollow(dir) /\ Matched(dir)
        BY <2>1 DEF Consistent, Sound
      <3>3. dir.made /\ n > 1 => disk.study[n - 1].summary = "whole"
        BY <2>1 DEF Consistent, Finished, Whole
      <3>4. QED
        BY <3>1, <3>2, <3>3
    <2>3. disk.manifest # "absent" =>
            \E s \in Suites : \A n \in DOMAIN job[s].studies : disk.study[n].summary = "whole"
      BY <2>1 DEF Consistent, Finished, Whole
    <2>4. QED
      BY <2>1, <2>2, <2>3, OwnedIsReliable DEF OutputsConsistent
  <1>4. QED
    BY <1>1, <1>2, <1>3, SuitesAreShaped, PTL DEF Spec

-----------------------------------------------------------------------------
\* What passes the checks can be encoded.

LEMMA ProductsGrow ==
    ASSUME NEW a \in Nat, NEW b \in Nat, NEW x \in Nat, NEW y \in Nat, a <= x, b <= y
    PROVE  a * b <= x * y /\ a * b \in Nat
  <1>1. a * b <= x * b
    BY ProductGrows
  <1>2. b * x <= y * x
    BY ProductGrows
  <1>3. a * b \in Nat /\ b * x = x * b /\ y * x = x * y /\ x * b \in Nat /\ x * y \in Nat
    OBVIOUS
  <1>4. QED
    BY <1>1, <1>2, <1>3

LEMMA DivisionFacts ==
    ASSUME NEW l \in Nat, NEW k \in Nat \ {0}
    PROVE  l \div k \in Int /\ l % k \in 0 .. k - 1 /\ l = (l \div k) * k + (l % k)
  <1>1. l \div k \in Int /\ l % k \in 0 .. k - 1
    OBVIOUS
  <1>2. l = (l \div k) * k + (l % k)
    OBVIOUS
  <1>3. QED
    BY <1>1, <1>2

\* A loop that multiplies by the fanout until there are leaves enough.
Grown(f, S, g) == g = [n \in Nat |-> IF n >= S THEN n ELSE g[n * f]]

LEMMA LeavesAreDefined ==
    ASSUME NEW f \in Nat, f >= 2, NEW S \in Nat \ {0}
    PROVE  \E g : Grown(f, S, g)
  <1> DEFINE Right(g, K) ==
                \A n \in Nat : n >= 1 /\ n + K >= S => g[n] = IF n >= S THEN n ELSE g[n * f]
             T == {K \in Nat : \E g \in [Nat -> Nat] : Right(g, K)}
  <1>1. 0 \in T
    <2>1. [n \in Nat |-> n] \in [Nat -> Nat] /\ Right([n \in Nat |-> n], 0)
      OBVIOUS
    <2>2. QED
      BY <2>1
  <1>2. \A K \in Nat : K \in T => K + 1 \in T
    <2> HIDE DEF Right
    <2>1. SUFFICES ASSUME NEW K \in Nat, NEW g \in [Nat -> Nat], Right(g, K)
                   PROVE  \E h \in [Nat -> Nat] : Right(h, K + 1)
      OBVIOUS
    <2> USE DEF Right
    <2> DEFINE h == [n \in Nat |-> IF n + K + 1 = S THEN g[n * f] ELSE g[n]]
    <2>2. \A n \in Nat : n * f \in Nat
      OBVIOUS
    <2>3. h \in [Nat -> Nat]
      BY <2>2
    <2>4. ASSUME NEW n \in Nat, n >= 1, n + (K + 1) >= S
          PROVE  h[n] = IF n >= S THEN n ELSE h[n * f]
      <3>1. n * f > n
        <4>1. 2 * n <= f * n
          BY ProductGrows
        <4>2. f * n = n * f
          OBVIOUS
        <4>3. QED
          BY <2>4, <4>1, <4>2
      <3>2. h[n * f] = g[n * f]
        BY <2>2, <2>4, <3>1
      <3>3. CASE n + K + 1 = S
        BY <3>2, <3>3
      <3>4. CASE n + K + 1 # S
        <4>1. h[n] = g[n] /\ n + K >= S
          BY <2>4, <3>4
        <4>2. QED
          BY <2>1, <2>4, <3>2, <4>1
      <3>5. QED
        BY <3>3, <3>4
    <2> HIDE DEF h
    <2>5. Right(h, K + 1)
      BY <2>4
    <2>6. QED
      BY <2>3, <2>5
  <1>3. S \in T
    <2> HIDE DEF T
    <2>1. QED
      BY <1>1, <1>2, InductionInSet
  <1>4. PICK g \in [Nat -> Nat] : Right(g, S)
    BY <1>3
  <1>5. ASSUME NEW n \in Nat
        PROVE  g[n] = IF n >= S THEN n ELSE g[n * f]
    <2>1. CASE n = 0
      <3>1. n * f = 0
        BY <2>1
      <3>2. QED
        BY <2>1, <3>1
    <2>2. CASE n # 0
      BY <1>4, <2>2
    <2>3. QED
      BY <2>1, <2>2
  <1>6. Grown(f, S, g)
    BY <1>5 DEF Grown
  <1>7. QED
    BY <1>6

LEMMA LeavesAreBounded ==
    ASSUME NEW f \in Nat, f >= 2, NEW S \in Nat \ {0}, NEW g, Grown(f, S, g)
    PROVE  g[1] \in 1 .. S * f
  <1>1. \A n \in Nat : g[n] = IF n >= S THEN n ELSE g[n * f]
    BY DEF Grown
  <1>2. S * f \in Nat /\ \A n \in Nat : n * f \in Nat
    OBVIOUS
  <1> DEFINE B == S * f
             T == {K \in Nat : \A n \in Nat : n >= 1 /\ n + K >= S /\ n <= B => g[n] \in 1 .. B}
  <1> HIDE DEF B
  <1>3. 0 \in T
    BY <1>1, <1>2 DEF B
  <1>4. \A K \in Nat : K \in T => K + 1 \in T
    <2>1. SUFFICES ASSUME NEW K \in Nat, K \in T, NEW n \in Nat, n >= 1, n + K + 1 >= S, n <= B
                   PROVE  g[n] \in 1 .. B
      OBVIOUS
    <2>2. CASE n >= S
      BY <1>1, <2>1, <2>2
    <2>3. CASE n < S
      <3>1. n * f > n
        <4>1. 2 * n <= f * n
          BY ProductGrows
        <4>2. f * n = n * f
          OBVIOUS
        <4>3. QED
          BY <2>1, <4>1, <4>2
      <3>2. n * f <= B
        BY <2>3, ProductGrows DEF B
      <3>3. g[n] = g[n * f]
        BY <1>1, <2>3
      <3>4. n * f \in Nat /\ n * f >= 1 /\ n * f + K >= S
        BY <1>2, <2>1, <3>1
      <3>5. g[n * f] \in 1 .. B
        BY <2>1, <3>2, <3>4
      <3>6. QED
        BY <3>3, <3>5
    <2>4. QED
      BY <2>2, <2>3
  <1>5. S \in T
    <2> HIDE DEF T
    <2>1. QED
      BY <1>3, <1>4, InductionInSet
  <1>6. 1 <= S * f
    <2>1. 1 * f <= S * f
      BY ProductGrows
    <2>2. QED
      BY <2>1
  <1>7. QED
    BY <1>5, <1>6 DEF B

LEMMA LastLeafFits ==
    ASSUME NEW c, c.size \in 1 .. 64, c.fanout \in 2 .. 255
    PROVE  NodeFits(LastLeaf(c))
  <1> DEFINE S == c.size * c.size
             f == c.fanout
             L == LeafCount(c)
             q == (L - 1) \div (f - 1)
  <1>1. S \in 1 .. 4096
    <2>1. c.size * c.size <= 64 * 64 /\ c.size * c.size \in Nat
      BY ProductsGrow
    <2>2. 1 * c.size <= c.size * c.size
      BY ProductGrows
    <2>3. QED
      BY <2>1, <2>2
  <1>2. f \in Nat /\ f >= 2
    OBVIOUS
  <1> HIDE DEF S, f, L
  <1>3. L \in 1 .. S * f
    <2>1. \E h : Grown(f, S, h)
      <3>1. S \in Nat \ {0}
        BY <1>1
      <3>2. QED
        BY <1>2, <3>1, LeavesAreDefined
    <2> DEFINE g == CHOOSE h : Grown(f, S, h)
    <2>2. L = g[1]
      BY DEF LeafCount, Grown, L, S, f
    <2>3. Grown(f, S, g)
      BY <2>1
    <2> HIDE DEF g
    <2>4. g[1] \in 1 .. S * f
      BY <1>1, <1>2, <2>3, LeavesAreBounded
    <2>5. QED
      BY <2>2, <2>4
  <1>4. L - 1 <= 8192 * (f - 1)
    <2>1. S * f <= 4096 * f
      BY <1>1, <1>2, ProductGrows
    <2>2. S * f \in Nat
      BY <1>1, <1>2
    <2>3. QED
      BY <1>2, <1>3, <2>1, <2>2
  <1>5. q \in 0 .. 8192
    <2>1. L - 1 \in Nat /\ f - 1 \in Nat \ {0}
      <3>1. S * f \in Nat
        BY <1>1, <1>2
      <3>2. QED
        BY <1>2, <1>3, <3>1
    <2> DEFINE r == (L - 1) % (f - 1)
               k == f - 1
               l == L - 1
    <2>2. q \in Int /\ r \in 0 .. k - 1 /\ l = q * k + r
      <3> HIDE DEF l, k
      <3>1. l \in Nat /\ k \in Nat \ {0}
        BY <2>1 DEF l, k
      <3>2. l \div k \in Int /\ l % k \in 0 .. k - 1 /\ l = (l \div k) * k + (l % k)
        BY <3>1, DivisionFacts
      <3>3. QED
        BY <3>2 DEF l, k
    <2>3. k \in Nat \ {0} /\ l <= 8192 * k /\ l >= 0
      BY <1>4, <2>1
    <2> HIDE DEF q, r, k, l
    <2>4. q <= 8192
      <3>1. SUFFICES ASSUME 8193 <= q PROVE FALSE
        BY <2>2
      <3>2. 8193 * k <= q * k
        BY <2>2, <2>3, <3>1, ProductGrows
      <3>3. q * k \in Int
        BY <2>2, <2>3
      <3>4. QED
        BY <2>2, <2>3, <3>2, <3>3
    <2>5. q >= 0
      <3>1. SUFFICES ASSUME q <= -1 PROVE FALSE
        BY <2>2
      <3>2. q * k <= (-1) * k
        BY <2>2, <2>3, <3>1, ProductGrows
      <3>3. q * k \in Int
        BY <2>2, <2>3
      <3>4. QED
        BY <2>2, <2>3, <3>2, <3>3
    <2>6. QED
      BY <2>2, <2>4, <2>5
  <1>6. LastLeaf(c) = q + S
    BY DEF LastLeaf, L, S, f
  <1> HIDE DEF q
  <1>7. QED
    BY <1>1, <1>5, <1>6 DEF NodeFits, Bounded

\* The numbers of a configuration the checks do not bound themselves.
SketchIsSmall(c) == c.hashes <= 255 /\ c.cells <= 65535

IntFields ==
    {"agents", "size", "steps", "data", "control", "seed", "partitions", "fanout", "hashes", "cells"}

LEMMA SmallIsLong ==
    ASSUME NEW n \in Nat, n <= 65535 * 65536
    PROVE  FitsLong(n)
  BY DEF FitsLong

LEMMA VersionFits ==
    ASSUME NEW c, NEW u, c.size \in 1 .. 64, u.time \in Nat, u.time <= 65534,
           u.x \in 0 .. c.size - 1, u.y \in 0 .. c.size - 1
    PROVE  FitsLong(ScuttleVersion(c, u))
  <1> DEFINE k == c.size
             t == u.time
             x == u.x
             y == u.y
  <1>1. k \in 1 .. 64 /\ t \in Nat /\ t <= 65534 /\ x \in 0 .. 63 /\ y \in 0 .. 63
    OBVIOUS
  <1>2. ScuttleVersion(c, u) = t * k * k + x * k + y + 1
    BY DEF ScuttleVersion
  <1> HIDE DEF k, t, x, y
  <1>3. t * k <= 65534 * 64 /\ t * k \in Nat
    BY <1>1, ProductsGrow
  <1>4. (t * k) * k <= (65534 * 64) * 64 /\ (t * k) * k \in Nat
    <2> DEFINE a == t * k
    <2>1. a \in Nat /\ a <= 4194176
      BY <1>3
    <2> HIDE DEF a
    <2>2. k \in Nat /\ k <= 64 /\ 4194176 \in Nat /\ 64 \in Nat
      BY <1>1
    <2>3. a * k <= 4194176 * 64 /\ a * k \in Nat
      BY <2>1, <2>2, ProductsGrow
    <2>4. QED
      BY <2>3 DEF a
  <1>5. x * k <= 63 * 64 /\ x * k \in Nat
    BY <1>1, ProductsGrow
  <1> DEFINE n == t * k * k + x * k + y + 1
  <1>6. n \in Nat /\ n <= 65535 * 65536
    <2> DEFINE a == (t * k) * k
               b == x * k
    <2>1. a \in Nat /\ a <= 268427264 /\ b \in Nat /\ b <= 4032
      BY <1>4, <1>5
    <2>2. n = a + b + y + 1
      OBVIOUS
    <2> HIDE DEF a, b, n
    <2>3. QED
      BY <1>1, <2>1, <2>2
  <1> HIDE DEF n
  <1>7. FitsLong(n)
    BY <1>6, SmallIsLong
  <1>8. QED
    BY <1>2, <1>7 DEF n

LEMMA ChecksSuffice ==
    ASSUME NEW c, \A f \in IntFields : c[f] \in Int, ConfigAccepted(c), EpisodeAccepted(c),
           SketchIsSmall(c)
    PROVE  ~RefusedLate(c)
  <1>1. SUFFICES ASSUME NEW u, Reported(c, u) PROVE Encodable(c, u)
    BY DEF RefusedLate
  <1>2. /\ c.agents \in Int /\ c.size \in Int /\ c.steps \in Int /\ c.seed \in Int
        /\ c.partitions \in Int /\ c.fanout \in Int /\ c.hashes \in Int /\ c.cells \in Int
    BY DEF IntFields
  <1>3. c.size \in 1 .. 64 /\ c.agents <= 63 /\ c.steps <= 65535
    BY <1>1, <1>2 DEF Reported, EpisodeAccepted
  <1>4. /\ u.x \in 0 .. c.size - 1 /\ u.y \in 0 .. c.size - 1 /\ u.sender \in 0 .. 62
        /\ u.version = 1 /\ u.time \in Nat /\ u.time <= 65534 /\ u.state \in {"free", "blocked"}
    BY <1>1, <1>2, <1>3 DEF Reported
  <1>5. DeltaFits(u)
    <2>1. FitsLong(u.time)
      <3>1. u.time \in Nat /\ u.time <= 65534
        BY <1>4
      <3>2. \A n \in Nat : n <= 65534 => FitsLong(n)
        BY DEF FitsLong
      <3>3. QED
        BY <3>1, <3>2
    <2>2. u.x \in 0 .. 63 /\ u.y \in 0 .. 63
      BY <1>3, <1>4
    <2>3. QED
      BY <1>4, <2>1, <2>2 DEF DeltaFits, Bounded
  <1>6. EntryFits(StampOf(u)) /\ EntryFits(UnknownStamp(u.x, u.y))
    <2>1. u.x \in 0 .. 63 /\ u.y \in 0 .. 63
      BY <1>3, <1>4
    <2>2. QED
      BY <1>4, <2>1 DEF EntryFits, StampOf, UnknownStamp, Bounded
  <1>7. c.size * c.size \in Nat /\ c.size * c.size <= 4096
    <2>1. c.size * c.size <= 64 * 64 /\ c.size * c.size \in Nat
      BY <1>3, ProductsGrow
    <2>2. QED
      BY <2>1
  <1>8. c.agents <= 256 /\ FitsLong(ScuttleVersion(c, u))
    BY <1>2, <1>3, <1>4, VersionFits
  <1>9. NodeFits(LastLeaf(c)) /\ Bounded(c.fanout, 1, 255)
    <2>1. c.fanout \in 2 .. 255
      <3>1. Bounded(c.fanout, 2, 255)
        BY DEF ConfigAccepted
      <3>2. QED
        BY <1>2, <3>1 DEF Bounded
    <2>2. NodeFits(LastLeaf(c))
      BY <1>3, <2>1, LastLeafFits
    <2>3. QED
      BY <2>1, <2>2 DEF Bounded
  <1>10. /\ Bounded(c.hashes, 2, 255) /\ Bounded(c.cells, c.hashes, 65535)
         /\ FitsLong(c.seed + c.partitions - 1)
    BY <1>2 DEF ConfigAccepted, SketchIsSmall, Bounded
  <1>11. Bounded(c.size * c.size, 0, 65535) /\ Bounded(c.size * c.size, 0, 32767)
    BY <1>7 DEF Bounded
  <1>12. QED
    BY <1>5, <1>6, <1>8, <1>9, <1>10, <1>11 DEF Encodable

-----------------------------------------------------------------------------
\* That no episode is refused late.

\* The jobs have sketches that their codec can announce.
SketchesAreSmall ==
    \A f \in Starts : \A s \in Suites : \A n \in DOMAIN f[s].studies :
        SketchIsSmall(f[s].studies[n])

LateFree(a) == \A i \in DOMAIN a.episodes : a.episodes[i] # "late"

Timely == job \in Starts /\ \A s \in Suites : LateFree(at[s])

LEMMA OutcomesAreTimely ==
    ASSUME SketchesAreSmall, Shaped, job \in Starts, NEW s \in Suites, NEW i
    PROVE  Outcome(s, i) # "late"
  <1> DEFINE c == [Config(s) EXCEPT !.policy = at[s].tasks[i].policy]
  <1>1. Config(s) \in Configs
    BY JobsAreConfigs
  <1>2. \A f \in IntFields : Config(s)[f] \in Int
    BY <1>1 DEF Configs, IntFields
  <1>3. DOMAIN Config(s) = DOMAIN c /\ \A f \in DOMAIN Config(s) \ {"policy"} : c[f] = Config(s)[f]
    OBVIOUS
  <1>4. IntFields \subseteq DOMAIN Config(s) \ {"policy"}
    BY <1>1 DEF Configs, IntFields
  <1>5. SketchIsSmall(Config(s))
    <2>1. at[s].study \in DOMAIN job[s].studies
      BY DEF Shaped, Well
    <2>2. QED
      BY <2>1 DEF SketchesAreSmall, Config
  <1> HIDE DEF c
  <1>6. \A f \in IntFields : c[f] \in Int /\ c[f] = Config(s)[f]
    BY <1>2, <1>3, <1>4
  <1>7. SketchIsSmall(c)
    <2>1. "hashes" \in IntFields /\ "cells" \in IntFields
      BY DEF IntFields
    <2>2. QED
      BY <1>5, <1>6, <2>1 DEF SketchIsSmall
  <1>8. ConfigAccepted(c) /\ EpisodeAccepted(c) => ~RefusedLate(c)
    BY <1>6, <1>7, ChecksSuffice
  <1>9. QED
    BY <1>8 DEF Outcome, c

\* Only the end of an episode gives it an outcome.
LEMMA StepsAreTimely ==
    ASSUME SketchesAreSmall, Shaped, job \in Starts, NEW s \in Suites, Step(s), LateFree(at[s])
    PROVE  LateFree(at'[s])
  <1>1. /\ DOMAIN at = Suites /\ DOMAIN at[s] = Fields
        /\ {"pc", "study", "built", "paths", "tasks", "accepted", "episodes"} \subseteq DOMAIN at[s]
    BY DEF Shaped, Well, Fields
  <1>2. ASSUME NEW x, Go(s, x) PROVE LateFree(at'[s])
    <2>1. at'[s] = [at[s] EXCEPT !.pc = x]
      BY <1>1, <1>2 DEF Go
    <2>2. at'[s].episodes = at[s].episodes
      BY <1>1, <2>1
    <2>3. QED
      BY <2>2 DEF LateFree
  <1>3. ASSUME at' = at PROVE LateFree(at'[s])
    BY <1>3
  <1>4. ASSUME NEW e, at' = [at EXCEPT ![s].episodes = e], \A i \in DOMAIN e : e[i] # "late"
        PROVE  LateFree(at'[s])
    <2>1. at'[s] = [at[s] EXCEPT !.episodes = e]
      BY <1>1, <1>4
    <2>2. at'[s].episodes = e
      BY <1>1, <2>1
    <2>3. QED
      BY <1>4, <2>2 DEF LateFree
  <1>5. ASSUME NEW i, NEW x, x # "late", Episode(s, i, x) PROVE LateFree(at'[s])
    <2>1. at'[s] = [at[s] EXCEPT !.episodes = [at[s].episodes EXCEPT ![i] = x]]
      BY <1>1, <1>5 DEF Episode
    <2>2. at'[s].episodes = [at[s].episodes EXCEPT ![i] = x]
      BY <1>1, <2>1
    <2>3. QED
      BY <1>5, <2>2 DEF LateFree
  <1>6. CASE \E x : Go(s, x)
    BY <1>2, <1>6
  <1>7. CASE UNCHANGED at
    BY <1>3, <1>7
  <1>8. CASE CheckOutput(s) \/ Plan(s) \/ Generate(s) \/ BuildInstance(s)
    BY <1>6, <1>8 DEF CheckOutput, Plan, Generate, BuildInstance
  <1>9. CASE MakeOutput(s) \/ GiveUp(s) \/ SaveMap(s) \/ EndManifest(s) \/ OpenFiles(s)
    BY <1>6, <1>9 DEF MakeOutput, GiveUp, SaveMap, EndManifest, OpenFiles
  <1>10. CASE WriteRow(s) \/ WriteTraces(s) \/ ShutDown(s) \/ OpenSummary(s) \/ OpenList(s)
              \/ EndList(s) \/ Crash(s)
    BY <1>6, <1>10 DEF WriteRow, WriteTraces, ShutDown, OpenSummary, OpenList, EndList, Crash
  <1>11. CASE MakeInstances(s)
    BY <1>6, <1>11 DEF MakeInstances
  <1>12. CASE Freeze(s)
    BY <1>6, <1>12 DEF Freeze
  <1>13. CASE DrawPair(s)
    <2>1. \E x : Go(s, x)
      BY <1>13 DEF DrawPair
    <2>2. QED
      BY <1>6, <2>1
  <1>14. CASE SampleMap(s) \/ SpillTraces(s)
    BY <1>7, <1>14 DEF SampleMap, SpillTraces
  <1>15. CASE SaveTable(s)
    <2>1. PICK n, p, x, z : at' = [at EXCEPT ![s].pc = "generating", ![s].built = n,
                                       ![s].paths = p, ![s].accepted = x, ![s].tasks = z]
      BY <1>15, ZenonT(60) DEF SaveTable
    <2>2. at'[s].episodes = at[s].episodes
      BY <1>1, <2>1
    <2>3. QED
      BY <2>2 DEF LateFree
  <1>16. CASE Launch(s)
    <2>1. CASE Config(s).workers < 1 \/ (Config(s).workers > 1 /\ at[s].tasks = <<>>)
      BY <1>6, <1>16, <2>1 DEF Launch
    <2>2. CASE ~(Config(s).workers < 1 \/ (Config(s).workers > 1 /\ at[s].tasks = <<>>))
      <3> DEFINE e == [i \in DOMAIN at[s].tasks |-> "waiting"]
      <3>1. at' = [at EXCEPT ![s].pc = "opening", ![s].episodes = e]
        BY <1>16, <2>2 DEF Launch
      <3> HIDE DEF e
      <3>2. at'[s].episodes = e
        BY <1>1, <3>1
      <3>3. \A i \in DOMAIN e : e[i] = "waiting"
        BY DEF e
      <3>4. QED
        BY <3>2, <3>3 DEF LateFree
    <2>3. QED
      BY <2>1, <2>2
  <1>17. CASE StartEpisode(s)
    <2>1. PICK i : Episode(s, i, "running")
      BY <1>17 DEF StartEpisode
    <2>2. QED
      BY <1>5, <2>1
  <1>18. CASE FinishEpisode(s)
    <2>1. PICK i : Episode(s, i, Outcome(s, i))
      BY <1>18 DEF FinishEpisode
    <2>2. QED
      BY <1>5, <2>1, OutcomesAreTimely
  <1>19. CASE PoolBreaks(s)
    <2> DEFINE old == at[s].episodes
               e == [i \in DOMAIN old |->
                        IF old[i] \in {"waiting", "running"} THEN "broken" ELSE old[i]]
    <2>1. at' = [at EXCEPT ![s].episodes = e]
      BY <1>19 DEF PoolBreaks
    <2>2. \A i \in DOMAIN e : e[i] # "late"
      BY DEF LateFree
    <2> HIDE DEF e
    <2>3. QED
      BY <1>4, <2>1, <2>2
  <1>20. CASE RaiseFailure(s)
    <2> DEFINE old == at[s].episodes
               e == [i \in DOMAIN old |-> IF old[i] = "waiting" THEN "cancelled" ELSE old[i]]
    <2>1. at' = [at EXCEPT ![s].pc = "failing", ![s].episodes = e]
      BY <1>20, ZenonT(60) DEF RaiseFailure
    <2>2. \A i \in DOMAIN e : e[i] # "late"
      BY DEF LateFree
    <2> HIDE DEF e
    <2>3. at'[s].episodes = e
      BY <1>1, <2>1
    <2>4. QED
      BY <2>2, <2>3 DEF LateFree
  <1>21. CASE WriteSummary(s)
    <2>1. CASE job[s].kind = "suite"
      <3>1. at'[s] = [at[s] EXCEPT !.pc = "done"]
        BY <1>1, <1>21, <2>1 DEF WriteSummary
      <3>2. at'[s].episodes = at[s].episodes
        BY <1>1, <3>1
      <3>3. QED
        BY <3>2 DEF LateFree
    <2>2. CASE job[s].kind # "suite" /\ at[s].study = Len(job[s].studies)
      <3>1. at'[s] = [at[s] EXCEPT !.pc = "listing"]
        BY <1>1, <1>21, <2>2 DEF WriteSummary
      <3>2. at'[s].episodes = at[s].episodes
        BY <1>1, <3>1
      <3>3. QED
        BY <3>2 DEF LateFree
    <2>3. CASE job[s].kind # "suite" /\ at[s].study # Len(job[s].studies)
      <3>1. at'[s] = [NewSuite(at[s].study + 1) EXCEPT !.pc = "ready"]
        BY <1>1, <1>21, <2>3 DEF WriteSummary
      <3>2. at'[s].episodes = <<>>
        BY <3>1 DEF NewSuite
      <3>3. QED
        BY <3>2 DEF LateFree
    <2>4. QED
      BY <2>1, <2>2, <2>3
  <1>22. QED
    BY <1>8, <1>9, <1>10, <1>11, <1>12, <1>13, <1>14, <1>15, <1>16, <1>17, <1>18, <1>19, <1>20,
       <1>21 DEF Step

\* An episode that passed the checks of its configuration and its start is never
\* given up later over a value that does not fit its field on the wire, as long
\* as no sketch has more than 255 hash functions or 65535 cells: the checks of
\* PSRConfig and of run in cmvr/env/psr_runner.py cover what the codecs in
\* cmvr/communication/wire.py refuse, for all jobs, sizes of maps and fleets.
THEOREM NoEpisodeIsRefusedLate ==
    ASSUME SketchesAreSmall
    PROVE  Spec => []NoLateRefusal
  <1>1. Init => Timely
    <2>1. SUFFICES ASSUME Init PROVE Timely
      OBVIOUS
    <2>2. ASSUME NEW s \in Suites PROVE LateFree(at[s])
      <3>1. at[s].episodes = <<>>
        BY <2>1 DEF Init, NewSuite
      <3>2. QED
        BY <3>1 DEF LateFree
    <2>3. QED
      BY <2>1, <2>2 DEF Init, Timely
  <1>2. Shaped /\ Timely /\ [Next]_vars => Timely'
    <2>1. SUFFICES ASSUME Shaped, Timely, [Next]_vars PROVE Timely'
      OBVIOUS
    <2>2. CASE Next
      <3>1. PICK s \in Suites : Step(s)
        BY <2>2 DEF Next, Step
      <3>2. LateFree(at'[s])
        BY <2>1, <3>1, StepsAreTimely DEF Timely
      <3>3. job' = job /\ \A r \in Suites \ {s} : at'[r] = at[r]
        BY <3>1, StepsAreAlone DEF Alone
      <3>4. QED
        BY <2>1, <3>2, <3>3 DEF Timely, LateFree
    <2>3. CASE UNCHANGED vars
      BY <2>1, <2>3 DEF vars, Timely, LateFree
    <2>4. QED
      BY <2>1, <2>2, <2>3
  <1>3. Timely => NoLateRefusal
    BY DEF Timely, LateFree, NoLateRefusal, Of
  <1>4. QED
    BY <1>1, <1>2, <1>3, SuitesAreShaped, PTL DEF Spec

=============================================================================
