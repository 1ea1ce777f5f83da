------------------------- MODULE SummaryRepairProofs -------------------------
(***************************************************************************)
(* Repair by summaries and by rounds, for every team, map, budget and delay.*)
(*                                                                         *)
(* Summaries: what the receiver of a sketch reads from it are records that *)
(* only its own replica has, and all of them if the difference peels, for  *)
(* any table; SummaryInv is an invariant, and both policies implement      *)
(* MapSharing.                                                             *)
(*                                                                         *)
(* Rounds (the periodic full sync): SyncInv is an invariant, for every     *)
(* interval: a chunk never overdraws the budget, and is the same for every *)
(* teammate.  The sync implements MapSharing.                              *)
(***************************************************************************)
EXTENDS SummaryRepair, PeriodicFullSync, DeltaDeliveryProofs

-----------------------------------------------------------------------------
\* Peeling.  The recursion is one step at a time; what it computes from a
\* progress is where the steps from there end.

\* Every record has cells in the table (_iblt_indices is taken modulo the cells).
HashesInTable(seed, items) ==
    \A r \in items : Indices(seed, r) \subseteq Slots /\ Indices(seed, r) # {}

\* Where the steps from a progress end.
Ends(seed, items, p) ==
    {e \in Progress(items) : \E n \in Nat : \E s \in [0 .. n -> Progress(items)] :
        /\ s[0] = p /\ s[n] = e /\ e.queue = {}
        /\ \A i \in 0 .. n - 1 : s[i].queue # {} /\ s[i + 1] = Looked(seed, s[i])}

\* A pure cell holds the record that is read from it.
LEMMA PureCell ==
    ASSUME NEW cell, Pure(cell), IsFiniteSet(cell.keys)
    PROVE  LET r == CHOOSE x \in cell.keys : TRUE IN
           /\ r \in cell.keys /\ cell.keys = {r}
           /\ cell.count = 1 \/ cell.count = -1
  <1>1. Cardinality(cell.keys) = 1 /\ (cell.count = 1 \/ cell.count = -1)
    BY DEF Pure
  <1>2. \E r : cell.keys = {r}
    BY <1>1, FS_Singleton
  <1>3. QED
    BY <1>1, <1>2

LEMMA LookedTyped ==
    ASSUME NEW seed, NEW items, HashesInTable(seed, items), IsFiniteSet(items),
           NEW p \in Progress(items), p.queue # {}
    PROVE  Looked(seed, p) \in Progress(items)
  <1> DEFINE index == CHOOSE i \in p.queue : TRUE
             cell == p.table[index]
             item == CHOOSE x \in cell.keys : TRUE
  <1>1. index \in p.queue /\ index \in Slots /\ cell \in [count : Int, keys : SUBSET items]
    BY DEF Progress
  <1>2. CASE Pure(cell)
    <2>1. item \in items /\ cell.count \in Int
      <3>1. IsFiniteSet(cell.keys)
        BY <1>1, FS_Subset
      <3>2. QED
        BY <1>1, <1>2, <3>1, PureCell
    <2>2. Removed(seed, p.table, item, cell.count)
              \in [Slots -> [count : Int, keys : SUBSET items]]
      <3>1. \A i \in Slots : p.table[i].count \in Int /\ p.table[i].keys \subseteq items
                             /\ p.table[i] \in [count : Int, keys : SUBSET items]
        BY DEF Progress
      <3> HIDE DEF item, cell
      <3>2. QED
        BY <2>1, <3>1 DEF Removed, Xor
    <2>3. Indices(seed, item) \subseteq Slots
      BY <2>1 DEF HashesInTable
    <2>4. Looked(seed, p) = Taken(seed, p, index)
      BY <1>2 DEF Looked
    <2>5. Taken(seed, p, index) =
              [table |-> Removed(seed, p.table, item, cell.count),
               queue |-> (p.queue \ {index}) \cup Indices(seed, item),
               positive |-> IF cell.count = 1 THEN p.positive \cup {item} ELSE p.positive,
               negative |-> IF cell.count = 1 THEN p.negative ELSE p.negative \cup {item}]
      BY DEF Taken
    <2> HIDE DEF item, cell, index
    <2>6. QED
      BY <2>1, <2>2, <2>3, <2>4, <2>5 DEF Progress
  <1>3. CASE ~Pure(cell)
    BY <1>1, <1>3 DEF Looked, Progress
  <1>4. QED
    BY <1>2, <1>3

\* Nothing is left to look at.
LEMMA EndsStop ==
    ASSUME NEW seed, NEW items, NEW p \in Progress(items), p.queue = {}
    PROVE  Ends(seed, items, p) = {p}
  <1>1. p \in Ends(seed, items, p)
    <2> DEFINE s == [i \in 0 .. 0 |-> p]
    <2>1. /\ s \in [0 .. 0 -> Progress(items)]
          /\ s[0] = p /\ \A i \in 0 .. 0 - 1 : s[i].queue # {} /\ s[i + 1] = Looked(seed, s[i])
      OBVIOUS
    <2> HIDE DEF s
    <2>2. QED
      BY <2>1 DEF Ends
  <1>2. ASSUME NEW e \in Ends(seed, items, p) PROVE e = p
    <2>1. PICK n \in Nat : \E s \in [0 .. n -> Progress(items)] :
            /\ s[0] = p /\ s[n] = e /\ e.queue = {}
            /\ \A i \in 0 .. n - 1 : s[i].queue # {} /\ s[i + 1] = Looked(seed, s[i])
      BY <1>2 DEF Ends
    <2>2. n = 0
      BY <2>1
    <2>3. QED
      BY <2>1, <2>2
  <1>3. QED
    BY <1>1, <1>2

\* One step does not change where the steps end.
LEMMA EndsStep ==
    ASSUME NEW seed, NEW items, HashesInTable(seed, items), IsFiniteSet(items),
           NEW p \in Progress(items), p.queue # {}
    PROVE  Ends(seed, items, p) = Ends(seed, items, Looked(seed, p))
  <1> DEFINE next == Looked(seed, p)
  <1>1. next \in Progress(items)
    BY LookedTyped
  <1>2. ASSUME NEW e \in Ends(seed, items, p) PROVE e \in Ends(seed, items, next)
    <2>0. PICK n \in Nat : \E s \in [0 .. n -> Progress(items)] :
            /\ s[0] = p /\ s[n] = e /\ e.queue = {}
            /\ \A i \in 0 .. n - 1 : s[i].queue # {} /\ s[i + 1] = Looked(seed, s[i])
      BY <1>2 DEF Ends
    <2>1. PICK s \in [0 .. n -> Progress(items)] :
            /\ s[0] = p /\ s[n] = e /\ e.queue = {}
            /\ \A i \in 0 .. n - 1 : s[i].queue # {} /\ s[i + 1] = Looked(seed, s[i])
      BY <2>0
    <2> DEFINE t == [i \in 0 .. n - 1 |-> s[i + 1]]
    <2>2. n - 1 \in Nat
      BY <2>1
    <2>3. t \in [0 .. n - 1 -> Progress(items)] /\ t[0] = next /\ t[n - 1] = e
      BY <2>1, <2>2
    <2>4. \A i \in 0 .. (n - 1) - 1 : t[i].queue # {} /\ t[i + 1] = Looked(seed, t[i])
      BY <2>1, <2>2
    <2> HIDE DEF t, next
    <2>5. e \in Progress(items)
      BY <1>2 DEF Ends
    <2>6. QED
      BY <2>1, <2>2, <2>3, <2>4, <2>5 DEF Ends
  <1>3. ASSUME NEW e \in Ends(seed, items, next) PROVE e \in Ends(seed, items, p)
    <2>0. PICK n \in Nat : \E s \in [0 .. n -> Progress(items)] :
            /\ s[0] = next /\ s[n] = e /\ e.queue = {}
            /\ \A i \in 0 .. n - 1 : s[i].queue # {} /\ s[i + 1] = Looked(seed, s[i])
      BY <1>3 DEF Ends
    <2>1. PICK s \in [0 .. n -> Progress(items)] :
            /\ s[0] = next /\ s[n] = e /\ e.queue = {}
            /\ \A i \in 0 .. n - 1 : s[i].queue # {} /\ s[i + 1] = Looked(seed, s[i])
      BY <2>0
    <2> DEFINE t == [i \in 0 .. n + 1 |-> IF i = 0 THEN p ELSE s[i - 1]]
    <2> HIDE DEF next
    <2>2. \A i \in 1 .. n + 1 : i - 1 \in 0 .. n
      BY <2>1
    <2>3. t \in [0 .. n + 1 -> Progress(items)] /\ t[0] = p /\ t[n + 1] = e
      BY <2>1, <2>2
    <2>4. ASSUME NEW i \in 0 .. (n + 1) - 1
          PROVE  t[i].queue # {} /\ t[i + 1] = Looked(seed, t[i])
      <3>1. CASE i = 0
        BY <2>1, <3>1 DEF next
      <3>2. CASE i # 0
        <4>1. i - 1 \in 0 .. n - 1 /\ t[i] = s[i - 1] /\ t[i + 1] = s[(i - 1) + 1]
          BY <2>1, <2>4, <3>2
        <4>2. QED
          BY <2>1, <4>1
      <3>3. QED
        BY <3>1, <3>2
    <2> HIDE DEF t
    <2>5. e \in Progress(items) /\ n + 1 \in Nat
      BY <1>3, <2>1 DEF Ends
    <2>6. QED
      BY <2>1, <2>3, <2>4, <2>5 DEF Ends
  <1>4. QED
    BY <1>2, <1>3

\* The recursion of peel_iblt has a value, which a step does not change.
LEMMA PeeledIsDefined ==
    ASSUME NEW seed, NEW items, HashesInTable(seed, items), IsFiniteSet(items)
    PROVE  \A p \in Progress(items) :
               Peeled(seed, items, p) =
                   IF p.queue = {} THEN p ELSE Peeled(seed, items, Looked(seed, p))
  <1> DEFINE P == Progress(items)
             Solves(f) == f = [p \in P |-> IF p.queue = {} THEN p ELSE f[Looked(seed, p)]]
             h == [p \in P |-> CHOOSE e : e \in Ends(seed, items, p)]
             f == CHOOSE g : Solves(g)
  <1>1. Solves(h)
    <2>1. ASSUME NEW p \in P
          PROVE  h[p] = IF p.queue = {} THEN p ELSE h[Looked(seed, p)]
      <3>1. CASE p.queue = {}
        BY <3>1, EndsStop
      <3>2. CASE p.queue # {}
        <4>1. Looked(seed, p) \in P /\ Ends(seed, items, p) = Ends(seed, items, Looked(seed, p))
          BY <3>2, LookedTyped, EndsStep
        <4>2. QED
          BY <3>2, <4>1
      <3>3. QED
        BY <3>1, <3>2
    <2>2. h = [p \in P |-> h[p]]
      OBVIOUS
    <2> HIDE DEF h, P
    <2>3. QED
      BY <2>1, <2>2
  <1>2. Solves(f)
    BY <1>1
  <1>3. \A p : Peeled(seed, items, p) = f[p]
    BY DEF Peeled
  <1> HIDE DEF f
  <1>4. QED
    BY <1>2, <1>3

-----------------------------------------------------------------------------
\* What a table means while it is peeled.

\* The records of a set that are hashed to a slot.
Here(seed, items, i) == {r \in items : i \in Indices(seed, r)}

\* What has not been read yet, on either side.
Unread(ours, theirs, p) == (ours \ p.positive) \cup (theirs \ p.negative)

\* What was read belongs to the side it was read for, and the table is the
\* difference of what is left.
Consistent(seed, ours, theirs, p) ==
    /\ p \in Progress(ours \cup theirs)
    /\ p.positive \subseteq ours /\ p.negative \subseteq theirs
    /\ \A i \in Slots :
        /\ p.table[i].count = Cardinality(Here(seed, ours \ p.positive, i))
                                  - Cardinality(Here(seed, theirs \ p.negative, i))
        /\ p.table[i].keys = Here(seed, Unread(ours, theirs, p), i)

\* What taking one record out of a finite set does to a slot.
LEMMA TakenOut ==
    ASSUME NEW seed, NEW items, IsFiniteSet(items), NEW r \in items, NEW i
    PROVE  /\ Cardinality(Here(seed, items, i)) \in Nat
           /\ i \in Indices(seed, r) =>
                  Cardinality(Here(seed, items \ {r}, i)) = Cardinality(Here(seed, items, i)) - 1
           /\ i \notin Indices(seed, r) => Here(seed, items \ {r}, i) = Here(seed, items, i)
  <1>1. IsFiniteSet(Here(seed, items, i)) /\ Cardinality(Here(seed, items, i)) \in Nat
    <2>1. Here(seed, items, i) \in SUBSET items
      BY DEF Here
    <2>2. QED
      BY <2>1, FS_Subset, FS_CardinalityType
  <1>2. ASSUME i \in Indices(seed, r)
        PROVE  /\ Here(seed, items \ {r}, i) = Here(seed, items, i) \ {r}
               /\ r \in Here(seed, items, i)
    BY <1>2 DEF Here
  <1>3. i \notin Indices(seed, r) => Here(seed, items \ {r}, i) = Here(seed, items, i)
    BY DEF Here
  <1>4. QED
    BY <1>1, <1>2, <1>3, FS_RemoveElement

\* The two sides of a difference.
Sides(seed, ours, theirs) ==
    /\ IsFiniteSet(ours) /\ IsFiniteSet(theirs) /\ ours \cap theirs = {}
    /\ HashesInTable(seed, ours \cup theirs)

\* One record less is unread in progress n than in p, and what was read and the
\* table are right about it.
OneLess(seed, ours, theirs, p, n) ==
    /\ \A i \in Slots :
        /\ n.table[i].count = Cardinality(Here(seed, ours \ n.positive, i))
                                  - Cardinality(Here(seed, theirs \ n.negative, i))
        /\ n.table[i].keys = Here(seed, Unread(ours, theirs, n), i)
    /\ n.positive \subseteq ours /\ n.negative \subseteq theirs
    /\ \E r \in Unread(ours, theirs, p) :
           Unread(ours, theirs, n) = Unread(ours, theirs, p) \ {r}

\* A record that is taken out was on the side it is read for.
LEMMA TakenConsistent ==
    ASSUME NEW seed, NEW ours, NEW theirs, Sides(seed, ours, theirs),
           NEW p, Consistent(seed, ours, theirs, p), NEW index \in Slots, Pure(p.table[index])
    PROVE  OneLess(seed, ours, theirs, p, Taken(seed, p, index))
  <1> DEFINE a == ours \ p.positive
             b == theirs \ p.negative
             cell == p.table[index]
             item == CHOOSE x \in cell.keys : TRUE
             n == Taken(seed, p, index)
  <1>1. /\ IsFiniteSet(a) /\ IsFiniteSet(b) /\ a \cap b = {}
        /\ p.positive \subseteq ours /\ p.negative \subseteq theirs
        /\ Unread(ours, theirs, p) = a \cup b
    BY FS_Subset DEF Sides, Consistent, Unread
  <1>2. \A i \in Slots :
            /\ p.table[i].count = Cardinality(Here(seed, a, i)) - Cardinality(Here(seed, b, i))
            /\ p.table[i].keys = Here(seed, a \cup b, i)
    BY <1>1 DEF Consistent
  <1>3. cell.keys = {item} /\ item \in cell.keys
    <2>1. IsFiniteSet(a \cup b) /\ cell.keys \subseteq a \cup b
      BY <1>1, <1>2, FS_Union DEF Here
    <2>2. IsFiniteSet(cell.keys)
      BY <2>1, FS_Subset
    <2>3. QED
      BY <2>2, PureCell
  <1>4. /\ n.table = Removed(seed, p.table, item, cell.count)
        /\ n.positive = IF cell.count = 1 THEN p.positive \cup {item} ELSE p.positive
        /\ n.negative = IF cell.count = 1 THEN p.negative ELSE p.negative \cup {item}
    BY DEF Taken
  <1>5. \A i \in Slots :
            n.table[i] = IF i \in Indices(seed, item)
                         THEN [count |-> p.table[i].count - cell.count,
                               keys |-> Xor(p.table[i].keys, {item})]
                         ELSE p.table[i]
    BY <1>4 DEF Removed
  <1>6. \/ item \in a /\ item \notin b /\ cell.count = 1
        \/ item \in b /\ item \notin a /\ cell.count = -1
    <2>1. Here(seed, a \cup b, index) = {item}
      BY <1>2, <1>3
    <2>2. cell.count = Cardinality(Here(seed, a, index)) - Cardinality(Here(seed, b, index))
      BY <1>2
    <2> HIDE DEF item, a, b, cell
    <2>3. index \in Indices(seed, item) /\ item \in a \cup b
      BY <2>1 DEF Here
    <2>e. Cardinality({item}) = 1 /\ Cardinality({}) = 0
      BY FS_Singleton, FS_EmptySet
    <2>4. CASE item \in a
      <3>1. Here(seed, a, index) = {item} /\ Here(seed, b, index) = {} /\ item \notin b
        BY <1>1, <2>1, <2>4 DEF Here
      <3>2. QED
        BY <2>2, <2>4, <2>e, <3>1
    <2>5. CASE item \in b
      <3>1. Here(seed, b, index) = {item} /\ Here(seed, a, index) = {} /\ item \notin a
        BY <1>1, <2>1, <2>5 DEF Here
      <3>2. QED
        BY <2>2, <2>5, <2>e, <3>1
    <2>6. QED
      BY <2>3, <2>4, <2>5
  <1> HIDE DEF item, cell, n
  <1>7. CASE item \in a /\ item \notin b /\ cell.count = 1
    <2>1. ours \ n.positive = a \ {item} /\ theirs \ n.negative = b
      BY <1>4, <1>7
    <2>2. Unread(ours, theirs, n) = (a \cup b) \ {item}
      BY <1>7, <2>1 DEF Unread
    <2>3. n.positive \subseteq ours /\ n.negative \subseteq theirs
      BY <1>1, <1>4, <1>7
    <2> HIDE DEF a, b
    <2>4. ASSUME NEW i \in Slots
          PROVE  /\ n.table[i].count = Cardinality(Here(seed, a \ {item}, i))
                                           - Cardinality(Here(seed, b, i))
                 /\ n.table[i].keys = Here(seed, (a \cup b) \ {item}, i)
      <3>1. /\ Cardinality(Here(seed, a, i)) \in Nat
            /\ i \in Indices(seed, item) =>
                   Cardinality(Here(seed, a \ {item}, i)) = Cardinality(Here(seed, a, i)) - 1
            /\ i \notin Indices(seed, item) => Here(seed, a \ {item}, i) = Here(seed, a, i)
        BY <1>1, <1>7, TakenOut
      <3>2. Cardinality(Here(seed, b, i)) \in Nat
        BY <1>1, FS_Subset, FS_CardinalityType DEF Here
      <3>3. CASE i \in Indices(seed, item)
        <4>1. n.table[i].count = p.table[i].count - 1 /\ n.table[i].keys = Xor(p.table[i].keys, {item})
          <5>1. n.table[i] = [count |-> p.table[i].count - cell.count,
                              keys |-> Xor(p.table[i].keys, {item})]
            BY <1>5, <3>3
          <5>2. QED
            BY <1>7, <5>1
        <4>2. n.table[i].keys = Here(seed, (a \cup b) \ {item}, i)
          BY <1>2, <1>7, <3>3, <4>1 DEF Xor, Here
        <4>3. QED
          BY <1>2, <3>1, <3>2, <3>3, <4>1, <4>2
      <3>4. CASE i \notin Indices(seed, item)
        <4>1. n.table[i] = p.table[i]
          BY <1>5, <3>4
        <4>2. Here(seed, (a \cup b) \ {item}, i) = Here(seed, a \cup b, i)
          BY <3>4 DEF Here
        <4>3. QED
          BY <1>2, <3>1, <3>4, <4>1, <4>2
      <3>5. QED
        BY <3>3, <3>4
    <2>5. QED
      BY <1>1, <1>7, <2>1, <2>2, <2>3, <2>4 DEF n, OneLess
  <1>8. CASE item \in b /\ item \notin a /\ cell.count = -1
    <2>1. ours \ n.positive = a /\ theirs \ n.negative = b \ {item}
      BY <1>4, <1>8
    <2>2. Unread(ours, theirs, n) = (a \cup b) \ {item}
      BY <1>8, <2>1 DEF Unread
    <2>3. n.positive \subseteq ours /\ n.negative \subseteq theirs
      BY <1>1, <1>4, <1>8
    <2> HIDE DEF a, b
    <2>4. ASSUME NEW i \in Slots
          PROVE  /\ n.table[i].count = Cardinality(Here(seed, a, i))
                                           - Cardinality(Here(seed, b \ {item}, i))
                 /\ n.table[i].keys = Here(seed, (a \cup b) \ {item}, i)
      <3>1. /\ Cardinality(Here(seed, b, i)) \in Nat
            /\ i \in Indices(seed, item) =>
                   Cardinality(Here(seed, b \ {item}, i)) = Cardinality(Here(seed, b, i)) - 1
            /\ i \notin Indices(seed, item) => Here(seed, b \ {item}, i) = Here(seed, b, i)
        BY <1>1, <1>8, TakenOut
      <3>2. Cardinality(Here(seed, a, i)) \in Nat
        BY <1>1, FS_Subset, FS_CardinalityType DEF Here
      <3>3. CASE i \in Indices(seed, item)
        <4>1. n.table[i].count = p.table[i].count + 1 /\ n.table[i].keys = Xor(p.table[i].keys, {item})
          <5>1. p.table[i].count \in Int
            BY <1>2, <3>1, <3>2
          <5>2. n.table[i] = [count |-> p.table[i].count - cell.count,
                              keys |-> Xor(p.table[i].keys, {item})]
            BY <1>5, <3>3
          <5>3. QED
            BY <1>8, <5>1, <5>2
        <4>2. n.table[i].keys = Here(seed, (a \cup b) \ {item}, i)
          BY <1>2, <1>8, <3>3, <4>1 DEF Xor, Here
        <4>3. QED
          BY <1>2, <3>1, <3>2, <3>3, <4>1, <4>2
      <3>4. CASE i \notin Indices(seed, item)
        <4>1. n.table[i] = p.table[i]
          BY <1>5, <3>4
        <4>2. Here(seed, (a \cup b) \ {item}, i) = Here(seed, a \cup b, i)
          BY <3>4 DEF Here
        <4>3. QED
          BY <1>2, <3>1, <3>4, <4>1, <4>2
      <3>5. QED
        BY <3>3, <3>4
    <2>5. QED
      BY <1>1, <1>8, <2>1, <2>2, <2>3, <2>4 DEF n, OneLess
  <1>9. QED
    BY <1>6, <1>7, <1>8

\* How much there is still to look at, at most.
Work(ours, theirs, p) ==
    (IbltCells + 1) * Cardinality(Unread(ours, theirs, p)) + Cardinality(p.queue)

\* A step keeps the meaning, and leaves less to look at.
LEMMA LookedConsistent ==
    ASSUME NEW seed, NEW ours, NEW theirs, Sides(seed, ours, theirs),
           NEW p, Consistent(seed, ours, theirs, p), p.queue # {}
    PROVE  /\ Consistent(seed, ours, theirs, Looked(seed, p))
           /\ Work(ours, theirs, p) \in Nat
           /\ Work(ours, theirs, Looked(seed, p)) \in Nat
           /\ Work(ours, theirs, Looked(seed, p)) < Work(ours, theirs, p)
  <1> DEFINE n == Looked(seed, p)
             items == ours \cup theirs
             index == CHOOSE i \in p.queue : TRUE
             Left(x) == Cardinality(Unread(ours, theirs, x))
  <1>1. /\ IsFiniteSet(items) /\ HashesInTable(seed, items)
        /\ p \in Progress(items) /\ n \in Progress(items)
    <2>1. IsFiniteSet(items) /\ HashesInTable(seed, items) /\ p \in Progress(items)
      BY FS_Union DEF Sides, Consistent
    <2>2. QED
      BY <2>1, LookedTyped
  <1>2. index \in p.queue /\ index \in Slots
    BY <1>1 DEF Progress
  <1>3. \A x \in Progress(items) :
            /\ IsFiniteSet(x.queue) /\ Cardinality(x.queue) \in 0 .. IbltCells
            /\ IsFiniteSet(Unread(ours, theirs, x)) /\ Left(x) \in Nat
    <2>1. IbltCells \in Nat /\ IsFiniteSet(Slots) /\ Cardinality(Slots) <= IbltCells
      BY SketchAssumption, FS_Interval DEF Slots
    <2>2. TAKE x \in Progress(items)
    <2>3. x.queue \in SUBSET Slots /\ Unread(ours, theirs, x) \in SUBSET items
      BY DEF Progress, Unread
    <2>4. IsFiniteSet(x.queue) /\ Cardinality(x.queue) <= Cardinality(Slots)
          /\ Cardinality(x.queue) \in Nat /\ Cardinality(Slots) \in Nat
      BY <2>1, <2>3, FS_Subset, FS_CardinalityType
    <2>5. IsFiniteSet(Unread(ours, theirs, x)) /\ Left(x) \in Nat
      BY <1>1, <2>3, FS_Subset, FS_CardinalityType
    <2>6. QED
      BY <2>1, <2>4, <2>5
  <1> DEFINE W == IbltCells + 1
             u == Left(p)
             v == Left(n)
             q == Cardinality(p.queue)
             k == Cardinality(n.queue)
  <1>4. W \in Nat /\ u \in Nat /\ v \in Nat /\ q \in 0 .. IbltCells /\ k \in 0 .. IbltCells
        /\ IbltCells \in Nat
    <2>1. IbltCells \in Nat /\ W \in Nat
      BY SketchAssumption
    <2> HIDE DEF W, n, items
    <2>2. QED
      BY <1>1, <1>3, <2>1
  <1>5. Work(ours, theirs, p) = W * u + q /\ Work(ours, theirs, n) = W * v + k
    BY DEF Work
  <1>6. CASE Pure(p.table[index])
    <2>1. n = Taken(seed, p, index)
      BY <1>6 DEF Looked
    <2> HIDE DEF n, W, items, index
    <2>a. OneLess(seed, ours, theirs, p, n)
      BY <1>2, <1>6, <2>1, TakenConsistent
    <2>2. /\ Consistent(seed, ours, theirs, n)
          /\ \E r \in Unread(ours, theirs, p) :
                 Unread(ours, theirs, n) = Unread(ours, theirs, p) \ {r}
      BY <1>1, <2>a DEF Consistent, OneLess, items
    <2>3. v = u - 1
      BY <1>1, <1>3, <2>2, FS_RemoveElement
    <2> HIDE DEF u, v, q, k
    <2>4. W * v = W * u - W
      BY <1>4, <2>3
    <2>5. W * u \in Nat /\ W * v \in Nat
      BY <1>4
    <2> DEFINE x == W * u
               y == W * v
    <2>6. x \in Nat /\ y \in Nat /\ y = x - W /\ W = IbltCells + 1
      BY <2>4, <2>5 DEF W
    <2>7. Work(ours, theirs, p) = x + q /\ Work(ours, theirs, n) = y + k
      BY <1>5
    <2> HIDE DEF x, y
    <2>8. QED
      BY <1>4, <2>2, <2>6, <2>7 DEF n
  <1>7. CASE ~Pure(p.table[index])
    <2>1. n = [p EXCEPT !.queue = @ \ {index}]
      BY <1>7 DEF Looked
    <2>2. /\ n.queue = p.queue \ {index} /\ n.table = p.table
          /\ n.positive = p.positive /\ n.negative = p.negative
      BY <1>1, <2>1 DEF Progress
    <2> HIDE DEF n, W, index
    <2>3. Consistent(seed, ours, theirs, n) /\ Unread(ours, theirs, n) = Unread(ours, theirs, p)
      BY <1>1, <2>2 DEF Consistent, Unread
    <2>4. v = u /\ k = q - 1
      BY <1>1, <1>2, <1>3, <2>2, <2>3, FS_RemoveElement
    <2> HIDE DEF u, v, q, k
    <2>5. W * u \in Nat
      BY <1>4
    <2>6. QED
      BY <1>4, <1>5, <2>3, <2>4, <2>5 DEF n
  <1>8. QED
    BY <1>6, <1>7

\* The recursion of peel_iblt ends where nothing is left to look at, and the
\* table still means the same there.
LEMMA PeeledConsistent ==
    ASSUME NEW seed, NEW ours, NEW theirs, Sides(seed, ours, theirs),
           NEW start, Consistent(seed, ours, theirs, start)
    PROVE  Consistent(seed, ours, theirs, Peeled(seed, ours \cup theirs, start))
  <1> DEFINE items == ours \cup theirs
             C == {p \in Progress(items) : Consistent(seed, ours, theirs, p)}
             Fails(p) == ~Consistent(seed, ours, theirs, Peeled(seed, items, p))
             bad == {Work(ours, theirs, p) : p \in {x \in C : Fails(x)}}
  <1>1. IsFiniteSet(items) /\ HashesInTable(seed, items)
    BY FS_Union DEF Sides
  <1>2. \A p \in C : Peeled(seed, items, p) =
                         IF p.queue = {} THEN p ELSE Peeled(seed, items, Looked(seed, p))
    BY <1>1, PeeledIsDefined
  <1>3. \A p \in C : Fails(p) => p.queue # {}
    BY <1>2
  <1>4. \A p \in C : Fails(p) =>
            /\ Looked(seed, p) \in C /\ Fails(Looked(seed, p))
            /\ Work(ours, theirs, p) \in Nat
            /\ Work(ours, theirs, Looked(seed, p)) < Work(ours, theirs, p)
    <2>1. TAKE p \in C
    <2>2. HAVE Fails(p)
    <2>3. Consistent(seed, ours, theirs, p) /\ p.queue # {}
      BY <1>3, <2>2
    <2>4. /\ Consistent(seed, ours, theirs, Looked(seed, p))
          /\ Work(ours, theirs, p) \in Nat
          /\ Work(ours, theirs, Looked(seed, p)) < Work(ours, theirs, p)
      BY <2>3, LookedConsistent
    <2>5. Looked(seed, p) \in Progress(items)
      BY <2>4 DEF Consistent
    <2>6. QED
      BY <1>2, <2>2, <2>3, <2>4, <2>5
  <1>5. bad \in SUBSET Nat
    BY <1>4
  <1>6. start \in C
    BY DEF Consistent
  <1>7. ASSUME Fails(start) PROVE FALSE
    <2>1. bad # {}
      BY <1>6, <1>7
    <2>2. PICK m \in bad : \A w \in bad : m <= w
      <3> HIDE DEF bad
      <3>1. QED
        BY <1>5, <2>1, LeastExists
    <2>3. PICK p \in C : Fails(p) /\ m = Work(ours, theirs, p)
      BY <2>2
    <2>4. /\ Looked(seed, p) \in C /\ Fails(Looked(seed, p))
          /\ Work(ours, theirs, Looked(seed, p)) < m /\ m \in Nat
      BY <1>4, <2>3
    <2>5. Work(ours, theirs, Looked(seed, p)) \in bad
      BY <2>4
    <2>6. Work(ours, theirs, Looked(seed, p)) \in Nat /\ m <= Work(ours, theirs, Looked(seed, p))
      BY <1>5, <2>2, <2>5
    <2> HIDE DEF C, Fails, bad
    <2>7. QED
      BY <2>4, <2>6
  <1>8. QED
    BY <1>7

\* A difference of tables counts a common record on neither side.
LEMMA CommonCancel ==
    ASSUME NEW a, NEW b, IsFiniteSet(a), IsFiniteSet(b)
    PROVE  Cardinality(a) - Cardinality(b) = Cardinality(a \ b) - Cardinality(b \ a)
  <1> DEFINE common == Cardinality(a \cap b)
             aa == Cardinality(a)
             bb == Cardinality(b)
  <1>1. b \cap a = a \cap b
    OBVIOUS
  <1>2. Cardinality(a \ b) = aa - common
    BY FS_Difference
  <1>3. Cardinality(b \ a) = bb - Cardinality(b \cap a)
    BY FS_Difference
  <1>4. aa \in Nat /\ bb \in Nat /\ common \in Nat
    BY FS_CardinalityType, FS_Intersection
  <1>5. Cardinality(b \ a) = bb - common
    BY <1>1, <1>3
  <1> HIDE DEF aa, bb, common
  <1>6. QED
    BY <1>2, <1>4, <1>5 DEF aa, bb

\* The table of a difference, before anything is read from it.
LEMMA DifferenceStarts ==
    ASSUME NEW seed, NEW ours, NEW theirs, IsFiniteSet(ours), IsFiniteSet(theirs),
           HashesInTable(seed, ours \cup theirs)
    PROVE  LET table == Subtract(Build(seed, ours), Build(seed, theirs)) IN
           /\ Sides(seed, ours \ theirs, theirs \ ours)
           /\ UNION {table[i].keys : i \in Slots} = (ours \ theirs) \cup (theirs \ ours)
           /\ Consistent(seed, ours \ theirs, theirs \ ours,
                         [table |-> table, queue |-> Slots, positive |-> {}, negative |-> {}])
  <1> DEFINE table == Subtract(Build(seed, ours), Build(seed, theirs))
             a == ours \ theirs
             b == theirs \ ours
             start == [table |-> table, queue |-> Slots, positive |-> {}, negative |-> {}]
  <1>1. Sides(seed, a, b)
    BY FS_Subset DEF Sides, HashesInTable
  <1>2. ASSUME NEW i \in Slots
        PROVE  /\ table[i] = [count |-> table[i].count, keys |-> table[i].keys]
               /\ table[i].count = Cardinality(Here(seed, a, i)) - Cardinality(Here(seed, b, i))
               /\ table[i].count \in Int
               /\ table[i].keys = Here(seed, a \cup b, i)
    <2> DEFINE x == Here(seed, ours, i)
               y == Here(seed, theirs, i)
    <2>1. table[i] = [count |-> Cardinality(x) - Cardinality(y), keys |-> Xor(x, y)]
      BY DEF Subtract, Build, Here
    <2>2. IsFiniteSet(x) /\ IsFiniteSet(y)
      BY FS_Subset DEF Here
    <2>3. Cardinality(x) \in Nat /\ Cardinality(y) \in Nat
      BY <2>2, FS_CardinalityType
    <2>4. Cardinality(x) - Cardinality(y) = Cardinality(x \ y) - Cardinality(y \ x)
      <3> HIDE DEF x, y
      <3>1. QED
        BY <2>2, CommonCancel
    <2>5. x \ y = Here(seed, a, i) /\ y \ x = Here(seed, b, i)
      BY DEF Here
    <2>6. Xor(x, y) = Here(seed, a \cup b, i)
      BY DEF Xor, Here
    <2> DEFINE cell == table[i]
               m == Cardinality(x)
               n == Cardinality(y)
    <2>7. cell = [count |-> m - n, keys |-> Xor(x, y)] /\ m \in Nat /\ n \in Nat
          /\ m - n = Cardinality(Here(seed, a, i)) - Cardinality(Here(seed, b, i))
      BY <2>1, <2>3, <2>4, <2>5
    <2> HIDE DEF cell, m, n, table, x, y, a, b
    <2>8. cell.count = m - n /\ cell.keys = Xor(x, y) /\ m - n \in Int
          /\ cell = [count |-> cell.count, keys |-> cell.keys]
      BY <2>7
    <2>9. QED
      BY <2>6, <2>7, <2>8 DEF cell
  <1>3. UNION {table[i].keys : i \in Slots} = a \cup b
    <2>1. ASSUME NEW r \in a \cup b PROVE \E i \in Slots : r \in table[i].keys
      <3>1. \E i : i \in Indices(seed, r) /\ i \in Slots
        BY DEF HashesInTable
      <3> HIDE DEF table, a, b
      <3>2. QED
        BY <1>2, <2>1, <3>1 DEF Here
    <2>2. \A i \in Slots : table[i].keys \subseteq a \cup b
      BY <1>2 DEF Here
    <2> HIDE DEF table, a, b
    <2>3. QED
      BY <2>1, <2>2
  <1>4. start \in Progress(a \cup b)
    <2>1. table \in [Slots -> [count : Int, keys : SUBSET (a \cup b)]]
      <3>1. \A i \in Slots : table[i] \in [count : Int, keys : SUBSET (a \cup b)]
        <4>1. \A i \in Slots : Here(seed, a \cup b, i) \subseteq a \cup b
          BY DEF Here
        <4> HIDE DEF table, a, b
        <4>2. TAKE i \in Slots
        <4> DEFINE cell == table[i]
        <4>3. /\ cell = [count |-> cell.count, keys |-> cell.keys]
              /\ cell.count \in Int /\ cell.keys \subseteq a \cup b
          BY <1>2, <4>1
        <4> HIDE DEF cell
        <4>4. cell \in [count : Int, keys : SUBSET (a \cup b)]
          BY <4>3
        <4>5. QED
          BY <4>4 DEF cell
      <3>2. table = [i \in Slots |-> table[i]]
        BY DEF Subtract
      <3> HIDE DEF table
      <3>3. QED
        BY <3>1, <3>2
    <2> HIDE DEF table, a, b
    <2>2. QED
      BY <2>1 DEF Progress
  <1> HIDE DEF table, a, b
  <1>5. a \ start.positive = a /\ b \ start.negative = b /\ start.table = table
    OBVIOUS
  <1>6. Consistent(seed, a, b, start)
    <2>1. Unread(a, b, start) = a \cup b
      BY <1>5 DEF Unread
    <2>2. start.positive \subseteq a /\ start.negative \subseteq b
      OBVIOUS
    <2> HIDE DEF start
    <2>3. QED
      BY <1>2, <1>4, <1>5, <2>1, <2>2 DEF Consistent
  <1>7. QED
    BY <1>1, <1>3, <1>6 DEF table, a, b

\* peel_iblt: whatever the tables, and whether or not the difference peels, what
\* is read from it is on the side it is read for, and not on the other; and if it
\* peels, nothing is left out on either side.  (The records need cells, which
\* _iblt_indices gives them, and checksums that do not collide.)
THEOREM PeelingIsSound ==
    ASSUME NEW seed, NEW ours, NEW theirs, IsFiniteSet(ours), IsFiniteSet(theirs),
           HashesInTable(seed, ours \cup theirs)
    PROVE  /\ Difference(seed, ours, theirs).positive \subseteq ours \ theirs
           /\ Difference(seed, ours, theirs).negative \subseteq theirs \ ours
           /\ Difference(seed, ours, theirs).success =>
                  /\ Difference(seed, ours, theirs).positive = ours \ theirs
                  /\ Difference(seed, ours, theirs).negative = theirs \ ours
  <1> DEFINE table == Subtract(Build(seed, ours), Build(seed, theirs))
             a == ours \ theirs
             b == theirs \ ours
             start == [table |-> table, queue |-> Slots, positive |-> {}, negative |-> {}]
             end == Peeled(seed, a \cup b, start)
             d == Difference(seed, ours, theirs)
  <1>1. /\ Sides(seed, a, b)
        /\ UNION {table[i].keys : i \in Slots} = a \cup b
        /\ Consistent(seed, a, b, start)
    BY DifferenceStarts
  <1>2. /\ d.positive = end.positive /\ d.negative = end.negative
        /\ d.success = \A i \in Slots : end.table[i] = [count |-> 0, keys |-> {}]
    BY <1>1 DEF Difference, Peel
  <1> HIDE DEF start, a, b
  <1>3. Consistent(seed, a, b, end)
    BY <1>1, PeeledConsistent
  <1> HIDE DEF end, d
  <1>4. d.positive \subseteq a /\ d.negative \subseteq b
    BY <1>2, <1>3 DEF Consistent
  <1>5. ASSUME d.success PROVE d.positive = a /\ d.negative = b
    <2>1. \A i \in Slots : Here(seed, Unread(a, b, end), i) = {}
      <3>1. \A i \in Slots : end.table[i] = [count |-> 0, keys |-> {}]
        BY <1>2, <1>5
      <3>2. \A i \in Slots : end.table[i].keys = {}
        BY <3>1
      <3>3. QED
        BY <1>3, <3>2 DEF Consistent
    <2>2. ASSUME NEW r \in Unread(a, b, end) PROVE FALSE
      <3>1. r \in a \cup b
        BY <2>2 DEF Unread
      <3>2. \E i : i \in Indices(seed, r) /\ i \in Slots
        BY <1>1, <3>1 DEF Sides, HashesInTable
      <3>3. QED
        BY <2>1, <2>2, <3>2 DEF Here
    <2>3. QED
      BY <1>2, <1>4, <2>2 DEF Unread
  <1>6. QED
    BY <1>4, <1>5 DEF a, b, d

-----------------------------------------------------------------------------
\* How many records a patch may hold.

\* What the hash of a partition gives every record.
TableHashes == \A part \in 0 .. Partitions - 1 : HashesInTable(part, Update)

\* The records of a replica: reports, finitely many, one for each cell.
LEMMA RecordsFacts ==
    ASSUME LoopTypeOK, HonestReports, NEW r \in Robots, NEW cells \in SUBSET Cells
    PROVE  /\ Records(beliefs[r], cells) \subseteq emitted
           /\ Records(beliefs[r], cells) \subseteq Update
           /\ IsFiniteSet(Records(beliefs[r], cells))
           /\ \A u, v \in Records(beliefs[r], cells) : u.cell = v.cell => u = v
  <1> DEFINE known == {k \in cells : Known(beliefs[r][k])}
             f == [c \in known |-> [cell |-> c, stamp |-> beliefs[r][c]]]
  <1>1. Records(beliefs[r], cells) = {f[c] : c \in known}
    BY DEF Records
  <1>2. \A c \in known : f[c] \in emitted /\ f[c].cell = c
    BY KnownWasReported
  <1>3. IsFiniteSet(known)
    BY CellsFinite
  <1>4. IsFiniteSet({f[c] : c \in known})
    <2> HIDE DEF known, f
    <2>1. QED
      BY <1>3, ImageFinite
  <1>5. emitted \subseteq Update
    BY DEF LoopTypeOK
  <1>6. \A u, v \in {f[c] : c \in known} : u.cell = v.cell => u = v
    <2> HIDE DEF known, f
    <2>1. QED
      BY <1>2
  <1> HIDE DEF known, f
  <1>7. QED
    BY <1>1, <1>2, <1>4, <1>5, <1>6

\* The first records as far as there is room are no more than there is room for:
\* no two of them have the same number of others before them.
LEMMA SelectedFits ==
    ASSUME NEW records \in SUBSET Update, IsFiniteSet(records),
           \A u, v \in records : u.cell = v.cell => u = v, NEW room \in Nat
    PROVE  /\ Selected(records, room) \subseteq records
           /\ IsFiniteSet(Selected(records, room))
           /\ Cardinality(Selected(records, room)) \in 0 .. room
  <1> DEFINE Before(u) == {v \in records : EncodedBefore(v, u)}
             chosen == Selected(records, room)
             f == [u \in chosen |-> Cardinality(Before(u))]
  <1>1. \A u : IsFiniteSet(Before(u)) /\ Cardinality(Before(u)) \in Nat
    <2>1. TAKE u
    <2>2. Before(u) \in SUBSET records
      OBVIOUS
    <2>3. QED
      BY <2>2, FS_Subset, FS_CardinalityType
  <1>2. chosen = {u \in records : Cardinality(Before(u)) < room}
    BY DEF Selected
  <1>3. \A u \in records : u.cell \in Int /\ u.stamp.source \in Int
    BY DEF Update, Stamp, Cells
  <1>4. ASSUME NEW u \in records, NEW v \in records, EncodedBefore(u, v)
        PROVE  Cardinality(Before(u)) < Cardinality(Before(v))
    <2>1. u \in Before(v) /\ Before(u) \subseteq Before(v) /\ u \notin Before(u)
      BY <1>3, <1>4 DEF EncodedBefore
    <2>2. Before(u) \in SUBSET (Before(v) \ {u})
      BY <2>1
    <2> HIDE DEF Before
    <2>3. IsFiniteSet(Before(v) \ {u}) /\ Cardinality(Before(v) \ {u}) = Cardinality(Before(v)) - 1
      BY <1>1, <2>1, FS_RemoveElement
    <2>4. Cardinality(Before(u)) <= Cardinality(Before(v) \ {u})
      BY <2>2, <2>3, FS_Subset
    <2>5. QED
      BY <1>1, <2>3, <2>4
  <1>5. ASSUME NEW u \in records, NEW v \in records, u # v
        PROVE  Cardinality(Before(u)) # Cardinality(Before(v))
    <2>1. u.cell # v.cell
      BY <1>5
    <2>2. EncodedBefore(u, v) \/ EncodedBefore(v, u)
      BY <1>3, <2>1 DEF EncodedBefore
    <2> HIDE DEF Before
    <2>3. QED
      BY <1>1, <1>4, <2>2
  <1> HIDE DEF Before
  <1>6. chosen \subseteq records /\ IsFiniteSet(chosen) /\ Cardinality(chosen) \in Nat
    <2>1. chosen \in SUBSET records
      BY <1>2
    <2> HIDE DEF chosen
    <2>2. QED
      BY <2>1, FS_Subset, FS_CardinalityType
  <1> HIDE DEF chosen
  <1>7. ASSUME room < Cardinality(chosen) PROVE FALSE
    <2>1. f \in [chosen -> 0 .. room - 1]
      BY <1>1, <1>2
    <2>2. IsFiniteSet(0 .. room - 1) /\ Cardinality(0 .. room - 1) = room
      BY FS_Interval
    <2>3. f = [u \in chosen |-> f[u]] /\ \A u \in chosen : f[u] = Cardinality(Before(u))
      OBVIOUS
    <2> HIDE DEF f
    <2>4. \E u, v \in chosen : u # v /\ f[u] = f[v]
      BY <1>6, <1>7, <2>1, <2>2, FS_PigeonHole
    <2>5. QED
      BY <1>5, <1>6, <2>3, <2>4
  <1>8. QED
    BY <1>6, <1>7 DEF chosen

\* A patch with as many records as there is room for is paid from what is left.
LEMMA PatchFits ==
    ASSUME NEW left \in Nat, NEW n \in 0 .. PatchRoom(left)
    PROVE  /\ PatchBytes(n) \in Nat
           /\ n > 0 => PatchBytes(n) <= left
  <1>1. n \in Nat /\ PatchBytes(n) \in Nat
    BY DEF PatchBytes, DeltaBytes
  <1>2. CASE left < PatchBytes(0)
    BY <1>1, <1>2 DEF PatchRoom
  <1>3. CASE ~(left < PatchBytes(0))
    <2> DEFINE a == left - 4
               d == a \div 13
    <2>1. a \in Nat /\ 4 <= left
      BY <1>3 DEF PatchBytes, DeltaBytes
    <2>2. PatchRoom(left) = d
      BY <1>3 DEF PatchRoom, PatchBytes, DeltaBytes
    <2>3. d \in Nat /\ 13 * d <= a
      <3> HIDE DEF a
      <3>1. QED
        BY <2>1, Division
    <2>4. n <= d
      BY <2>2
    <2> HIDE DEF d
    <2>5. PatchBytes(n) = 4 + 13 * n
      BY DEF PatchBytes, DeltaBytes
    <2>6. QED
      BY <1>1, <2>1, <2>3, <2>4, <2>5
  <1>4. QED
    BY <1>2, <1>3

-----------------------------------------------------------------------------
\* What the invariant says, spelled out.

LEMMA SummaryTypes ==
    ASSUME SummaryInv
    PROVE  /\ LoopTypeOK /\ HonestReports /\ OutboxHonest /\ RepairsHonest
           /\ step \in Nat /\ phase \in Phases /\ turn \in Robots
           /\ beliefs \in [Robots -> [Cells -> Stamp]] /\ emitted \subseteq Update
           /\ data \in [Robots -> 0 .. DataCap] /\ control \in [Robots -> 0 .. ControlCap]
           /\ policy = "one_shot" /\ method \in Methods
           /\ stage \in {"deltas", "summaries", "repairs"} /\ asked \subseteq Robots
           /\ partition \in 0 .. Partitions - 1
           /\ repairs \in [Robots -> SUBSET RepairTask]
           /\ drawn \subseteq [task : RepairTask, kept : BOOLEAN]
           /\ QueueOK(net, SoundPackets)
  BY DEF SummaryInv, SummaryTypeOK, LoopTypeOK

LEMMA SummaryPackets ==
    \A m \in SoundPackets :
        /\ m \in Packet \cup SummaryPacket
        /\ m.wait \in Nat /\ m.from \in Robots /\ m.to \in Robots
        /\ m.kind \in {"delta", "digest", "sketch", "patch"}
        /\ m.kind = "sketch" => m.part \in 0 .. Partitions - 1
  BY DEF SoundPackets, Packet, SummaryPacket

\* Packets stay sound while reports are added.
LEMMA SummariesStaySound ==
    ASSUME emitted \subseteq emitted'
    PROVE  SoundPackets \subseteq SoundPackets'
  <1>1. SUFFICES ASSUME NEW m \in SoundPackets PROVE m \in SoundPackets'
    OBVIOUS
  <1>2. m.kind = "sketch" => SoundSketch(m)'
    <2>1. SUFFICES ASSUME m.kind = "sketch" PROVE SoundSketch(m)'
      OBVIOUS
    <2>2. PICK items \in SUBSET emitted : IsFiniteSet(items) /\ m.table = Build(m.part, items)
      BY <2>1 DEF SoundPackets, SoundSketch
    <2>3. items \in SUBSET emitted'
      BY <2>2
    <2>4. QED
      BY <2>2, <2>3 DEF SoundSketch
  <1>3. QED
    BY <1>2 DEF SoundPackets

\* The parts of the invariant make it up in the next state.
LEMMA SummaryAssembles ==
    ASSUME LoopTypeOK', HonestReports', OutboxHonest', RepairsHonest', policy' = "one_shot",
           QueueOK(net', SoundPackets'),
           method' \in Methods, stage' \in {"deltas", "summaries", "repairs"},
           asked' \subseteq Robots, partition' \in 0 .. Partitions - 1,
           repairs' \in [Robots -> SUBSET RepairTask],
           drawn' \subseteq [task : RepairTask, kept : BOOLEAN]
    PROVE  SummaryInv'
  BY DEF SummaryInv, SummaryTypeOK, QueueOK, RepairTask

\* A step that leaves replicas, reports and the one-shot outboxes alone.
LEMMA SummaryQuiet ==
    ASSUME SummaryInv, UNCHANGED <<beliefs, emitted, policy, outbox, method>>,
           LoopTypeOK', QueueOK(net', SoundPackets), RepairsHonest',
           stage' \in {"deltas", "summaries", "repairs"},
           asked' \subseteq Robots, partition' \in 0 .. Partitions - 1,
           repairs' \in [Robots -> SUBSET RepairTask],
           drawn' \subseteq [task : RepairTask, kept : BOOLEAN]
    PROVE  SummaryInv'
  <1>1. SoundPackets' = SoundPackets
    BY DEF SoundPackets, SoundSketch
  <1>2. HonestReports' /\ OutboxHonest' /\ policy' = "one_shot" /\ method' \in Methods
    BY SummaryTypes DEF HonestReports, Legitimate, OutboxHonest
  <1>3. QED
    BY <1>1, <1>2, SummaryAssembles

\* The records of a robot make a table of the right type.
LEMMA BuildTyped ==
    ASSUME NEW seed, NEW items \in SUBSET Update, IsFiniteSet(items)
    PROVE  Build(seed, items) \in [Slots -> [count : Nat, keys : SUBSET Update]]
  <1>1. \A i \in Slots : /\ {r \in items : i \in Indices(seed, r)} \subseteq Update
                         /\ Cardinality({r \in items : i \in Indices(seed, r)}) \in Nat
    <2>1. TAKE i \in Slots
    <2>2. {r \in items : i \in Indices(seed, r)} \in SUBSET items
      OBVIOUS
    <2>3. IsFiniteSet({r \in items : i \in Indices(seed, r)})
      BY <2>2, FS_Subset
    <2>4. QED
      BY <2>2, <2>3, FS_CardinalityType
  <1>2. QED
    BY <1>1 DEF Build

-----------------------------------------------------------------------------
\* The steps.

LEMMA SummaryInitEstablishes ==
    ASSUME Init, SummaryInit
    PROVE  SummaryInv
  <1>1. LoopTypeOK /\ HonestReports
    BY LoopStarts DEF Init
  <1>2. /\ net = <<>> /\ outbox = [r \in Robots |-> {}] /\ policy = "one_shot"
        /\ method \in Methods /\ stage = "deltas" /\ asked = {} /\ partition = 0
        /\ repairs = [r \in Robots |-> {}] /\ drawn = {}
    BY SummaryAssumption DEF Init, LoopInit, DeliveryInit, SummaryInit
  <1>3. QueueOK(net, SoundPackets)
    BY <1>2 DEF QueueOK
  <1>4. OutboxHonest /\ RepairsHonest
    BY <1>2 DEF OutboxHonest, RepairsHonest
  <1>5. 0 \in 0 .. Partitions - 1
    BY SummaryAssumption
  <1>6. SummaryTypeOK
    BY <1>1, <1>2, <1>5 DEF SummaryTypeOK
  <1>7. QED
    BY <1>1, <1>2, <1>3, <1>4, <1>6 DEF SummaryInv

\* The steps that leave replicas, reports, packets and queues alone.
LEMMA SummaryQuietStep ==
    ASSUME SummaryInv, LoopTypeOK',
           UNCHANGED <<beliefs, emitted, net, policy, outbox, method, partition, repairs, drawn>>,
           stage' \in {"deltas", "summaries", "repairs"}, asked' \subseteq Robots
    PROVE  SummaryInv'
  <1>1. RepairsHonest'
    BY SummaryTypes DEF RepairsHonest
  <1>2. QED
    BY <1>1, SummaryTypes, SummaryQuiet

\* A stutter.
LEMMA SummaryStutter ==
    ASSUME SummaryInv, UNCHANGED allVars
    PROVE  SummaryInv'
  <1>1. UNCHANGED <<step, phase, turn, beliefs, emitted, net, data, control, policy, outbox, tried,
                    method, stage, asked, partition, repairs, drawn>>
    BY DEF allVars, vars, loopVars, deliveryVars, summaryVars
  <1>2. LoopTypeOK'
    BY <1>1, SummaryTypes DEF LoopTypeOK
  <1>3. QED
    BY <1>1, <1>2, SummaryTypes, SummaryQuietStep

\* The first drain is over.
LEMMA SummaryEndArrivals ==
    ASSUME SummaryInv, EndArrivals, UNCHANGED <<deliveryVars, summaryVars>>
    PROVE  SummaryInv' /\ UNCHANGED <<beliefs, emitted>>
  <1>1. /\ phase' = "sense"
        /\ UNCHANGED <<step, turn, beliefs, emitted, net, data, control, policy, outbox,
                       method, stage, asked, partition, repairs, drawn>>
    BY DEF EndArrivals, deliveryVars, summaryVars
  <1>2. LoopTypeOK'
    BY <1>1, SummaryTypes DEF LoopTypeOK, Phases
  <1>3. QED
    BY <1>1, <1>2, SummaryTypes, SummaryQuietStep

\* Sensing.
LEMMA SummarySense ==
    ASSUME SummaryInv, NEW r \in Robots, NEW w \in Shown(r), Sense(r, w), UNCHANGED summaryVars
    PROVE  SummaryInv' /\ Sharing!Look(r)
  <1>1. OutboxHonest' /\ LoopTypeOK' /\ UNCHANGED <<step, net, data, control, policy, tried>>
    BY SummaryTypes, SenseQueues
  <1>2. Sharing!Look(r)
    BY SummaryTypes, ObserveImplements DEF Sense
  <1>3. HonestReports' /\ emitted \subseteq emitted'
    BY <1>2, SummaryTypes, SharingStep DEF Sharing!Next
  <1>4. SoundPackets \subseteq SoundPackets'
    BY <1>3, SummariesStaySound
  <1>5. QueueOK(net', SoundPackets')
    BY <1>1, <1>4, SummaryTypes, QueueWidens
  <1>6. UNCHANGED <<method, stage, asked, partition, repairs, drawn>>
    BY DEF summaryVars
  <1>7. RepairsHonest'
    BY <1>3, <1>6, SummaryTypes DEF RepairsHonest
  <1>8. QED
    BY <1>1, <1>2, <1>3, <1>5, <1>6, <1>7, SummaryTypes, SummaryAssembles

\* Sending a delta.
LEMMA SummarySendDelta ==
    ASSUME SummaryInv, NEW s \in Robots, NEW t \in outbox[s], NEW kept \in Survivals,
           SendDelta(s, t, kept)
    PROVE  SummaryInv' /\ UNCHANGED <<beliefs, emitted>>
  <1>1. Attempt(s, t, kept) /\ UNCHANGED <<method, stage, asked, partition, repairs, drawn>>
    BY DEF SendDelta, summaryVars
  <1>2. /\ OutboxHonest' /\ LoopTypeOK'
        /\ Delta(s, t) \in Packet /\ Delta(s, t).kind = "delta" /\ Delta(s, t).wait = Delay
        /\ Delta(s, t).update \in emitted /\ ~Delta(s, t).keyed
        /\ net' = net \o Sent(kept, Delta(s, t))
        /\ UNCHANGED <<step, phase, turn, beliefs, emitted, control, policy>>
    BY <1>1, SummaryTypes, AttemptSends
  <1>3. Delta(s, t) \in SoundPackets
    BY <1>2 DEF SoundPackets
  <1>4. QueueOK(net', SoundPackets)
    BY <1>2, <1>3, SummaryTypes, SummaryPackets, QueueAppends, LoopAssumption
  <1>5. SoundPackets' = SoundPackets
    BY <1>2 DEF SoundPackets, SoundSketch
  <1>6. HonestReports' /\ RepairsHonest'
    BY <1>1, <1>2, SummaryTypes DEF HonestReports, Legitimate, RepairsHonest
  <1>7. QED
    BY <1>1, <1>2, <1>4, <1>5, <1>6, SummaryTypes, SummaryAssembles

\* A sender has no delta left, or no budget; after the last one summaries begin.
LEMMA SummaryEndDeltas ==
    ASSUME SummaryInv, NEW s \in Robots, EndDeltas(s)
    PROVE  SummaryInv' /\ UNCHANGED <<beliefs, emitted>>
  <1>1. /\ EndSending(s, "dispatch") /\ stage = "deltas"
        /\ stage' \in {"deltas", "summaries", "repairs"}
        /\ UNCHANGED <<method, asked, partition, repairs, drawn>>
    BY DEF EndDeltas
  <1>2. /\ LoopTypeOK'
        /\ UNCHANGED <<step, beliefs, emitted, net, data, control, policy, outbox>>
    BY <1>1, SummaryTypes, EndSendingFacts DEF Phases
  <1>3. QED
    BY <1>1, <1>2, SummaryTypes, SummaryQuietStep

\* A summary is a sound packet and has a size.
LEMMA SummaryIsSound ==
    ASSUME SummaryInv, NEW q \in Robots, NEW p \in Robots
    PROVE  /\ Summary(q, p) \in SoundPackets /\ Summary(q, p).wait = Delay
           /\ SummaryBytes \in Nat
  <1>1. SummaryBytes \in Nat
    BY SketchAssumption DEF SummaryBytes, DigestBytes, SketchBytes
  <1>2. CASE method = "mismatch"
    <2>1. Summary(q, p) = [kind |-> "digest", from |-> q, to |-> p, held |-> beliefs[q],
                           wait |-> Delay]
      BY <1>2 DEF Summary
    <2>2. beliefs[q] \in [Cells -> Stamp]
      BY SummaryTypes
    <2>3. Summary(q, p) \in SummaryPacket
      BY <2>1, <2>2, LoopAssumption DEF SummaryPacket
    <2>4. QED
      BY <1>1, <2>1, <2>3 DEF SoundPackets
  <1>3. CASE method # "mismatch"
    <2> DEFINE items == Records(beliefs[q], PartitionCells(partition))
               table == Build(partition, items)
    <2>1. Summary(q, p) = [kind |-> "sketch", from |-> q, to |-> p, part |-> partition,
                           table |-> table, wait |-> Delay]
      BY <1>3 DEF Summary
    <2>2. items \subseteq emitted /\ items \subseteq Update /\ IsFiniteSet(items)
      <3>1. PartitionCells(partition) \in SUBSET Cells
        BY DEF PartitionCells
      <3>2. QED
        BY <3>1, SummaryTypes, RecordsFacts
    <2> HIDE DEF items
    <2>3. table \in [Slots -> [count : Nat, keys : SUBSET Update]]
      BY <2>2, BuildTyped
    <2> HIDE DEF table
    <2>4. Summary(q, p) \in SummaryPacket
      BY <2>1, <2>3, SummaryTypes, LoopAssumption DEF SummaryPacket
    <2>5. SoundSketch(Summary(q, p))
      BY <2>1, <2>2 DEF SoundSketch, table
    <2>6. QED
      BY <1>1, <2>1, <2>4, <2>5 DEF SoundPackets
  <1>4. QED
    BY <1>2, <1>3

\* Sending a summary, or deferring it.
LEMMA SummarySendSummary ==
    ASSUME SummaryInv, NEW q \in Robots, NEW p \in Robots, NEW kept \in Survivals,
           SendSummary(q, p, kept)
    PROVE  SummaryInv' /\ UNCHANGED <<beliefs, emitted>>
  <1>1. /\ \/ /\ CanSpend(control[q], SummaryBytes)
              /\ control' = [control EXCEPT ![q] = @ - SummaryBytes]
              /\ net' = net \o Sent(kept, Summary(q, p))
           \/ UNCHANGED <<control, net>>
        /\ asked' = asked \cup {p}
        /\ UNCHANGED <<step, phase, turn, beliefs, emitted, data, policy, outbox,
                       method, stage, partition, repairs, drawn>>
    BY DEF SendSummary, deliveryVars
  <1>2. Summary(q, p) \in SoundPackets /\ Summary(q, p).wait = Delay /\ SummaryBytes \in Nat
    BY SummaryIsSound
  <1>3. QueueOK(net \o Sent(kept, Summary(q, p)), SoundPackets)
    BY <1>2, SummaryTypes, SummaryPackets, QueueAppends, LoopAssumption
  <1>4. QueueOK(net', SoundPackets)
    BY <1>1, <1>3, SummaryTypes
  <1>5. control' \in [Robots -> 0 .. ControlCap]
    <2>1. ControlCap \in Nat /\ control \in [Robots -> 0 .. ControlCap]
      BY SummaryTypes, LoopAssumption
    <2>2. CanSpend(control[q], SummaryBytes) =>
              [control EXCEPT ![q] = @ - SummaryBytes] \in [Robots -> 0 .. ControlCap]
      BY <1>2, <2>1, LedgerPays
    <2>3. QED
      BY <1>1, <2>1, <2>2
  <1>6. LoopTypeOK'
    BY <1>1, <1>5, SummaryTypes DEF LoopTypeOK
  <1>7. RepairsHonest'
    BY <1>1, SummaryTypes DEF RepairsHonest
  <1>8. QED
    BY <1>1, <1>4, <1>6, <1>7, SummaryTypes, SummaryQuiet

\* A robot has sent its summaries.
LEMMA SummaryEndSummaries ==
    ASSUME SummaryInv, NEW q \in Robots, EndSummaries(q)
    PROVE  SummaryInv' /\ UNCHANGED <<beliefs, emitted>>
  <1>1. /\ PassTurn(q, IF method = "mismatch" THEN "dispatch" ELSE "settle")
        /\ stage = "summaries" /\ stage' \in {"deltas", "summaries", "repairs"} /\ asked' = {}
        /\ UNCHANGED <<step, beliefs, emitted, net, data, control, policy, outbox,
                       method, partition, repairs, drawn>>
    BY DEF EndSummaries, deliveryVars
  <1>2. turn' \in Robots /\ phase' \in Phases
    BY <1>1, PassTurnFacts, SummaryTypes DEF Phases
  <1>3. LoopTypeOK'
    BY <1>1, <1>2, SummaryTypes DEF LoopTypeOK
  <1>4. QED
    BY <1>1, <1>3, SummaryTypes, SummaryQuietStep

\* Sending a queued repair.
LEMMA SummarySendRepair ==
    ASSUME SummaryInv, NEW s \in Robots, NEW t \in repairs[s], NEW kept \in Survivals,
           SendRepair(s, t, kept)
    PROVE  SummaryInv' /\ UNCHANGED <<beliefs, emitted>>
  <1>1. /\ CanSpend(data[s], DeltaBytes)
        /\ data' = [data EXCEPT ![s] = @ - DeltaBytes]
        /\ net' = net \o Sent(kept, Delta(s, t))
        /\ repairs' = [repairs EXCEPT ![s] = @ \ {t}]
        /\ drawn' = drawn \cup {[task |-> t, kept |-> kept]}
        /\ UNCHANGED <<step, phase, turn, beliefs, emitted, control, policy, outbox,
                       method, stage, asked, partition>>
    BY DEF SendRepair, deliveryVars
  <1>2. /\ t \in RepairTask /\ t.update \in emitted /\ t.update \in Update
        /\ t.receiver \in Robots
    BY SummaryTypes DEF RepairsHonest, RepairTask
  <1>3. Delta(s, t) = [kind |-> "delta", from |-> s, to |-> t.receiver, update |-> t.update,
                       keyed |-> FALSE, wait |-> Delay]
    <2>1. Acknowledged = FALSE
      BY SummaryTypes DEF Acknowledged
    <2>2. QED
      BY <2>1 DEF Delta
  <1>4. Delta(s, t) \in SoundPackets /\ Delta(s, t).wait = Delay
    <2>1. Delta(s, t) \in Packet
      BY <1>2, <1>3, LoopAssumption DEF Packet
    <2>2. QED
      BY <1>2, <1>3, <2>1 DEF SoundPackets
  <1>5. QueueOK(net', SoundPackets)
    BY <1>1, <1>4, SummaryTypes, SummaryPackets, QueueAppends, LoopAssumption
  <1>6. data' \in [Robots -> 0 .. DataCap]
    BY <1>1, LedgerPays, SummaryTypes, LoopAssumption DEF DeltaBytes
  <1>7. LoopTypeOK'
    BY <1>1, <1>6, SummaryTypes DEF LoopTypeOK
  <1>8. repairs' \in [Robots -> SUBSET RepairTask] /\ RepairsHonest'
    BY <1>1, SummaryTypes DEF RepairsHonest
  <1>9. drawn' \subseteq [task : RepairTask, kept : BOOLEAN]
    <2>1. kept \in BOOLEAN
      BY DEF Survivals
    <2>2. QED
      BY <1>1, <1>2, <2>1, SummaryTypes
  <1>10. QED
    BY <1>1, <1>5, <1>7, <1>8, <1>9, SummaryTypes, SummaryQuiet

\* A robot has sent of its queue what it may.
LEMMA SummaryEndRepairs ==
    ASSUME SummaryInv, NEW s \in Robots, EndRepairs(s)
    PROVE  SummaryInv' /\ UNCHANGED <<beliefs, emitted>>
  <1>1. /\ PassTurn(s, "settle")
        /\ stage = "repairs" /\ stage' \in {"deltas", "summaries", "repairs"}
        /\ UNCHANGED <<step, beliefs, emitted, net, data, control, policy, outbox,
                       method, asked, partition, repairs, drawn>>
    BY DEF EndRepairs, deliveryVars
  <1>2. turn' \in Robots /\ phase' \in Phases
    BY <1>1, PassTurnFacts, SummaryTypes DEF Phases
  <1>3. LoopTypeOK'
    BY <1>1, <1>2, SummaryTypes DEF LoopTypeOK
  <1>4. QED
    BY <1>1, <1>3, SummaryTypes, SummaryQuietStep

\* The packet at the head of a drain.
LEMMA SummaryHead ==
    ASSUME SummaryInv, Draining
    PROVE  /\ Head(net) \in SoundPackets
           /\ Head(net).from \in Robots /\ Head(net).to \in Robots
           /\ QueueOK(Tail(net), SoundPackets)
  <1>1. Due
    BY DEF Draining
  <1>2. Head(net) \in SoundPackets /\ QueueOK(Tail(net), SoundPackets)
    BY <1>1, SummaryTypes, QueueHead
  <1>3. QED
    BY <1>2, SummaryPackets

\* A replica that learns reports.
LEMMA SummaryLearns ==
    ASSUME SummaryInv, Draining, Sharing!Learn(Head(net).to),
           beliefs' \in [Robots -> [Cells -> Stamp]], net' = Tail(net),
           UNCHANGED <<step, phase, turn, emitted, data, control, policy, outbox,
                       method, stage, asked, partition, repairs, drawn>>
    PROVE  SummaryInv' /\ Sharing!Next
  <1> DEFINE r == Head(net).to
  <1>1. r \in Robots /\ QueueOK(Tail(net), SoundPackets)
    BY SummaryHead
  <1> HIDE DEF r
  <1>2. Sharing!Next
    BY <1>1 DEF Sharing!Next, r
  <1>3. HonestReports' /\ emitted \subseteq emitted'
    BY <1>2, SummaryTypes, SharingStep
  <1>4. SoundPackets \subseteq SoundPackets'
    BY <1>3, SummariesStaySound
  <1>5. QueueOK(net', SoundPackets')
    BY <1>1, <1>4, QueueWidens
  <1>6. OutboxHonest' /\ RepairsHonest' /\ LoopTypeOK'
    BY SummaryTypes DEF OutboxHonest, RepairsHonest, LoopTypeOK
  <1>7. QED
    BY <1>2, <1>3, <1>5, <1>6, SummaryTypes, SummaryAssembles

\* Taking a delta in.
LEMMA SummaryHandleDelta ==
    ASSUME SummaryInv, NEW kept \in Survivals, HandleDelta(kept), UNCHANGED summaryVars
    PROVE  SummaryInv' /\ Sharing!Next
  <1> DEFINE m == Head(net)
  <1>1. Draining /\ m.kind = "delta"
    BY DEF HandleDelta
  <1>2. m \in SoundPackets /\ m.to \in Robots
    BY <1>1, SummaryHead
  <1>3. m.update \in emitted /\ ~m.keyed
    BY <1>1, <1>2 DEF SoundPackets
  <1>4. /\ beliefs' = [beliefs EXCEPT ![m.to] = Received(@, m.update)]
        /\ net' = Tail(net)
        /\ UNCHANGED <<step, phase, turn, emitted, data, control, policy, outbox,
                       method, stage, asked, partition, repairs, drawn>>
    BY <1>3 DEF HandleDelta, summaryVars
  <1> HIDE DEF m
  <1>5. beliefs' \in [Robots -> [Cells -> Stamp]] /\ Sharing!Learn(m.to)
    BY <1>2, <1>3, <1>4, SummaryTypes, ReceivedImplements
  <1>6. QED
    BY <1>1, <1>4, <1>5, SummaryLearns DEF m

\* Taking a patch in.
LEMMA SummaryHandlePatch ==
    ASSUME SummaryInv, HandlePatch
    PROVE  SummaryInv' /\ Sharing!Next
  <1> DEFINE m == Head(net)
             belief == Patched(beliefs[m.to], m.updates)
  <1>1. /\ Draining /\ m.kind = "patch"
        /\ beliefs' = [beliefs EXCEPT ![m.to] = belief]
        /\ net' = Tail(net)
        /\ UNCHANGED <<step, phase, turn, emitted, data, control, policy, outbox,
                       method, stage, asked, partition, repairs, drawn>>
    BY DEF HandlePatch, deliveryVars, summaryVars
  <1>2. m \in SoundPackets /\ m.to \in Robots
    BY <1>1, SummaryHead
  <1>3. m.updates \subseteq emitted /\ m.updates \in SUBSET Update
    BY <1>1, <1>2, SummaryTypes DEF SoundPackets
  <1>4. beliefs[m.to] \in [Cells -> Stamp]
    BY <1>2, SummaryTypes
  <1> HIDE DEF m
  <1>5. /\ belief \in [Cells -> Stamp]
        /\ \A c \in Cells :
               \/ belief[c] = beliefs[m.to][c]
               \/ /\ StampLess(beliefs[m.to][c], belief[c])
                  /\ [cell |-> c, stamp |-> belief[c]] \in emitted
    BY <1>3, <1>4, PatchedFacts
  <1> HIDE DEF belief
  <1>6. beliefs' \in [Robots -> [Cells -> Stamp]] /\ Sharing!Learn(m.to)
    BY <1>1, <1>2, <1>5, SummaryTypes, LearnImplements
  <1>7. QED
    BY <1>1, <1>6, SummaryLearns DEF m

\* A digest that differs: what is queued was reported.
LEMMA SummaryHandleDigest ==
    ASSUME SummaryInv, HandleDigest
    PROVE  SummaryInv' /\ UNCHANGED <<beliefs, emitted>>
  <1> DEFINE m == Head(net)
             known == Records(beliefs[m.to], Cells)
             new == {[update |-> u, receiver |-> m.from] : u \in known}
  <1>1. /\ Draining /\ net' = Tail(net)
        /\ repairs' = repairs \/ repairs' = [repairs EXCEPT ![m.to] = @ \cup new]
        /\ UNCHANGED <<step, phase, turn, beliefs, emitted, data, control, policy, outbox,
                       method, stage, asked, partition, drawn>>
    BY DEF HandleDigest, deliveryVars
  <1>2. m.from \in Robots /\ m.to \in Robots /\ QueueOK(net', SoundPackets)
    BY <1>1, SummaryHead
  <1> HIDE DEF m
  <1>3. known \subseteq emitted /\ known \subseteq Update
    BY <1>2, SummaryTypes, RecordsFacts
  <1> HIDE DEF known
  <1>4. new \subseteq RepairTask /\ \A t \in new : t.update \in emitted
    BY <1>2, <1>3 DEF RepairTask
  <1> HIDE DEF new
  <1>5. repairs' \in [Robots -> SUBSET RepairTask] /\ RepairsHonest'
    BY <1>1, <1>2, <1>4, SummaryTypes DEF RepairsHonest
  <1>6. LoopTypeOK'
    BY <1>1, SummaryTypes DEF LoopTypeOK
  <1>7. QED
    BY <1>1, <1>2, <1>5, <1>6, SummaryTypes, SummaryQuiet

\* A sketch that does not peel is dropped.
LEMMA SummaryFailToDecode ==
    ASSUME SummaryInv, FailToDecode
    PROVE  SummaryInv' /\ UNCHANGED <<beliefs, emitted>>
  <1>1. /\ Draining /\ net' = Tail(net)
        /\ UNCHANGED <<step, phase, turn, beliefs, emitted, data, control, policy, outbox,
                       method, stage, asked, partition, repairs, drawn>>
    BY DEF FailToDecode, deliveryVars, summaryVars
  <1>2. QueueOK(net', SoundPackets)
    BY <1>1, SummaryHead
  <1>3. LoopTypeOK' /\ RepairsHonest'
    BY <1>1, SummaryTypes DEF LoopTypeOK, RepairsHonest
  <1>4. QED
    BY <1>1, <1>2, <1>3, SummaryTypes, SummaryQuiet

\* What is read from a sketch are records of the reader's own that were not in it.
LEMMA ReadFacts ==
    ASSUME SummaryInv, TableHashes, NEW m \in SoundPackets, m.kind = "sketch"
    PROVE  Read(m).positive \subseteq Records(beliefs[m.to], PartitionCells(m.part))
  <1> DEFINE ours == Records(beliefs[m.to], PartitionCells(m.part))
  <1>1. m.to \in Robots /\ m.part \in 0 .. Partitions - 1
    BY SummaryPackets
  <1>2. PICK theirs \in SUBSET emitted : IsFiniteSet(theirs) /\ m.table = Build(m.part, theirs)
    BY DEF SoundPackets, SoundSketch
  <1>3. Read(m) = Difference(m.part, ours, theirs)
    BY <1>2 DEF Read, Difference
  <1>4. ours \subseteq Update /\ IsFiniteSet(ours)
    <2>1. PartitionCells(m.part) \in SUBSET Cells
      BY DEF PartitionCells
    <2>2. QED
      BY <1>1, <2>1, SummaryTypes, RecordsFacts
  <1> HIDE DEF ours
  <1>5. HashesInTable(m.part, ours \cup theirs)
    BY <1>1, <1>2, <1>4, SummaryTypes DEF TableHashes, HashesInTable
  <1>6. Difference(m.part, ours, theirs).positive \subseteq ours \ theirs
    BY <1>2, <1>4, <1>5, PeelingIsSound
  <1>7. QED
    BY <1>3, <1>6 DEF ours

\* Answering a sketch that peels: the patch holds reports, and is paid for.
LEMMA SummaryDecode ==
    ASSUME SummaryInv, TableHashes, NEW kept \in Survivals, Decode(kept)
    PROVE  SummaryInv' /\ UNCHANGED <<beliefs, emitted>>
  <1> DEFINE m == Head(net)
             read == Read(m).positive
             left == data[m.to]
             room == PatchRoom(left)
             chosen == Selected(read, room)
             bytes == PatchBytes(Cardinality(chosen))
  <1>1. /\ Draining /\ m.kind = "sketch"
        /\ \/ chosen = {} /\ net' = Tail(net) /\ UNCHANGED data
           \/ /\ chosen # {}
              /\ data' = [data EXCEPT ![m.to] = @ - bytes]
              /\ net' = Tail(net) \o Sent(kept, IbltPatch(m, chosen))
        /\ UNCHANGED <<step, phase, turn, beliefs, emitted, control, policy, outbox,
                       method, stage, asked, partition, repairs, drawn>>
    BY DEF Decode, deliveryVars, summaryVars
  <1>2. /\ m \in SoundPackets /\ m.from \in Robots /\ m.to \in Robots
        /\ QueueOK(Tail(net), SoundPackets)
    BY <1>1, SummaryHead
  <1> HIDE DEF m
  <1>3. /\ read \subseteq emitted /\ read \in SUBSET Update /\ IsFiniteSet(read)
        /\ \A u, v \in read : u.cell = v.cell => u = v
    <2> DEFINE ours == Records(beliefs[m.to], PartitionCells(m.part))
    <2>1. read \in SUBSET ours
      BY <1>1, <1>2, ReadFacts
    <2>2. PartitionCells(m.part) \in SUBSET Cells
      BY DEF PartitionCells
    <2>3. /\ ours \subseteq emitted /\ ours \subseteq Update /\ IsFiniteSet(ours)
          /\ \A u, v \in ours : u.cell = v.cell => u = v
      BY <1>2, <2>2, SummaryTypes, RecordsFacts
    <2> HIDE DEF ours, read
    <2>4. IsFiniteSet(read)
      BY <2>1, <2>3, FS_Subset
    <2>5. QED
      BY <2>1, <2>3, <2>4
  <1>4. left \in Nat /\ room \in Nat
    <2>1. left \in Nat
      BY <1>2, SummaryTypes, LoopAssumption
    <2> HIDE DEF left
    <2>2. QED
      BY <2>1 DEF PatchRoom, PatchBytes, DeltaBytes
  <1> HIDE DEF read
  <1>5. chosen \subseteq read /\ IsFiniteSet(chosen) /\ Cardinality(chosen) \in 0 .. room
    <2> HIDE DEF room
    <2>1. QED
      BY <1>3, <1>4, SelectedFits
  <1>6. bytes \in Nat /\ (chosen # {} => bytes <= left)
    <2> DEFINE n == Cardinality(chosen)
    <2> HIDE DEF chosen, left
    <2>1. chosen # {} => n > 0
      BY <1>4, <1>5, FS_EmptySet
    <2>2. n \in 0 .. PatchRoom(left)
      BY <1>5
    <2> HIDE DEF n
    <2>3. PatchBytes(n) \in Nat /\ (n > 0 => PatchBytes(n) <= left)
      BY <1>4, <2>2, PatchFits
    <2>4. QED
      BY <2>1, <2>3 DEF n
  <1> HIDE DEF chosen, bytes, room
  <1>7. IbltPatch(m, chosen) \in SoundPackets /\ IbltPatch(m, chosen).wait = Delay
    <2>1. IbltPatch(m, chosen) = [kind |-> "patch", from |-> m.to, to |-> m.from,
                                  updates |-> chosen, wait |-> Delay]
      BY DEF IbltPatch
    <2>2. chosen \subseteq Update /\ chosen \subseteq emitted
      BY <1>3, <1>5
    <2>3. IbltPatch(m, chosen) \in SummaryPacket
      BY <1>2, <2>1, <2>2, LoopAssumption DEF SummaryPacket
    <2>4. QED
      BY <2>1, <2>2, <2>3 DEF SoundPackets
  <1>8. QueueOK(net', SoundPackets)
    <2>1. QueueOK(Tail(net) \o Sent(kept, IbltPatch(m, chosen)), SoundPackets)
      BY <1>2, <1>7, SummaryPackets, QueueAppends, LoopAssumption
    <2>2. QED
      BY <1>1, <1>2, <2>1
  <1>9. data' \in [Robots -> 0 .. DataCap]
    <2>1. DataCap \in Nat /\ data \in [Robots -> 0 .. DataCap]
      BY SummaryTypes, LoopAssumption
    <2>2. chosen # {} => [data EXCEPT ![m.to] = @ - bytes] \in [Robots -> 0 .. DataCap]
      BY <1>2, <1>6, <2>1, LedgerPays DEF CanSpend
    <2>3. QED
      BY <1>1, <2>1, <2>2
  <1>10. LoopTypeOK' /\ RepairsHonest'
    BY <1>1, <1>9, SummaryTypes DEF LoopTypeOK, RepairsHonest
  <1>11. QED
    BY <1>1, <1>8, <1>10, SummaryTypes, SummaryQuiet

\* A sound packet stays one as its wait runs down.
LEMMA SummaryWaits ==
    ASSUME NEW m \in SoundPackets, m.wait > 0
    PROVE  LET n == [m EXCEPT !.wait = @ - 1] IN
           n \in SoundPackets /\ n.wait = m.wait - 1
  <1> DEFINE n == [m EXCEPT !.wait = @ - 1]
  <1>1. m \in Packet \cup SummaryPacket /\ m.wait - 1 \in Nat
    BY SummaryPackets
  <1>2. /\ n \in Packet \cup SummaryPacket /\ n.wait = m.wait - 1 /\ n.kind = m.kind
        /\ m.kind = "delta" => n.update = m.update /\ n.keyed = m.keyed
        /\ m.kind = "sketch" => n.part = m.part /\ n.table = m.table
        /\ m.kind = "patch" => n.updates = m.updates
    BY <1>1 DEF Packet, SummaryPacket
  <1> HIDE DEF n
  <1>3. n \in SoundPackets
    BY <1>2 DEF SoundPackets, SoundSketch
  <1>4. QED
    BY <1>2, <1>3 DEF n

\* The clock advances, and the partitions take turns.
LEMMA SummaryTick ==
    ASSUME SummaryInv, Tick
    PROVE  SummaryInv' /\ UNCHANGED <<beliefs, emitted>>
  <1>1. /\ EndStep
        /\ partition' \in {partition, (partition + 1) % Partitions}
        /\ UNCHANGED <<policy, outbox, method, stage, asked, repairs, drawn>>
    BY DEF Tick, deliveryVars, NextPartition
  <1>2. UNCHANGED <<beliefs, emitted>>
    BY <1>1 DEF EndStep
  <1>3. LoopTypeOK'
    BY <1>1, SummaryTypes, EndStepTypes
  <1>4. QueueOK(net', SoundPackets)
    BY <1>1, SummaryTypes, SummaryPackets, SummaryWaits, QueueTicks
  <1>5. partition' \in 0 .. Partitions - 1
    <2>1. Partitions \in Nat \ {0} /\ partition \in 0 .. Partitions - 1
      BY SummaryTypes, SummaryAssumption
    <2>2. partition + 1 \in Nat
      BY <2>1
    <2>3. (partition + 1) % Partitions \in 0 .. Partitions - 1
      BY <2>1, <2>2, Division
    <2>4. QED
      BY <1>1, <2>1, <2>3
  <1>6. RepairsHonest'
    BY <1>1, <1>2, SummaryTypes DEF RepairsHonest
  <1>7. QED
    BY <1>1, <1>2, <1>3, <1>4, <1>5, <1>6, SummaryTypes, SummaryQuiet

-----------------------------------------------------------------------------
\* Whatever the budget, the delay and the tables are.

LEMMA SummaryStep ==
    ASSUME SummaryInv, TableHashes, [SummaryNext]_allVars
    PROVE  SummaryInv' /\ [Sharing!Next]_(Sharing!sharingVars)
  <1>1. CASE EndArrivals /\ UNCHANGED <<deliveryVars, summaryVars>>
    BY <1>1, SummaryEndArrivals DEF Sharing!sharingVars
  <1>2. ASSUME NEW r \in Robots, NEW w \in Shown(r), Sense(r, w), UNCHANGED summaryVars
        PROVE  SummaryInv' /\ Sharing!Next
    <2>1. SummaryInv' /\ Sharing!Look(r)
      BY <1>2, SummarySense
    <2>2. QED
      BY <2>1 DEF Sharing!Next
  <1>3. ASSUME NEW s \in Robots, NEW t \in outbox[s], NEW kept \in Survivals, SendDelta(s, t, kept)
        PROVE  SummaryInv' /\ UNCHANGED <<beliefs, emitted>>
    BY <1>3, SummarySendDelta
  <1>4. ASSUME NEW s \in Robots, EndDeltas(s)
        PROVE  SummaryInv' /\ UNCHANGED <<beliefs, emitted>>
    BY <1>4, SummaryEndDeltas
  <1>5. ASSUME NEW q \in Robots, NEW p \in Robots, NEW kept \in Survivals, SendSummary(q, p, kept)
        PROVE  SummaryInv' /\ UNCHANGED <<beliefs, emitted>>
    BY <1>5, SummarySendSummary
  <1>6. ASSUME NEW q \in Robots, EndSummaries(q)
        PROVE  SummaryInv' /\ UNCHANGED <<beliefs, emitted>>
    BY <1>6, SummaryEndSummaries
  <1>7. ASSUME NEW s \in Robots, NEW t \in repairs[s], NEW kept \in Survivals,
               SendRepair(s, t, kept)
        PROVE  SummaryInv' /\ UNCHANGED <<beliefs, emitted>>
    BY <1>7, SummarySendRepair
  <1>8. ASSUME NEW s \in Robots, EndRepairs(s)
        PROVE  SummaryInv' /\ UNCHANGED <<beliefs, emitted>>
    BY <1>8, SummaryEndRepairs
  <1>9. ASSUME NEW kept \in Survivals, HandleDelta(kept), UNCHANGED summaryVars
        PROVE  SummaryInv' /\ Sharing!Next
    BY <1>9, SummaryHandleDelta
  <1>10. CASE HandleDigest
    BY <1>10, SummaryHandleDigest DEF Sharing!sharingVars
  <1>11. CASE FailToDecode
    BY <1>11, SummaryFailToDecode DEF Sharing!sharingVars
  <1>12. ASSUME NEW kept \in Survivals, Decode(kept)
         PROVE  SummaryInv' /\ UNCHANGED <<beliefs, emitted>>
    BY <1>12, SummaryDecode
  <1>13. CASE HandlePatch
    BY <1>13, SummaryHandlePatch
  <1>14. CASE Tick
    BY <1>14, SummaryTick DEF Sharing!sharingVars
  <1>15. CASE UNCHANGED allVars
    BY <1>15, SummaryStutter DEF allVars, vars, loopVars, Sharing!sharingVars
  <1>16. QED
    BY <1>1, <1>2, <1>3, <1>4, <1>5, <1>6, <1>7, <1>8, <1>9, <1>10, <1>11, <1>12, <1>13, <1>14,
       <1>15 DEF SummaryNext, Sharing!sharingVars

\* For every budget, delay, table and schedule of partitions: a sketch under way
\* was built from reports, queues and patches hold reports only, and neither a
\* summary nor a repair nor a truncated patch overdraws a ledger.
THEOREM SummaryInvariance ==
    ASSUME TableHashes
    PROVE  SummarySpec => []SummaryInv
  <1>1. Init /\ SummaryInit => SummaryInv
    BY SummaryInitEstablishes
  <1>2. SummaryInv /\ [SummaryNext]_allVars => SummaryInv'
    BY SummaryStep
  <1>3. QED
    BY <1>1, <1>2, PTL DEF SummarySpec

\* The types, and with them the ledgers: a patch is cut to the records that the
\* data budget of its step still pays for, whatever a sketch asks for.
THEOREM SummaryTypeCorrect ==
    ASSUME TableHashes
    PROVE  SummarySpec => []SummaryTypeOK
  <1>1. SummaryInv => SummaryTypeOK
    BY DEF SummaryInv
  <1>2. QED
    BY <1>1, SummaryInvariance, PTL

\* Repair by digests and by sketches implements the abstract map sharing: what
\* peels out of a difference is never a record that nobody reported.
THEOREM SummaryRefinement ==
    ASSUME TableHashes
    PROVE  SummarySpec => SummaryImplementsSharing
  <1>1. Init /\ SummaryInit => Sharing!Init
    BY LoopStarts DEF Init
  <1>2. SummaryInv /\ [SummaryNext]_allVars => [Sharing!Next]_(Sharing!sharingVars)
    BY SummaryStep
  <1>3. QED
    BY <1>1, <1>2, SummaryInvariance, PTL
       DEF SummarySpec, SummaryImplementsSharing, ImplementsSharing, Sharing!Spec

-----------------------------------------------------------------------------
\* A multiple leaves nothing.
LEMMA MultipleLeavesNothing ==
    ASSUME NEW k \in Nat, NEW b \in Nat \ {0}
    PROVE  (k * b) % b = 0
  OBVIOUS

-----------------------------------------------------------------------------
\* The known cells in row-major order.

\* Of a finite set of numbers with more than i elements, one has exactly i below
\* it: otherwise a smallest such set would lose its greatest element.
LEMMA RankExists ==
    ASSUME NEW S \in SUBSET Int, IsFiniteSet(S), NEW i \in Nat, i < Cardinality(S)
    PROVE  \E c \in S : Cardinality({d \in S : d < c}) = i
  <1> DEFINE Ranked(Q) == \E c \in Q : Cardinality({d \in Q : d < c}) = i
             Bad == {Q \in SUBSET S : i < Cardinality(Q) /\ ~Ranked(Q)}
  <1>1. SUFFICES ASSUME ~Ranked(S) PROVE FALSE
    OBVIOUS
  <1>2. S \in Bad
    BY <1>1
  <1>3. Bad \subseteq FiniteSubsetsOf(S)
    BY FS_FiniteSubsetsOfFinite
  <1> HIDE DEF Bad
  <1>4. PICK Q \in Bad : \A P \in Bad : <<P, Q>> \notin StrictSubsetOrdering(S)
    <2>1. IsWellFoundedOn(StrictSubsetOrdering(S), FiniteSubsetsOf(S))
      BY FS_StrictSubsetOrderingWellFounded
    <2>2. QED
      BY <1>2, <1>3, <2>1, WFMin
  <1> USE DEF Bad
  <1>5. Q \in SUBSET S /\ i < Cardinality(Q) /\ ~Ranked(Q)
    BY <1>4
  <1>6. IsFiniteSet(Q) /\ Cardinality(Q) \in Nat /\ Q # {}
    <2>1. IsFiniteSet(Q)
      BY <1>5, FS_Subset
    <2>2. Cardinality(Q) \in Nat
      BY <2>1, FS_CardinalityType
    <2>3. Cardinality(Q) # 0
      BY <1>5, <2>2
    <2>4. QED
      BY <2>1, <2>2, <2>3, FS_EmptySet
  <1>7. \E m \in Q : \A x \in Q : x <= m
    <2> DEFINE R == {p \in Q \X Q : p[1] <= p[2]}
    <2>1. \A x, y \in Q : <<x, y>> \in R <=> x <= y
      OBVIOUS
    <2> HIDE DEF R
    <2>2. Q \subseteq Int
      BY <1>5
    <2> HIDE DEF Ranked, Bad
    <2>3. /\ \A x, y \in Q : <<x, y>> \in R \/ <<y, x>> \in R
          /\ \A x, y, z \in Q : <<x, y>> \in R /\ <<y, z>> \in R => <<x, z>> \in R
      BY <2>1, <2>2
    <2>4. \E m \in Q : \A x \in Q : <<x, m>> \in R
      BY <1>6, <2>3, GreatestExists
    <2>5. QED
      BY <2>1, <2>4
  <1>8. PICK m \in Q : \A x \in Q : x <= m
    BY <1>7
  <1> DEFINE P == Q \ {m}
  <1>9. IsFiniteSet(P) /\ Cardinality(P) = Cardinality(Q) - 1
    BY <1>6, FS_RemoveElement
  <1>10. P \in SUBSET S /\ P # Q /\ P \subseteq Q /\ \A x \in Q : x \in Int
    BY <1>5
  <1>11. CASE i = Cardinality(P)
    <2>1. {d \in Q : d < m} = P
      <3>1. \A d \in Q : d < m <=> d # m
        BY <1>8, <1>10
      <3>2. QED
        BY <3>1
    <2>2. QED
      BY <1>5, <1>11, <2>1
  <1>12. CASE i # Cardinality(P)
    <2>1. i < Cardinality(P)
      BY <1>5, <1>6, <1>9, <1>12
    <2>2. P \notin Bad
      BY <1>4, <1>5, <1>10 DEF StrictSubsetOrdering
    <2>3. PICK c \in P : Cardinality({d \in P : d < c}) = i
      BY <1>10, <2>1, <2>2
    <2>4. {d \in P : d < c} = {d \in Q : d < c}
      BY <1>8, <1>10
    <2>5. QED
      BY <1>5, <2>3, <2>4
  <1>13. QED
    BY <1>11, <1>12

\* The cells are finitely many, and so are those that a robot knows.
LEMMA KnownCellsFinite ==
    ASSUME NEW s \in Robots, KnownCells(s) # {}
    PROVE  /\ KnownCells(s) \in SUBSET Int /\ IsFiniteSet(KnownCells(s))
           /\ Cardinality(KnownCells(s)) \in Nat \ {0}
  <1>1. IsFiniteSet(Cells) /\ Cells \subseteq Int
    BY FS_Interval, LoopAssumption DEF Cells
  <1>2. KnownCells(s) \in SUBSET Cells
    BY DEF KnownCells
  <1>3. IsFiniteSet(KnownCells(s))
    BY <1>1, <1>2, FS_Subset
  <1>4. QED
    BY <1>1, <1>2, <1>3, FS_CardinalityType, FS_EmptySet

\* The place of a chunk names a cell that the sender knows and a teammate.
LEMMA PlaceFacts ==
    ASSUME NEW s \in Robots, NumReceivers > 0, KnownCells(s) # {},
           data[s] \in Nat, round \in Nat, place \in Nat
    PROVE  /\ CellsPerReceiver(s) \in Nat \ {0}
           /\ CellAt(s, place) \in KnownCells(s)
           /\ TargetAt(s, place) \in Robots /\ TargetAt(s, place) # s
  <1>1. NumReceivers \in Nat \ {0} /\ NumReceivers = NumRobots - 1 /\ NumRobots \in Nat
    BY LoopAssumption DEF NumReceivers
  <1>2. CellsPerReceiver(s) \in Nat \ {0}
    <2> DEFINE fits == (data[s] + DeltaBytes * place) \div DeltaBytes
               share == fits \div NumReceivers
    <2>1. data[s] + DeltaBytes * place \in Nat
      BY DEF DeltaBytes
    <2>2. fits \in Nat
      BY <2>1, Division DEF DeltaBytes
    <2> HIDE DEF fits
    <2>3. share \in Nat
      BY <1>1, <2>2, Division
    <2>4. CellsPerReceiver(s) = IF share = 0 THEN 1 ELSE share
      BY DEF CellsPerReceiver, fits
    <2> HIDE DEF share
    <2>5. QED
      BY <2>3, <2>4
  <1>3. CellAt(s, place) \in KnownCells(s)
    <2> DEFINE n == round * CellsPerReceiver(s) + place \div NumReceivers
               i == n % Cardinality(KnownCells(s))
    <2>1. n \in Nat
      <3>1. place \div NumReceivers \in Nat
        BY <1>1, Division
      <3>2. \A a, b \in Nat : a * b \in Nat
        OBVIOUS
      <3>3. round * CellsPerReceiver(s) \in Nat
        BY <1>2, <3>2
      <3>4. QED
        BY <3>1, <3>3
    <2> HIDE DEF n
    <2>2. i \in Nat /\ i < Cardinality(KnownCells(s))
      BY <2>1, KnownCellsFinite, Division
    <2> HIDE DEF i
    <2>3. \E c \in KnownCells(s) : Cardinality({d \in KnownCells(s) : d < c}) = i
      BY <2>2, KnownCellsFinite, RankExists
    <2>4. KnownAt(s, i) \in KnownCells(s)
      BY <2>3 DEF KnownAt
    <2>5. QED
      BY <2>4 DEF CellAt, i, n
  <1>4. TargetAt(s, place) \in Robots /\ TargetAt(s, place) # s
    <2> DEFINE j == (round + (place % NumReceivers)) % NumReceivers
    <2>1. place % NumReceivers \in Nat
      BY <1>1, Division
    <2>2. j \in 0 .. NumReceivers - 1
      BY <1>1, <2>1, Division
    <2>3. TargetAt(s, place) = ReceiverAt(s, j)
      BY DEF TargetAt
    <2> HIDE DEF j
    <2>4. QED
      BY <1>1, <2>2, <2>3 DEF ReceiverAt, Robots
  <1>5. QED
    BY <1>2, <1>3, <1>4

-----------------------------------------------------------------------------
\* The invariant and the steps.

\* What the invariant says, spelled out.
LEMMA SyncFacts ==
    ASSUME SyncInv
    PROVE  /\ IndInv /\ LoopTypeOK /\ TypeOK
           /\ round \in Nat /\ place \in Nat
           /\ turn \in Robots /\ phase \in Phases /\ step \in Nat /\ DataCap \in Nat
           /\ data \in [Robots -> 0 .. DataCap]
           /\ \A r \in Robots : data[r] \in Nat
           /\ 0 \in Robots
           /\ ~(phase = "dispatch" /\ IsSyncStep) => place = 0
  <1>1. round \in Nat /\ place \in Nat
    BY DEF SyncInv, SyncTypeOK
  <1>2. 0 \in Robots /\ DataCap \in Nat
    BY LoopAssumption DEF Robots
  <1>3. ~(phase = "dispatch" /\ IsSyncStep) => place = 0
    BY <1>1 DEF SyncInv, ChunkFits
  <1>4. LoopTypeOK /\ TypeOK /\ IndInv
    BY DEF SyncInv, SyncTypeOK, TypeOK
  <1>5. QED
    BY <1>1, <1>2, <1>3, <1>4 DEF LoopTypeOK

\* The sync starts with the invariant.
LEMMA SyncInitEstablishes ==
    ASSUME Init, SyncInit
    PROVE  SyncInv
  <1>1. IndInv
    BY InitEstablishes
  <1>2. SyncTypeOK
    <2>1. DataCap \div DeltaBytes \in Nat
      BY LoopAssumption, Division DEF DeltaBytes
    <2>2. QED
      BY <1>1, <2>1, SyncAssumption DEF SyncTypeOK, SyncInit, IndInv
  <1>3. LedgersFull /\ ChunkFits
    BY DEF Init, LoopInit, SyncInit, LedgersFull, ChunkFits
  <1>4. QED
    BY <1>1, <1>2, <1>3 DEF SyncInv

\* Outside a chunk only the ledgers are to be looked at.
LEMMA NoChunk ==
    ASSUME SyncInv, [Next]_vars, place = 0, place' = 0, round' \in 0 .. RoundCycle - 1,
           LedgersFull'
    PROVE  SyncInv'
  <1>1. IndInv'
    BY NextPreserves, SyncFacts
  <1>2. DataCap \div DeltaBytes \in Nat
    BY LoopAssumption, Division DEF DeltaBytes
  <1>3. SyncTypeOK'
    BY <1>1, <1>2 DEF SyncTypeOK, IndInv
  <1>4. ChunkFits'
    BY DEF ChunkFits
  <1>5. QED
    BY <1>1, <1>3, <1>4 DEF SyncInv

\* The steps that are not part of a chunk.
LEMMA DeltaStepPreserves ==
    ASSUME SyncInv, [SyncNext]_allSyncVars,
           ~(\E s \in Robots, kept \in Survivals : SendSync(s, kept)),
           ~(\E s \in Robots : EndChunk(s))
    PROVE  SyncInv' /\ [Next]_vars
  <1>1. round \in 0 .. RoundCycle - 1
    BY DEF SyncInv, SyncTypeOK
  <1>2. CASE EndArrivals /\ UNCHANGED <<deliveryVars, syncVars>>
    <2>1. Next /\ place = 0 /\ place' = 0 /\ round' = round
      BY <1>2, SyncFacts DEF Next, EndArrivals, syncVars
    <2>2. LedgersFull'
      BY <1>2 DEF EndArrivals, SyncInv, LedgersFull
    <2>3. QED
      BY <1>1, <2>1, <2>2, NoChunk
  <1>3. ASSUME NEW r \in Robots, NEW w \in Shown(r), Sense(r, w), UNCHANGED syncVars
        PROVE  SyncInv' /\ Next
    <2>1. Next /\ place = 0 /\ place' = 0 /\ round' = round /\ phase = "sense"
      BY <1>3, SyncFacts DEF Next, Sense, Observe, syncVars
    <2>2. LedgersFull'
      <3>1. data' = data /\ step' = step /\ \A q \in Robots : data[q] = DataCap
        BY <1>3, <2>1 DEF Sense, Observe, SyncInv, LedgersFull
      <3>2. PassTurn(r, "dispatch")
        BY <1>3 DEF Sense, Observe
      <3>3. phase' = "sense" \/ (phase' = "dispatch" /\ turn' = 0)
        BY <2>1, <3>2 DEF PassTurn
      <3>4. data'[0] = DataCap /\ DataCap + DeltaBytes * 0 = DataCap
        BY <3>1, SyncFacts DEF DeltaBytes
      <3>5. QED
        BY <2>1, <3>1, <3>3, <3>4 DEF LedgersFull
    <2>3. QED
      BY <1>1, <2>1, <2>2, NoChunk
  <1>4. ASSUME NEW s \in Robots, NEW t \in outbox[s], NEW kept \in Survivals, SendSyncDelta(s, t, kept)
        PROVE  SyncInv' /\ Next
    <2>1. Next /\ place = 0 /\ place' = 0 /\ round' = round
      BY <1>4, SyncFacts DEF Next, SendSyncDelta, syncVars
    <2>2. LedgersFull'
      BY <1>4 DEF SendSyncDelta, Attempt, LedgersFull, IsSyncStep
    <2>3. QED
      BY <1>1, <2>1, <2>2, NoChunk
  <1>5. ASSUME NEW s \in Robots, EndSyncDeltas(s)
        PROVE  SyncInv' /\ Next
    <2>1. Next /\ place = 0 /\ place' = 0 /\ round' = round
      BY <1>5, SyncFacts DEF Next, EndSyncDeltas, syncVars
    <2>2. LedgersFull'
      BY <1>5 DEF EndSyncDeltas, EndSending, PassTurn, LedgersFull, IsSyncStep
    <2>3. QED
      BY <1>1, <2>1, <2>2, NoChunk
  <1>6. ASSUME NEW kept \in Survivals, HandleDelta(kept), UNCHANGED syncVars
        PROVE  SyncInv' /\ Next
    <2>1. Next /\ place = 0 /\ place' = 0 /\ round' = round
      BY <1>6, SyncFacts DEF Next, HandleDelta, Draining, syncVars
    <2>2. LedgersFull'
      BY <1>6 DEF HandleDelta, Draining, SyncInv, LedgersFull
    <2>3. QED
      BY <1>1, <2>1, <2>2, NoChunk
  <1>7. CASE NextRound
    <2>1. Next /\ place = 0 /\ place' = 0
      BY <1>7, SyncFacts DEF Next, NextRound, EndStep
    <2>2. round' \in 0 .. RoundCycle - 1
      <3>1. (round + 1) % RoundCycle \in 0 .. RoundCycle - 1
        BY <1>1, SyncAssumption, Division
      <3>2. QED
        BY <1>1, <1>7, <3>1 DEF NextRound
    <2>3. LedgersFull'
      BY <1>7 DEF NextRound, EndStep, LedgersFull
    <2>4. QED
      BY <2>1, <2>2, <2>3, NoChunk
  <1>8. CASE UNCHANGED allSyncVars
    <2>1. UNCHANGED vars /\ UNCHANGED <<round, place>>
      BY <1>8 DEF allSyncVars, syncVars
    <2>2. IndInv'
      BY <2>1, NextPreserves, SyncFacts
    <2>3. SyncTypeOK' /\ LedgersFull' /\ ChunkFits'
      BY <2>1, <2>2 DEF SyncInv, SyncTypeOK, IndInv, LedgersFull, ChunkFits, IsSyncStep, KnownCells,
         CellsPerReceiver, vars, loopVars
    <2>4. QED
      BY <2>1, <2>2, <2>3 DEF SyncInv
  <1>9. QED
    BY <1>2, <1>3, <1>4, <1>5, <1>6, <1>7, <1>8 DEF SyncNext

\* One packet of a chunk.
LEMMA SendRepairPreserves ==
    ASSUME SyncInv, NEW s \in Robots, NEW kept \in Survivals, SendSync(s, kept)
    PROVE  SyncInv'
  <1>1. /\ UNCHANGED <<step, phase, turn, beliefs, emitted, control>>
        /\ UNCHANGED <<policy, outbox, tried, round>>
        /\ IsSyncStep /\ phase = "dispatch" /\ turn = s
        /\ NumReceivers > 0 /\ KnownCells(s) # {}
        /\ place < CellsPerReceiver(s) * NumReceivers /\ CanSpend(data[s], DeltaBytes)
        /\ data' = [data EXCEPT ![s] = @ - DeltaBytes]
        /\ net' = net \o Sent(kept, Repair(s))
        /\ place' = place + 1
    BY DEF SendSync, ChunkLeft, deliveryVars
  <1>2. /\ LoopTypeOK /\ IndInv /\ place \in Nat /\ round \in Nat /\ data[s] \in Nat
        /\ data \in [Robots -> 0 .. DataCap] /\ DataCap \in Nat
    BY SyncFacts
  <1>3. /\ Repair(s) \in Packet /\ Repair(s).wait = Delay
        /\ Repair(s).update \in emitted /\ Repair(s).kind = "delta"
    <2> DEFINE c == CellAt(s, place)
    <2>1. c \in KnownCells(s) /\ TargetAt(s, place) \in Robots
      BY <1>1, <1>2, PlaceFacts
    <2> HIDE DEF c
    <2>2. c \in Cells /\ Known(beliefs[s][c])
      BY <2>1 DEF KnownCells
    <2>3. [cell |-> c, stamp |-> beliefs[s][c]] \in emitted
      <3>1. Legitimate(c, beliefs[s][c])
        BY <1>2, <2>2 DEF IndInv, OnlyReported
      <3>2. beliefs[s][c] # InitialStamp
        BY <2>2 DEF Known, InitialStamp
      <3>3. QED
        BY <3>1, <3>2 DEF Legitimate
    <2>4. [cell |-> c, stamp |-> beliefs[s][c]] \in Update
      BY <1>2, <2>3 DEF LoopTypeOK
    <2>5. Repair(s) = [kind |-> "delta", from |-> s, to |-> TargetAt(s, place), keyed |-> FALSE,
                       update |-> [cell |-> c, stamp |-> beliefs[s][c]], wait |-> Delay]
      BY DEF Repair, c
    <2>6. QED
      BY <2>1, <2>3, <2>4, <2>5, LoopAssumption DEF Packet
  <1>4. /\ QueueOK(net', Packet)
        /\ \A i \in 1 .. Len(net') :
              (i \in 1 .. Len(net) /\ net'[i] = net[i]) \/ net'[i] = Repair(s)
    <2>1. QueueOK(net, Packet) /\ net \in Seq(Packet)
      BY <1>2, StateFacts DEF QueueOK
    <2>2. QueueOK(net', Packet)
      BY <1>1, <1>2, <1>3, <2>1, StateFacts, QueueAppends
    <2>3. /\ Len(net') \in {Len(net), Len(net) + 1} /\ Len(net) \in Nat
          /\ \A i \in 1 .. Len(net) : net'[i] = net[i]
          /\ Len(net') = Len(net) + 1 => net'[Len(net')] = Repair(s)
      BY <1>1, <1>3, <2>1, SentAppends
    <2>4. QED
      BY <2>2, <2>3
  <1>5. data' \in [Robots -> 0 .. DataCap]
    BY <1>1, <1>2, LedgerPays DEF DeltaBytes
  <1>6. IndInv'
    <2>1. TypeOK'
      BY <1>1, <1>2, <1>4, <1>5 DEF IndInv, TypeOK, LoopTypeOK, QueueOK
    <2>2. NetInOrder'
      BY <1>4 DEF QueueOK, NetInOrder
    <2>3. OnlyReported'
      BY <1>1, <1>2, <1>3, <1>4 DEF IndInv, OnlyReported, Legitimate
    <2>4. OwnReports'
      BY <1>1, <1>2 DEF IndInv, OwnReports
    <2>5. AckMeansKnown'
      BY <1>1, <1>2, <1>3, <1>4 DEF IndInv, AckMeansKnown
    <2>6. NoLostUpdate'
      BY <1>1, <1>2 DEF IndInv, NoLostUpdate, Acknowledged, Key
    <2>7. QED
      BY <2>1, <2>2, <2>3, <2>4, <2>5, <2>6 DEF IndInv
  <1>7. /\ data'[s] = data[s] - DeltaBytes /\ data'[s] \in Nat
        /\ \A r \in Robots \ {s} : data'[r] = data[r]
        /\ data[s] + DeltaBytes * place = DataCap
        /\ data'[s] + DeltaBytes * place' = DataCap
    <2>1. data[s] + DeltaBytes * place = DataCap
      BY <1>1 DEF SyncInv, LedgersFull
    <2>2. QED
      BY <1>1, <1>2, <2>1 DEF CanSpend, DeltaBytes
  <1>8. LedgersFull'
    <2>1. \A r \in Robots : r > s => data'[r] = DataCap
      <3>1. \A r \in Robots : r > s => r # s
        BY DEF Robots
      <3>2. QED
        BY <1>1, <1>7, <3>1 DEF SyncInv, LedgersFull
    <2>2. QED
      BY <1>1, <1>7, <2>1 DEF LedgersFull, IsSyncStep
  <1>9. ChunkFits'
    <2>1. KnownCells(s)' = KnownCells(s) /\ NumReceivers' = NumReceivers
      BY <1>1 DEF KnownCells, NumReceivers
    <2>2. CellsPerReceiver(s)' = CellsPerReceiver(s)
      BY <1>1, <1>7 DEF CellsPerReceiver
    <2>3. place + 1 <= CellsPerReceiver(s) * NumReceivers
      <3>1. \A a, b \in Nat : a * b \in Nat
        OBVIOUS
      <3>2. CellsPerReceiver(s) * NumReceivers \in Nat
        BY <1>1, <1>2, <3>1, PlaceFacts, LoopAssumption DEF NumReceivers
      <3>3. QED
        BY <1>1, <1>2, <3>2
    <2>4. QED
      BY <1>1, <2>1, <2>2, <2>3 DEF ChunkFits, IsSyncStep
  <1>10. SyncTypeOK'
    <2>1. place' \in 0 .. (DataCap \div DeltaBytes)
      BY <1>1, <1>2, <1>7 DEF DeltaBytes
    <2>2. QED
      BY <1>1, <1>6, <2>1 DEF SyncInv, SyncTypeOK, IndInv
  <1>11. QED
    BY <1>6, <1>8, <1>9, <1>10 DEF SyncInv

\* A chunk ends, and the turn passes to a robot with a full ledger.
LEMMA EndChunkPreserves ==
    ASSUME SyncInv, NEW s \in Robots, EndChunk(s)
    PROVE  SyncInv'
  <1>1. /\ UNCHANGED <<step, beliefs, emitted, net, data, control>>
        /\ UNCHANGED <<policy, outbox, tried, round>>
        /\ IsSyncStep /\ phase = "dispatch" /\ turn = s
        /\ place' = 0 /\ PassTurn(s, "settle")
    BY DEF EndChunk, deliveryVars
  <1>2. turn' \in Robots /\ phase' \in Phases
    BY <1>1, PassTurnFacts, SyncFacts DEF Phases
  <1>3. IndInv'
    <2>1. tried' \subseteq [update : Update, receiver : Robots]
      BY <1>1, StateFacts, SyncFacts
    <2>2. QED
      BY <1>1, <1>2, <2>1, QuietStepPreserves, SyncFacts
  <1>4. SyncTypeOK'
    <2>1. DataCap \div DeltaBytes \in Nat
      BY LoopAssumption, Division DEF DeltaBytes
    <2>2. QED
      BY <1>1, <1>3, <2>1 DEF SyncInv, SyncTypeOK, IndInv
  <1>5. LedgersFull'
    <2>1. CASE phase' = "settle"
      BY <2>1 DEF LedgersFull
    <2>2. CASE phase' # "settle"
      <3>1. phase' = "dispatch" /\ turn' = s + 1
        BY <1>1, <2>2 DEF PassTurn
      <3>2. \A r \in Robots : r > s => data[r] = DataCap
        BY <1>1 DEF SyncInv, LedgersFull
      <3>3. data'[turn'] + DeltaBytes * place' = DataCap
        BY <1>1, <1>2, <3>1, <3>2, SyncFacts DEF DeltaBytes, Robots
      <3>4. \A r \in Robots : r > s + 1 => data[r] = DataCap
        BY <3>2 DEF Robots
      <3>5. QED
        BY <1>1, <3>1, <3>3, <3>4 DEF LedgersFull
    <2>3. QED
      BY <2>1, <2>2
  <1>6. ChunkFits'
    BY <1>1 DEF ChunkFits
  <1>7. QED
    BY <1>3, <1>4, <1>5, <1>6 DEF SyncInv

\* Every step keeps the invariant.
LEMMA SyncNextPreserves ==
    ASSUME SyncInv, [SyncNext]_allSyncVars
    PROVE  SyncInv'
  BY DeltaStepPreserves, SendRepairPreserves, EndChunkPreserves

-----------------------------------------------------------------------------
\* What follows.

\* The inductive invariant holds in every reachable state of the sync.
THEOREM SyncInvariance == SyncSpec => []SyncInv
  <1>1. Init /\ SyncInit => SyncInv
    BY SyncInitEstablishes
  <1>2. SyncInv /\ [SyncNext]_allSyncVars => SyncInv'
    BY SyncNextPreserves
  <1>3. QED
    BY <1>1, <1>2, PTL DEF SyncSpec

\* _periodic_full_sync and _send_delta_tasks, which share one ledger, never
\* overdraw it, and no chunk holds more packets than the budget.
THEOREM SyncTypeCorrect == SyncSpec => []SyncTypeOK
  BY SyncInvariance, PTL DEF SyncInv

\* Whenever a whole round over the teammates fits the budget, the double loop
\* ends between two cells, though the budget alone stops it in the middle of a
\* row otherwise: every teammate is sent the same cells.
THEOREM RoundsAreEven == SyncSpec => []RoundIsEven
  <1>1. SyncInv => RoundIsEven
    <2>1. SUFFICES ASSUME SyncInv, IsSyncStep, phase = "dispatch", NumReceivers > 0,
                          DataCap >= DeltaBytes * NumReceivers, ~ChunkLeft(turn)
                   PROVE  place % NumReceivers = 0
      BY DEF RoundIsEven
    <2> DEFINE R == NumReceivers
               fits == DataCap \div DeltaBytes
               share == fits \div R
    <2>2. R \in Nat \ {0} /\ DataCap \in Nat /\ place \in Nat /\ turn \in Robots
      BY <2>1, SyncFacts, LoopAssumption DEF NumReceivers
    <2>3. CASE place = 0
      <3>1. 0 * R = 0 /\ 0 \in Nat
        BY <2>2
      <3>2. (0 * R) % R = 0
        BY <2>2, MultipleLeavesNothing
      <3>3. QED
        BY <2>3, <3>1, <3>2
    <2>4. CASE place # 0
      <3>1. /\ data[turn] + DeltaBytes * place = DataCap
            /\ KnownCells(turn) # {} /\ place <= CellsPerReceiver(turn) * R
        BY <2>1, <2>2, <2>4 DEF SyncInv, LedgersFull, ChunkFits
      <3>2. /\ fits \in Nat /\ DeltaBytes * fits <= DataCap /\ DataCap < DeltaBytes * fits + DeltaBytes
            /\ share \in Nat /\ R * share <= fits /\ fits < R * share + R
        BY <2>2, Division DEF DeltaBytes
      <3> HIDE DEF fits
      <3>3. fits >= R
        <4>1. DataCap >= DeltaBytes * R
          BY <2>1
        <4>2. QED
          BY <2>2, <3>2, <4>1 DEF DeltaBytes
      <3> HIDE DEF share
      <3>4. share # 0
        <4>1. R * 0 = 0
          BY <2>2
        <4>2. QED
          BY <2>2, <3>2, <3>3, <4>1
      <3>5. CellsPerReceiver(turn) = share
        BY <3>1, <3>4 DEF CellsPerReceiver, share, fits
      <3>6. share * R = R * share /\ share * R \in Nat
        BY <2>2, <3>2
      <3>7. place = share * R
        <4>1. ~(place < share * R) \/ ~CanSpend(data[turn], DeltaBytes)
          BY <2>1, <3>1, <3>5 DEF ChunkLeft
        <4>2. CASE ~(place < share * R)
          BY <2>2, <3>1, <3>5, <3>6, <4>2
        <4>3. CASE ~CanSpend(data[turn], DeltaBytes)
          <5>1. data[turn] \in Nat /\ data[turn] < DeltaBytes
            BY <2>1, <4>3, SyncFacts DEF CanSpend, DeltaBytes
          <5>2. place >= fits
            BY <2>2, <3>1, <3>2, <5>1 DEF DeltaBytes
          <5>3. QED
            BY <2>2, <3>1, <3>2, <3>5, <3>6, <5>2
        <4>4. QED
          BY <4>1, <4>2, <4>3
      <3>8. (share * R) % R = 0
        BY <2>2, <3>2, MultipleLeavesNothing
      <3>9. QED
        BY <3>7, <3>8
    <2>5. QED
      BY <2>3, <2>4
  <1>2. QED
    BY <1>1, SyncInvariance, PTL

\* The sync implements MapSharing: a chunk carries nothing that was not
\* reported, and no replica moves backwards, although what is sent again may be
\* older than what its receiver has.
THEOREM SyncRefinement == SyncSpec => SyncImplementsSharing
  <1>1. Init => Sharing!Init
    BY LoopStarts DEF Init
  <1>2. SyncInv /\ [SyncNext]_allSyncVars => [Sharing!Next]_(Sharing!sharingVars)
    <2>1. SUFFICES ASSUME SyncInv, [SyncNext]_allSyncVars
                   PROVE  [Sharing!Next]_(Sharing!sharingVars)
      OBVIOUS
    <2>2. ASSUME NEW s \in Robots, NEW kept \in Survivals, SendSync(s, kept)
          PROVE  [Sharing!Next]_(Sharing!sharingVars)
      BY <2>2 DEF SendSync, Sharing!sharingVars
    <2>3. ASSUME NEW s \in Robots, EndChunk(s)
          PROVE  [Sharing!Next]_(Sharing!sharingVars)
      BY <2>3 DEF EndChunk, Sharing!sharingVars
    <2>4. CASE ~(\E s \in Robots, kept \in Survivals : SendSync(s, kept))
               /\ ~(\E s \in Robots : EndChunk(s))
      BY <2>1, <2>4, DeltaStepPreserves, StepImplements, SyncFacts
    <2>5. QED
      BY <2>2, <2>3, <2>4
  <1>3. QED
    BY <1>1, <1>2, SyncInvariance, PTL
    DEF SyncSpec, SyncImplementsSharing, ImplementsSharing, Sharing!Spec
==============================================================================
