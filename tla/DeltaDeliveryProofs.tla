------------------------- MODULE DeltaDeliveryProofs -------------------------
(***************************************************************************)
(* First what every policy needs, and what no policy changes: the order of *)
(* stamps, the queue of packets, budgets, sensing, and what the            *)
(* implementations of MapSharing inherit from it.                          *)
(*                                                                         *)
(* IndInv is an invariant of DeltaDelivery, for every number of robots and *)
(* cells, every map, every budget, delay and loss: no acknowledged report  *)
(* is lost, and replicas with nothing left to send are equal.  Every step  *)
(* is one of MapSharing, and Retry-All ARQ alternates its two classes.     *)
(***************************************************************************)
EXTENDS DeltaDelivery, FiniteSetTheorems, WellFoundedInduction, TLAPS

-----------------------------------------------------------------------------
\* The order of stamps.

\* No stamp is newer than itself.
LEMMA StampLessIrreflexive ==
    ASSUME NEW a \in Stamp
    PROVE  ~StampLess(a, a)
  BY DEF Stamp, StampLess

\* Newer than something newer is newer.
LEMMA StampLessTransitive ==
    ASSUME NEW a \in Stamp, NEW b \in Stamp, NEW c \in Stamp,
           StampLess(a, b), StampLess(b, c)
    PROVE  StampLess(a, c)
  BY DEF Stamp, StampLess

\* Two different stamps are never tied: the four fields decide.
LEMMA StampLessTotal ==
    ASSUME NEW a \in Stamp, NEW b \in Stamp, a # b
    PROVE  StampLess(a, b) \/ StampLess(b, a)
  <1>1. CASE a.version = b.version /\ a.at = b.at /\ a.source = b.source /\ a.state = b.state
    BY <1>1 DEF Stamp
  <1>2. CASE ~(a.version = b.version /\ a.at = b.at /\ a.source = b.source /\ a.state = b.state)
    BY <1>2 DEF Stamp, StampLess
  <1>3. QED
    BY <1>1, <1>2

\* "At least as new as" is transitive ...
LEMMA AtLeastTransitive ==
    ASSUME NEW a \in Stamp, NEW b \in Stamp, NEW c \in Stamp,
           AtLeast(a, b), AtLeast(b, c)
    PROVE  AtLeast(a, c)
  BY StampLessTransitive DEF AtLeast

\* ... and two stamps that are each at least as new as the other are equal.
LEMMA AtLeastAntisymmetric ==
    ASSUME NEW a \in Stamp, NEW b \in Stamp, AtLeast(a, b), AtLeast(b, a)
    PROVE  a = b
  <1>1. SUFFICES ASSUME a # b PROVE FALSE
    OBVIOUS
  <1>2. StampLess(b, a) /\ StampLess(a, b)
    BY <1>1 DEF AtLeast
  <1>3. QED
    BY <1>2, StampLessTransitive, StampLessIrreflexive

\* An unknown cell holds a stamp.
LEMMA InitialStampIsStamp == InitialStamp \in Stamp
  BY DEF InitialStamp, Stamp, UNKNOWN

\* apply_update returns one of its two stamps, and the greater one.
LEMMA ApplyIsGreater ==
    ASSUME NEW a \in Stamp, NEW b \in Stamp
    PROVE  /\ Apply(a, b) \in Stamp
           /\ Apply(a, b) \in {a, b}
           /\ AtLeast(Apply(a, b), a)
           /\ AtLeast(Apply(a, b), b)
  <1>1. CASE StampLess(a, b)
    BY <1>1 DEF Apply, AtLeast
  <1>2. CASE ~StampLess(a, b)
    BY <1>2, StampLessTotal DEF Apply, AtLeast
  <1>3. QED
    BY <1>1, <1>2

\* Whatever is at least as new as both stamps is at least as new as the result.
LEMMA ApplyIsLeast ==
    ASSUME NEW a \in Stamp, NEW b \in Stamp, NEW c \in Stamp,
           AtLeast(c, a), AtLeast(c, b)
    PROVE  AtLeast(c, Apply(a, b))
  BY ApplyIsGreater

\* Two updates of a cell leave the same stamp in whichever order they arrive,
\* and an update that arrives again changes nothing: BeliefMap.apply_update may
\* be fed by a link that reorders and by a sender that repeats itself.
THEOREM ApplyOrderIrrelevant ==
    ASSUME NEW s \in Stamp, NEW a \in Stamp, NEW b \in Stamp
    PROVE  /\ Apply(Apply(s, a), b) = Apply(Apply(s, b), a)
           /\ Apply(Apply(Apply(s, a), b), a) = Apply(Apply(s, a), b)
  <1> DEFINE ab == Apply(Apply(s, a), b)
             ba == Apply(Apply(s, b), a)
  <1>1. /\ Apply(s, a) \in Stamp /\ AtLeast(Apply(s, a), s) /\ AtLeast(Apply(s, a), a)
        /\ Apply(s, b) \in Stamp /\ AtLeast(Apply(s, b), s) /\ AtLeast(Apply(s, b), b)
    BY ApplyIsGreater
  <1>2. /\ ab \in Stamp /\ AtLeast(ab, Apply(s, a)) /\ AtLeast(ab, b)
        /\ ba \in Stamp /\ AtLeast(ba, Apply(s, b)) /\ AtLeast(ba, a)
    BY <1>1, ApplyIsGreater
  <1>3. AtLeast(ab, s) /\ AtLeast(ab, a) /\ AtLeast(ba, s) /\ AtLeast(ba, b)
    BY <1>1, <1>2, AtLeastTransitive
  <1> HIDE DEF ab, ba
  <1>4. AtLeast(ab, ba)
    <2>1. AtLeast(ab, Apply(s, b))
      BY <1>2, <1>3, ApplyIsLeast
    <2>2. QED
      BY <1>1, <1>2, <1>3, <2>1, ApplyIsLeast DEF ba
  <1>5. AtLeast(ba, ab)
    <2>1. AtLeast(ba, Apply(s, a))
      BY <1>2, <1>3, ApplyIsLeast
    <2>2. QED
      BY <1>1, <1>2, <1>3, <2>1, ApplyIsLeast DEF ab
  <1>6. ab = ba
    BY <1>2, <1>4, <1>5, AtLeastAntisymmetric
  <1>7. Apply(ab, a) = ab
    <2>1. ~StampLess(ab, a)
      BY <1>2, <1>3, StampLessIrreflexive, StampLessTransitive DEF AtLeast
    <2>2. QED
      BY <2>1 DEF Apply
  <1>8. QED
    BY <1>6, <1>7 DEF ab, ba

-----------------------------------------------------------------------------
\* Division, least elements and finite sets.

\* What divides evenly, and what is left over.
LEMMA Division ==
    ASSUME NEW a \in Nat, NEW b \in Nat \ {0}
    PROVE  /\ a \div b \in Nat
           /\ b * (a \div b) <= a
           /\ a < b * (a \div b) + b
           /\ a % b \in 0 .. b - 1
  OBVIOUS

\* A set of natural numbers that is not empty has a least element.
LEMMA LeastExists ==
    ASSUME NEW S \in SUBSET Nat, S # {}
    PROVE  \E m \in S : \A n \in S : m <= n
  <1> DEFINE R == OpToRel(<, Nat)
  <1>1. IsWellFoundedOn(R, Nat)
    BY NatLessThanWellFounded
  <1>2. \A x, y \in Nat : x < y => <<x, y>> \in R
    BY DEF OpToRel
  <1> HIDE DEF R
  <1>3. PICK m \in S : \A n \in S : <<n, m>> \notin R
    BY <1>1, WFMin
  <1>4. \A n \in S : ~(n < m)
    BY <1>2, <1>3
  <1>5. QED
    BY <1>3, <1>4

\* A finite set that is not empty has a greatest element under any total and
\* transitive relation: otherwise a smallest subset without one would have one.
LEMMA GreatestExists ==
    ASSUME NEW S, IsFiniteSet(S), S # {}, NEW R,
           \A x, y \in S : <<x, y>> \in R \/ <<y, x>> \in R,
           \A x, y, z \in S : <<x, y>> \in R /\ <<y, z>> \in R => <<x, z>> \in R
    PROVE  \E m \in S : \A x \in S : <<x, m>> \in R
  <1> DEFINE Has(Q) == \E m \in Q : \A x \in Q : <<x, m>> \in R
             Bad == {Q \in SUBSET S : Q # {} /\ ~Has(Q)}
  <1>1. SUFFICES ASSUME ~Has(S) PROVE FALSE
    OBVIOUS
  <1>2. S \in Bad
    BY <1>1
  <1>3. Bad \subseteq FiniteSubsetsOf(S)
    BY FS_FiniteSubsetsOfFinite
  <1> HIDE DEF Bad
  <1>4. PICK Q \in Bad : \A P \in Bad : <<P, Q>> \notin StrictSubsetOrdering(S)
    <2>1. IsWellFoundedOn(StrictSubsetOrdering(S), FiniteSubsetsOf(S))
      BY FS_StrictSubsetOrderingWellFounded
    <2>2. QED
      BY <1>2, <1>3, <2>1, WFMin
  <1> USE DEF Bad
  <1>5. PICK q \in Q : TRUE
    BY <1>4
  <1> DEFINE P == Q \ {q}
  <1>6. P \in SUBSET S /\ Q \in SUBSET S /\ q \in S /\ Q = P \cup {q} /\ P # Q
    BY <1>4, <1>5
  <1>7. P \notin Bad
    BY <1>4, <1>6 DEF StrictSubsetOrdering
  <1>8. CASE P = {}
    BY <1>4, <1>6, <1>8
  <1>9. CASE P # {}
    <2>1. PICK m \in P : \A x \in P : <<x, m>> \in R
      BY <1>6, <1>7, <1>9
    <2>2. CASE <<m, q>> \in R
      <3>1. \A x \in Q : <<x, q>> \in R
        BY <1>6, <2>1, <2>2
      <3>2. QED
        BY <1>4, <1>5, <3>1
    <2>3. CASE <<q, m>> \in R
      <3>1. \A x \in Q : <<x, m>> \in R
        BY <1>6, <2>1, <2>3
      <3>2. QED
        BY <1>4, <2>1, <3>1
    <2>4. QED
      BY <1>6, <2>1, <2>2, <2>3
  <1>10. QED
    BY <1>8, <1>9

\* The image of a finite set is finite, and no larger.
LEMMA ImageFinite ==
    ASSUME NEW S, IsFiniteSet(S), NEW f
    PROVE  /\ IsFiniteSet({f[x] : x \in S})
           /\ Cardinality({f[x] : x \in S}) <= Cardinality(S)
  <1> DEFINE g == [x \in S |-> f[x]]
             T == {f[x] : x \in S}
  <1>1. g \in Surjection(S, T)
    BY DEF Surjection
  <1> HIDE DEF g, T
  <1>2. IsFiniteSet(T) /\ Cardinality(T) <= Cardinality(S)
    BY <1>1, FS_Surjection
  <1>3. QED
    BY <1>2 DEF T

\* The cells of the map are finitely many.
LEMMA CellsFinite ==
    ASSUME NEW cells \in SUBSET Cells
    PROVE  IsFiniteSet(cells) /\ Cardinality(cells) \in Nat
  <1>1. IsFiniteSet(Cells)
    BY FS_Interval, LoopAssumption DEF Cells
  <1>2. QED
    BY <1>1, FS_Subset, FS_CardinalityType

-----------------------------------------------------------------------------
\* The queue of packets.

\* Sending appends at most one packet.
LEMMA SentAppends ==
    ASSUME NEW S, NEW q \in Seq(S), NEW m \in S, NEW kept
    PROVE  LET n == q \o Sent(kept, m) IN
           /\ n \in Seq(S)
           /\ Len(n) \in {Len(q), Len(q) + 1}
           /\ \A i \in 1 .. Len(q) : n[i] = q[i]
           /\ Len(n) = Len(q) + 1 => n[Len(n)] = m
  <1>1. CASE kept
    BY <1>1 DEF Sent
  <1>2. CASE ~kept
    BY <1>2 DEF Sent
  <1>3. QED
    BY <1>1, <1>2

\* Handling a packet removes the head.
LEMMA TailShifts ==
    ASSUME NEW S, NEW q \in Seq(S), q # <<>>
    PROVE  /\ Head(q) \in S /\ Head(q) = q[1] /\ Len(q) >= 1
           /\ Tail(q) \in Seq(S)
           /\ Len(Tail(q)) = Len(q) - 1
           /\ \A i \in 1 .. Len(Tail(q)) : Tail(q)[i] = q[i + 1]
  OBVIOUS

\* Adding a packet that waits the full delay keeps the queue well formed.
LEMMA QueueAppends ==
    ASSUME NEW S, NEW q, QueueOK(q, S), NEW m \in S, m.wait = Delay, NEW kept,
           Delay \in Nat, \A x \in S : x.wait \in Nat
    PROVE  QueueOK(q \o Sent(kept, m), S)
  <1> DEFINE n == q \o Sent(kept, m)
  <1>1. /\ n \in Seq(S)
        /\ Len(n) \in {Len(q), Len(q) + 1}
        /\ \A i \in 1 .. Len(q) : n[i] = q[i]
        /\ Len(n) = Len(q) + 1 => n[Len(n)] = m
    BY SentAppends DEF QueueOK
  <1> HIDE DEF n
  <1>2. q \in Seq(S) /\ Len(q) \in Nat
    BY DEF QueueOK
  <1>3. ASSUME NEW i \in 1 .. Len(n), NEW j \in 1 .. Len(n), i <= j
        PROVE  n[i].wait <= n[j].wait /\ n[j].wait <= Delay
    <2>1. CASE j \in 1 .. Len(q)
      <3>1. i \in 1 .. Len(q) /\ n[i] = q[i] /\ n[j] = q[j]
        BY <1>1, <1>2, <1>3, <2>1
      <3>2. QED
        BY <1>3, <2>1, <3>1 DEF QueueOK
    <2>2. CASE j \notin 1 .. Len(q)
      <3>1. Len(n) = Len(q) + 1 /\ j = Len(n) /\ n[j] = m
        BY <1>1, <1>2, <2>2
      <3>2. CASE i = j
        BY <3>1, <3>2
      <3>3. CASE i # j
        <4>1. i \in 1 .. Len(q) /\ n[i] = q[i]
          BY <1>1, <1>2, <1>3, <3>1, <3>3
        <4>2. q[i].wait <= Delay
          BY <4>1 DEF QueueOK
        <4>3. QED
          BY <3>1, <4>1, <4>2
      <3>4. QED
        BY <3>2, <3>3
    <2>3. QED
      BY <2>1, <2>2
  <1>4. QED
    BY <1>1, <1>3 DEF QueueOK, n

\* Removing the head keeps the queue well formed.
LEMMA QueueTail ==
    ASSUME NEW S, NEW q, QueueOK(q, S), q # <<>>
    PROVE  QueueOK(Tail(q), S)
  <1>1. /\ Tail(q) \in Seq(S)
        /\ Len(Tail(q)) = Len(q) - 1 /\ Len(q) \in Nat
        /\ \A i \in 1 .. Len(Tail(q)) : Tail(q)[i] = q[i + 1]
    BY TailShifts DEF QueueOK
  <1>2. ASSUME NEW i \in 1 .. Len(Tail(q)), NEW j \in 1 .. Len(Tail(q)), i <= j
        PROVE  Tail(q)[i].wait <= Tail(q)[j].wait /\ Tail(q)[j].wait <= Delay
    <2>1. i + 1 \in 1 .. Len(q) /\ j + 1 \in 1 .. Len(q) /\ i + 1 <= j + 1
      BY <1>1, <1>2
    <2>2. QED
      BY <1>1, <2>1 DEF QueueOK
  <1>3. QED
    BY <1>1, <1>2 DEF QueueOK

\* A well-formed queue may be seen as one of a larger set of packets.
LEMMA QueueWidens ==
    ASSUME NEW S, NEW T, S \subseteq T, NEW q, QueueOK(q, S)
    PROVE  QueueOK(q, T)
  <1>1. q \in Seq(T)
    <2>1. q \in [1 .. Len(q) -> S] /\ Len(q) \in Nat
      BY DEF QueueOK
    <2>2. q \in [1 .. Len(q) -> T]
      BY <2>1
    <2>3. QED
      BY <2>1, <2>2
  <1>2. QED
    BY <1>1 DEF QueueOK

\* The packet that a drain comes to.
LEMMA QueueHead ==
    ASSUME NEW S, QueueOK(net, S), Due
    PROVE  /\ Head(net) \in S /\ Head(net) = net[1] /\ Head(net).wait = 0
           /\ QueueOK(Tail(net), S)
           /\ Len(net) \in Nat /\ Len(net) >= 1 /\ Len(Tail(net)) = Len(net) - 1
           /\ \A i \in 1 .. Len(Tail(net)) : Tail(net)[i] = net[i + 1]
  <1>1. net \in Seq(S) /\ net # <<>> /\ Len(net) \in Nat
    BY DEF QueueOK, Due
  <1>2. QED
    BY <1>1, TailShifts, QueueTail DEF Due

\* An answer that fits its ledger is charged to it and joins the queue; one
\* that does not fit changes neither.
LEMMA QueueAnswer ==
    ASSUME NEW S, QueueOK(net, S), Due, \A x \in S : x.wait \in Nat,
           NEW m \in S, m.wait = Delay, NEW kept,
           NEW cap \in Nat, NEW left \in [Robots -> 0 .. cap],
           NEW r \in Robots, NEW bytes \in Nat
    PROVE  /\ AnswerPaid(left, r, bytes) \in [Robots -> 0 .. cap]
           /\ QueueOK(AnswerQueued(left, r, bytes, kept, m), S)
  <1>1. AnswerPaid(left, r, bytes) \in [Robots -> 0 .. cap]
    BY DEF AnswerPaid, CanSpend
  <1>2. QueueOK(Tail(net), S)
    BY QueueHead
  <1>3. QueueOK(Tail(net) \o Sent(kept, m), S)
    BY <1>2, QueueAppends, LoopAssumption
  <1>4. QED
    BY <1>1, <1>2, <1>3 DEF AnswerQueued

\* The clock advances for every packet, and none of them was due.
LEMMA QueueTicks ==
    ASSUME NEW S, QueueOK(net, S), EndStep, \A x \in S : x.wait \in Nat,
           NEW T, \A x \in S : x.wait > 0 =>
               /\ [x EXCEPT !.wait = @ - 1] \in T
               /\ [x EXCEPT !.wait = @ - 1].wait = x.wait - 1
    PROVE  /\ QueueOK(net', T)
           /\ Len(net') = Len(net)
           /\ \A i \in 1 .. Len(net) : /\ net'[i] = [net[i] EXCEPT !.wait = @ - 1]
                                        /\ net[i].wait > 0
  <1>1. /\ net \in Seq(S) /\ Len(net) \in Nat
        /\ \A i \in 1 .. Len(net) : net[i] \in S
    BY DEF QueueOK
  <1>2. /\ net' = [i \in 1 .. Len(net) |-> [net[i] EXCEPT !.wait = @ - 1]]
        /\ ~Due
    BY DEF EndStep
  <1>3. \A i \in 1 .. Len(net) : net[i].wait > 0
    <2>1. SUFFICES ASSUME NEW i \in 1 .. Len(net) PROVE net[i].wait > 0
      OBVIOUS
    <2>2. net # <<>> /\ Head(net) = net[1] /\ 1 \in 1 .. Len(net)
      BY <1>1, <2>1
    <2>3. net[1].wait \in Nat /\ net[1].wait # 0 /\ net[i].wait \in Nat
      BY <1>1, <1>2, <2>2 DEF Due
    <2>4. net[1].wait <= net[i].wait
      BY <1>1, <2>1, <2>2 DEF QueueOK
    <2>5. QED
      BY <2>3, <2>4
  <1>4. \A i \in 1 .. Len(net) : net'[i] \in T /\ net'[i].wait = net[i].wait - 1
    BY <1>1, <1>2, <1>3
  <1>5. net' \in Seq(T) /\ Len(net') = Len(net)
    <2>1. net' \in [1 .. Len(net) -> T]
      BY <1>2, <1>4
    <2>2. QED
      BY <1>1, <2>1
  <1>6. ASSUME NEW i \in 1 .. Len(net), NEW j \in 1 .. Len(net), i <= j
        PROVE  net'[i].wait <= net'[j].wait /\ net'[j].wait <= Delay
    <2>1. net[i].wait <= net[j].wait /\ net[j].wait <= Delay
      BY <1>6 DEF QueueOK
    <2>2. net[i].wait \in Nat /\ net[j].wait \in Nat /\ Delay \in Nat
      BY <1>1, LoopAssumption
    <2>3. QED
      BY <1>4, <2>1, <2>2
  <1>7. QueueOK(net', T)
    BY <1>5, <1>6 DEF QueueOK
  <1>8. QED
    BY <1>2, <1>3, <1>5, <1>7

\* Paying for a packet that fits keeps a ledger between zero and its cap.
LEMMA LedgerPays ==
    ASSUME NEW cap \in Nat, NEW left \in [Robots -> 0 .. cap], NEW r \in Robots,
           NEW bytes \in Nat, CanSpend(left[r], bytes)
    PROVE  [left EXCEPT ![r] = @ - bytes] \in [Robots -> 0 .. cap]
  BY DEF CanSpend

-----------------------------------------------------------------------------
\* The replicas.

\* No robot's stamp of any cell gets older in a step.
Grows == \A q \in Robots, c \in Cells : AtLeast(beliefs'[q][c], beliefs[q][c])

\* What a robot has it still has once its replica has moved forward.
LEMMA StillKnown ==
    ASSUME beliefs \in [Robots -> [Cells -> Stamp]],
           beliefs' \in [Robots -> [Cells -> Stamp]],
           Grows, NEW q \in Robots, NEW c \in Cells, NEW s \in Stamp,
           AtLeast(beliefs[q][c], s)
    PROVE  AtLeast(beliefs'[q][c], s)
  <1>1. beliefs[q][c] \in Stamp /\ beliefs'[q][c] \in Stamp
    OBVIOUS
  <1>2. AtLeast(beliefs'[q][c], beliefs[q][c])
    BY DEF Grows
  <1>3. QED
    BY <1>1, <1>2, AtLeastTransitive

\* Replicas that do not change have moved forward.
LEMMA UnchangedGrows ==
    ASSUME UNCHANGED beliefs
    PROVE  Grows
  BY DEF Grows, AtLeast

\* What sensing produces is well formed and newer than what was there.
LEMMA ObservationFacts ==
    ASSUME beliefs \in [Robots -> [Cells -> Stamp]], step \in Nat,
           NEW r \in Robots, NEW c \in Cells
    PROVE  /\ Observation(r, c) \in Update
           /\ Observation(r, c).cell = c
           /\ Observation(r, c).stamp \in Stamp
           /\ Observation(r, c).stamp.source = r
           /\ Observation(r, c).stamp.version > 0
           /\ Observation(r, c).stamp.version = beliefs[r][c].version + 1
           /\ Observation(r, c).stamp.state = Truth[c]
           /\ StampLess(beliefs[r][c], Observation(r, c).stamp)
  <1>1. beliefs[r][c] \in Stamp /\ beliefs[r][c].version \in Nat
    BY DEF Stamp
  <1>2. Truth[c] \in Int /\ r \in Int /\ step \in Int
    BY LoopAssumption DEF SensedState, FREE, BLOCKED, Robots
  <1>3. [version |-> beliefs[r][c].version + 1, at |-> step, source |-> r, state |-> Truth[c]]
            \in Stamp
    BY <1>1, <1>2 DEF Stamp
  <1>4. QED
    BY <1>1, <1>3 DEF Observation, Update, StampLess

\* The replicas after a robot has looked.
LEMMA ObserveFacts ==
    ASSUME LoopTypeOK, NEW r \in Robots, NEW w \in Shown(r), Observe(r, w)
    PROVE  /\ w \subseteq Cells
           /\ beliefs' \in [Robots -> [Cells -> Stamp]]
           /\ \A q \in Robots \ {r} : beliefs'[q] = beliefs[q]
           /\ \A c \in Cells : beliefs'[r][c] =
                  IF c \in Unseen(r, w) THEN Observation(r, c).stamp ELSE beliefs[r][c]
           /\ Grows
           /\ Discovered(r, w) \subseteq Update
           /\ emitted' \subseteq Update
  <1>1. beliefs \in [Robots -> [Cells -> Stamp]] /\ step \in Nat /\ emitted \subseteq Update
    BY DEF LoopTypeOK
  <1>2. w \subseteq Cells
    BY LoopAssumption DEF Shown
  <1>3. \A c \in Cells : beliefs'[r][c] =
            IF c \in Unseen(r, w) THEN Observation(r, c).stamp ELSE beliefs[r][c]
    BY <1>1, ObservationFacts DEF Observe, Apply
  <1>4. \A q \in Robots \ {r} : beliefs'[q] = beliefs[q]
    BY <1>1 DEF Observe
  <1>5. beliefs' \in [Robots -> [Cells -> Stamp]]
    <2>1. \A c \in Cells : (IF c \in Unseen(r, w) THEN Apply(beliefs[r][c], Observation(r, c).stamp)
                            ELSE beliefs[r][c]) \in Stamp
      BY <1>1, ObservationFacts, ApplyIsGreater
    <2>2. QED
      BY <1>1, <2>1 DEF Observe
  <1>6. Grows
    BY <1>1, <1>3, <1>4, ObservationFacts DEF Grows, AtLeast
  <1>7. Discovered(r, w) \subseteq Update
    BY <1>1, <1>2, ObservationFacts DEF Discovered, Unseen
  <1>8. QED
    BY <1>1, <1>2, <1>3, <1>4, <1>5, <1>6, <1>7 DEF Observe

\* Passing the turn stays within the robots and the phases.
LEMMA PassTurnFacts ==
    ASSUME NEW r \in Robots, NEW next \in Phases, phase \in Phases, PassTurn(r, next)
    PROVE  turn' \in Robots /\ phase' \in Phases
  <1>1. 0 \in Robots /\ (r # NumRobots - 1 => r + 1 \in Robots)
    BY LoopAssumption DEF Robots
  <1>2. QED
    BY <1>1 DEF PassTurn

\* The loop starts with well-typed shared state and without reports.
LEMMA LoopStarts ==
    ASSUME LoopInit
    PROVE  LoopTypeOK /\ HonestReports /\ Sharing!Init
  <1>1. 0 \in Robots
    BY LoopAssumption DEF Robots
  <1>2. LoopTypeOK
    BY <1>1, InitialStampIsStamp, LoopAssumption DEF LoopInit, LoopTypeOK, Phases
  <1>3. HonestReports
    BY DEF LoopInit, HonestReports, Legitimate
  <1>4. QED
    BY <1>2, <1>3 DEF LoopInit, Sharing!Init, Sharing!InitialStamp, InitialStamp,
       Sharing!UNKNOWN, UNKNOWN

\* The clock and the ledgers keep their types at the end of a step.
LEMMA EndStepTypes ==
    ASSUME LoopTypeOK, EndStep
    PROVE  LoopTypeOK'
  <1>1. step' \in Nat
    BY LoopAssumption DEF LoopTypeOK, EndStep, NextStep
  <1>2. data' \in [Robots -> 0 .. DataCap] /\ control' \in [Robots -> 0 .. ControlCap]
    BY LoopAssumption DEF EndStep
  <1>3. QED
    BY <1>1, <1>2 DEF LoopTypeOK, EndStep, Phases

-----------------------------------------------------------------------------
\* Looking and learning are the steps of MapSharing.

\* The two specifications speak of the same stamps.
LEMMA SameStamps ==
    /\ Sharing!InitialStamp = InitialStamp
    /\ Sharing!Stamp = Stamp
    /\ \A a, b \in Stamp : Sharing!StampLess(a, b) <=> StampLess(a, b)
  BY DEF Sharing!InitialStamp, InitialStamp, Sharing!UNKNOWN, UNKNOWN, Sharing!Stamp, Stamp,
         Sharing!StampLess, StampLess

\* What a sensor does to the replicas is a Look of the abstract robot.
LEMMA ObserveImplements ==
    ASSUME LoopTypeOK, NEW r \in Robots, NEW w \in Shown(r), Observe(r, w)
    PROVE  Sharing!Look(r)
  <1>2. /\ w \subseteq Cells
        /\ beliefs' \in [Robots -> [Cells -> Stamp]]
        /\ \A q \in Robots \ {r} : beliefs'[q] = beliefs[q]
        /\ \A c \in Cells : beliefs'[r][c] =
               IF c \in Unseen(r, w) THEN Observation(r, c).stamp ELSE beliefs[r][c]
    BY ObserveFacts
  <1>3. beliefs \in [Robots -> [Cells -> Stamp]] /\ step \in Nat
    BY DEF LoopTypeOK
  <1>4. Sharing!Changed(r) = Unseen(r, w)
    <2>1. \A c \in Cells : c \in Unseen(r, w) => beliefs'[r][c] # beliefs[r][c]
      <3>1. SUFFICES ASSUME NEW c \in Cells, c \in Unseen(r, w)
                     PROVE  beliefs'[r][c] # beliefs[r][c]
        OBVIOUS
      <3>2. beliefs[r][c] \in Stamp /\ StampLess(beliefs[r][c], Observation(r, c).stamp)
        BY <1>3, ObservationFacts
      <3>3. QED
        BY <1>2, <3>1, <3>2, StampLessIrreflexive
    <2>2. Unseen(r, w) \subseteq Cells
      BY <1>2 DEF Unseen
    <2>3. QED
      BY <1>2, <2>1, <2>2 DEF Sharing!Changed
  <1>5. Sharing!Only(r)
    BY <1>2, SameStamps DEF Sharing!Only
  <1>6. \A c \in Unseen(r, w) :
            /\ c \in Cells
            /\ beliefs[r][c].state # Truth[c]
            /\ beliefs'[r][c] = Observation(r, c).stamp
            /\ beliefs'[r][c].state = Truth[c]
            /\ beliefs'[r][c].source = r
            /\ beliefs'[r][c].version = beliefs[r][c].version + 1
    BY <1>2, <1>3, ObservationFacts DEF Unseen
  <1>7. emitted' = emitted \cup {[cell |-> c, stamp |-> beliefs'[r][c]] : c \in Unseen(r, w)}
    <2>1. \A c \in Unseen(r, w) :
              Observation(r, c) = [cell |-> c, stamp |-> beliefs'[r][c]]
      BY <1>6 DEF Observation
    <2>2. QED
      BY <2>1 DEF Observe, Discovered
  <1>8. QED
    BY <1>4, <1>5, <1>6, <1>7 DEF Sharing!Look

\* A replica that takes newer stamps from what was reported makes the abstract
\* robot Learn.
LEMMA LearnImplements ==
    ASSUME LoopTypeOK, NEW p \in Robots, NEW belief \in [Cells -> Stamp],
           beliefs' = [beliefs EXCEPT ![p] = belief], UNCHANGED emitted,
           \A c \in Cells :
               \/ belief[c] = beliefs[p][c]
               \/ /\ StampLess(beliefs[p][c], belief[c])
                  /\ [cell |-> c, stamp |-> belief[c]] \in emitted
    PROVE  /\ beliefs' \in [Robots -> [Cells -> Stamp]]
           /\ Sharing!Learn(p)
  <1>1. beliefs \in [Robots -> [Cells -> Stamp]]
    BY DEF LoopTypeOK
  <1>2. /\ beliefs' \in [Robots -> [Cells -> Stamp]]
        /\ beliefs'[p] = belief
        /\ \A q \in Robots \ {p} : beliefs'[q] = beliefs[q]
    BY <1>1
  <1>3. Sharing!Only(p)
    BY <1>2, SameStamps DEF Sharing!Only
  <1>4. ASSUME NEW c \in Cells, beliefs'[p][c] # beliefs[p][c]
        PROVE  /\ Sharing!StampLess(beliefs[p][c], beliefs'[p][c])
               /\ [cell |-> c, stamp |-> beliefs'[p][c]] \in emitted
    <2>1. beliefs[p][c] \in Stamp /\ beliefs'[p][c] \in Stamp
      BY <1>1, <1>2
    <2>2. QED
      BY <1>2, <1>4, <2>1, SameStamps
  <1>5. QED
    BY <1>2, <1>3, <1>4 DEF Sharing!Learn, Sharing!Changed

\* A replica that takes one reported update.
LEMMA ReceivedImplements ==
    ASSUME LoopTypeOK, NEW p \in Robots, NEW u \in emitted,
           beliefs' = [beliefs EXCEPT ![p] = Received(@, u)], UNCHANGED emitted
    PROVE  /\ beliefs' \in [Robots -> [Cells -> Stamp]]
           /\ Sharing!Learn(p)
  <1> DEFINE belief == Received(beliefs[p], u)
  <1>1. beliefs \in [Robots -> [Cells -> Stamp]] /\ u \in Update
    BY DEF LoopTypeOK
  <1>2. u.cell \in Cells /\ u.stamp \in Stamp /\ u = [cell |-> u.cell, stamp |-> u.stamp]
    BY <1>1 DEF Update
  <1>3. beliefs[p] \in [Cells -> Stamp] /\ beliefs[p][u.cell] \in Stamp
    BY <1>1, <1>2
  <1>4. /\ \A c \in Cells \ {u.cell} : belief[c] = beliefs[p][c]
        /\ belief[u.cell] = Apply(beliefs[p][u.cell], u.stamp)
        /\ belief \in [Cells -> Stamp]
    BY <1>2, <1>3, ApplyIsGreater DEF Received
  <1>5. beliefs' = [beliefs EXCEPT ![p] = belief]
    BY <1>1
  <1> HIDE DEF belief
  <1>6. \A c \in Cells : \/ belief[c] = beliefs[p][c]
                          \/ /\ StampLess(beliefs[p][c], belief[c])
                             /\ [cell |-> c, stamp |-> belief[c]] \in emitted
    BY <1>2, <1>4 DEF Apply
  <1>7. QED
    BY <1>4, <1>5, <1>6, LearnImplements

\* What a patch does to a replica that takes it.
LEMMA PatchedFacts ==
    ASSUME NEW belief \in [Cells -> Stamp], NEW updates \in SUBSET Update
    PROVE  /\ Patched(belief, updates) \in [Cells -> Stamp]
           /\ \A c \in Cells :
                  \/ Patched(belief, updates)[c] = belief[c]
                  \/ /\ StampLess(belief[c], Patched(belief, updates)[c])
                     /\ [cell |-> c, stamp |-> Patched(belief, updates)[c]] \in updates
           /\ (\A u, v \in updates : u.cell = v.cell => u = v) =>
                  \A u \in updates : AtLeast(Patched(belief, updates)[u.cell], u.stamp)
  <1> DEFINE new == Patched(belief, updates)
             first(c) == CHOOSE u \in updates : u.cell = c
  <1>1. \A u \in updates : /\ u.cell \in Cells /\ u.stamp \in Stamp
                           /\ u = [cell |-> u.cell, stamp |-> u.stamp]
    BY DEF Update
  <1>2. ASSUME NEW c \in Cells, \E u \in updates : u.cell = c
        PROVE  /\ first(c) \in updates /\ first(c).cell = c
               /\ new[c] = Apply(belief[c], first(c).stamp)
    BY <1>2 DEF Patched
  <1>3. ASSUME NEW c \in Cells, ~(\E u \in updates : u.cell = c)
        PROVE  new[c] = belief[c]
    BY <1>3 DEF Patched
  <1>4. ASSUME NEW c \in Cells
        PROVE  /\ new[c] \in Stamp
               /\ \/ new[c] = belief[c]
                  \/ /\ StampLess(belief[c], new[c])
                     /\ [cell |-> c, stamp |-> new[c]] \in updates
    <2> HIDE DEF new, first
    <2>1. CASE \E u \in updates : u.cell = c
      <3>1. /\ first(c) \in updates /\ first(c).cell = c /\ first(c).stamp \in Stamp
            /\ first(c) = [cell |-> c, stamp |-> first(c).stamp]
            /\ new[c] = Apply(belief[c], first(c).stamp)
        BY <1>1, <1>2, <2>1
      <3>2. QED
        BY <3>1 DEF Apply
    <2>2. CASE ~(\E u \in updates : u.cell = c)
      BY <1>3, <2>2
    <2>3. QED
      BY <2>1, <2>2
  <1>5. new \in [Cells -> Stamp]
    <2>1. DOMAIN new = Cells /\ new = [c \in Cells |-> new[c]]
      BY DEF Patched
    <2>2. QED
      BY <1>4, <2>1
  <1>6. ASSUME \A u, v \in updates : u.cell = v.cell => u = v, NEW u \in updates
        PROVE  AtLeast(new[u.cell], u.stamp)
    <2> HIDE DEF new, first
    <2>1. first(u.cell) = u /\ new[u.cell] = Apply(belief[u.cell], u.stamp)
      BY <1>1, <1>2, <1>6
    <2>2. QED
      BY <1>1, <2>1, ApplyIsGreater
  <1> HIDE DEF new
  <1>7. QED
    BY <1>4, <1>5, <1>6 DEF new

\* The types of what MapSharing speaks of.
ReplicaTypes ==
    /\ beliefs \in [Robots -> [Cells -> Stamp]]
    /\ emitted \subseteq Update

\* A known stamp of a cell was reported, and is true; what a robot reported of a
\* cell it still knows.
LEMMA KnownIsTrue ==
    ASSUME ReplicaTypes, HonestReports, NEW u \in emitted
    PROVE  beliefs[u.stamp.source][u.cell].state = Truth[u.cell]
  <1> DEFINE b == beliefs[u.stamp.source][u.cell]
  <1>1. u.stamp.source \in Robots /\ u.cell \in Cells /\ u.stamp \in Stamp
    BY DEF HonestReports, ReplicaTypes, Update
  <1>2. u.stamp.version > 0 /\ AtLeast(b, u.stamp)
    BY DEF HonestReports
  <1>3. b \in Stamp
    BY <1>1 DEF ReplicaTypes
  <1>4. Legitimate(u.cell, b)
    BY <1>1 DEF HonestReports
  <1> HIDE DEF b
  <1>5. b # InitialStamp
    BY <1>1, <1>2, <1>3 DEF AtLeast, StampLess, InitialStamp, Stamp
  <1>6. [cell |-> u.cell, stamp |-> b] \in emitted
    BY <1>4, <1>5 DEF Legitimate
  <1>7. b.state = Truth[u.cell]
    BY <1>6 DEF HonestReports
  <1>8. QED
    BY <1>7 DEF b

\* What a robot knows of a cell was reported.
LEMMA KnownWasReported ==
    ASSUME HonestReports, NEW r \in Robots, NEW c \in Cells, Known(beliefs[r][c])
    PROVE  [cell |-> c, stamp |-> beliefs[r][c]] \in emitted
  <1>1. Legitimate(c, beliefs[r][c])
    BY DEF HonestReports
  <1>2. beliefs[r][c] # InitialStamp
    BY DEF Known, InitialStamp
  <1>3. QED
    BY <1>1, <1>2 DEF Legitimate

\* A look of the abstract robot keeps all reports honest: a cell that changes
\* was not known, so this robot has not reported it before.
LEMMA LookKeepsHonest ==
    ASSUME ReplicaTypes, HonestReports, NEW r \in Robots, Sharing!Look(r)
    PROVE  HonestReports' /\ Grows /\ emitted \subseteq emitted' /\ emitted' \subseteq Update
  <1> DEFINE new == {[cell |-> c, stamp |-> beliefs'[r][c]] : c \in Sharing!Changed(r)}
  <1>1. /\ beliefs \in [Robots -> [Cells -> Stamp]] /\ emitted \subseteq Update
        /\ beliefs' \in [Robots -> [Cells -> Stamp]]
        /\ \A q \in Robots \ {r} : beliefs'[q] = beliefs[q]
    BY SameStamps DEF ReplicaTypes, Sharing!Look, Sharing!Only
  <1>2. /\ \A c \in Sharing!Changed(r) :
            /\ c \in Cells
            /\ beliefs[r][c].state # Truth[c]
            /\ beliefs'[r][c].state = Truth[c]
            /\ beliefs'[r][c].source = r
            /\ beliefs'[r][c].version = beliefs[r][c].version + 1
        /\ \A c \in Cells \ Sharing!Changed(r) : beliefs'[r][c] = beliefs[r][c]
        /\ emitted' = emitted \cup new
    BY DEF Sharing!Look, Sharing!Changed
  <1>3. \A q \in Robots, c \in Cells : beliefs[q][c] \in Stamp /\ beliefs'[q][c] \in Stamp
    BY <1>1
  <1>4. \A c \in Sharing!Changed(r) : StampLess(beliefs[r][c], beliefs'[r][c])
    BY <1>2, <1>3 DEF StampLess, Stamp
  <1>5. Grows
    BY <1>1, <1>2, <1>4 DEF Grows, AtLeast
  <1>6. \A u \in new : /\ u.cell \in Sharing!Changed(r) /\ u.cell \in Cells
                       /\ u = [cell |-> u.cell, stamp |-> beliefs'[r][u.cell]]
                       /\ u.stamp = beliefs'[r][u.cell]
    BY <1>2
  <1> HIDE DEF new
  <1>7. emitted \subseteq emitted' /\ emitted' \subseteq Update
    BY <1>1, <1>2, <1>3, <1>6 DEF Update
  <1>8. \A u \in emitted : u.cell \in Cells /\ u.stamp \in Stamp /\ u.stamp.source \in Robots
    BY <1>1 DEF Update, HonestReports
  <1>9. ASSUME NEW u \in emitted'
        PROVE  /\ u.stamp.source \in Robots
               /\ u.stamp.version > 0
               /\ u.stamp.state = Truth[u.cell]
               /\ AtLeast(beliefs'[u.stamp.source][u.cell], u.stamp)
    <2>1. CASE u \in emitted
      <3>1. AtLeast(beliefs[u.stamp.source][u.cell], u.stamp)
        BY <2>1 DEF HonestReports
      <3>2. AtLeast(beliefs'[u.stamp.source][u.cell], u.stamp)
        BY <1>1, <1>5, <1>8, <2>1, <3>1, StillKnown
      <3>3. QED
        BY <2>1, <3>2 DEF HonestReports
    <2>2. CASE u \in new
      <3>1. beliefs[r][u.cell].version \in Nat
        BY <1>3, <1>6, <2>2 DEF Stamp
      <3>2. QED
        BY <1>2, <1>6, <2>2, <3>1 DEF AtLeast
    <2>3. QED
      BY <1>2, <2>1, <2>2
  <1>10. ASSUME NEW u \in emitted, NEW v \in new
         PROVE  ~(u.cell = v.cell /\ u.stamp.source = v.stamp.source)
    <2>1. v.stamp.source = r /\ beliefs[r][v.cell].state # Truth[v.cell]
      BY <1>2, <1>6
    <2>2. beliefs[u.stamp.source][u.cell].state = Truth[u.cell]
      BY KnownIsTrue
    <2>3. QED
      BY <2>1, <2>2
  <1>11. ASSUME NEW u \in emitted', NEW v \in emitted',
                u.cell = v.cell, u.stamp.source = v.stamp.source
         PROVE  u = v
    <2>1. CASE u \in emitted /\ v \in emitted
      BY <1>11, <2>1 DEF HonestReports
    <2>2. CASE u \in new /\ v \in new
      BY <1>6, <1>11, <2>2
    <2>3. QED
      BY <1>2, <1>10, <1>11, <2>1, <2>2
  <1>12. ASSUME NEW q \in Robots, NEW c \in Cells
         PROVE  Legitimate(c, beliefs[q][c])'
    <2>1. CASE q = r /\ c \in Sharing!Changed(r)
      BY <1>2, <2>1 DEF Legitimate, new
    <2>2. CASE ~(q = r /\ c \in Sharing!Changed(r))
      <3>1. beliefs'[q][c] = beliefs[q][c]
        BY <1>1, <1>2, <2>2
      <3>2. QED
        BY <1>7, <3>1 DEF HonestReports, Legitimate
    <2>3. QED
      BY <2>1, <2>2
  <1>13. HonestReports'
    BY <1>9, <1>11, <1>12 DEF HonestReports
  <1>14. QED
    BY <1>5, <1>7, <1>13

\* So does learning, which only spreads reports.
LEMMA LearnKeepsHonest ==
    ASSUME ReplicaTypes, HonestReports, NEW r \in Robots, Sharing!Learn(r)
    PROVE  HonestReports' /\ Grows /\ emitted \subseteq emitted' /\ emitted' \subseteq Update
  <1>1. /\ beliefs \in [Robots -> [Cells -> Stamp]] /\ emitted \subseteq Update
        /\ beliefs' \in [Robots -> [Cells -> Stamp]]
        /\ \A q \in Robots \ {r} : beliefs'[q] = beliefs[q]
        /\ emitted' = emitted
    BY SameStamps DEF ReplicaTypes, Sharing!Learn, Sharing!Only
  <1>2. \A c \in Cells : \/ beliefs'[r][c] = beliefs[r][c]
                         \/ /\ StampLess(beliefs[r][c], beliefs'[r][c])
                            /\ [cell |-> c, stamp |-> beliefs'[r][c]] \in emitted
    <2>1. \A c \in Cells : beliefs[r][c] \in Stamp /\ beliefs'[r][c] \in Stamp
      BY <1>1
    <2>2. QED
      BY <2>1, SameStamps DEF Sharing!Learn, Sharing!Changed
  <1>3. Grows
    BY <1>1, <1>2 DEF Grows, AtLeast
  <1>4. ASSUME NEW u \in emitted
        PROVE  AtLeast(beliefs'[u.stamp.source][u.cell], u.stamp)
    <2>1. u.cell \in Cells /\ u.stamp \in Stamp /\ u.stamp.source \in Robots
      BY <1>1 DEF Update, HonestReports
    <2>2. AtLeast(beliefs[u.stamp.source][u.cell], u.stamp)
      BY DEF HonestReports
    <2>3. QED
      BY <1>1, <1>3, <2>1, <2>2, StillKnown
  <1>5. \A q \in Robots, c \in Cells : Legitimate(c, beliefs[q][c])'
    BY <1>1, <1>2 DEF HonestReports, Legitimate
  <1>6. HonestReports'
    BY <1>1, <1>4, <1>5 DEF HonestReports
  <1>7. QED
    BY <1>1, <1>3, <1>6

\* Every step that MapSharing allows, and every stutter, keeps reports honest
\* and moves no replica backwards.
LEMMA SharedStep ==
    ASSUME ReplicaTypes, HonestReports, [Sharing!Next]_(Sharing!sharingVars)
    PROVE  HonestReports' /\ Grows /\ emitted \subseteq emitted' /\ emitted' \subseteq Update
  <1>1. CASE UNCHANGED <<beliefs, emitted>>
    BY <1>1, UnchangedGrows DEF HonestReports, Legitimate, ReplicaTypes
  <1>2. CASE Sharing!Next
    BY <1>2, LookKeepsHonest, LearnKeepsHonest DEF Sharing!Next
  <1>3. QED
    BY <1>1, <1>2 DEF Sharing!sharingVars

LEMMA SharingStep ==
    ASSUME LoopTypeOK, HonestReports, [Sharing!Next]_(Sharing!sharingVars)
    PROVE  HonestReports' /\ Grows /\ emitted \subseteq emitted' /\ emitted' \subseteq Update
  <1>1. ReplicaTypes
    BY DEF LoopTypeOK, ReplicaTypes
  <1>2. QED
    BY <1>1, SharedStep

\* Whatever shares its maps as MapSharing says keeps every report honest: all
\* that a robot believes of a cell somebody reported of that cell, and it is
\* true.  Each policy that implements MapSharing inherits this, with whatever
\* losses, retries, budgets and message formats it has (_merge_snapshot and
\* _sense_all of the closed loop).
THEOREM SharedMapsAreTrue == ImplementsSharing => [](ReplicaTypes /\ HonestReports)
  <1>1. Sharing!Init => ReplicaTypes /\ HonestReports
    <2> SUFFICES ASSUME Sharing!Init
                 PROVE  ReplicaTypes /\ HonestReports
      OBVIOUS
    <2>1. beliefs = [r \in Robots |-> [c \in Cells |-> InitialStamp]] /\ emitted = {}
      BY DEF Sharing!Init, Sharing!InitialStamp, InitialStamp, Sharing!UNKNOWN, UNKNOWN
    <2>2. ReplicaTypes
      BY <2>1, InitialStampIsStamp DEF ReplicaTypes
    <2>3. HonestReports
      BY <2>1 DEF HonestReports, Legitimate
    <2>4. QED
      BY <2>2, <2>3
  <1>2. ReplicaTypes /\ HonestReports /\ [Sharing!Next]_(Sharing!sharingVars)
          => (ReplicaTypes /\ HonestReports)'
    <2> SUFFICES ASSUME ReplicaTypes, HonestReports, [Sharing!Next]_(Sharing!sharingVars)
                 PROVE  (ReplicaTypes /\ HonestReports)'
      OBVIOUS
    <2>1. beliefs' \in [Robots -> [Cells -> Stamp]]
      <3>1. CASE UNCHANGED <<beliefs, emitted>>
        BY <3>1 DEF ReplicaTypes
      <3>2. CASE Sharing!Next
        BY <3>2, SameStamps DEF Sharing!Next, Sharing!Look, Sharing!Learn, Sharing!Only
      <3>3. QED
        BY <3>1, <3>2 DEF Sharing!sharingVars
    <2>2. QED
      BY <2>1, SharedStep DEF ReplicaTypes
  <1>3. QED
    BY <1>1, <1>2, PTL DEF ImplementsSharing, Sharing!Spec

-----------------------------------------------------------------------------
\* The facts about the state that the steps below use, spelled out.
LEMMA StateFacts ==
    ASSUME IndInv
    PROVE  /\ step \in Nat /\ phase \in Phases /\ turn \in Robots
           /\ beliefs \in [Robots -> [Cells -> Stamp]]
           /\ emitted \subseteq Update
           /\ data \in [Robots -> 0 .. DataCap]
           /\ control \in [Robots -> 0 .. ControlCap]
           /\ QueueOK(net, Packet)
           /\ policy \in Policies
           /\ outbox \in [Robots -> SUBSET Task]
           /\ tried \subseteq [update : Update, receiver : Robots]
           /\ Delay \in Nat /\ DataCap \in Nat /\ ControlCap \in Nat
           /\ NumRobots \in Nat \ {0}
           /\ \A m \in Packet : m.wait \in Nat /\ m.update \in Update /\ m.from \in Robots
                                 /\ m.to \in Robots
  <1>1. \A m \in Packet : m.wait \in Nat /\ m.update \in Update /\ m.from \in Robots /\ m.to \in Robots
    BY DEF Packet
  <1>2. QED
    BY <1>1, LoopAssumption DEF IndInv, TypeOK, LoopTypeOK, NetInOrder, QueueOK

-----------------------------------------------------------------------------
\* The steps.

\* The state before the first step satisfies the inductive invariant.
LEMMA InitEstablishes ==
    ASSUME Init
    PROVE  IndInv
  <1>1. 0 \in Robots
    BY LoopAssumption DEF Robots
  <1>2. TypeOK
    BY <1>1, InitialStampIsStamp, LoopAssumption
    DEF Init, LoopInit, DeliveryInit, TypeOK, LoopTypeOK, Phases, Packet
  <1>3. NetInOrder /\ AckMeansKnown
    BY DEF Init, LoopInit, NetInOrder, AckMeansKnown
  <1>4. OnlyReported
    BY DEF Init, LoopInit, OnlyReported, Legitimate
  <1>5. OwnReports
    BY DEF Init, LoopInit, DeliveryInit, OwnReports
  <1>6. NoLostUpdate
    BY DEF Init, LoopInit, NoLostUpdate
  <1>7. QED
    BY <1>2, <1>3, <1>4, <1>5, <1>6 DEF IndInv

\* A robot looks and queues what it saw.
LEMMA SensePreserves ==
    ASSUME IndInv, NEW r \in Robots, NEW w \in Shown(r), Sense(r, w)
    PROVE  IndInv'
  <1> DEFINE new == Discovered(r, w)
  <1>1. Observe(r, w) /\ Enqueue(r, new) /\ UNCHANGED <<policy, tried>>
    BY DEF Sense
  <1>2. /\ w \subseteq Cells
        /\ beliefs' \in [Robots -> [Cells -> Stamp]]
        /\ \A q \in Robots \ {r} : beliefs'[q] = beliefs[q]
        /\ \A c \in Cells : beliefs'[r][c] =
               IF c \in Unseen(r, w) THEN Observation(r, c).stamp ELSE beliefs[r][c]
        /\ Grows
        /\ new \subseteq Update
        /\ emitted' \subseteq Update
    BY <1>1, ObserveFacts DEF IndInv, TypeOK
  <1>3. /\ emitted' = emitted \cup new
        /\ UNCHANGED <<step, net, data, control, policy, tried>>
        /\ PassTurn(r, "dispatch")
    BY <1>1 DEF Observe
  <1>4. /\ outbox \in [Robots -> SUBSET Task]
        /\ beliefs \in [Robots -> [Cells -> Stamp]]
        /\ step \in Nat /\ phase \in Phases /\ emitted \subseteq Update
    BY StateFacts
  <1>5. \A u \in new : /\ u.cell \in Unseen(r, w) /\ u.cell \in Cells
                        /\ u = Observation(r, u.cell)
                        /\ u.stamp.source = r /\ u.stamp.version > 0
                        /\ beliefs'[r][u.cell] = u.stamp
    BY <1>2, <1>4, ObservationFacts DEF Discovered, Unseen
  <1>6. /\ \A q \in Robots \ {r} : outbox'[q] = outbox[q]
        /\ outbox'[r] = {t \in outbox[r] : Key(t) \notin {Key(q) : q \in Queued(r, new)}}
                          \cup Queued(r, new)
    BY <1>1, <1>4 DEF Enqueue
  <1>7. Queued(r, new) \subseteq Task
    <2>1. 0 \in 0 .. AttemptCap
      BY DeliveryAssumption
    <2>2. QED
      BY <1>2, <2>1 DEF Queued, Task
  <1> HIDE DEF new
  <1>8. TypeOK'
    <2>1. turn' \in Robots /\ phase' \in Phases
      BY <1>3, <1>4, PassTurnFacts DEF Phases
    <2>2. outbox' \in [Robots -> SUBSET Task]
      BY <1>1, <1>4, <1>7 DEF Enqueue
    <2>3. QED
      BY <1>2, <1>3, <2>1, <2>2 DEF IndInv, TypeOK, LoopTypeOK
  <1>9. NetInOrder'
    BY <1>3 DEF IndInv, NetInOrder
  <1>10. OnlyReported'
    <2>1. ASSUME NEW q \in Robots, NEW c \in Cells
          PROVE  Legitimate(c, beliefs[q][c])' 
      <3>1. CASE q = r /\ c \in Unseen(r, w)
        <4>1. Observation(r, c) \in new
          BY <3>1 DEF Discovered, new
        <4>2. [cell |-> c, stamp |-> Observation(r, c).stamp] = Observation(r, c)
          BY DEF Observation
        <4>3. QED
          BY <1>2, <1>3, <3>1, <4>1, <4>2 DEF Legitimate
      <3>2. CASE ~(q = r /\ c \in Unseen(r, w))
        BY <1>2, <1>3, <3>2 DEF IndInv, OnlyReported, Legitimate
      <3>3. QED
        BY <3>1, <3>2
    <2>2. \A i \in 1 .. Len(net') : net'[i].update \in emitted'
      BY <1>3 DEF IndInv, OnlyReported
    <2>3. QED
      BY <2>1, <2>2 DEF OnlyReported
  <1>11. OwnReports'
    <2>1. ASSUME NEW u \in emitted'
          PROVE  /\ u.stamp.source \in Robots
                 /\ u.stamp.version > 0
                 /\ AtLeast(beliefs'[u.stamp.source][u.cell], u.stamp)
      <3>1. CASE u \in new
        BY <1>5, <3>1 DEF AtLeast
      <3>2. CASE u \in emitted
        <4>1. u.stamp \in Stamp /\ u.cell \in Cells
          BY <1>4, <3>2 DEF Update
        <4>2. QED
          BY <1>2, <1>4, <3>2, <4>1, StillKnown DEF IndInv, OwnReports
      <3>3. QED
        BY <1>3, <3>1, <3>2
    <2>2. ASSUME NEW q \in Robots, NEW t \in outbox'[q]
          PROVE  t.update \in emitted' /\ t.update.stamp.source = q
      <3>1. CASE t \in outbox[q]
        BY <1>3, <3>1 DEF IndInv, OwnReports
      <3>2. CASE t \notin outbox[q]
        <4>1. q = r /\ t \in Queued(r, new)
          BY <1>6, <3>2
        <4>2. QED
          BY <1>3, <1>5, <4>1 DEF Queued
      <3>3. QED
        BY <3>1, <3>2
    <2>3. QED
      BY <2>1, <2>2 DEF OwnReports
  <1>12. AckMeansKnown'
    <2>1. ASSUME NEW i \in 1 .. Len(net), net[i].kind = "ack"
          PROVE  AtLeast(beliefs'[net[i].from][net[i].update.cell], net[i].update.stamp)
      <3>1. net[i] \in Packet
        BY StateFacts DEF QueueOK
      <3>2. /\ net[i].from \in Robots
            /\ net[i].update.cell \in Cells /\ net[i].update.stamp \in Stamp
        BY <3>1, StateFacts DEF Update
      <3>3. QED
        BY <1>2, <1>4, <2>1, <3>2, StillKnown DEF IndInv, AckMeansKnown
    <2>2. QED
      BY <1>3, <2>1 DEF AckMeansKnown
  <1>13. NoLostUpdate'
    <2>1. SUFFICES ASSUME Acknowledged, NEW u \in emitted', NEW q \in Robots \ {u.stamp.source}
                   PROVE  \/ AtLeast(beliefs'[q][u.cell], u.stamp)
                          \/ \E t \in outbox'[u.stamp.source] :
                                 Key(t) = [update |-> u, receiver |-> q]
      BY <1>3 DEF NoLostUpdate, Acknowledged, Key
    <2>2. CASE u \in new
      <3>1. u.stamp.source = r
        BY <1>5, <2>2
      <3>2. [update |-> u, receiver |-> q, attempts |-> 0] \in Queued(r, new)
        BY <2>2, <3>1 DEF Queued
      <3>3. QED
        BY <1>6, <3>1, <3>2 DEF Key
    <2>3. CASE u \in emitted
      <3>1. u.stamp \in Stamp /\ u.cell \in Cells /\ u.stamp.source \in Robots
        BY <1>4, <2>3 DEF Update, IndInv, OwnReports
      <3>2. CASE AtLeast(beliefs[q][u.cell], u.stamp)
        BY <1>2, <1>4, <3>1, <3>2, StillKnown
      <3>3. CASE \E t \in outbox[u.stamp.source] : Key(t) = [update |-> u, receiver |-> q]
        <4>1. PICK t \in outbox[u.stamp.source] : Key(t) = [update |-> u, receiver |-> q]
          BY <3>3
        <4>2. CASE t \in outbox'[u.stamp.source]
          BY <4>1, <4>2
        <4>3. CASE t \notin outbox'[u.stamp.source]
          <5>1. u.stamp.source = r /\ Key(t) \in {Key(x) : x \in Queued(r, new)}
            BY <1>6, <3>1, <4>3
          <5>2. QED
            BY <1>6, <4>1, <5>1
        <4>4. QED
          BY <4>2, <4>3
      <3>4. QED
        BY <2>1, <2>3, <3>2, <3>3 DEF IndInv, NoLostUpdate
    <2>4. QED
      BY <1>3, <2>2, <2>3
  <1>14. QED
    BY <1>8, <1>9, <1>10, <1>11, <1>12, <1>13 DEF IndInv

\* A sender puts a task's packet on the link.
LEMMA AttemptPreserves ==
    ASSUME IndInv, NEW s \in Robots, NEW t \in outbox[s], NEW kept \in Survivals,
           Attempt(s, t, kept)
    PROVE  IndInv'
  <1> DEFINE m == Delta(s, t)
  <1>1. /\ UNCHANGED <<step, phase, turn, beliefs, emitted, control, policy>>
        /\ net' = net \o Sent(kept, m)
        /\ outbox' = [outbox EXCEPT ![s] =
                (@ \ {t}) \cup (IF Acknowledged THEN {Attempted(t)} ELSE {})]
        /\ tried' = tried \cup {Key(t)}
        /\ data' = [data EXCEPT ![s] = @ - DeltaBytes]
        /\ CanSpend(data[s], DeltaBytes)
    BY DEF Attempt
  <1>2. /\ t \in Task /\ t.update \in Update /\ t.receiver \in Robots
        /\ t.update \in emitted /\ t.update.stamp.source = s
    BY StateFacts DEF Task, IndInv, OwnReports
  <1>3. /\ m \in Packet /\ m.wait = Delay /\ m.kind = "delta" /\ m.update = t.update
    <2>1. Acknowledged \in BOOLEAN
      BY DEF Acknowledged
    <2>2. QED
      BY <1>2, <2>1, StateFacts DEF Delta, Packet
  <1>4. /\ Attempted(t) \in Task
        /\ Attempted(t).update = t.update /\ Attempted(t).receiver = t.receiver
        /\ Key(Attempted(t)) = Key(t)
    BY <1>2, DeliveryAssumption DEF Attempted, Task, Key
  <1> HIDE DEF m
  <1>5. QueueOK(net', Packet)
    BY <1>1, <1>3, StateFacts, QueueAppends
  <1>6. /\ net \in Seq(Packet)
        /\ \A i \in 1 .. Len(net') :
              (i \in 1 .. Len(net) /\ net'[i] = net[i]) \/ net'[i] = m
    <2>1. net \in Seq(Packet)
      BY StateFacts DEF QueueOK
    <2>2. /\ Len(net') \in {Len(net), Len(net) + 1} /\ Len(net) \in Nat
          /\ \A i \in 1 .. Len(net) : net'[i] = net[i]
          /\ Len(net') = Len(net) + 1 => net'[Len(net')] = m
      BY <1>1, <1>3, <2>1, SentAppends
    <2>3. QED
      BY <2>1, <2>2
  <1>7. TypeOK'
    <2>1. data' \in [Robots -> 0 .. DataCap]
      BY <1>1, StateFacts DEF CanSpend, DeltaBytes
    <2>2. outbox' \in [Robots -> SUBSET Task]
      BY <1>1, <1>4, StateFacts
    <2>3. tried' \subseteq [update : Update, receiver : Robots]
      BY <1>1, <1>2, StateFacts DEF Key
    <2>4. QED
      BY <1>1, <1>5, <2>1, <2>2, <2>3 DEF IndInv, TypeOK, LoopTypeOK, QueueOK
  <1>8. NetInOrder'
    BY <1>5 DEF QueueOK, NetInOrder
  <1>9. OnlyReported'
    BY <1>1, <1>2, <1>3, <1>6 DEF IndInv, OnlyReported, Legitimate
  <1>10. OwnReports'
    <2>1. \A r \in Robots : \A x \in outbox'[r] :
              x \in outbox[r] \/ (r = s /\ x = Attempted(t))
      BY <1>1, StateFacts
    <2>2. QED
      BY <1>1, <1>2, <1>4, <2>1 DEF IndInv, OwnReports
  <1>11. AckMeansKnown'
    BY <1>1, <1>3, <1>6 DEF IndInv, AckMeansKnown
  <1>12. NoLostUpdate'
    <2>1. SUFFICES ASSUME Acknowledged, NEW u \in emitted, NEW q \in Robots \ {u.stamp.source},
                          NEW x \in outbox[u.stamp.source],
                          Key(x) = [update |-> u, receiver |-> q]
                   PROVE  \E y \in outbox'[u.stamp.source] :
                              Key(y) = [update |-> u, receiver |-> q]
      BY <1>1 DEF IndInv, NoLostUpdate, Acknowledged, Key
    <2>2. u.stamp.source \in Robots
      BY <2>1 DEF IndInv, OwnReports
    <2>3. CASE u.stamp.source = s /\ x = t
      BY <1>1, <1>4, <2>1, <2>3, StateFacts
    <2>4. CASE ~(u.stamp.source = s /\ x = t)
      BY <1>1, <2>1, <2>2, <2>4, StateFacts
    <2>5. QED
      BY <2>3, <2>4
  <1>13. QED
    BY <1>7, <1>8, <1>9, <1>10, <1>11, <1>12 DEF IndInv

\* A step that leaves replicas, reports, queue and outboxes alone.
LEMMA QuietStepPreserves ==
    ASSUME IndInv, UNCHANGED <<step, beliefs, emitted, net, data, control, policy, outbox>>,
           turn' \in Robots, phase' \in Phases,
           tried' \subseteq [update : Update, receiver : Robots]
    PROVE  IndInv'
  <1>1. TypeOK'
    BY DEF IndInv, TypeOK, LoopTypeOK
  <1>2. NetInOrder' /\ OnlyReported' /\ AckMeansKnown'
    BY DEF IndInv, NetInOrder, OnlyReported, AckMeansKnown, Legitimate
  <1>3. OwnReports' /\ NoLostUpdate'
    BY DEF IndInv, OwnReports, NoLostUpdate, Acknowledged, Key
  <1>4. QED
    BY <1>1, <1>2, <1>3 DEF IndInv

\* A sender's loop ends.
LEMMA EndSendingPreserves ==
    ASSUME IndInv, NEW s \in Robots, EndSending(s, "settle")
    PROVE  IndInv'
  <1>1. turn' \in Robots /\ phase' \in Phases
    BY StateFacts, PassTurnFacts DEF EndSending, Phases
  <1>2. QED
    BY <1>1, QuietStepPreserves DEF EndSending

\* The first drain of a step ends.
LEMMA EndArrivalsPreserves ==
    ASSUME IndInv, EndArrivals, UNCHANGED deliveryVars
    PROVE  IndInv'
  BY StateFacts, QuietStepPreserves DEF EndArrivals, deliveryVars, Phases

\* The packet at the head of the queue.
LEMMA HeadFacts ==
    ASSUME IndInv, Due
    PROVE  /\ Head(net) \in Packet /\ Head(net) = net[1] /\ 1 \in 1 .. Len(net)
           /\ Head(net).update \in emitted
           /\ Head(net).update.cell \in Cells /\ Head(net).update.stamp \in Stamp
           /\ Head(net).from \in Robots /\ Head(net).to \in Robots
           /\ QueueOK(Tail(net), Packet)
           /\ Len(Tail(net)) = Len(net) - 1 /\ Len(net) \in Nat
           /\ \A i \in 1 .. Len(Tail(net)) :
                 i + 1 \in 1 .. Len(net) /\ Tail(net)[i] = net[i + 1]
  <1>1. net \in Seq(Packet) /\ net # <<>> /\ QueueOK(net, Packet)
    BY StateFacts DEF Due, QueueOK
  <1>2. /\ Head(net) \in Packet /\ Head(net) = net[1] /\ Len(net) >= 1 /\ Len(net) \in Nat
        /\ Len(Tail(net)) = Len(net) - 1
        /\ \A i \in 1 .. Len(Tail(net)) : Tail(net)[i] = net[i + 1]
    BY <1>1, TailShifts
  <1>3. Head(net).update \in emitted
    BY <1>2 DEF IndInv, OnlyReported
  <1>4. Head(net).update \in Update /\ Head(net).from \in Robots /\ Head(net).to \in Robots
    BY <1>2, StateFacts
  <1>5. QED
    BY <1>1, <1>2, <1>3, <1>4, QueueTail DEF Update

\* A delta is applied and, if the budget allows, acknowledged.
LEMMA HandleDeltaPreserves ==
    ASSUME IndInv, NEW kept \in Survivals, HandleDelta(kept)
    PROVE  IndInv'
  <1> DEFINE m == Head(net)
             answered == m.keyed /\ CanSpend(control[m.to], AckBytes) /\ kept
  <1>1. Due
    BY DEF HandleDelta, Draining
  <1>2. /\ m \in Packet /\ m = net[1] /\ 1 \in 1 .. Len(net)
        /\ m.update \in emitted
        /\ m.update.cell \in Cells /\ m.update.stamp \in Stamp
        /\ m.from \in Robots /\ m.to \in Robots
        /\ QueueOK(Tail(net), Packet)
        /\ Len(Tail(net)) = Len(net) - 1 /\ Len(net) \in Nat
        /\ \A i \in 1 .. Len(Tail(net)) :
              i + 1 \in 1 .. Len(net) /\ Tail(net)[i] = net[i + 1]
    BY <1>1, HeadFacts
  <1>3. /\ m.kind = "delta"
        /\ beliefs' = [beliefs EXCEPT ![m.to] = Received(@, m.update)]
        /\ UNCHANGED <<step, phase, turn, emitted, data, policy, outbox, tried>>
        /\ control' = IF m.keyed THEN AnswerPaid(control, m.to, AckBytes) ELSE control
        /\ net' = IF m.keyed THEN AnswerQueued(control, m.to, AckBytes, kept, Ack(m))
                  ELSE Tail(net)
    BY DEF HandleDelta
  <1>4. /\ Ack(m) \in Packet /\ Ack(m).wait = Delay /\ Ack(m).kind = "ack"
        /\ Ack(m).update = m.update /\ Ack(m).from = m.to
    <2>1. m.update \in Update
      BY <1>2, StateFacts
    <2>2. QED
      BY <1>2, <2>1, StateFacts DEF Ack, Packet
  <1>5. beliefs \in [Robots -> [Cells -> Stamp]]
    BY StateFacts
  <1> HIDE DEF m
  <1>6. net' = Tail(net) \o Sent(answered, Ack(m))
    <2>1. Tail(net) \in Seq(Packet)
      BY <1>2 DEF QueueOK
    <2>2. Tail(net) \o <<>> = Tail(net)
      BY <2>1
    <2>3. QED
      BY <1>3, <2>2 DEF AnswerQueued, Sent
  <1> HIDE DEF answered
  <1>7. QueueOK(net', Packet)
    BY <1>2, <1>4, <1>6, StateFacts, QueueAppends
  <1>8. \A i \in 1 .. Len(net') :
            (\E j \in 1 .. Len(net) : net'[i] = net[j]) \/ net'[i] = Ack(m)
    <2>1. Tail(net) \in Seq(Packet)
      BY <1>2 DEF QueueOK
    <2>2. /\ Len(net') \in {Len(Tail(net)), Len(Tail(net)) + 1} /\ Len(Tail(net)) \in Nat
          /\ \A i \in 1 .. Len(Tail(net)) : net'[i] = Tail(net)[i]
          /\ Len(net') = Len(Tail(net)) + 1 => net'[Len(net')] = Ack(m)
      BY <1>4, <1>6, <2>1, SentAppends
    <2>3. QED
      BY <1>2, <2>2
  <1>9. /\ beliefs' \in [Robots -> [Cells -> Stamp]]
        /\ Grows
        /\ AtLeast(beliefs'[m.to][m.update.cell], m.update.stamp)
        /\ \A q \in Robots, c \in Cells :
              \/ beliefs'[q][c] = beliefs[q][c]
              \/ c = m.update.cell /\ beliefs'[q][c] = m.update.stamp
    <2>1. \A q \in Robots, c \in Cells : beliefs'[q][c] =
              IF q = m.to /\ c = m.update.cell
              THEN Apply(beliefs[q][c], m.update.stamp) ELSE beliefs[q][c]
      BY <1>2, <1>3, <1>5 DEF Received
    <2>2. beliefs[m.to][m.update.cell] \in Stamp
      BY <1>2, <1>5
    <2>3. /\ Apply(beliefs[m.to][m.update.cell], m.update.stamp) \in Stamp
          /\ Apply(beliefs[m.to][m.update.cell], m.update.stamp)
                \in {beliefs[m.to][m.update.cell], m.update.stamp}
          /\ AtLeast(Apply(beliefs[m.to][m.update.cell], m.update.stamp),
                     beliefs[m.to][m.update.cell])
          /\ AtLeast(Apply(beliefs[m.to][m.update.cell], m.update.stamp), m.update.stamp)
      BY <1>2, <2>2, ApplyIsGreater
    <2>4. beliefs' \in [Robots -> [Cells -> Stamp]]
      BY <1>2, <1>3, <1>5, <2>3 DEF Received
    <2>5. QED
      BY <1>2, <2>1, <2>3, <2>4 DEF Grows, AtLeast
  <1>10. TypeOK'
    <2>1. control' \in [Robots -> 0 .. ControlCap]
      BY <1>2, <1>3, StateFacts DEF AnswerPaid, CanSpend, AckBytes
    <2>2. QED
      BY <1>3, <1>7, <1>9, <2>1 DEF IndInv, TypeOK, LoopTypeOK, QueueOK
  <1>11. NetInOrder'
    BY <1>7 DEF QueueOK, NetInOrder
  <1>12. OnlyReported'
    <2>1. \A i \in 1 .. Len(net') : net'[i].update \in emitted
      BY <1>2, <1>4, <1>8 DEF IndInv, OnlyReported
    <2>2. [cell |-> m.update.cell, stamp |-> m.update.stamp] = m.update
      BY <1>2, StateFacts DEF Update
    <2>3. \A q \in Robots, c \in Cells : Legitimate(c, beliefs[q][c])'
      BY <1>2, <1>3, <1>9, <2>2 DEF IndInv, OnlyReported, Legitimate
    <2>4. QED
      BY <1>3, <2>1, <2>3 DEF OnlyReported
  <1>13. OwnReports'
    <2>1. ASSUME NEW u \in emitted
          PROVE  AtLeast(beliefs'[u.stamp.source][u.cell], u.stamp)
      <3>1. u.stamp \in Stamp /\ u.cell \in Cells
        BY StateFacts DEF Update
      <3>2. QED
        BY <1>5, <1>9, <3>1, StillKnown DEF IndInv, OwnReports
    <2>2. QED
      BY <1>3, <2>1 DEF IndInv, OwnReports
  <1>14. AckMeansKnown'
    <2>1. ASSUME NEW j \in 1 .. Len(net), net[j].kind = "ack"
          PROVE  AtLeast(beliefs'[net[j].from][net[j].update.cell], net[j].update.stamp)
      <3>1. net[j] \in Packet
        BY StateFacts DEF QueueOK
      <3>2. /\ net[j].from \in Robots
            /\ net[j].update.cell \in Cells /\ net[j].update.stamp \in Stamp
        BY <3>1, StateFacts DEF Update
      <3>3. QED
        BY <1>5, <1>9, <2>1, <3>2, StillKnown DEF IndInv, AckMeansKnown
    <2>2. QED
      BY <1>4, <1>8, <1>9, <2>1 DEF AckMeansKnown
  <1>15. NoLostUpdate'
    <2>1. ASSUME NEW u \in emitted, NEW q \in Robots, AtLeast(beliefs[q][u.cell], u.stamp)
          PROVE  AtLeast(beliefs'[q][u.cell], u.stamp)
      <3>1. u.stamp \in Stamp /\ u.cell \in Cells
        BY StateFacts DEF Update
      <3>2. QED
        BY <1>5, <1>9, <2>1, <3>1, StillKnown
    <2>2. QED
      BY <1>3, <2>1 DEF IndInv, NoLostUpdate, Acknowledged, Key
  <1>16. QED
    BY <1>10, <1>11, <1>12, <1>13, <1>14, <1>15 DEF IndInv

\* An acknowledged task leaves its outbox.
LEMMA HandleAckPreserves ==
    ASSUME IndInv, HandleAck
    PROVE  IndInv'
  <1> DEFINE m == Head(net)
             acked == [update |-> m.update, receiver |-> m.from]
  <1>1. Due
    BY DEF HandleAck, Draining
  <1>2. /\ m \in Packet /\ m = net[1] /\ 1 \in 1 .. Len(net)
        /\ m.from \in Robots /\ m.to \in Robots
        /\ QueueOK(Tail(net), Packet)
        /\ \A i \in 1 .. Len(Tail(net)) :
              i + 1 \in 1 .. Len(net) /\ Tail(net)[i] = net[i + 1]
    BY <1>1, HeadFacts
  <1>3. /\ m.kind = "ack"
        /\ outbox' = [outbox EXCEPT ![m.to] = {t \in @ : Key(t) # acked}]
        /\ net' = Tail(net)
        /\ UNCHANGED <<step, phase, turn, beliefs, emitted, data, control, policy, tried>>
    BY DEF HandleAck
  <1>4. AtLeast(beliefs[m.from][m.update.cell], m.update.stamp)
    BY <1>2, <1>3 DEF IndInv, AckMeansKnown
  <1> HIDE DEF m
  <1>5. \A r \in Robots : /\ outbox'[r] \subseteq outbox[r]
                          /\ \A t \in outbox[r] : Key(t) # acked => t \in outbox'[r]
    BY <1>3, StateFacts
  <1> HIDE DEF acked
  <1>6. TypeOK'
    <2>1. outbox' \in [Robots -> SUBSET Task]
      BY <1>3, StateFacts
    <2>2. QED
      BY <1>2, <1>3, <2>1 DEF IndInv, TypeOK, LoopTypeOK, QueueOK
  <1>7. NetInOrder'
    BY <1>2, <1>3 DEF QueueOK, NetInOrder
  <1>8. OnlyReported' /\ AckMeansKnown'
    BY <1>2, <1>3 DEF IndInv, OnlyReported, AckMeansKnown, Legitimate
  <1>9. OwnReports'
    BY <1>3, <1>5 DEF IndInv, OwnReports
  <1>10. NoLostUpdate'
    <2>1. SUFFICES ASSUME Acknowledged, NEW u \in emitted, NEW q \in Robots \ {u.stamp.source}
                   PROVE  \/ AtLeast(beliefs[q][u.cell], u.stamp)
                          \/ \E y \in outbox'[u.stamp.source] :
                                 Key(y) = [update |-> u, receiver |-> q]
      BY <1>3 DEF NoLostUpdate, Acknowledged, Key
    <2>2. u.stamp.source \in Robots
      BY <2>1 DEF IndInv, OwnReports
    <2>3. CASE AtLeast(beliefs[q][u.cell], u.stamp)
      BY <2>3
    <2>4. ASSUME NEW x \in outbox[u.stamp.source], Key(x) = [update |-> u, receiver |-> q]
          PROVE  \/ AtLeast(beliefs[q][u.cell], u.stamp)
                 \/ x \in outbox'[u.stamp.source]
      <3>1. CASE Key(x) = acked
        <4>1. u = m.update /\ q = m.from
          BY <2>4, <3>1 DEF acked
        <4>2. QED
          BY <1>4, <4>1
      <3>2. CASE Key(x) # acked
        BY <1>5, <2>2, <3>2
      <3>3. QED
        BY <3>1, <3>2
    <2>5. QED
      BY <2>1, <2>3, <2>4 DEF IndInv, NoLostUpdate
  <1>11. QED
    BY <1>6, <1>7, <1>8, <1>9, <1>10 DEF IndInv

\* The clock advances; nothing that is due is left behind.
LEMMA EndStepPreserves ==
    ASSUME IndInv, EndStep, UNCHANGED deliveryVars
    PROVE  IndInv'
  <1>1. /\ QueueOK(net, Packet) /\ LoopTypeOK
        /\ \A i \in 1 .. Len(net) : net[i] \in Packet
    <2>1. QueueOK(net, Packet)
      BY StateFacts
    <2>2. LoopTypeOK
      BY DEF IndInv, TypeOK
    <2>3. net \in Seq(Packet)
      BY DEF IndInv, TypeOK
    <2>4. QED
      BY <2>1, <2>2, <2>3
  <1>2. UNCHANGED <<turn, beliefs, emitted, policy, outbox, tried>>
    BY DEF EndStep, deliveryVars
  <1>3. \A x \in Packet : x.wait \in Nat
    BY StateFacts
  <1>4. \A x \in Packet :
            LET n == [x EXCEPT !.wait = @ - 1] IN
            /\ x.wait > 0 => n \in Packet
            /\ n.wait = x.wait - 1
            /\ n.update = x.update /\ n.kind = x.kind /\ n.from = x.from
    BY <1>3 DEF Packet
  <1>5. /\ QueueOK(net', Packet) /\ Len(net') = Len(net)
        /\ \A i \in 1 .. Len(net') :
              /\ net'[i].update = net[i].update
              /\ net'[i].kind = net[i].kind /\ net'[i].from = net[i].from
    <2>1. /\ QueueOK(net', Packet) /\ Len(net') = Len(net)
          /\ \A i \in 1 .. Len(net) : net'[i] = [net[i] EXCEPT !.wait = @ - 1]
      BY <1>1, <1>3, <1>4, QueueTicks
    <2>2. QED
      BY <1>1, <1>4, <2>1
  <1>6. TypeOK'
    BY <1>1, <1>2, <1>5, EndStepTypes DEF IndInv, TypeOK, QueueOK
  <1>7. NetInOrder'
    BY <1>5 DEF QueueOK, NetInOrder
  <1>8. OnlyReported' /\ AckMeansKnown'
    BY <1>2, <1>5 DEF IndInv, OnlyReported, AckMeansKnown, Legitimate
  <1>9. OwnReports' /\ NoLostUpdate'
    BY <1>2 DEF IndInv, OwnReports, NoLostUpdate, Acknowledged, Key
  <1>10. QED
    BY <1>6, <1>7, <1>8, <1>9 DEF IndInv

\* Every step of the runner, and every stutter, preserves the invariant.
LEMMA NextPreserves ==
    ASSUME IndInv, [Next]_vars
    PROVE  IndInv'
  <1>1. CASE EndArrivals /\ UNCHANGED deliveryVars
    BY <1>1, EndArrivalsPreserves
  <1>2. ASSUME NEW r \in Robots, NEW w \in Shown(r), Sense(r, w)
        PROVE  IndInv'
    BY <1>2, SensePreserves
  <1>3. ASSUME NEW s \in Robots, NEW t \in outbox[s], NEW kept \in Survivals, Attempt(s, t, kept)
        PROVE  IndInv'
    BY <1>3, AttemptPreserves
  <1>4. ASSUME NEW s \in Robots, EndSending(s, "settle")
        PROVE  IndInv'
    BY <1>4, EndSendingPreserves
  <1>5. ASSUME NEW kept \in Survivals, HandleDelta(kept)
        PROVE  IndInv'
    BY <1>5, HandleDeltaPreserves
  <1>6. CASE HandleAck
    BY <1>6, HandleAckPreserves
  <1>7. CASE EndStep /\ UNCHANGED deliveryVars
    BY <1>7, EndStepPreserves
  <1>8. CASE UNCHANGED vars
    BY <1>8, StateFacts, QuietStepPreserves DEF vars, loopVars, deliveryVars
  <1>9. QED
    BY <1>1, <1>2, <1>3, <1>4, <1>5, <1>6, <1>7, <1>8 DEF Next

\* The inductive invariant holds in every reachable state of the delivery loop,
\* for every team, map, budget, delay and policy.
THEOREM Invariance == Spec => []IndInv
  <1>1. Init => IndInv
    BY InitEstablishes
  <1>2. IndInv /\ [Next]_vars => IndInv'
    BY NextPreserves
  <1>3. QED
    BY <1>1, <1>2, PTL DEF Spec

-----------------------------------------------------------------------------
\* What follows from the invariant.

\* Every variable keeps its type: budgets never go below zero, packets never
\* wait a negative number of steps, no robot is addressed that does not exist.
THEOREM TypeCorrect == Spec => []TypeOK
  BY Invariance, PTL DEF IndInv

\* _handle_message and _send_delta_tasks together never drop the last copy of
\* an observation under an acknowledged policy.
THEOREM NoLoss == Spec => []NoLostUpdate
  BY Invariance, PTL DEF IndInv

\* A reported stamp is greater than the stamp of an unknown cell.
LEMMA ReportedIsNewer ==
    ASSUME NEW s \in Stamp, s.version > 0
    PROVE  AtLeast(s, InitialStamp)
  BY DEF AtLeast, StampLess, InitialStamp, Stamp

\* In a state with empty outboxes every robot has what any robot has.
LEMMA QuietKnowsAll ==
    ASSUME IndInv, Acknowledged, \A r \in Robots : outbox[r] = {},
           NEW p \in Robots, NEW q \in Robots, NEW c \in Cells
    PROVE  AtLeast(beliefs[q][c], beliefs[p][c])
  <1>1. beliefs[p][c] \in Stamp /\ beliefs[q][c] \in Stamp
    BY StateFacts
  <1>2. Legitimate(c, beliefs[p][c]) /\ Legitimate(c, beliefs[q][c])
    BY DEF IndInv, OnlyReported
  <1>3. CASE beliefs[p][c] = InitialStamp
    <2>1. CASE beliefs[q][c] = InitialStamp
      BY <1>3, <2>1 DEF AtLeast
    <2>2. CASE [cell |-> c, stamp |-> beliefs[q][c]] \in emitted
      BY <1>1, <1>3, <2>2, ReportedIsNewer DEF IndInv, OwnReports
    <2>3. QED
      BY <1>2, <2>1, <2>2 DEF Legitimate
  <1>4. CASE [cell |-> c, stamp |-> beliefs[p][c]] \in emitted
    <2> DEFINE u == [cell |-> c, stamp |-> beliefs[p][c]]
    <2>1. /\ u.stamp.source \in Robots
          /\ AtLeast(beliefs[u.stamp.source][u.cell], u.stamp)
      BY <1>4 DEF IndInv, OwnReports
    <2>2. CASE q = u.stamp.source
      BY <2>1, <2>2
    <2>3. CASE q # u.stamp.source
      <3>1. \/ AtLeast(beliefs[q][u.cell], u.stamp)
            \/ \E t \in outbox[u.stamp.source] : Key(t) = [update |-> u, receiver |-> q]
        BY <1>4, <2>3 DEF IndInv, NoLostUpdate
      <3>2. QED
        BY <2>1, <3>1
    <2>4. QED
      BY <2>2, <2>3
  <1>5. QED
    BY <1>2, <1>3, <1>4 DEF Legitimate

\* Once every outbox has drained under an acknowledged policy, all replicas are
\* identical: what each robot plans on is then the same map.
THEOREM QuiescentReplicasAgree == Spec => []QuiescentAgreement
  <1>1. IndInv => QuiescentAgreement
    <2>1. SUFFICES ASSUME IndInv, Acknowledged, \A r \in Robots : outbox[r] = {},
                          NEW p \in Robots, NEW q \in Robots
                   PROVE  beliefs[p] = beliefs[q]
      BY DEF QuiescentAgreement, Agreement
    <2>2. \A c \in Cells : beliefs[p][c] = beliefs[q][c]
      <3>1. SUFFICES ASSUME NEW c \in Cells PROVE beliefs[p][c] = beliefs[q][c]
        OBVIOUS
      <3>2. AtLeast(beliefs[q][c], beliefs[p][c]) /\ AtLeast(beliefs[p][c], beliefs[q][c])
        BY <2>1, QuietKnowsAll
      <3>3. beliefs[p][c] \in Stamp /\ beliefs[q][c] \in Stamp
        BY <2>1, StateFacts
      <3>4. QED
        BY <3>2, <3>3, AtLeastAntisymmetric
    <2>3. beliefs[p] \in [Cells -> Stamp] /\ beliefs[q] \in [Cells -> Stamp]
      BY <2>1, StateFacts
    <2>4. QED
      BY <2>2, <2>3
  <1>2. QED
    BY <1>1, Invariance, PTL

-----------------------------------------------------------------------------
\* DeltaDelivery implements MapSharing: a look of the detailed system is a look
\* of the abstract one, the handling of a delta is a lesson learned, and every
\* other step leaves replicas and reports alone.

\* Handling a DELTA is a Learn of the robot it is addressed to, or a stutter.
LEMMA HandleDeltaImplements ==
    ASSUME IndInv, NEW kept \in Survivals, HandleDelta(kept)
    PROVE  \E r \in Robots : Sharing!Learn(r)
  <1>1. Due
    BY DEF HandleDelta, Draining
  <1>2. Head(net).update \in emitted /\ Head(net).to \in Robots
    BY <1>1, HeadFacts
  <1>3. /\ beliefs' = [beliefs EXCEPT ![Head(net).to] = Received(@, Head(net).update)]
        /\ UNCHANGED emitted
    BY DEF HandleDelta
  <1>4. QED
    BY <1>2, <1>3, ReceivedImplements DEF IndInv, TypeOK

\* Every other step of the loop leaves replicas and reports alone.
LEMMA StepImplements ==
    ASSUME IndInv, [Next]_vars
    PROVE  [Sharing!Next]_(Sharing!sharingVars)
  <1>1. ASSUME NEW r \in Robots, NEW w \in Shown(r), Sense(r, w)
        PROVE  Sharing!Next
    BY <1>1, ObserveImplements DEF Sense, Sharing!Next, IndInv, TypeOK
  <1>2. ASSUME NEW kept \in Survivals, HandleDelta(kept)
        PROVE  Sharing!Next
    BY <1>2, HandleDeltaImplements DEF Sharing!Next
  <1>3. ASSUME NEW s \in Robots, NEW t \in outbox[s], NEW kept \in Survivals, Attempt(s, t, kept)
        PROVE  UNCHANGED <<beliefs, emitted>>
    BY <1>3 DEF Attempt
  <1>4. ASSUME NEW s \in Robots, EndSending(s, "settle")
        PROVE  UNCHANGED <<beliefs, emitted>>
    BY <1>4 DEF EndSending
  <1>5. CASE EndArrivals \/ HandleAck \/ EndStep \/ UNCHANGED vars
    BY <1>5 DEF EndArrivals, HandleAck, EndStep, vars, loopVars, Sharing!sharingVars
  <1>6. QED
    BY <1>1, <1>2, <1>3, <1>4, <1>5 DEF Next, Sharing!sharingVars

\* Under every policy of the module, whatever the link does, no replica ever
\* holds a stamp nobody reported for that cell and none ever moves backwards.
THEOREM Refinement == Spec => ImplementsSharing
  <1>1. Init => Sharing!Init
    BY LoopStarts DEF Init
  <1>2. IndInv /\ [Next]_vars => [Sharing!Next]_(Sharing!sharingVars)
    BY StepImplements
  <1>3. QED
    BY <1>1, <1>2, Invariance, PTL DEF Spec, ImplementsSharing, Sharing!Spec

\* Along the way every report stays true, no robot ever reports a cell twice
\* (which is why an update is found by its key), and no robot falls behind what
\* it reported itself.
THEOREM ReportsStayHonest == Spec => []HonestReports
  <1>1. Init => HonestReports
    BY LoopStarts DEF Init
  <1>2. IndInv /\ HonestReports /\ [Next]_vars => HonestReports'
    BY StepImplements, SharingStep DEF IndInv, TypeOK
  <1>3. QED
    BY <1>1, <1>2, Invariance, PTL DEF Spec

-----------------------------------------------------------------------------
\* For the policies that send one-shot deltas beside packets of their own.

\* Sensing queues reports only.
LEMMA SenseQueues ==
    ASSUME LoopTypeOK, OutboxHonest, NEW r \in Robots, NEW w \in Shown(r), Sense(r, w)
    PROVE  /\ OutboxHonest'
           /\ LoopTypeOK'
           /\ UNCHANGED <<step, net, data, control, policy, tried>>
  <1> DEFINE new == Discovered(r, w)
             queued == Queued(r, new)
  <1>1. Observe(r, w) /\ Enqueue(r, new) /\ UNCHANGED <<policy, tried>>
    BY DEF Sense
  <1>2. /\ new \subseteq Update /\ emitted' \subseteq Update
        /\ beliefs' \in [Robots -> [Cells -> Stamp]]
    BY <1>1, ObserveFacts
  <1>3. /\ emitted' = emitted \cup new /\ PassTurn(r, "dispatch")
        /\ UNCHANGED <<step, net, data, control>>
    BY <1>1 DEF Observe
  <1> HIDE DEF new
  <1>4. queued \subseteq Task /\ \A t \in queued : t.update \in new
    BY <1>2, DeliveryAssumption DEF Queued, Task
  <1>5. outbox' = [outbox EXCEPT ![r] = {t \in @ : Key(t) \notin {Key(q) : q \in queued}} \cup queued]
    BY <1>1 DEF Enqueue
  <1> HIDE DEF queued
  <1>6. OutboxHonest'
    BY <1>3, <1>4, <1>5 DEF OutboxHonest
  <1>7. LoopTypeOK'
    <2>1. turn' \in Robots /\ phase' \in Phases
      BY <1>3, PassTurnFacts DEF LoopTypeOK, Phases
    <2>2. QED
      BY <1>2, <1>3, <2>1 DEF LoopTypeOK
  <1>8. QED
    BY <1>1, <1>3, <1>6, <1>7

\* A one-shot attempt sends a report without a key, and pays for it.
LEMMA AttemptSends ==
    ASSUME LoopTypeOK, OutboxHonest, policy = "one_shot",
           NEW s \in Robots, NEW t \in outbox[s], NEW kept \in Survivals, Attempt(s, t, kept)
    PROVE  /\ OutboxHonest'
           /\ LoopTypeOK'
           /\ Delta(s, t) \in Packet /\ Delta(s, t).kind = "delta" /\ Delta(s, t).wait = Delay
           /\ Delta(s, t).update \in emitted /\ ~Delta(s, t).keyed
           /\ net' = net \o Sent(kept, Delta(s, t))
           /\ UNCHANGED <<step, phase, turn, beliefs, emitted, control, policy>>
           /\ phase = "dispatch"
  <1>1. /\ UNCHANGED <<step, phase, turn, beliefs, emitted, control, policy>>
        /\ phase = "dispatch"
        /\ net' = net \o Sent(kept, Delta(s, t))
        /\ outbox' = [outbox EXCEPT ![s] = @ \ {t}]
        /\ data' = [data EXCEPT ![s] = @ - DeltaBytes]
        /\ CanSpend(data[s], DeltaBytes)
    BY DEF Attempt, Acknowledged, OutboxHonest
  <1>2. t \in Task /\ t.update \in emitted /\ t.update \in Update /\ t.receiver \in Robots
    BY DEF OutboxHonest, LoopTypeOK, Task
  <1>3. Delta(s, t) = [kind |-> "delta", from |-> s, to |-> t.receiver, update |-> t.update,
                       keyed |-> FALSE, wait |-> Delay]
    <2>1. Acknowledged = FALSE
      BY DEF Acknowledged
    <2>2. QED
      BY <2>1 DEF Delta
  <1>4. Delta(s, t) \in Packet
    BY <1>2, <1>3, LoopAssumption DEF Packet
  <1>5. data' \in [Robots -> 0 .. DataCap]
    BY <1>1, LedgerPays, LoopAssumption DEF LoopTypeOK, DeltaBytes
  <1>6. OutboxHonest'
    BY <1>1 DEF OutboxHonest
  <1>7. QED
    BY <1>1, <1>2, <1>3, <1>4, <1>5, <1>6 DEF LoopTypeOK

\* The end of a sender's loop changes the turn only.
LEMMA EndSendingFacts ==
    ASSUME LoopTypeOK, OutboxHonest, NEW s \in Robots, NEW next \in Phases, EndSending(s, next)
    PROVE  /\ OutboxHonest' /\ LoopTypeOK'
           /\ UNCHANGED <<step, beliefs, emitted, net, data, control, policy, outbox>>
           /\ phase = "dispatch" /\ turn = s /\ PassTurn(s, next)
  <1>1. /\ UNCHANGED <<step, beliefs, emitted, net, data, control, policy, outbox>>
        /\ phase = "dispatch" /\ turn = s /\ PassTurn(s, next)
    BY DEF EndSending
  <1>2. turn' \in Robots /\ phase' \in Phases
    BY <1>1, PassTurnFacts DEF LoopTypeOK
  <1>3. QED
    BY <1>1, <1>2 DEF OutboxHonest, LoopTypeOK

-----------------------------------------------------------------------------
\* Fairness between first attempts and retries.

LEMMA NothingTried ==
    tried = {} => TriedAreCounted /\ RetryAllIsFair
  <1>1. SUFFICES ASSUME tried = {} PROVE TriedAreCounted /\ RetryAllIsFair
    OBVIOUS
  <1>2. TriedFresh(turn) = {} /\ TriedRetries(turn) = {}
    BY <1>1 DEF TriedFresh, TriedRetries
  <1>3. IsFiniteSet({}) /\ Cardinality({}) = 0
    BY FS_EmptySet
  <1>4. 0 - 0 \in {0, 1} /\ 0 = 0 + 0
    OBVIOUS
  <1>5. QED
    BY <1>1, <1>2, <1>3, <1>4 DEF TriedAreCounted, RetryAllIsFair

\* A sender's loop starts with nothing tried.
LEMMA FairStarts ==
    ASSUME KeysAreUnique', tried' = {}
    PROVE  FairInv'
  <1>1. (tried = {} => TriedAreCounted /\ RetryAllIsFair)'
    BY NothingTried, PTL
  <1>2. QED
    BY <1>1 DEF FairInv

LEMMA QueuedKeys ==
    ASSUME NEW r \in Robots, NEW updates
    PROVE  \A t, u \in Queued(r, updates) : Key(t) = Key(u) => t = u
  BY DEF Queued, Key

LEMMA SenseKeepsKeys ==
    ASSUME IndInv, KeysAreUnique, NEW r \in Robots, NEW w \in Shown(r), Sense(r, w)
    PROVE  KeysAreUnique'
  <1> DEFINE queued == Queued(r, Discovered(r, w))
             old == {t \in outbox[r] : Key(t) \notin {Key(q) : q \in queued}}
  <1>1. outbox' = [outbox EXCEPT ![r] = old \cup queued]
    BY DEF Sense, Enqueue
  <1>2. \A t, u \in queued : Key(t) = Key(u) => t = u
    BY QueuedKeys
  <1> HIDE DEF queued
  <1>3. \A t, u \in old \cup queued : Key(t) = Key(u) => t = u
    BY <1>2 DEF KeysAreUnique
  <1> HIDE DEF old
  <1>4. \A s \in Robots : outbox'[s] = IF s = r THEN old \cup queued ELSE outbox[s]
    BY <1>1, StateFacts
  <1>5. QED
    BY <1>3, <1>4 DEF KeysAreUnique

\* An attempt: the task moves from its class to the tried ones of that class.
LEMMA AttemptMoves ==
    ASSUME IndInv, KeysAreUnique, policy = "retry_all", NEW s \in Robots, NEW t \in outbox[s],
           NEW kept \in Survivals, Attempt(s, t, kept)
    PROVE  /\ phase = "dispatch" /\ turn = s /\ phase' = phase /\ turn' = s /\ step' = step
           /\ policy' = policy
           /\ outbox' = [outbox EXCEPT ![s] = (@ \ {t}) \cup {Attempted(t)}]
           /\ tried' = tried \cup {Key(t)} /\ Key(t) \notin tried
           /\ t \in Class(s) /\ Key(Attempted(t)) = Key(t)
           /\ t \in Task /\ t.attempts \in 0 .. AttemptCap /\ Attempted(t) \in Task
           /\ t.attempts = 0 => Attempted(t).attempts = 1
           /\ t.attempts > 0 => Attempted(t).attempts > 1
  <1>1. /\ phase = "dispatch" /\ turn = s /\ phase' = phase /\ turn' = turn /\ step' = step
        /\ policy' = policy /\ IsNext(s, t)
        /\ outbox' = [outbox EXCEPT ![s] =
               (@ \ {t}) \cup (IF Acknowledged THEN {Attempted(t)} ELSE {})]
        /\ tried' = tried \cup {Key(t)}
    BY DEF Attempt
  <1>2. Acknowledged
    BY DEF Acknowledged
  <1>3. t \in Class(s)
    BY <1>1 DEF IsNext, IsFirst
  <1>4. Key(t) \notin tried
    BY <1>3 DEF Class, Fresh, Retries, Untried
  <1>5. t \in Task /\ t.attempts \in 0 .. AttemptCap
    BY StateFacts DEF Task
  <1>6. /\ Attempted(t) \in Task /\ Key(Attempted(t)) = Key(t)
        /\ Attempted(t).attempts = IF t.attempts < AttemptCap THEN t.attempts + 1 ELSE t.attempts
    BY <1>5, DeliveryAssumption DEF Attempted, Task, Key
  <1>7. /\ t.attempts = 0 => Attempted(t).attempts = 1
        /\ t.attempts > 0 => Attempted(t).attempts > 1
    BY <1>5, <1>6, DeliveryAssumption
  <1>8. QED
    BY <1>1, <1>2, <1>3, <1>4, <1>5, <1>6, <1>7

LEMMA AttemptKeepsKeys ==
    ASSUME IndInv, KeysAreUnique, NEW s \in Robots, NEW t \in outbox[s],
           NEW kept \in Survivals, Attempt(s, t, kept)
    PROVE  KeysAreUnique'
  <1> DEFINE new == IF Acknowledged THEN {Attempted(t)} ELSE {}
  <1>1. outbox' = [outbox EXCEPT ![s] = (@ \ {t}) \cup new]
    BY DEF Attempt
  <1>2. Key(Attempted(t)) = Key(t)
    <2>1. t \in Task
      BY StateFacts
    <2>2. QED
      BY <2>1 DEF Attempted, Task, Key
  <1>3. \A u, v \in (outbox[s] \ {t}) \cup new : Key(u) = Key(v) => u = v
    BY <1>2 DEF KeysAreUnique
  <1> HIDE DEF new
  <1>4. \A r \in Robots : outbox'[r] = IF r = s THEN (outbox[s] \ {t}) \cup new ELSE outbox[r]
    BY <1>1, StateFacts
  <1>5. QED
    BY <1>3, <1>4 DEF KeysAreUnique

LEMMA AttemptIsFair ==
    ASSUME IndInv, FairInv, NEW s \in Robots, NEW t \in outbox[s], NEW kept \in Survivals,
           Attempt(s, t, kept)
    PROVE  FairInv'
  <1>1. KeysAreUnique'
    BY AttemptKeepsKeys DEF FairInv
  <1>2. CASE policy # "retry_all"
    <2>1. policy' # "retry_all" /\ phase' = "dispatch"
      BY <1>2 DEF Attempt
    <2>2. QED
      BY <1>1, <2>1 DEF FairInv, TriedAreCounted, RetryAllIsFair
  <1>3. CASE policy = "retry_all"
    <2> DEFINE u == Attempted(t)
               F == TriedFresh(s)
               R == TriedRetries(s)
               out == (outbox[s] \ {t}) \cup {u}
               tr == tried \cup {Key(t)}
               F2 == {x \in out : Key(x) \in tr /\ x.attempts = 1}
               R2 == {x \in out : Key(x) \in tr /\ x.attempts > 1}
    <2>1. /\ phase = "dispatch" /\ turn = s /\ phase' = phase /\ turn' = s /\ step' = step
          /\ policy' = policy
          /\ outbox' = [outbox EXCEPT ![s] = (@ \ {t}) \cup {Attempted(t)}]
          /\ tried' = tried \cup {Key(t)} /\ Key(t) \notin tried
          /\ t \in Class(s) /\ Key(Attempted(t)) = Key(t)
          /\ t.attempts \in 0 .. AttemptCap
          /\ t.attempts = 0 => Attempted(t).attempts = 1
          /\ t.attempts > 0 => Attempted(t).attempts > 1
      BY <1>3, AttemptMoves DEF FairInv
    <2>2. /\ IsFiniteSet(tried) /\ IsFiniteSet(F) /\ IsFiniteSet(R)
          /\ Cardinality(tried) = Cardinality(F) + Cardinality(R)
      BY <1>3, <2>1 DEF FairInv, TriedAreCounted
    <2>3. outbox'[s] = out /\ tried' = tr
      BY <2>1, StateFacts
    <2>4. TriedFresh(turn)' = F2 /\ TriedRetries(turn)' = R2
      BY <2>1, <2>3 DEF TriedFresh, TriedRetries
    <2>5. \A x \in outbox[s] \ {t} : Key(x) # Key(t)
      BY DEF FairInv, KeysAreUnique
    <2>6. u \notin F /\ u \notin R
      BY <2>1 DEF TriedFresh, TriedRetries
    <2>7. \A x \in outbox[s] \ {t} : Key(x) \in tr <=> Key(x) \in tried
      BY <2>5
    <2>8. t \notin F /\ t \notin R
      BY <2>1 DEF TriedFresh, TriedRetries
    <2>9. /\ t.attempts = 0 => F2 = F \cup {u} /\ R2 = R
          /\ t.attempts > 0 => F2 = F /\ R2 = R \cup {u}
      <3>1. Key(u) \in tr
        BY <2>1
      <3>2. F = {x \in outbox[s] \ {t} : Key(x) \in tr /\ x.attempts = 1}
        BY <2>7, <2>8 DEF TriedFresh
      <3>3. R = {x \in outbox[s] \ {t} : Key(x) \in tr /\ x.attempts > 1}
        BY <2>7, <2>8 DEF TriedRetries
      <3> HIDE DEF F, R, tr, u
      <3>4. ASSUME t.attempts = 0 PROVE F2 = F \cup {u} /\ R2 = R
        <4>1. u.attempts = 1
          BY <2>1, <3>4 DEF u
        <4>2. F2 = F \cup {u}
          BY <3>1, <3>2, <4>1
        <4>3. R2 = R
          BY <3>1, <3>3, <4>1
        <4>4. QED
          BY <4>2, <4>3
      <3>5. ASSUME t.attempts > 0 PROVE F2 = F /\ R2 = R \cup {u}
        <4>1. u.attempts > 1 /\ u.attempts # 1
          BY <2>1, <3>5 DEF u
        <4>2. F2 = F
          BY <3>1, <3>2, <4>1
        <4>3. R2 = R \cup {u}
          BY <3>1, <3>3, <4>1
        <4>4. QED
          BY <4>2, <4>3
      <3>6. QED
        BY <3>4, <3>5
    <2>10. t.attempts = 0 \/ t.attempts > 0
      BY <2>1
    <2>11. /\ IsFiniteSet(tr) /\ Cardinality(tr) = Cardinality(tried) + 1
           /\ Cardinality(tried) \in Nat /\ Cardinality(F) \in Nat /\ Cardinality(R) \in Nat
           /\ IsFiniteSet(F \cup {u}) /\ Cardinality(F \cup {u}) = Cardinality(F) + 1
           /\ IsFiniteSet(R \cup {u}) /\ Cardinality(R \cup {u}) = Cardinality(R) + 1
      BY <2>1, <2>2, <2>6, FS_AddElement, FS_CardinalityType
    <2> HIDE DEF u, F, R, F2, R2, tr, out
    <2>12. TriedAreCounted'
      <3>1. IsFiniteSet(F2) /\ IsFiniteSet(R2) /\ Cardinality(tr) = Cardinality(F2) + Cardinality(R2)
        <4>1. CASE t.attempts = 0
          <5>1. /\ IsFiniteSet(F2) /\ IsFiniteSet(R2)
                /\ Cardinality(F2) = Cardinality(F) + 1 /\ Cardinality(R2) = Cardinality(R)
            BY <2>2, <2>9, <2>11, <4>1
          <5>2. QED
            BY <2>2, <2>11, <5>1
        <4>2. CASE t.attempts > 0
          <5>1. /\ IsFiniteSet(F2) /\ IsFiniteSet(R2)
                /\ Cardinality(F2) = Cardinality(F) /\ Cardinality(R2) = Cardinality(R) + 1
            BY <2>2, <2>9, <2>11, <4>2
          <5>2. QED
            BY <2>2, <2>11, <5>1
        <4>3. QED
          BY <2>10, <4>1, <4>2
      <3>2. phase' = "dispatch"
        BY <2>1
      <3>3. /\ IsFiniteSet(tried')
            /\ IsFiniteSet(TriedFresh(turn)') /\ IsFiniteSet(TriedRetries(turn)')
            /\ Cardinality(tried') = Cardinality(TriedFresh(turn)') + Cardinality(TriedRetries(turn)')
        BY <2>3, <2>4, <2>11, <3>1
      <3>4. QED
        BY <3>2, <3>3 DEF TriedAreCounted
    <2>13. ASSUME Fresh(s)' # {}, Retries(s)' # {}
           PROVE  Fresh(s) # {} /\ Retries(s) # {}
      <3>1. \A x \in outbox'[s] : Key(x) \notin tried' => x \in outbox[s] /\ Key(x) \notin tried
        BY <2>1, <2>3 DEF out, u, tr
      <3>2. Fresh(s)' \subseteq Fresh(s) /\ Retries(s)' \subseteq Retries(s)
        BY <3>1 DEF Fresh, Retries, Untried
      <3>3. QED
        BY <2>13, <3>2
    <2>14. RetryAllIsFair'
      <3>1. SUFFICES ASSUME Fresh(s)' # {}, Retries(s)' # {}
                     PROVE  IF step % 2 = 0
                            THEN Cardinality(F2) - Cardinality(R2) \in {0, 1}
                            ELSE Cardinality(R2) - Cardinality(F2) \in {0, 1}
        BY <2>1, <2>4 DEF RetryAllIsFair
      <3>2. Fresh(s) # {} /\ Retries(s) # {}
        BY <2>13, <3>1
      <3>3. IF step % 2 = 0 THEN Cardinality(F) - Cardinality(R) \in {0, 1}
            ELSE Cardinality(R) - Cardinality(F) \in {0, 1}
        BY <1>3, <2>1, <3>2 DEF FairInv, RetryAllIsFair, F, R
      <3>4. FreshLeads <=> t.attempts = 0
        <4>1. Class(s) = IF FreshLeads THEN Fresh(s) ELSE Retries(s)
          BY <3>2 DEF Class
        <4>2. QED
          BY <2>1, <4>1 DEF Fresh, Retries
      <3>5. FreshLeads <=> ((step % 2 = 0) <=> ((Cardinality(F) + Cardinality(R)) % 2 = 0))
        BY <2>2 DEF FreshLeads
      <3>6. \A f, r \in Nat : /\ f - r = 0 \/ r - f = 0 => (f + r) % 2 = 0
                              /\ f - r = 1 \/ r - f = 1 => (f + r) % 2 # 0
        OBVIOUS
      <3>7. CASE t.attempts = 0
        <4>1. Cardinality(F2) = Cardinality(F) + 1 /\ Cardinality(R2) = Cardinality(R)
          BY <2>9, <2>11, <3>7
        <4>2. QED
          BY <2>11, <3>3, <3>4, <3>5, <3>6, <3>7, <4>1
      <3>8. CASE t.attempts > 0
        <4>1. Cardinality(F2) = Cardinality(F) /\ Cardinality(R2) = Cardinality(R) + 1
          BY <2>9, <2>11, <3>8
        <4>2. QED
          BY <2>11, <3>3, <3>4, <3>5, <3>6, <3>8, <4>1
      <3>9. QED
        BY <2>10, <3>7, <3>8
    <2>15. QED
      BY <1>1, <2>12, <2>14 DEF FairInv
  <1>4. QED
    BY <1>2, <1>3

LEMMA StepIsFair ==
    ASSUME IndInv, FairInv, [Next]_vars
    PROVE  FairInv'
  <1>1. ASSUME phase # "dispatch", UNCHANGED <<outbox, tried>> PROVE FairInv'
    <2>1. tried' = {} /\ KeysAreUnique'
      BY <1>1 DEF FairInv, TriedAreCounted, KeysAreUnique
    <2>2. QED
      BY <2>1, FairStarts
  <1>2. CASE EndArrivals /\ UNCHANGED deliveryVars
    BY <1>1, <1>2 DEF EndArrivals, deliveryVars
  <1>3. ASSUME NEW r \in Robots, NEW w \in Shown(r), Sense(r, w)
        PROVE  FairInv'
    <2>1. tried' = {}
      BY <1>3 DEF Sense, Observe, FairInv, TriedAreCounted
    <2>2. KeysAreUnique'
      BY <1>3, SenseKeepsKeys DEF FairInv
    <2>3. QED
      BY <2>1, <2>2, FairStarts
  <1>4. ASSUME NEW s \in Robots, NEW t \in outbox[s], NEW kept \in Survivals, Attempt(s, t, kept)
        PROVE  FairInv'
    BY <1>4, AttemptIsFair
  <1>5. ASSUME NEW s \in Robots, EndSending(s, "settle")
        PROVE  FairInv'
    <2>1. tried' = {} /\ UNCHANGED outbox
      BY <1>5 DEF EndSending
    <2>2. KeysAreUnique'
      BY <2>1 DEF FairInv, KeysAreUnique
    <2>3. QED
      BY <2>1, <2>2, FairStarts
  <1>6. ASSUME NEW kept \in Survivals, HandleDelta(kept)
        PROVE  FairInv'
    BY <1>1, <1>6 DEF HandleDelta, Draining
  <1>7. CASE HandleAck
    <2>1. /\ Draining /\ UNCHANGED tried
          /\ outbox' = [outbox EXCEPT ![Head(net).to] =
                 {t \in @ : Key(t) # [update |-> Head(net).update, receiver |-> Head(net).from]}]
      BY <1>7 DEF HandleAck
    <2>2. tried' = {}
      BY <2>1 DEF Draining, FairInv, TriedAreCounted
    <2>3. \A r \in Robots : outbox'[r] \subseteq outbox[r]
      BY <2>1, StateFacts
    <2>4. KeysAreUnique'
      BY <2>3 DEF FairInv, KeysAreUnique
    <2>5. QED
      BY <2>2, <2>4, FairStarts
  <1>8. CASE EndStep /\ UNCHANGED deliveryVars
    BY <1>1, <1>8 DEF EndStep, deliveryVars
  <1>9. CASE UNCHANGED vars
    BY <1>9 DEF vars, loopVars, deliveryVars, FairInv, KeysAreUnique, TriedAreCounted,
        RetryAllIsFair, Fresh, Retries, Untried, TriedFresh, TriedRetries
  <1>10. QED
    BY <1>2, <1>3, <1>4, <1>5, <1>6, <1>7, <1>8, <1>9 DEF Next

\* Retry-All serves both classes alternately: for every team, budget, delay and
\* bound on attempts, however the link loses packets and acknowledgements.
THEOREM RetriesAlternate == Spec => []RetryAllIsFair
  <1>1. Init => FairInv
    <2>1. SUFFICES ASSUME Init PROVE FairInv
      OBVIOUS
    <2>2. tried = {} /\ outbox = [r \in Robots |-> {}]
      BY <2>1 DEF Init, DeliveryInit
    <2>3. QED
      BY <2>2, NothingTried DEF FairInv, KeysAreUnique
  <1>2. IndInv /\ FairInv /\ [Next]_vars => FairInv'
    BY StepIsFair
  <1>3. FairInv => RetryAllIsFair
    BY DEF FairInv
  <1>4. QED
    BY <1>1, <1>2, <1>3, Invariance, PTL DEF Spec

=============================================================================
