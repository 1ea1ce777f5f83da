------------------------- MODULE ScuttlebuttDepthProofs -------------------------
(***************************************************************************)
(* ScuttleInv is an invariant of the gossip, for every team, map, budget,  *)
(* delay and interval, and the gossip implements MapSharing.               *)
(***************************************************************************)
EXTENDS ScuttlebuttDepth, DeltaDeliveryProofs

-----------------------------------------------------------------------------
\* Greatest elements.

\* Of finitely many updates one has the newest stamp.
LEMMA NewestUpdate ==
    ASSUME NEW U \in SUBSET Update, IsFiniteSet(U), U # {}
    PROVE  \E m \in U : \A u \in U : AtLeast(m.stamp, u.stamp)
  <1> DEFINE R == {p \in U \X U : AtLeast(p[2].stamp, p[1].stamp)}
  <1>1. \A u \in U : u.stamp \in Stamp
    BY DEF Update
  <1>2. \A x, y \in U : <<x, y>> \in R <=> AtLeast(y.stamp, x.stamp)
    OBVIOUS
  <1> HIDE DEF R
  <1>3. \A x, y \in U : <<x, y>> \in R \/ <<y, x>> \in R
    BY <1>1, <1>2, StampLessTotal DEF AtLeast
  <1>4. \A x, y, z \in U : <<x, y>> \in R /\ <<y, z>> \in R => <<x, z>> \in R
    BY <1>1, <1>2, AtLeastTransitive
  <1>5. \E m \in U : \A x \in U : <<x, m>> \in R
    BY <1>3, <1>4, GreatestExists
  <1>6. QED
    BY <1>2, <1>5

\* The stamp that Newest chooses is the one that is at least as new as all.
LEMMA NewestIs ==
    ASSUME NEW S \in SUBSET Stamp, NEW m \in S, \A t \in S : AtLeast(m, t)
    PROVE  Newest(S) = m
  <1>1. /\ Newest(S) \in S
        /\ \A t \in S : AtLeast(Newest(S), t)
    BY DEF Newest
  <1>2. QED
    BY <1>1, AtLeastAntisymmetric

-----------------------------------------------------------------------------
\* Versions.

\* The order of scuttle_version is the order of steps, then of cells.
LEMMA VersionOrder ==
    ASSUME NEW u \in Update, NEW v \in Update, u.stamp.at \in Nat, v.stamp.at \in Nat
    PROVE  /\ Version(u) \in Nat /\ Version(u) > 0
           /\ u.stamp.at < v.stamp.at => Version(u) < Version(v)
           /\ Version(u) = Version(v) => u.cell = v.cell
  <1> DEFINE a == u.stamp.at  b == v.stamp.at  c == u.cell  d == v.cell
  <1>1. /\ a \in Nat /\ b \in Nat /\ NumCells \in Nat
        /\ c \in Nat /\ d \in Nat /\ c >= 1 /\ d >= 1 /\ c <= NumCells /\ d <= NumCells
    BY LoopAssumption DEF Update, Cells
  <1>2. Version(u) = a * NumCells + c /\ Version(v) = b * NumCells + d
    BY DEF Version
  <1> HIDE DEF a, b, c, d
  <1>3. \A i, j \in Nat : i < j => i * NumCells + NumCells <= j * NumCells
    <2>1. SUFFICES ASSUME NEW i \in Nat, NEW j \in Nat, i < j
                   PROVE  i * NumCells + NumCells <= j * NumCells
      OBVIOUS
    <2>2. PICK k \in Nat : j = i + 1 + k
      <3>1. j - i - 1 \in Nat /\ j = i + 1 + (j - i - 1)
        BY <2>1
      <3>2. QED
        BY <3>1
    <2>3. j * NumCells = i * NumCells + NumCells + k * NumCells
      BY <1>1, <2>2
    <2>4. k * NumCells \in Nat /\ i * NumCells \in Nat
      BY <1>1
    <2>5. QED
      BY <1>1, <2>3, <2>4
  <1>4. a * NumCells \in Nat /\ b * NumCells \in Nat
    BY <1>1
  <1>5. a < b => a * NumCells + NumCells <= b * NumCells
    BY <1>1, <1>3
  <1>6. b < a => b * NumCells + NumCells <= a * NumCells
    BY <1>1, <1>3
  <1>7. a < b => Version(u) < Version(v)
    BY <1>1, <1>2, <1>4, <1>5
  <1>8. b < a => Version(v) < Version(u)
    BY <1>1, <1>2, <1>4, <1>6
  <1>9. a = b /\ Version(u) = Version(v) => c = d
    BY <1>1, <1>2, <1>4
  <1>10. Version(u) \in Nat /\ Version(u) > 0 /\ Version(v) \in Nat
    BY <1>1, <1>2, <1>4
  <1>11. QED
    BY <1>1, <1>7, <1>8, <1>9, <1>10 DEF a, b, c, d

-----------------------------------------------------------------------------
\* What the invariant says, spelled out.

\* The types.
LEMMA ScuttleTypes ==
    ASSUME ScuttleInv
    PROVE  /\ LoopTypeOK /\ HonestReports
           /\ step \in Nat /\ phase \in Phases /\ turn \in Robots
           /\ beliefs \in [Robots -> [Cells -> Stamp]] /\ emitted \subseteq Update
           /\ data \in [Robots -> 0 .. DataCap] /\ control \in [Robots -> 0 .. ControlCap]
           /\ archive \in [Robots -> SUBSET Update] /\ asked \subseteq Robots
           /\ QueueOK(net, SoundPackets)
  BY DEF ScuttleInv, ScuttleTypeOK, LoopTypeOK

\* Packets.
LEMMA PacketTypes ==
    /\ \A m \in DigestPacket : m.wait \in Nat /\ m.from \in Robots /\ m.to \in Robots
    /\ SoundPackets \subseteq DigestPacket
  BY DEF DigestPacket, SoundPackets

\* Reports are told apart by origin and version, and by origin and cell.
LEMMA ReportFacts ==
    ASSUME ScuttleInv
    PROVE  /\ \A u \in emitted :
                 /\ u \in Update /\ u.cell \in Cells /\ u.stamp \in Stamp /\ Origin(u) \in Robots
                 /\ u.stamp.at \in Nat /\ Version(u) \in Nat /\ Version(u) > 0
           /\ \A u, v \in emitted : SameKey(u, v) => u = v
           /\ \A u, v \in emitted : Origin(u) = Origin(v) /\ Version(u) = Version(v) => u = v
  <1>1. \A u \in emitted : /\ u \in Update /\ u.cell \in Cells /\ u.stamp \in Stamp
                           /\ Origin(u) \in Robots /\ u.stamp.at \in Nat
    BY ScuttleTypes DEF ScuttleInv, HonestReports, ReportsInOrder, Update, Origin
  <1>2. \A u \in emitted : Version(u) \in Nat /\ Version(u) > 0
    BY <1>1, VersionOrder
  <1>3. \A u, v \in emitted : SameKey(u, v) => u = v
    BY DEF ScuttleInv, HonestReports, SameKey, Origin
  <1>4. \A u, v \in emitted : Version(u) = Version(v) => u.cell = v.cell
    BY <1>1, VersionOrder
  <1>5. QED
    BY <1>1, <1>2, <1>3, <1>4 DEF SameKey

\* Where a key names one update, recording is union.
LEMMA RecordIsUnion ==
    ASSUME NEW E, \A u, v \in E : SameKey(u, v) => u = v, \A u \in E : Version(u) \in Nat,
           NEW held \in SUBSET E, NEW updates \in SUBSET E
    PROVE  Record(held, updates) = held \cup updates
  <1> DEFINE fresh == {u \in updates : \A v \in held : SameKey(u, v) => Version(v) < Version(u)}
  <1>1. fresh = updates \ held
    <2>1. ASSUME NEW u \in updates, u \in held PROVE u \notin fresh
      <3>1. SameKey(u, u) /\ ~(Version(u) < Version(u))
        BY <2>1 DEF SameKey
      <3>2. QED
        BY <2>1, <3>1
    <2>2. ASSUME NEW u \in updates, u \notin held PROVE u \in fresh
      BY <2>2
    <2>3. QED
      BY <2>1, <2>2
  <1>2. {v \in held : \A u \in fresh : ~SameKey(u, v)} = held
    BY <1>1
  <1>3. Record(held, updates) = {v \in held : \A u \in fresh : ~SameKey(u, v)} \cup fresh
    BY DEF Record
  <1>4. QED
    BY <1>1, <1>2, <1>3

\* The highest version of an origin in an archive is that of an update there.
LEMMA MaxVersionIs ==
    ASSUME ScuttleInv, NEW q \in Robots, NEW o \in Robots
    PROVE  /\ MaxVersion(archive[q], o) \in Nat
           /\ MaxVersion(archive[q], o) > 0 =>
                  \E v \in archive[q] : Origin(v) = o /\ Version(v) = MaxVersion(archive[q], o)
           /\ \A u \in archive[q] : Origin(u) = o => Version(u) <= MaxVersion(archive[q], o)
  <1> DEFINE A == {v \in archive[q] : Origin(v) = o}
             versions == {0} \cup {Version(u) : u \in A}
             n == MaxVersion(archive[q], o)
             Greatest(k) == k \in versions /\ \A j \in versions : j <= k
  <1>1. /\ A \subseteq emitted /\ IsFiniteSet(A)
        /\ \A u \in A : Version(u) \in Nat
    <2>1. archive[q] \subseteq emitted /\ IsFiniteSet(archive[q])
      BY DEF ScuttleInv, ArchivesComplete
    <2>2. A \in SUBSET archive[q]
      OBVIOUS
    <2>3. QED
      BY <2>1, <2>2, FS_Subset, ReportFacts
  <1>2. \E k : Greatest(k)
    <2>1. CASE A = {}
      <3>1. Greatest(0)
        BY <2>1
      <3>2. QED
        BY <3>1
    <2>2. CASE A # {}
      <3> DEFINE R == {p \in A \X A : Version(p[1]) <= Version(p[2])}
      <3>1. \A x, y \in A : <<x, y>> \in R <=> Version(x) <= Version(y)
        OBVIOUS
      <3> HIDE DEF R, A
      <3>2. /\ \A x, y \in A : <<x, y>> \in R \/ <<y, x>> \in R
            /\ \A x, y, z \in A : <<x, y>> \in R /\ <<y, z>> \in R => <<x, z>> \in R
        BY <1>1, <3>1
      <3>3. PICK m \in A : \A x \in A : <<x, m>> \in R
        BY <1>1, <2>2, <3>2, GreatestExists
      <3>4. \A x \in A : Version(x) <= Version(m)
        BY <3>1, <3>3
      <3>5. Greatest(Version(m))
        BY <1>1, <3>3, <3>4
      <3>6. QED
        BY <3>5
    <2>3. QED
      BY <2>1, <2>2
  <1>3. n = CHOOSE k \in versions : \A j \in versions : j <= k
    BY DEF MaxVersion
  <1>4. n \in versions /\ \A j \in versions : j <= n
    BY <1>2, <1>3
  <1>5. n \in Nat
    BY <1>1, <1>4
  <1> HIDE DEF n
  <1>6. n > 0 => \E v \in archive[q] : Origin(v) = o /\ Version(v) = n
    BY <1>4, <1>5
  <1>7. \A u \in archive[q] : Origin(u) = o => Version(u) <= n
    BY <1>4
  <1>8. QED
    BY <1>5, <1>6, <1>7 DEF n

\* A step in which archives grow and every robot reports in order leaves sound
\* what is under way.
LEMMA SoundStays ==
    ASSUME ScuttleInv,
           \A h \in Robots : archive[h] \subseteq archive'[h],
           emitted \subseteq emitted',
           \A u \in emitted' \ emitted :
               /\ Origin(u) \in Robots /\ Version(u) \in Nat /\ Version(u) > 0
               /\ \A v \in emitted : Origin(v) = Origin(u) => Version(v) < Version(u)
    PROVE  SoundPackets \subseteq SoundPackets'
  <1>1. \A u \in emitted : Version(u) \in Nat
    BY ReportFacts
  <1>2. SUFFICES ASSUME NEW m \in SoundPackets PROVE m \in SoundPackets'
    OBVIOUS
  <1>3. m \in DigestPacket /\ m.from \in Robots /\ m.to \in Robots
    BY PacketTypes
  <1>4. CASE m.kind = "digest"
    <2>1. m.maxima \in [Robots -> Nat]
      BY <1>3, <1>4 DEF DigestPacket
    <2>2. SoundDigest(m)
      BY <1>4 DEF SoundPackets
    <2>3. ASSUME NEW u \in emitted', Version(u) <= m.maxima[Origin(u)]
          PROVE  u \in archive'[m.from]
      <3>1. CASE u \in emitted
        BY <1>3, <2>2, <2>3, <3>1 DEF SoundDigest
      <3>2. CASE u \notin emitted
        <4>1. m.maxima[Origin(u)] \in Nat /\ m.maxima[Origin(u)] > 0
          BY <2>1, <2>3, <3>2
        <4>2. PICK v \in emitted : Origin(v) = Origin(u) /\ Version(v) = m.maxima[Origin(u)]
          BY <2>2, <3>2, <4>1 DEF SoundDigest
        <4>3. QED
          BY <1>1, <2>3, <3>2, <4>2
      <3>3. QED
        BY <3>1, <3>2
    <2>4. SoundDigest(m)'
      BY <2>2, <2>3 DEF SoundDigest
    <2>5. QED
      BY <1>3, <1>4, <2>4 DEF SoundPackets
  <1>5. CASE m.kind # "digest"
    <2>1. SoundPatch(m)
      BY <1>5 DEF SoundPackets
    <2>2. ASSUME NEW v \in m.updates, NEW u \in emitted',
                 Origin(u) = Origin(v), Version(u) < Version(v)
          PROVE  u \in archive'[m.to] \cup m.updates
      <3>1. v \in emitted
        BY <2>1 DEF SoundPatch
      <3>2. u \in emitted
        BY <1>1, <2>2, <3>1
      <3>3. QED
        BY <1>3, <2>1, <2>2, <3>2 DEF SoundPatch
    <2>3. SoundPatch(m)'
      BY <2>1, <2>2 DEF SoundPatch
    <2>4. QED
      BY <1>3, <1>5, <2>3 DEF SoundPackets
  <1>6. QED
    BY <1>4, <1>5

-----------------------------------------------------------------------------
\* Initiation and the steps.

\* The initial states satisfy the invariant.
LEMMA ScuttleInitEstablishes ==
    ASSUME ScuttleInit
    PROVE  ScuttleInv
  <1>1. LoopTypeOK /\ HonestReports
    BY LoopStarts DEF ScuttleInit
  <1>2. /\ net = <<>> /\ emitted = {}
        /\ beliefs = [r \in Robots |-> [c \in Cells |-> InitialStamp]]
        /\ archive = [r \in Robots |-> {}] /\ asked = {}
    BY DEF ScuttleInit, LoopInit
  <1>3. ScuttleTypeOK
    BY <1>1, <1>2 DEF ScuttleTypeOK
  <1>4. ReportsInOrder /\ ArchivesComplete
    BY <1>2, FS_EmptySet DEF ReportsInOrder, ArchivesComplete
  <1>5. BeliefIsNewest
    BY <1>2 DEF BeliefIsNewest, StampsOf
  <1>6. QueueOK(net, SoundPackets)
    BY <1>2 DEF QueueOK
  <1>7. QED
    BY <1>1, <1>3, <1>4, <1>5, <1>6 DEF ScuttleInv

\* The queue of sound packets is a queue of packets.
LEMMA QueueIsTyped ==
    ASSUME NEW q, QueueOK(q, SoundPackets)
    PROVE  q \in Seq(DigestPacket)
  BY PacketTypes, QueueWidens DEF QueueOK

\* A step that neither reports, nor learns, nor records.
LEMMA NothingLearned ==
    ASSUME ScuttleInv, UNCHANGED <<beliefs, emitted, archive>>
    PROVE  /\ HonestReports' /\ ArchivesComplete' /\ BeliefIsNewest'
           /\ SoundPackets' = SoundPackets
  <1>1. HonestReports'
    BY DEF ScuttleInv, HonestReports, Legitimate
  <1>2. ArchivesComplete'
    BY DEF ScuttleInv, ArchivesComplete
  <1>3. BeliefIsNewest'
    BY DEF ScuttleInv, BeliefIsNewest
  <1>4. SoundPackets' = SoundPackets
    BY DEF SoundPackets, SoundDigest, SoundPatch
  <1>5. QED
    BY <1>1, <1>2, <1>3, <1>4

\* Nor moves the clock.
LEMMA OrderStays ==
    ASSUME ScuttleInv, UNCHANGED <<step, phase, turn, emitted>>
    PROVE  ReportsInOrder'
  BY DEF ScuttleInv, ReportsInOrder

\* A stutter.
LEMMA StutterPreserves ==
    ASSUME ScuttleInv, UNCHANGED gossipVars
    PROVE  ScuttleInv'
  <1>1. UNCHANGED <<beliefs, emitted, archive>> /\ UNCHANGED <<step, phase, turn, emitted>>
    BY DEF gossipVars, loopVars, scuttleVars
  <1>2. QueueOK(net, SoundPackets)' /\ ScuttleTypeOK'
    BY <1>1, NothingLearned DEF ScuttleInv, ScuttleTypeOK, LoopTypeOK, gossipVars, loopVars, scuttleVars, QueueOK
  <1>3. QED
    BY <1>1, <1>2, NothingLearned, OrderStays DEF ScuttleInv

\* Nothing of this step has been reported while messages arrive.
LEMMA EndArrivalsKeeps ==
    ASSUME ScuttleInv, EndArrivals, UNCHANGED scuttleVars
    PROVE  ScuttleInv'
  <1>1. UNCHANGED <<beliefs, emitted, archive>> /\ net' = net
    BY DEF EndArrivals, scuttleVars
  <1>2. ScuttleTypeOK'
    BY DEF ScuttleInv, ScuttleTypeOK, LoopTypeOK, EndArrivals, scuttleVars, Phases
  <1>3. ReportsInOrder'
    BY DEF ScuttleInv, ReportsInOrder, EndArrivals
  <1>4. QueueOK(net, SoundPackets)'
    BY <1>1, NothingLearned DEF ScuttleInv, QueueOK
  <1>5. QED
    BY <1>1, <1>2, <1>3, <1>4, NothingLearned DEF ScuttleInv

\* The clock advances past every report.
LEMMA EndStepKeeps ==
    ASSUME ScuttleInv, EndStep, UNCHANGED scuttleVars
    PROVE  ScuttleInv'
  <1>1. UNCHANGED <<beliefs, emitted, archive>>
    BY DEF EndStep, scuttleVars
  <1>2. ReportsInOrder'
    <2>1. step \in Nat /\ Horizon \in Nat
      BY ScuttleTypes, LoopAssumption
    <2>2. \A u \in emitted : u.stamp.at \in Nat /\ u.stamp.at < step' /\ u.stamp.at < Horizon
      BY <2>1 DEF ScuttleInv, ReportsInOrder, EndStep, NextStep
    <2>3. emitted' = emitted /\ step' \in Nat
      BY <2>1 DEF EndStep, NextStep
    <2>4. \A u \in emitted : u.stamp.at <= step' /\ u.stamp.at # step'
      BY <2>2, <2>3
    <2>5. QED
      BY <2>2, <2>3, <2>4 DEF ReportsInOrder
  <1>3. \A x \in SoundPackets : x.wait > 0 =>
            /\ [x EXCEPT !.wait = @ - 1] \in SoundPackets
            /\ [x EXCEPT !.wait = @ - 1].wait = x.wait - 1
    <2>1. SUFFICES ASSUME NEW x \in SoundPackets, x.wait > 0
                   PROVE  /\ [x EXCEPT !.wait = @ - 1] \in SoundPackets
                          /\ [x EXCEPT !.wait = @ - 1].wait = x.wait - 1
      OBVIOUS
    <2> DEFINE y == [x EXCEPT !.wait = @ - 1]
    <2>2. x \in DigestPacket /\ x.wait \in Nat
      BY PacketTypes
    <2>3. /\ y \in DigestPacket /\ y.wait = x.wait - 1
          /\ y.kind = x.kind /\ y.from = x.from /\ y.to = x.to
          /\ x.kind = "digest" => y.maxima = x.maxima
          /\ x.kind # "digest" => y.updates = x.updates
      BY <2>1, <2>2 DEF DigestPacket
    <2> HIDE DEF y
    <2>4. y \in SoundPackets
      BY <2>3 DEF SoundPackets, SoundDigest, SoundPatch
    <2>5. QED
      BY <2>3, <2>4 DEF y
  <1>4. QueueOK(net', SoundPackets)
    BY <1>3, QueueTicks, PacketTypes, ScuttleTypes
  <1>5. QueueOK(net, SoundPackets)'
    BY <1>1, <1>4, NothingLearned DEF QueueOK
  <1>6. ScuttleTypeOK'
    BY <1>4, QueueIsTyped, EndStepTypes, ScuttleTypes DEF ScuttleTypeOK, scuttleVars
  <1>7. QED
    BY <1>1, <1>2, <1>5, <1>6, NothingLearned DEF ScuttleInv

\* A digest that a robot makes is sound: it has all that the digest covers.
LEMMA DigestIsSound ==
    ASSUME ScuttleInv, NEW q \in Robots, NEW p \in Robots, NEW pull \in BOOLEAN
    PROVE  Digest(q, p, pull) \in SoundPackets /\ Digest(q, p, pull).wait = Delay
  <1> DEFINE m == Digest(q, p, pull)
  <1>1. \A o \in Robots :
            /\ MaxVersion(archive[q], o) \in Nat
            /\ MaxVersion(archive[q], o) > 0 =>
                   \E v \in archive[q] : Origin(v) = o /\ Version(v) = MaxVersion(archive[q], o)
    BY MaxVersionIs
  <1>2. m.maxima = [o \in Robots |-> MaxVersion(archive[q], o)] /\ m.maxima \in [Robots -> Nat]
    BY <1>1 DEF Digest, Maxima
  <1>3. /\ m \in DigestPacket /\ m.kind = "digest" /\ m.from = q /\ m.wait = Delay
    BY <1>2, LoopAssumption DEF DigestPacket, Digest
  <1> HIDE DEF m
  <1>4. archive[q] \subseteq emitted
    BY DEF ScuttleInv, ArchivesComplete
  <1>5. \A o \in Robots : m.maxima[o] > 0 =>
            \E v \in emitted : Origin(v) = o /\ Version(v) = m.maxima[o]
    BY <1>1, <1>2, <1>4
  <1>6. ASSUME NEW u \in emitted, Version(u) <= m.maxima[Origin(u)]
        PROVE  u \in archive[q]
    <2>1. Origin(u) \in Robots /\ Version(u) \in Nat /\ Version(u) > 0
      BY ReportFacts
    <2>2. m.maxima[Origin(u)] \in Nat /\ m.maxima[Origin(u)] > 0
      BY <1>2, <1>6, <2>1
    <2>3. PICK v \in archive[q] : Origin(v) = Origin(u) /\ Version(v) = m.maxima[Origin(u)]
      BY <1>1, <1>2, <2>1, <2>2
    <2>4. v \in emitted /\ Version(v) \in Nat
      BY <1>4, ReportFacts
    <2>5. CASE Version(u) = Version(v)
      <3>1. u = v
        BY <2>3, <2>4, <2>5, ReportFacts
      <3>2. QED
        BY <3>1
    <2>6. CASE Version(u) < Version(v)
      BY <2>3, <2>6 DEF ScuttleInv, ArchivesComplete
    <2>7. QED
      BY <1>6, <2>1, <2>3, <2>4, <2>5, <2>6
  <1>7. SoundDigest(m)
    BY <1>3, <1>5, <1>6 DEF SoundDigest
  <1>8. m \in SoundPackets
    BY <1>3, <1>7 DEF SoundPackets
  <1>9. QED
    BY <1>3, <1>8 DEF m

\* _send_scuttle_digests charges the control budget it has asked.
LEMMA SendDigestPreserves ==
    ASSUME ScuttleInv, NEW q \in Robots, NEW p \in Robots, NEW kept \in Survivals,
           SendDigest(q, p, kept)
    PROVE  ScuttleInv'
  <1>1. UNCHANGED <<beliefs, emitted, archive>> /\ UNCHANGED <<step, phase, turn, emitted>>
    BY DEF SendDigest
  <1>2. DigestBytes \in Nat
    BY LoopAssumption DEF DigestBytes
  <1>3. control' \in [Robots -> 0 .. ControlCap]
    BY <1>2, ScuttleTypes, LedgerPays, LoopAssumption DEF SendDigest, MayAsk
  <1>4. QueueOK(net', SoundPackets)
    <2>1. \A x \in SoundPackets : x.wait \in Nat
      BY PacketTypes
    <2>2. Digest(q, p, TRUE) \in SoundPackets /\ Digest(q, p, TRUE).wait = Delay
      BY DigestIsSound
    <2>3. net' = net \o Sent(kept, Digest(q, p, TRUE)) /\ QueueOK(net, SoundPackets)
      BY DEF SendDigest, ScuttleInv
    <2>4. QED
      BY <2>1, <2>2, <2>3, QueueAppends, LoopAssumption
  <1>5. QueueOK(net, SoundPackets)'
    BY <1>1, <1>4, NothingLearned DEF QueueOK
  <1>6. ScuttleTypeOK'
    BY <1>3, <1>4, QueueIsTyped DEF ScuttleInv, ScuttleTypeOK, LoopTypeOK, SendDigest
  <1>7. QED
    BY <1>1, <1>5, <1>6, NothingLearned, OrderStays DEF ScuttleInv

\* The turn passes.
LEMMA EndDigestsPreserves ==
    ASSUME ScuttleInv, NEW q \in Robots, EndDigests(q)
    PROVE  ScuttleInv'
  <1>1. UNCHANGED <<beliefs, emitted, archive>> /\ net' = net
    BY DEF EndDigests
  <1>2. turn' \in Robots /\ phase' \in Phases
    BY ScuttleTypes, PassTurnFacts DEF EndDigests, Phases
  <1>3. ScuttleTypeOK'
    BY <1>2 DEF ScuttleInv, ScuttleTypeOK, LoopTypeOK, EndDigests
  <1>4. ReportsInOrder'
    <2>1. phase' \in {"dispatch", "settle"} /\ step' = step /\ emitted' = emitted
      BY DEF EndDigests, PassTurn
    <2>2. QED
      BY <2>1 DEF ScuttleInv, ReportsInOrder
  <1>5. QueueOK(net, SoundPackets)'
    BY <1>1, NothingLearned DEF ScuttleInv, QueueOK
  <1>6. QED
    BY <1>1, <1>3, <1>4, <1>5, NothingLearned DEF ScuttleInv

\* A patch that scuttle_depth_updates selects leaves no gap at its receiver,
\* even if the digest it answers is old, and fits the data budget.
LEMMA TruncationIsSound ==
    ASSUME ScuttleInv, NEW m \in SoundPackets, m.kind = "digest", NEW left \in Nat,
           NEW selected \in Truncations(Available(archive[m.to], m.maxima), left),
           selected # {}
    PROVE  /\ Patch(m.to, m.from, selected) \in SoundPackets
           /\ Patch(m.to, m.from, selected).wait = Delay
           /\ PatchBytes(Cardinality(selected)) \in Nat
           /\ PatchBytes(Cardinality(selected)) <= left
  <1> DEFINE A == Available(archive[m.to], m.maxima)
             patch == Patch(m.to, m.from, selected)
  <1>1. m.from \in Robots /\ m.to \in Robots /\ SoundDigest(m) /\ m.maxima \in [Robots -> Nat]
    BY PacketTypes DEF SoundPackets, DigestPacket
  <1>2. archive[m.to] \subseteq emitted /\ IsFiniteSet(archive[m.to])
    BY <1>1 DEF ScuttleInv, ArchivesComplete
  <1>3. /\ selected \subseteq A /\ A \subseteq archive[m.to]
        /\ \A u \in archive[m.to] : u \in A <=> Version(u) > m.maxima[Origin(u)]
        /\ Cardinality(selected) =
               IF Cardinality(A) < PatchRoom(left) THEN Cardinality(A) ELSE PatchRoom(left)
        /\ \A u \in selected, v \in A \ selected : MayPrecede(A, u, v)
    BY DEF Truncations, IsTruncation, Available
  <1> HIDE DEF A
  <1>4. /\ IsFiniteSet(A) /\ IsFiniteSet(selected)
        /\ Cardinality(A) \in Nat /\ Cardinality(selected) \in Nat /\ Cardinality(selected) # 0
    BY <1>2, <1>3, FS_Subset, FS_CardinalityType, FS_EmptySet
  <1>5. PatchBytes(Cardinality(selected)) \in Nat /\ PatchBytes(Cardinality(selected)) <= left
    <2>1. PatchRoom(left) \in Nat /\ Cardinality(selected) <= PatchRoom(left)
      BY <1>3, <1>4 DEF PatchRoom, DeltaBytes
    <2>2. QED
      BY <1>4, <2>1 DEF PatchRoom, PatchBytes, DeltaBytes
  <1>6. /\ patch \in DigestPacket /\ patch.kind = "patch" /\ patch.wait = Delay
        /\ patch.to = m.from /\ patch.updates = selected
    <2>1. selected \subseteq Update
      BY <1>2, <1>3, ScuttleTypes
    <2>2. QED
      BY <1>1, <2>1, LoopAssumption DEF Patch, DigestPacket
  <1> HIDE DEF patch
  <1>7. ASSUME NEW v \in selected, NEW u \in emitted,
               Origin(u) = Origin(v), Version(u) < Version(v), u \notin archive[m.from]
        PROVE  u \in selected
    <2>1. u \in archive[m.to]
      BY <1>1, <1>3, <1>7 DEF ScuttleInv, ArchivesComplete
    <2>2. Version(u) \in Nat /\ Version(v) \in Nat /\ Origin(u) \in Robots
      BY <1>2, <1>3, ReportFacts
    <2>3. ~(Version(u) <= m.maxima[Origin(u)])
      BY <1>1, <1>7 DEF SoundDigest
    <2>4. u \in A
      BY <1>1, <1>3, <2>1, <2>2, <2>3
    <2>5. u \notin selected => Version(v) < Version(u)
      BY <1>3, <1>7, <2>4 DEF MayPrecede
    <2>6. QED
      BY <1>7, <2>2, <2>5
  <1>8. SoundPatch(patch)
    BY <1>2, <1>3, <1>4, <1>6, <1>7 DEF SoundPatch
  <1>9. patch \in SoundPackets
    BY <1>6, <1>8 DEF SoundPackets
  <1>10. QED
    BY <1>5, <1>6, <1>9 DEF patch

\* _handle_message, SCUTTLE_DIGEST.
LEMMA HandleDigestPreserves ==
    ASSUME ScuttleInv, NEW selected, NEW keptPatch \in Survivals, NEW keptDigest \in Survivals,
           HandleDigest(selected, keptPatch, keptDigest)
    PROVE  ScuttleInv'
  <1> DEFINE m == Head(net)
             replies == m.pull /\ CanSpend(control[m.to], DigestBytes)
             patched == Tail(net) \o Sent(keptPatch /\ selected # {}, Patch(m.to, m.from, selected))
  <1>1. /\ UNCHANGED <<beliefs, emitted, archive>> /\ UNCHANGED <<step, phase, turn, emitted>>
        /\ asked' = asked
        /\ Due /\ m.kind = "digest"
        /\ selected \in Truncations(Available(archive[m.to], m.maxima), data[m.to])
        /\ net' = patched \o Sent(keptDigest /\ replies, Digest(m.to, m.from, FALSE))
        /\ data' = IF selected = {} THEN data ELSE
               [data EXCEPT ![m.to] = @ - PatchBytes(Cardinality(selected))]
        /\ control' = IF replies THEN [control EXCEPT ![m.to] = @ - DigestBytes] ELSE control
    BY DEF HandleDigest, Draining, scuttleVars
  <1>2. /\ m \in SoundPackets /\ QueueOK(Tail(net), SoundPackets)
        /\ m.to \in Robots /\ m.from \in Robots
        /\ \A x \in SoundPackets : x.wait \in Nat
    BY <1>1, QueueHead, ScuttleTypes, PacketTypes
  <1>3. data[m.to] \in Nat /\ data[m.to] \in 0 .. DataCap
    BY <1>2, ScuttleTypes
  <1> HIDE DEF m
  <1>4. QueueOK(patched, SoundPackets)
    <2>1. CASE selected = {}
      <3>1. patched = Tail(net) \o <<>>
        BY <2>1 DEF Sent
      <3>2. Tail(net) \in Seq(SoundPackets)
        BY <1>2 DEF QueueOK
      <3>3. Tail(net) \o <<>> = Tail(net)
        BY <3>2
      <3>4. QED
        BY <1>2, <3>1, <3>3
    <2>2. CASE selected # {}
      <3>1. /\ Patch(m.to, m.from, selected) \in SoundPackets
            /\ Patch(m.to, m.from, selected).wait = Delay
        BY <1>1, <1>2, <1>3, <2>2, TruncationIsSound
      <3>2. QED
        BY <1>2, <3>1, QueueAppends, LoopAssumption
    <2>3. QED
      BY <2>1, <2>2
  <1> HIDE DEF patched
  <1>5. QueueOK(net', SoundPackets)
    <2>1. Digest(m.to, m.from, FALSE) \in SoundPackets /\ Digest(m.to, m.from, FALSE).wait = Delay
      BY <1>2, DigestIsSound
    <2>2. QED
      BY <1>1, <1>2, <1>4, <2>1, QueueAppends, LoopAssumption
  <1>6. data' \in [Robots -> 0 .. DataCap]
    <2>1. CASE selected = {}
      BY <1>1, <2>1, ScuttleTypes
    <2>2. CASE selected # {}
      <3>1. /\ PatchBytes(Cardinality(selected)) \in Nat
            /\ PatchBytes(Cardinality(selected)) <= data[m.to]
        BY <1>1, <1>2, <1>3, <2>2, TruncationIsSound
      <3>2. QED
        BY <1>1, <1>2, <2>2, <3>1, ScuttleTypes, LedgerPays, LoopAssumption DEF CanSpend
    <2>3. QED
      BY <2>1, <2>2
  <1>7. control' \in [Robots -> 0 .. ControlCap]
    <2>1. DigestBytes \in Nat
      BY LoopAssumption DEF DigestBytes
    <2>2. CASE replies
      BY <1>1, <1>2, <2>1, <2>2, ScuttleTypes, LedgerPays, LoopAssumption
    <2>3. CASE ~replies
      BY <1>1, <2>3, ScuttleTypes
    <2>4. QED
      BY <2>2, <2>3
  <1>8. QueueOK(net, SoundPackets)'
    BY <1>1, <1>5, NothingLearned DEF QueueOK
  <1>9. ScuttleTypeOK'
    BY <1>1, <1>5, <1>6, <1>7, QueueIsTyped DEF ScuttleInv, ScuttleTypeOK, LoopTypeOK
  <1>10. QED
    BY <1>1, <1>8, <1>9, NothingLearned, OrderStays DEF ScuttleInv

\* Applying the stamps of finitely many updates one by one leaves the newest of
\* them and of the stamp that was there.
LEMMA NewestOf ==
    ASSUME NEW b \in Stamp, NEW U \in SUBSET Update, IsFiniteSet(U), NEW c
    PROVE  /\ Newest({b} \cup StampsOf(c, U)) \in Stamp
           /\ Newest({b} \cup StampsOf(c, U)) \in {b} \cup StampsOf(c, U)
           /\ \A t \in {b} \cup StampsOf(c, U) : AtLeast(Newest({b} \cup StampsOf(c, U)), t)
  <1> DEFINE A == {v \in U : v.cell = c}
             stamps == {b} \cup StampsOf(c, U)
  <1>1. A \in SUBSET U
    OBVIOUS
  <1>2. A \in SUBSET Update /\ IsFiniteSet(A)
    BY <1>1, FS_Subset
  <1>3. \A u \in Update : u.stamp \in Stamp
    BY DEF Update
  <1>4. stamps = {b} \cup {u.stamp : u \in A} /\ stamps \subseteq Stamp
    BY <1>2, <1>3 DEF StampsOf
  <1> HIDE DEF A, stamps
  <1>5. \A s \in Stamp : AtLeast(s, s)
    BY DEF AtLeast
  <1>6. \E m \in stamps : \A t \in stamps : AtLeast(m, t)
    <2>1. CASE A = {}
      BY <1>4, <1>5, <2>1
    <2>2. CASE A # {}
      <3>1. PICK u \in A : \A v \in A : AtLeast(u.stamp, v.stamp)
        BY <1>2, <2>2, NewestUpdate
      <3>2. u.stamp \in Stamp /\ \A v \in A : v.stamp \in Stamp
        BY <1>2, <1>3
      <3>3. CASE AtLeast(u.stamp, b)
        BY <1>4, <3>1, <3>3
      <3>4. CASE AtLeast(b, u.stamp)
        <4>1. \A v \in A : AtLeast(b, v.stamp)
          BY <3>1, <3>2, <3>4, AtLeastTransitive
        <4>2. QED
          BY <1>4, <1>5, <4>1
      <3>5. QED
        BY <3>2, <3>3, <3>4, StampLessTotal DEF AtLeast
    <2>3. QED
      BY <2>1, <2>2
  <1>7. PICK m \in stamps : \A t \in stamps : AtLeast(m, t)
    BY <1>6
  <1>8. Newest(stamps) = m
    BY <1>4, <1>7, NewestIs
  <1>9. QED
    BY <1>4, <1>7, <1>8 DEF stamps

\* The replica of the robot that takes a patch.
LEMMA PatchFacts ==
    ASSUME ScuttleInv, HandlePatch
    PROVE  LET m == Head(net) IN
           /\ m \in SoundPackets /\ m.kind = "patch" /\ m.to \in Robots
           /\ m.updates \subseteq emitted /\ m.updates \subseteq Update /\ IsFiniteSet(m.updates)
           /\ beliefs'[m.to] \in [Cells -> Stamp]
           /\ beliefs' = [beliefs EXCEPT ![m.to] = beliefs'[m.to]]
           /\ archive' = [archive EXCEPT ![m.to] = @ \cup m.updates]
           /\ \A c \in Cells :
                /\ beliefs'[m.to][c] \in {beliefs[m.to][c]} \cup StampsOf(c, m.updates)
                /\ AtLeast(beliefs'[m.to][c], beliefs[m.to][c])
                /\ \A t \in StampsOf(c, m.updates) : AtLeast(beliefs'[m.to][c], t)
  <1> DEFINE m == Head(net)
             belief == [c \in Cells |-> Newest({beliefs[m.to][c]} \cup StampsOf(c, m.updates))]
  <1>1. m \in SoundPackets /\ m.kind = "patch" /\ m.to \in Robots
    BY QueueHead, ScuttleTypes, PacketTypes DEF HandlePatch, Draining
  <1>2. m.updates \subseteq emitted /\ m.updates \in SUBSET Update /\ IsFiniteSet(m.updates)
    BY <1>1, ScuttleTypes DEF SoundPackets, SoundPatch
  <1>3. /\ beliefs' = [beliefs EXCEPT ![m.to] =
               [c \in Cells |-> Newest({@[c]} \cup StampsOf(c, m.updates))]]
        /\ archive' = [archive EXCEPT ![m.to] = Record(@, m.updates)]
    BY DEF HandlePatch
  <1> HIDE DEF m
  <1>4. beliefs' = [beliefs EXCEPT ![m.to] = belief]
    BY <1>3
  <1>5. \A c \in Cells :
            /\ belief[c] \in Stamp
            /\ belief[c] \in {beliefs[m.to][c]} \cup StampsOf(c, m.updates)
            /\ AtLeast(belief[c], beliefs[m.to][c])
            /\ \A t \in StampsOf(c, m.updates) : AtLeast(belief[c], t)
    <2>1. SUFFICES ASSUME NEW c \in Cells
                   PROVE  /\ belief[c] \in Stamp
                          /\ belief[c] \in {beliefs[m.to][c]} \cup StampsOf(c, m.updates)
                          /\ AtLeast(belief[c], beliefs[m.to][c])
                          /\ \A t \in StampsOf(c, m.updates) : AtLeast(belief[c], t)
      OBVIOUS
    <2> DEFINE S == {beliefs[m.to][c]} \cup StampsOf(c, m.updates)
    <2>2. beliefs[m.to][c] \in Stamp
      BY <1>1, <2>1, ScuttleTypes
    <2>3. /\ Newest(S) \in Stamp /\ Newest(S) \in S
          /\ \A t \in S : AtLeast(Newest(S), t)
      BY <1>2, <2>2, NewestOf
    <2>4. belief[c] = Newest(S)
      OBVIOUS
    <2> HIDE DEF belief
    <2>5. QED
      BY <2>3, <2>4
  <1>6. belief \in [Cells -> Stamp]
    BY <1>5
  <1> HIDE DEF belief
  <1>7. beliefs'[m.to] = belief
    BY <1>1, <1>4, ScuttleTypes
  <1>8. archive' = [archive EXCEPT ![m.to] = @ \cup m.updates]
    <2>1. archive[m.to] \in SUBSET emitted
      BY <1>1 DEF ScuttleInv, ArchivesComplete
    <2>2. Record(archive[m.to], m.updates) = archive[m.to] \cup m.updates
      BY <1>2, <2>1, ReportFacts, RecordIsUnion
    <2>3. QED
      BY <1>3, <2>2
  <1>9. QED
    BY <1>1, <1>2, <1>4, <1>5, <1>6, <1>7, <1>8 DEF m

\* Taking a patch is a lesson learned.
LEMMA HandlePatchImplements ==
    ASSUME ScuttleInv, HandlePatch
    PROVE  /\ \E r \in Robots : Sharing!Learn(r)
           /\ beliefs' \in [Robots -> [Cells -> Stamp]]
  <1> DEFINE m == Head(net)
  <1>1. /\ m.to \in Robots /\ m.updates \subseteq emitted
        /\ beliefs'[m.to] \in [Cells -> Stamp]
        /\ beliefs' = [beliefs EXCEPT ![m.to] = beliefs'[m.to]]
        /\ \A c \in Cells :
               /\ beliefs'[m.to][c] \in {beliefs[m.to][c]} \cup StampsOf(c, m.updates)
               /\ AtLeast(beliefs'[m.to][c], beliefs[m.to][c])
    BY PatchFacts
  <1>2. UNCHANGED emitted
    BY DEF HandlePatch
  <1> HIDE DEF m
  <1>3. \A u \in emitted : u = [cell |-> u.cell, stamp |-> u.stamp]
    BY ScuttleTypes DEF Update
  <1>4. \A c \in Cells : \A t \in StampsOf(c, m.updates) : [cell |-> c, stamp |-> t] \in emitted
    BY <1>1, <1>3 DEF StampsOf
  <1> DEFINE belief == beliefs'[m.to]
  <1> HIDE DEF belief
  <1>5. \A c \in Cells : \/ belief[c] = beliefs[m.to][c]
                          \/ /\ StampLess(beliefs[m.to][c], belief[c])
                             /\ [cell |-> c, stamp |-> belief[c]] \in emitted
    BY <1>1, <1>4 DEF AtLeast, belief
  <1>6. belief \in [Cells -> Stamp] /\ beliefs' = [beliefs EXCEPT ![m.to] = belief]
    BY <1>1 DEF belief
  <1>7. QED
    BY <1>1, <1>2, <1>5, <1>6, ScuttleTypes, LearnImplements

\* _handle_message, SCUTTLE_PATCH.
LEMMA HandlePatchPreserves ==
    ASSUME ScuttleInv, HandlePatch
    PROVE  ScuttleInv'
  <1> DEFINE m == Head(net)
  <1>1. /\ UNCHANGED <<step, phase, turn, emitted>> /\ UNCHANGED <<data, control, asked>>
        /\ net' = Tail(net) /\ Due
    BY DEF HandlePatch, Draining
  <1>2. /\ m \in SoundPackets /\ m.kind = "patch" /\ m.to \in Robots
        /\ m.updates \subseteq emitted /\ m.updates \subseteq Update /\ IsFiniteSet(m.updates)
        /\ beliefs' = [beliefs EXCEPT ![m.to] = beliefs'[m.to]]
        /\ archive' = [archive EXCEPT ![m.to] = @ \cup m.updates]
        /\ \A c \in Cells :
             /\ beliefs'[m.to][c] \in {beliefs[m.to][c]} \cup StampsOf(c, m.updates)
             /\ AtLeast(beliefs'[m.to][c], beliefs[m.to][c])
             /\ \A t \in StampsOf(c, m.updates) : AtLeast(beliefs'[m.to][c], t)
    BY PatchFacts
  <1>3. SoundPatch(m)
    BY <1>2 DEF SoundPackets
  <1> HIDE DEF m
  <1>4. HonestReports' /\ beliefs' \in [Robots -> [Cells -> Stamp]]
    <2>1. [Sharing!Next]_(Sharing!sharingVars)
      BY HandlePatchImplements DEF Sharing!Next
    <2>2. QED
      BY <2>1, SharingStep, ScuttleTypes, HandlePatchImplements
  <1>5. /\ archive' \in [Robots -> SUBSET Update]
        /\ \A h \in Robots \ {m.to} : archive'[h] = archive[h] /\ beliefs'[h] = beliefs[h]
        /\ archive'[m.to] = archive[m.to] \cup m.updates
        /\ \A h \in Robots : archive[h] \subseteq archive'[h]
    BY <1>2, ScuttleTypes
  <1>6. ArchivesComplete'
    <2>1. \A h \in Robots : archive'[h] \subseteq emitted /\ IsFiniteSet(archive'[h])
      <3>1. SUFFICES ASSUME NEW h \in Robots
                     PROVE  archive'[h] \subseteq emitted /\ IsFiniteSet(archive'[h])
        OBVIOUS
      <3>2. archive[h] \subseteq emitted /\ IsFiniteSet(archive[h])
        BY DEF ScuttleInv, ArchivesComplete
      <3>3. CASE h = m.to
        <4>1. IsFiniteSet(archive[h] \cup m.updates)
          BY <1>2, <3>2, FS_Union
        <4>2. QED
          BY <1>2, <1>5, <3>2, <3>3, <4>1
      <3>4. CASE h # m.to
        BY <1>5, <3>2, <3>4
      <3>5. QED
        BY <3>3, <3>4
    <2>2. \A u \in emitted : u \in archive'[Origin(u)]
      BY <1>5, ReportFacts DEF ScuttleInv, ArchivesComplete
    <2>3. ASSUME NEW h \in Robots, NEW v \in archive'[h], NEW u \in emitted,
                 Origin(u) = Origin(v), Version(u) < Version(v)
          PROVE  u \in archive'[h]
      <3>1. CASE v \in archive[h]
        BY <1>5, <2>3, <3>1 DEF ScuttleInv, ArchivesComplete
      <3>2. CASE v \notin archive[h]
        <4>1. h = m.to /\ v \in m.updates
          BY <1>5, <3>2
        <4>2. u \in archive[m.to] \cup m.updates
          BY <1>3, <2>3, <4>1 DEF SoundPatch
        <4>3. QED
          BY <1>5, <4>1, <4>2
      <3>3. QED
        BY <3>1, <3>2
    <2>4. QED
      BY <1>1, <2>1, <2>2, <2>3 DEF ArchivesComplete
  <1>7. BeliefIsNewest'
    <2>1. ASSUME NEW h \in Robots, NEW c \in Cells
          PROVE  /\ beliefs'[h][c] \in {InitialStamp} \cup StampsOf(c, archive'[h])
                 /\ \A t \in StampsOf(c, archive'[h]) : AtLeast(beliefs'[h][c], t)
      <3>1. /\ beliefs[h][c] \in {InitialStamp} \cup StampsOf(c, archive[h])
            /\ \A t \in StampsOf(c, archive[h]) : AtLeast(beliefs[h][c], t)
        BY <2>1 DEF ScuttleInv, BeliefIsNewest
      <3>2. CASE h # m.to
        BY <1>5, <3>1, <3>2
      <3>3. CASE h = m.to
        <4>1. StampsOf(c, archive'[h]) = StampsOf(c, archive[h]) \cup StampsOf(c, m.updates)
          BY <1>5, <3>3 DEF StampsOf
        <4>2. \A t \in StampsOf(c, archive[h]) : t \in Stamp
          BY <2>1, ScuttleTypes DEF StampsOf, Update
        <4>3. beliefs[h][c] \in Stamp /\ beliefs'[h][c] \in Stamp
          BY <1>4, <2>1, ScuttleTypes
        <4>4. /\ beliefs'[h][c] \in {beliefs[h][c]} \cup StampsOf(c, m.updates)
              /\ AtLeast(beliefs'[h][c], beliefs[h][c])
              /\ \A t \in StampsOf(c, m.updates) : AtLeast(beliefs'[h][c], t)
          BY <1>2, <2>1, <3>3
        <4>5. \A t \in StampsOf(c, archive[h]) : AtLeast(beliefs'[h][c], t)
          BY <3>1, <4>2, <4>3, <4>4, AtLeastTransitive
        <4>6. QED
          BY <3>1, <4>1, <4>4, <4>5
      <3>4. QED
        BY <3>2, <3>3
    <2>2. QED
      BY <2>1 DEF BeliefIsNewest
  <1>8. QueueOK(net, SoundPackets)'
    <2>1. SoundPackets \subseteq SoundPackets'
      BY <1>1, <1>5, SoundStays
    <2>2. QueueOK(Tail(net), SoundPackets)
      BY <1>1, QueueHead, ScuttleTypes
    <2>3. QueueOK(net', SoundPackets')
      BY <1>1, <2>1, <2>2, QueueWidens
    <2>4. QED
      BY <2>3 DEF QueueOK
  <1>9. ScuttleTypeOK'
    <2>1. net' \in Seq(DigestPacket)
      BY <1>1, QueueHead, QueueIsTyped, ScuttleTypes
    <2>2. QED
      BY <1>1, <1>4, <1>5, <2>1 DEF ScuttleInv, ScuttleTypeOK, LoopTypeOK
  <1>10. QED
    BY <1>1, <1>4, <1>6, <1>7, <1>8, <1>9, OrderStays DEF ScuttleInv

\* What a robot reports in a step comes after everything it reported before.
LEMMA SenseFacts ==
    ASSUME ScuttleInv, NEW r \in Robots, NEW w \in Shown(r), SenseAndRecord(r, w)
    PROVE  /\ HonestReports' /\ ReportsInOrder'
           /\ emitted' = emitted \cup Discovered(r, w)
           /\ emitted' \subseteq Update
           /\ \A u \in emitted' : Version(u) \in Nat /\ Version(u) > 0
           /\ \A u \in Discovered(r, w) :
                /\ Origin(u) = r
                /\ \A v \in emitted : Origin(v) = r => Version(v) < Version(u)
           /\ archive' = [archive EXCEPT ![r] = @ \cup Discovered(r, w)]
           /\ IsFiniteSet(Discovered(r, w))
  <1> DEFINE D == Discovered(r, w)
  <1>1. Observe(r, w) /\ phase = "sense" /\ turn = r /\ step' = step
    BY DEF SenseAndRecord, Observe
  <1>2. HonestReports'
    BY <1>1, ObserveImplements, SharingStep, ScuttleTypes DEF Sharing!Next
  <1>3. /\ w \subseteq Cells /\ D \subseteq Update /\ emitted' \subseteq Update
        /\ emitted' = emitted \cup D
    BY <1>1, ObserveFacts, ScuttleTypes DEF Observe
  <1>4. D = {Observation(r, c) : c \in Unseen(r, w)} /\ Unseen(r, w) \subseteq w
    BY DEF Discovered, Unseen
  <1>5. step \in Nat /\ \A u \in D : Origin(u) = r /\ u.stamp.at = step
    BY <1>4, ScuttleTypes DEF Observation, Origin
  <1>6. D # {} => step < Horizon
    BY <1>4 DEF Shown
  <1> HIDE DEF D
  <1>7. ReportsInOrder'
    <2>1. (turn' = r + 1 /\ phase' = "sense") \/ phase' = "dispatch"
      BY <1>1 DEF Observe, PassTurn
    <2>2. \A u \in emitted :
            /\ u.stamp.at \in Nat /\ u.stamp.at < Horizon /\ u.stamp.at <= step
            /\ u.stamp.at = step => Origin(u) < r
      BY <1>1 DEF ScuttleInv, ReportsInOrder
    <2>3. r \in Int /\ \A u \in emitted : Origin(u) \in Int
      BY ReportFacts DEF Robots
    <2>4. \A u \in emitted' :
            /\ u.stamp.at \in Nat /\ u.stamp.at < Horizon /\ u.stamp.at <= step
            /\ u.stamp.at = step => Origin(u) <= r
      BY <1>3, <1>5, <1>6, <2>2, <2>3
    <2>5. \A u \in emitted' : Origin(u) \in Int
      BY <1>3, <1>5, <2>3
    <2>6. QED
      BY <1>1, <2>1, <2>3, <2>4, <2>5 DEF ReportsInOrder
  <1>8. \A u \in emitted' : u \in Update /\ u.stamp.at \in Nat
    BY <1>3, <1>7 DEF ReportsInOrder
  <1>9. \A u \in emitted' : Version(u) \in Nat /\ Version(u) > 0
    BY <1>8, VersionOrder
  <1>10. ASSUME NEW u \in D, NEW v \in emitted, Origin(v) = r
         PROVE  Version(v) < Version(u)
    <2>1. v.stamp.at <= step /\ v.stamp.at # step
      BY <1>1, <1>10, ScuttleTypes DEF ScuttleInv, ReportsInOrder, Robots
    <2>2. v.stamp.at < u.stamp.at
      BY <1>3, <1>5, <1>8, <2>1
    <2>3. QED
      BY <1>3, <1>8, <2>2, VersionOrder
  <1>11. archive' = [archive EXCEPT ![r] = @ \cup D]
    <2>1. archive[r] \in SUBSET emitted' /\ D \in SUBSET emitted'
      BY <1>3 DEF ScuttleInv, ArchivesComplete
    <2>2. \A u, v \in emitted' : SameKey(u, v) => u = v
      BY <1>2 DEF HonestReports, SameKey, Origin
    <2>3. Record(archive[r], D) = archive[r] \cup D
      BY <1>9, <2>1, <2>2, RecordIsUnion
    <2>4. QED
      BY <2>3 DEF SenseAndRecord, D
  <1>12. IsFiniteSet(D)
    <2> DEFINE f == [c \in Unseen(r, w) |-> Observation(r, c)]
    <2>1. IsFiniteSet(Cells)
      BY FS_Interval, LoopAssumption DEF Cells
    <2>2. Unseen(r, w) \in SUBSET Cells
      BY <1>3, <1>4
    <2>3. IsFiniteSet(Unseen(r, w))
      BY <2>1, <2>2, FS_Subset
    <2>4. f \in Surjection(Unseen(r, w), D)
      BY <1>4 DEF Surjection
    <2> HIDE DEF f
    <2>5. QED
      BY <2>3, <2>4, FS_Surjection
  <1>13. QED
    BY <1>2, <1>3, <1>5, <1>7, <1>9, <1>10, <1>11, <1>12 DEF D

\* integrate_local_observation, followed by record_scuttle_update.
LEMMA SenseAndRecordPreserves ==
    ASSUME ScuttleInv, NEW r \in Robots, NEW w \in Shown(r), SenseAndRecord(r, w)
    PROVE  ScuttleInv'
  <1> DEFINE D == Discovered(r, w)
  <1>1. /\ HonestReports' /\ ReportsInOrder'
        /\ emitted' = emitted \cup D /\ emitted' \subseteq Update
        /\ \A u \in emitted' : Version(u) \in Nat /\ Version(u) > 0
        /\ \A u \in D :
             /\ Origin(u) = r
             /\ \A v \in emitted : Origin(v) = r => Version(v) < Version(u)
        /\ archive' = [archive EXCEPT ![r] = @ \cup D]
        /\ IsFiniteSet(D)
    BY SenseFacts
  <1>2. /\ beliefs' \in [Robots -> [Cells -> Stamp]]
        /\ \A q \in Robots \ {r} : beliefs'[q] = beliefs[q]
        /\ \A c \in Cells : beliefs'[r][c] =
               IF c \in Unseen(r, w) THEN Observation(r, c).stamp ELSE beliefs[r][c]
        /\ Grows
        /\ w \subseteq Cells
    BY ObserveFacts, ScuttleTypes DEF SenseAndRecord
  <1>3. D = {Observation(r, c) : c \in Unseen(r, w)}
    BY DEF Discovered
  <1> HIDE DEF D
  <1>4. /\ archive' \in [Robots -> SUBSET Update]
        /\ \A h \in Robots \ {r} : archive'[h] = archive[h]
        /\ archive'[r] = archive[r] \cup D
        /\ \A h \in Robots : archive[h] \subseteq archive'[h]
    BY <1>1, ScuttleTypes
  <1>5. ArchivesComplete'
    <2>1. \A h \in Robots : archive[h] \subseteq emitted /\ IsFiniteSet(archive[h])
      BY DEF ScuttleInv, ArchivesComplete
    <2>2. \A h \in Robots : archive'[h] \subseteq emitted' /\ IsFiniteSet(archive'[h])
      <3>1. IsFiniteSet(archive[r] \cup D)
        BY <1>1, <2>1, FS_Union
      <3>2. QED
        BY <1>1, <1>4, <2>1, <3>1
    <2>3. \A u \in emitted' : u \in archive'[Origin(u)]
      BY <1>1, <1>4, ReportFacts DEF ScuttleInv, ArchivesComplete
    <2>4. ASSUME NEW h \in Robots, NEW v \in archive'[h], NEW u \in emitted',
                 Origin(u) = Origin(v), Version(u) < Version(v)
          PROVE  u \in archive'[h]
      <3>1. CASE Origin(u) = h
        BY <2>3, <3>1
      <3>2. CASE Origin(u) # h
        <4>1. v \in archive[h] /\ v \in emitted
          BY <1>1, <1>4, <2>1, <2>4, <3>2
        <4>2. u \in emitted
          <5>1. SUFFICES ASSUME u \in D PROVE FALSE
            BY <1>1
          <5>2. Version(v) < Version(u)
            BY <1>1, <2>4, <4>1, <5>1
          <5>3. QED
            BY <1>1, <2>4, <4>1, <5>2
        <4>3. QED
          BY <1>4, <2>4, <4>1, <4>2 DEF ScuttleInv, ArchivesComplete
      <3>3. QED
        BY <3>1, <3>2
    <2>5. QED
      BY <2>2, <2>3, <2>4 DEF ArchivesComplete
  <1>6. BeliefIsNewest'
    <2>1. ASSUME NEW h \in Robots, NEW c \in Cells
          PROVE  /\ beliefs'[h][c] \in {InitialStamp} \cup StampsOf(c, archive'[h])
                 /\ \A t \in StampsOf(c, archive'[h]) : AtLeast(beliefs'[h][c], t)
      <3>1. /\ beliefs[h][c] \in {InitialStamp} \cup StampsOf(c, archive[h])
            /\ \A t \in StampsOf(c, archive[h]) : AtLeast(beliefs[h][c], t)
        BY <2>1 DEF ScuttleInv, BeliefIsNewest
      <3>2. CASE h # r
        BY <1>2, <1>4, <3>1, <3>2
      <3>3. CASE h = r
        <4>1. StampsOf(c, archive'[h]) = StampsOf(c, archive[h]) \cup StampsOf(c, D)
          BY <1>4, <3>3 DEF StampsOf
        <4>2. \A e \in Unseen(r, w) : Observation(r, e).cell = e
          BY DEF Observation
        <4>3. CASE c \in Unseen(r, w)
          <5>1. StampsOf(c, D) = {Observation(r, c).stamp}
            BY <1>3, <4>2, <4>3 DEF StampsOf
          <5>2. beliefs'[h][c] = Observation(r, c).stamp
            BY <1>2, <2>1, <3>3, <4>3
          <5>3. \A t \in StampsOf(c, archive[h]) : t \in Stamp
            BY <2>1, ScuttleTypes DEF StampsOf, Update
          <5>4. /\ beliefs[h][c] \in Stamp /\ beliefs'[h][c] \in Stamp
                /\ AtLeast(beliefs'[h][c], beliefs[h][c])
            BY <1>2, <2>1, ScuttleTypes DEF Grows
          <5>5. \A t \in StampsOf(c, archive[h]) : AtLeast(beliefs'[h][c], t)
            BY <3>1, <5>3, <5>4, AtLeastTransitive
          <5>6. QED
            BY <4>1, <5>1, <5>2, <5>5 DEF AtLeast
        <4>4. CASE c \notin Unseen(r, w)
          <5>1. StampsOf(c, D) = {}
            BY <1>3, <4>2, <4>4 DEF StampsOf
          <5>2. beliefs'[h][c] = beliefs[h][c]
            BY <1>2, <2>1, <3>3, <4>4
          <5>3. QED
            BY <3>1, <4>1, <5>1, <5>2
        <4>5. QED
          BY <4>3, <4>4
      <3>4. QED
        BY <3>2, <3>3
    <2>2. QED
      BY <2>1 DEF BeliefIsNewest
  <1>7. QueueOK(net, SoundPackets)'
    <2>1. SoundPackets \subseteq SoundPackets'
      BY <1>1, <1>4, SoundStays
    <2>2. net' = net
      BY DEF SenseAndRecord, Observe
    <2>3. QueueOK(net', SoundPackets')
      BY <2>1, <2>2, ScuttleTypes, QueueWidens
    <2>4. QED
      BY <2>3 DEF QueueOK
  <1>8. ScuttleTypeOK'
    <2>1. turn' \in Robots /\ phase' \in Phases
      BY ScuttleTypes, PassTurnFacts DEF SenseAndRecord, Observe, Phases
    <2>2. QED
      BY <1>1, <1>2, <1>4, <2>1 DEF ScuttleInv, ScuttleTypeOK, LoopTypeOK, SenseAndRecord, Observe
  <1>9. QED
    BY <1>1, <1>5, <1>6, <1>7, <1>8 DEF ScuttleInv

-----------------------------------------------------------------------------
\* The invariant, and what follows from it.

\* Every step keeps the invariant.
LEMMA ScuttleNextPreserves ==
    ASSUME ScuttleInv, [ScuttleNext]_gossipVars
    PROVE  ScuttleInv'
  <1>1. ASSUME NEW r \in Robots, NEW w \in Shown(r), SenseAndRecord(r, w) PROVE ScuttleInv'
    BY <1>1, SenseAndRecordPreserves
  <1>2. ASSUME NEW q \in Robots, NEW p \in Robots, NEW kept \in Survivals, SendDigest(q, p, kept)
        PROVE  ScuttleInv'
    BY <1>2, SendDigestPreserves
  <1>3. ASSUME NEW q \in Robots, EndDigests(q) PROVE ScuttleInv'
    BY <1>3, EndDigestsPreserves
  <1>4. ASSUME NEW s, NEW keptPatch \in Survivals, NEW keptDigest \in Survivals,
               HandleDigest(s, keptPatch, keptDigest)
        PROVE  ScuttleInv'
    BY <1>4, HandleDigestPreserves
  <1>5. QED
    BY <1>1, <1>2, <1>3, <1>4, StutterPreserves, EndArrivalsKeeps, EndStepKeeps,
       HandlePatchPreserves DEF ScuttleNext

\* The inductive invariant holds in every reachable state of the gossip.
THEOREM ScuttleInvariance == ScuttleSpec => []ScuttleInv
  <1>1. ScuttleInit => ScuttleInv
    BY ScuttleInitEstablishes
  <1>2. ScuttleInv /\ [ScuttleNext]_gossipVars => ScuttleInv'
    BY ScuttleNextPreserves
  <1>3. QED
    BY <1>1, <1>2, PTL DEF ScuttleSpec

\* No patch, however it was cut, overdraws the data budget, no digest the
\* control budget, and every packet is one the handlers know.
THEOREM ScuttleTypeCorrect == ScuttleSpec => []ScuttleTypeOK
  BY ScuttleInvariance, PTL DEF ScuttleInv

\* scuttle_depth_updates never opens a gap: one number per origin tells all
\* that a robot has of it, whatever is lost, late or cut short.
THEOREM ArchivesHaveNoGaps == ScuttleSpec => []NoGaps
  <1>1. ScuttleInv => NoGaps
    <2>1. SUFFICES ASSUME ScuttleInv, NEW h \in Robots, NEW v \in archive[h], NEW u \in emitted,
                          Origin(u) = Origin(v), Version(u) < Version(v)
                   PROVE  \E x \in archive[h] : SameKey(u, x) /\ Version(u) <= Version(x)
      BY DEF NoGaps
    <2>2. u \in archive[h]
      BY <2>1 DEF ScuttleInv, ArchivesComplete
    <2>3. SameKey(u, u) /\ Version(u) <= Version(u)
      BY <2>1, ReportFacts DEF SameKey
    <2>4. QED
      BY <2>2, <2>3
  <1>2. QED
    BY <1>1, ScuttleInvariance, PTL

\* record_scuttle_update and apply_update, two rules for two data structures,
\* never disagree: a robot plans on exactly what it gossips.
THEOREM ArchivesMatchBeliefs == ScuttleSpec => []ArchiveMatchesBelief
  <1>1. ScuttleInv => ArchiveMatchesBelief
    <2>1. SUFFICES ASSUME ScuttleInv, NEW h \in Robots, NEW c \in Cells
                   PROVE  beliefs[h][c] = Newest({InitialStamp} \cup StampsOf(c, archive[h]))
      BY DEF ArchiveMatchesBelief
    <2> DEFINE S == {InitialStamp} \cup StampsOf(c, archive[h])
               b == beliefs[h][c]
    <2>2. b \in S /\ \A t \in StampsOf(c, archive[h]) : AtLeast(b, t)
      BY <2>1 DEF ScuttleInv, BeliefIsNewest
    <2>3. \A t \in StampsOf(c, archive[h]) : t \in Stamp /\ t.version > 0
      BY <2>1 DEF ScuttleInv, ArchivesComplete, HonestReports, ScuttleTypeOK, LoopTypeOK, Update, StampsOf
    <2>4. AtLeast(b, InitialStamp)
      BY <2>2, <2>3, InitialStampIsStamp DEF AtLeast, StampLess, InitialStamp, Stamp
    <2>5. S \in SUBSET Stamp /\ b \in S /\ \A t \in S : AtLeast(b, t)
      BY <2>2, <2>3, <2>4, InitialStampIsStamp
    <2> HIDE DEF S, b
    <2>6. Newest(S) = b
      BY <2>5, NewestIs
    <2>7. QED
      BY <2>6 DEF S, b
  <1>2. QED
    BY <1>1, ScuttleInvariance, PTL

\* The gossip implements MapSharing: whatever arrives late, twice or cut short,
\* no replica moves backwards or holds what nobody reported.
THEOREM ScuttleRefinement == ScuttleSpec => ImplementsSharing
  <1>1. ScuttleInit => Sharing!Init
    BY LoopStarts DEF ScuttleInit
  <1>2. ScuttleInv /\ [ScuttleNext]_gossipVars => [Sharing!Next]_(Sharing!sharingVars)
    <2>1. SUFFICES ASSUME ScuttleInv, [ScuttleNext]_gossipVars
                   PROVE  Sharing!Next \/ UNCHANGED <<beliefs, emitted>>
      BY DEF Sharing!sharingVars
    <2>2. ASSUME NEW r \in Robots, NEW w \in Shown(r), SenseAndRecord(r, w) PROVE Sharing!Next
      BY <2>1, <2>2, ObserveImplements, ScuttleTypes DEF SenseAndRecord, Sharing!Next
    <2>3. CASE HandlePatch
      BY <2>1, <2>3, HandlePatchImplements DEF Sharing!Next
    <2>4. ASSUME NEW q, NEW p, NEW kept, SendDigest(q, p, kept)
          PROVE  UNCHANGED <<beliefs, emitted>>
      BY <2>4 DEF SendDigest
    <2>5. ASSUME NEW s, NEW keptPatch, NEW keptDigest, HandleDigest(s, keptPatch, keptDigest)
          PROVE  UNCHANGED <<beliefs, emitted>>
      BY <2>5 DEF HandleDigest
    <2>6. ASSUME NEW q, EndDigests(q) PROVE UNCHANGED <<beliefs, emitted>>
      BY <2>6 DEF EndDigests
    <2>7. CASE EndArrivals \/ EndStep \/ UNCHANGED gossipVars
      BY <2>7 DEF EndArrivals, EndStep, gossipVars, loopVars
    <2>8. QED
      BY <2>1, <2>2, <2>3, <2>4, <2>5, <2>6, <2>7 DEF ScuttleNext
  <1>3. QED
    BY <1>1, <1>2, ScuttleInvariance, PTL DEF ScuttleSpec, ImplementsSharing, Sharing!Spec

=============================================================================
