-------------------------- MODULE QueryRepairProofs --------------------------
(***************************************************************************)
(* Repair by digest query, and what CARE asks with it.                     *)
(*                                                                         *)
(* Repair, for every team, map, budget, delay and family of questions:     *)
(* RepairInv is an invariant whatever the budget and the delay are,        *)
(* TimelyInv one when answers fit; the repair implements MapSharing.       *)
(*                                                                         *)
(* The certificate, for any number of candidates, any order of uncertainty,*)
(* any plans and any round trip: the search ends with the first smallest   *)
(* separating set, and a robot whose query is answered plans as if it knew *)
(* the true scenario.  The two specifications share no constant or variable.*)
(***************************************************************************)
EXTENDS QueryRepair, ScenarioCertificate, DeltaDeliveryProofs

-----------------------------------------------------------------------------
\* What the invariant says, spelled out.

LEMMA RepairTypes ==
    ASSUME RepairInv
    PROVE  /\ LoopTypeOK /\ HonestReports /\ OutboxHonest
           /\ step \in Nat /\ phase \in Phases /\ turn \in Robots
           /\ beliefs \in [Robots -> [Cells -> Stamp]] /\ emitted \subseteq Update
           /\ data \in [Robots -> 0 .. DataCap] /\ control \in [Robots -> 0 .. ControlCap]
           /\ policy = "one_shot" /\ regional \in Regimes /\ querying \in BOOLEAN
           /\ wanted \subseteq Cells /\ asked \subseteq Robots
           /\ QueueOK(net, SoundPackets)
  BY DEF RepairInv, RepairTypeOK, LoopTypeOK

LEMMA RepairPackets ==
    /\ SoundPackets \subseteq Packet \cup QueryPacket
    /\ \A m \in Packet \cup QueryPacket :
        /\ m.wait \in Nat /\ m.from \in Robots /\ m.to \in Robots
        /\ m.kind \in {"delta", "ack", "query", "patch"}
        /\ m.kind = "delta" => m.update \in Update
        /\ m.kind = "query" => m.entries \subseteq Update
        /\ m.kind = "patch" => m.updates \subseteq Update
  BY DEF SoundPackets, Packet, QueryPacket

\* A queue of sound packets is a queue of packets.
LEMMA RepairQueueTyped ==
    ASSUME NEW q, QueueOK(q, SoundPackets)
    PROVE  q \in Seq(Packet \cup QueryPacket)
  BY RepairPackets, QueueWidens DEF QueueOK

\* Packets stay sound while replicas move forward and reports are added.
LEMMA PacketsStaySound ==
    ASSUME RepairInv, Grows, emitted \subseteq emitted',
           beliefs' \in [Robots -> [Cells -> Stamp]]
    PROVE  SoundPackets \subseteq SoundPackets'
  <1>1. SUFFICES ASSUME NEW m \in SoundPackets PROVE m \in SoundPackets'
    OBVIOUS
  <1>2. m \in Packet \cup QueryPacket /\ m.from \in Robots
    BY RepairPackets
  <1>3. CASE m.kind = "query"
    <2>1. SoundQuery(m) /\ m.from # m.to /\ m.entries \subseteq Update
      BY <1>2, <1>3, RepairPackets DEF SoundPackets
    <2>2. ASSUME NEW e \in m.entries PROVE AtLeast(beliefs'[m.from][e.cell], e.stamp)
      <3>1. e.cell \in Cells /\ e.stamp \in Stamp
        BY <2>1 DEF Update
      <3>2. AtLeast(beliefs[m.from][e.cell], e.stamp)
        BY <2>1 DEF SoundQuery
      <3>3. QED
        BY <1>2, <3>1, <3>2, StillKnown, RepairTypes
    <2>3. SoundQuery(m)'
      BY <2>1, <2>2 DEF SoundQuery
    <2>4. QED
      BY <1>2, <1>3, <2>1, <2>3 DEF SoundPackets
  <1>4. CASE m.kind # "query"
    BY <1>2, <1>4 DEF SoundPackets, SoundPatch
  <1>5. QED
    BY <1>3, <1>4

\* A step that neither senses nor learns nor touches an outbox.
LEMMA RepairQuiet ==
    ASSUME RepairInv, UNCHANGED <<beliefs, emitted, policy, outbox>>
    PROVE  /\ HonestReports' /\ OutboxHonest' /\ policy' = "one_shot"
           /\ SoundPackets' = SoundPackets
  <1>1. SoundPackets' = SoundPackets
    BY DEF SoundPackets, SoundQuery, SoundPatch
  <1>2. HonestReports' /\ OutboxHonest'
    BY DEF RepairInv, HonestReports, Legitimate, OutboxHonest
  <1>3. QED
    BY <1>1, <1>2 DEF RepairInv

\* A well-formed queue under the new packets is one in the next state.
LEMMA RepairAssembles ==
    ASSUME LoopTypeOK', HonestReports', OutboxHonest', policy' = "one_shot",
           QueueOK(net', SoundPackets'),
           regional' \in Regimes, querying' \in BOOLEAN, wanted' \subseteq Cells,
           asked' \subseteq Robots,
           promised' \subseteq
               [from : Robots, to : Robots, cell : Cells, stamp : Stamp, left : 0 .. 2 * Delay],
           querying' => phase' = "dispatch",
           wanted' # {} => querying' /\ wanted' \in QuerySets[turn']
    PROVE  RepairInv'
  <1>1. QueueOK(net, SoundPackets)'
    BY DEF QueueOK
  <1>2. (net \in Seq(Packet \cup QueryPacket))'
    <2>1. SoundPackets' \subseteq Packet \cup QueryPacket
      BY DEF SoundPackets
    <2>2. QueueOK(net', Packet \cup QueryPacket)
      BY <2>1, QueueWidens
    <2>3. QED
      BY <2>2 DEF QueueOK, Packet, QueryPacket
  <1>3. RepairTypeOK'
    BY <1>2 DEF RepairTypeOK
  <1>4. QED
    BY <1>1, <1>3 DEF RepairInv

\* The history of promises is not read by any step.
PromiseTypes ==
    promised \subseteq
        [from : Robots, to : Robots, cell : Cells, stamp : Stamp, left : 0 .. 2 * Delay]

LEMMA PromisesTyped ==
    ASSUME RepairInv
    PROVE  PromiseTypes
  BY DEF RepairInv, RepairTypeOK, PromiseTypes

\* Outside the dispatch phase nobody asks.
LEMMA Idle ==
    ASSUME RepairInv, phase # "dispatch" \/ ~querying
    PROVE  querying = FALSE /\ wanted = {}
  BY DEF RepairInv, RepairTypeOK

-----------------------------------------------------------------------------
\* The steps.

LEMMA RepairInitEstablishes ==
    ASSUME RepairInit
    PROVE  RepairInv
  <1>1. LoopTypeOK /\ HonestReports
    BY LoopStarts DEF RepairInit, Init
  <1>2. /\ net = <<>> /\ outbox = [r \in Robots |-> {}] /\ policy = "one_shot"
        /\ regional \in Regimes /\ querying = FALSE /\ wanted = {} /\ asked = {} /\ promised = {}
    BY QueryAssumption DEF RepairInit, Init, LoopInit, DeliveryInit, QueryInit
  <1>3. QueueOK(net, SoundPackets) /\ net \in Seq(Packet \cup QueryPacket)
    BY <1>2 DEF QueueOK
  <1>4. OutboxHonest
    BY <1>2 DEF OutboxHonest
  <1>5. RepairTypeOK
    BY <1>1, <1>2, <1>3 DEF RepairTypeOK
  <1>6. QED
    BY <1>1, <1>2, <1>3, <1>4, <1>5 DEF RepairInv

\* Sensing.
LEMMA RepairSense ==
    ASSUME RepairInv, NEW r \in Robots, NEW w \in Shown(r), Sense(r, w), UNCHANGED queryVars
    PROVE  RepairInv' /\ Sharing!Look(r)
  <1>1. OutboxHonest' /\ LoopTypeOK' /\ UNCHANGED <<step, net, data, control, policy, tried>>
    BY RepairTypes, SenseQueues
  <1>2. Sharing!Look(r)
    BY RepairTypes, ObserveImplements DEF Sense
  <1>3. HonestReports' /\ Grows /\ emitted \subseteq emitted'
    BY <1>2, RepairTypes, SharingStep DEF Sharing!Next
  <1>4. SoundPackets \subseteq SoundPackets'
    BY <1>1, <1>3, PacketsStaySound DEF LoopTypeOK
  <1>5. QueueOK(net', SoundPackets')
    BY <1>1, <1>4, RepairTypes, QueueWidens
  <1>6. UNCHANGED <<regional, querying, wanted, asked, promised>>
    BY DEF queryVars
  <1>7. querying' = FALSE /\ wanted' = {}
    <2>1. phase = "sense"
      BY DEF Sense, Observe
    <2>2. querying = FALSE /\ wanted = {}
      BY <2>1, Idle
    <2>3. QED
      BY <1>6, <2>2
  <1>8. QED
    BY <1>1, <1>2, <1>3, <1>5, <1>6, <1>7, RepairTypes, PromisesTyped, RepairAssembles DEF PromiseTypes

\* Sending a delta.
LEMMA RepairSendDelta ==
    ASSUME RepairInv, NEW s \in Robots, NEW t \in outbox[s], NEW kept \in Survivals,
           SendDelta(s, t, kept)
    PROVE  /\ RepairInv'
           /\ net' = net \o Sent(kept, Delta(s, t))
           /\ Delta(s, t) \in SoundPackets
           /\ Delta(s, t).kind = "delta" /\ Delta(s, t).wait = Delay
           /\ phase = "dispatch" /\ querying = FALSE
           /\ UNCHANGED <<step, phase, turn, beliefs, emitted, regional, querying, wanted, asked,
                          promised>>
  <1>1. Attempt(s, t, kept) /\ UNCHANGED <<regional, querying, wanted, asked, promised>> /\ ~querying
    BY DEF SendDelta, queryVars
  <1>2. /\ OutboxHonest' /\ LoopTypeOK'
        /\ Delta(s, t) \in Packet /\ Delta(s, t).kind = "delta" /\ Delta(s, t).wait = Delay
        /\ Delta(s, t).update \in emitted /\ ~Delta(s, t).keyed
        /\ net' = net \o Sent(kept, Delta(s, t))
        /\ UNCHANGED <<step, phase, turn, beliefs, emitted, control, policy>>
        /\ phase = "dispatch"
    BY <1>1, RepairTypes, AttemptSends
  <1>3. Delta(s, t) \in SoundPackets
    BY <1>2 DEF SoundPackets
  <1>4. QueueOK(net', SoundPackets)
    BY <1>2, <1>3, RepairTypes, RepairPackets, QueueAppends, LoopAssumption
  <1>5. SoundPackets' = SoundPackets
    BY <1>2 DEF SoundPackets, SoundQuery, SoundPatch
  <1>6. HonestReports'
    BY <1>2, RepairTypes DEF HonestReports, Legitimate
  <1>7. querying = FALSE /\ wanted = {}
    BY <1>1, Idle
  <1>8. RepairInv'
    BY <1>1, <1>2, <1>4, <1>5, <1>6, <1>7, RepairTypes, PromisesTyped, RepairAssembles
       DEF PromiseTypes
  <1>9. QED
    BY <1>1, <1>2, <1>3, <1>7, <1>8

\* The steps that leave replicas, reports and packets alone, and who asks whom.
LEMMA RepairQuietStep ==
    ASSUME RepairInv, LoopTypeOK', UNCHANGED <<beliefs, emitted, net, policy, outbox, regional>>,
           querying' \in BOOLEAN, querying' => phase' = "dispatch",
           wanted' \subseteq Cells, wanted' # {} => querying' /\ wanted' \in QuerySets[turn'],
           asked' \subseteq Robots, UNCHANGED promised
    PROVE  RepairInv'
  <1>1. HonestReports' /\ OutboxHonest' /\ policy' = "one_shot" /\ SoundPackets' = SoundPackets
    BY RepairQuiet
  <1>2. QueueOK(net', SoundPackets')
    BY <1>1, RepairTypes
  <1>3. QED
    BY <1>1, <1>2, RepairTypes, PromisesTyped, RepairAssembles DEF PromiseTypes

\* A stutter.
LEMMA RepairStutter ==
    ASSUME RepairInv, UNCHANGED allVars
    PROVE  RepairInv'
  <1>1. UNCHANGED <<step, phase, turn, beliefs, emitted, net, data, control, policy, outbox, tried,
                    regional, querying, wanted, asked, promised>>
    BY DEF allVars, vars, loopVars, deliveryVars, queryVars
  <1>2. LoopTypeOK'
    BY <1>1, RepairTypes DEF LoopTypeOK
  <1>3. /\ querying => phase = "dispatch"
        /\ wanted # {} => querying /\ wanted \in QuerySets[turn]
    BY DEF RepairInv
  <1>4. QED
    BY <1>1, <1>2, <1>3, RepairTypes, RepairQuietStep

\* The first drain is over.
LEMMA RepairEndArrivals ==
    ASSUME RepairInv, EndArrivals, UNCHANGED <<deliveryVars, queryVars>>
    PROVE  RepairInv'
  <1>1. /\ phase = "arrivals" /\ phase' = "sense"
        /\ UNCHANGED <<step, turn, beliefs, emitted, net, data, control, policy, outbox,
                       regional, querying, wanted, asked, promised>>
    BY DEF EndArrivals, deliveryVars, queryVars
  <1>2. LoopTypeOK'
    BY <1>1, RepairTypes DEF LoopTypeOK, Phases
  <1>3. querying = FALSE /\ wanted = {}
    BY <1>1, Idle
  <1>4. QED
    BY <1>1, <1>2, <1>3, RepairTypes, RepairQuietStep

\* A sender has no delta left, or no budget; after the last one queries begin.
LEMMA RepairEndDeltas ==
    ASSUME RepairInv, NEW s \in Robots, EndDeltas(s)
    PROVE  /\ RepairInv'
           /\ phase = "dispatch" /\ phase' = "dispatch" /\ querying = FALSE /\ wanted' = {}
           /\ UNCHANGED <<step, beliefs, emitted, net, data, asked, promised>>
  <1>1. /\ EndSending(s, "dispatch") /\ ~querying
        /\ querying' = (s = NumRobots - 1) /\ UNCHANGED <<regional, wanted, asked, promised>>
    BY DEF EndDeltas
  <1>2. /\ LoopTypeOK'
        /\ UNCHANGED <<step, beliefs, emitted, net, data, control, policy, outbox>>
        /\ phase = "dispatch" /\ PassTurn(s, "dispatch")
    BY <1>1, RepairTypes, EndSendingFacts DEF Phases
  <1>3. querying = FALSE /\ wanted = {}
    BY <1>1, Idle
  <1>4. phase' = "dispatch"
    BY <1>2 DEF PassTurn
  <1>5. RepairInv'
    BY <1>1, <1>2, <1>3, <1>4, RepairTypes, RepairQuietStep
  <1>6. QED
    BY <1>1, <1>2, <1>3, <1>4, <1>5

\* A regional synchronisation sends no deltas.
LEMMA RepairSkipDeltas ==
    ASSUME RepairInv, SkipDeltas
    PROVE  RepairInv' /\ UNCHANGED <<step, phase, turn, beliefs, emitted, net, data, asked, promised>>
  <1>1. /\ phase = "dispatch" /\ ~querying /\ querying' = TRUE
        /\ UNCHANGED <<step, phase, turn, beliefs, emitted, net, data, control, policy, outbox,
                       regional, wanted, asked, promised>>
    BY DEF SkipDeltas, vars, loopVars, deliveryVars
  <1>2. LoopTypeOK'
    BY <1>1, RepairTypes DEF LoopTypeOK
  <1>3. wanted = {}
    BY <1>1, Idle
  <1>4. QED
    BY <1>1, <1>2, <1>3, RepairTypes, RepairQuietStep

\* A planner names the cells to ask for.
LEMMA RepairChoose ==
    ASSUME RepairInv, NEW q \in Robots, NEW cells \in QuerySets[q], Choose(q, cells)
    PROVE  RepairInv' /\ UNCHANGED <<step, phase, turn, beliefs, emitted, net, data, asked, promised,
                                     querying>>
  <1>1. /\ phase = "dispatch" /\ querying /\ turn = q /\ wanted' = cells
        /\ UNCHANGED <<step, phase, turn, beliefs, emitted, net, data, control, policy, outbox,
                       regional, querying, asked, promised>>
    BY DEF Choose, vars, loopVars, deliveryVars
  <1>2. LoopTypeOK'
    BY <1>1, RepairTypes DEF LoopTypeOK
  <1>3. cells \subseteq Cells
    BY QueryAssumption
  <1>4. QED
    BY <1>1, <1>2, <1>3, RepairTypes, RepairQuietStep

\* A robot has asked all it may.
LEMMA RepairEndAsking ==
    ASSUME RepairInv, NEW q \in Robots, EndAsking(q)
    PROVE  /\ RepairInv'
           /\ phase = "dispatch" /\ querying /\ turn = q /\ PassTurn(q, "settle")
           /\ querying' = (q # NumRobots - 1) /\ asked' = {} /\ wanted' = {}
           /\ UNCHANGED <<step, beliefs, emitted, net, data, promised>>
  <1>1. /\ phase = "dispatch" /\ querying /\ turn = q /\ PassTurn(q, "settle")
        /\ querying' = (q # NumRobots - 1) /\ wanted' = {} /\ asked' = {}
        /\ UNCHANGED <<step, beliefs, emitted, net, data, control, policy, outbox,
                       regional, promised>>
    BY DEF EndAsking, deliveryVars
  <1>2. turn' \in Robots /\ phase' \in Phases
    BY <1>1, PassTurnFacts, RepairTypes DEF Phases
  <1>3. LoopTypeOK'
    BY <1>1, <1>2, RepairTypes DEF LoopTypeOK
  <1>4. querying' => phase' = "dispatch"
    BY <1>1 DEF PassTurn
  <1>5. RepairInv'
    BY <1>1, <1>3, <1>4, RepairTypes, RepairQuietStep
  <1>6. QED
    BY <1>1, <1>5

\* A question is a sound packet and has a size.
LEMMA QuestionIsSound ==
    ASSUME RepairInv, NEW q \in Robots, NEW p \in Robots, p # q, turn = q, wanted # {}
    PROVE  /\ Query(q, p) \in SoundPackets
           /\ DigestQueryBytes(Cardinality(wanted)) \in Nat
  <1> DEFINE f == [c \in wanted |-> [cell |-> c, stamp |-> beliefs[q][c]]]
             asks == {[cell |-> c, stamp |-> beliefs[q][c]] : c \in wanted}
  <1>1. wanted \in QuerySets[q] /\ wanted \subseteq Cells
    BY RepairTypes DEF RepairInv
  <1>2. IsFiniteSet(wanted) /\ Cardinality(wanted) \in Nat
    BY <1>1, CellsFinite
  <1>3. asks = {f[c] : c \in wanted}
    OBVIOUS
  <1>4. IsFiniteSet(asks) /\ Cardinality(asks) <= Cardinality(wanted)
    <2> HIDE DEF f, asks
    <2>1. QED
      BY <1>2, <1>3, ImageFinite
  <1>5. asks \subseteq Update
    BY <1>1, RepairTypes DEF Update
  <1>6. \A e \in asks : AtLeast(beliefs[q][e.cell], e.stamp)
    BY DEF AtLeast
  <1> HIDE DEF asks
  <1>7. Query(q, p) = [kind |-> "query", from |-> q, to |-> p, wait |-> Delay, entries |-> asks]
    BY DEF Query, asks
  <1>8. Query(q, p) \in QueryPacket
    BY <1>5, <1>7, LoopAssumption DEF QueryPacket
  <1>9. SoundQuery(Query(q, p))
    BY <1>1, <1>4, <1>6, <1>7 DEF SoundQuery
  <1>10. Query(q, p) \in SoundPackets
    BY <1>7, <1>8, <1>9 DEF SoundPackets
  <1>11. QED
    BY <1>2, <1>10 DEF DigestQueryBytes

\* Asking a teammate.
LEMMA RepairAsk ==
    ASSUME RepairInv, NEW q \in Robots, NEW p \in Robots, NEW kept \in Survivals, Ask(q, p, kept)
    PROVE  /\ RepairInv'
           /\ Query(q, p) \in SoundPackets
           /\ net' = net \o Sent(kept, Query(q, p))
           /\ phase = "dispatch" /\ querying /\ turn = q /\ p \notin asked
           /\ asked' = asked \cup {p}
           /\ promised' \subseteq promised \cup
                 {[from |-> p, to |-> q, cell |-> c, stamp |-> beliefs[p][c], left |-> 2 * Delay] :
                     c \in wanted}
           /\ ~kept => promised' = promised
           /\ UNCHANGED <<step, phase, turn, beliefs, emitted, data, querying, wanted>>
  <1>1. /\ phase = "dispatch" /\ querying /\ turn = q /\ p \notin asked
        /\ wanted # {} /\ p # q
        /\ CanSpend(control[q], DigestQueryBytes(Cardinality(wanted)))
        /\ control' = [control EXCEPT ![q] = @ - DigestQueryBytes(Cardinality(wanted))]
        /\ net' = net \o Sent(kept, Query(q, p))
        /\ asked' = asked \cup {p}
        /\ UNCHANGED <<step, phase, turn, beliefs, emitted, data, policy, outbox,
                       regional, querying, wanted>>
    BY DEF Ask, deliveryVars
  <1>2. promised' \subseteq promised \cup
            {[from |-> p, to |-> q, cell |-> c, stamp |-> beliefs[p][c], left |-> 2 * Delay] :
                c \in wanted}
    BY DEF Ask
  <1>14. ~kept => promised' = promised
    BY DEF Ask
  <1>3. Query(q, p) \in SoundPackets /\ DigestQueryBytes(Cardinality(wanted)) \in Nat
    BY <1>1, QuestionIsSound
  <1>4. control' \in [Robots -> 0 .. ControlCap]
    BY <1>1, <1>3, LedgerPays, RepairTypes, LoopAssumption
  <1>5. LoopTypeOK'
    BY <1>1, <1>4, RepairTypes DEF LoopTypeOK
  <1>6. Query(q, p).wait = Delay
    BY DEF Query
  <1>7. QueueOK(net', SoundPackets)
    BY <1>1, <1>3, <1>6, RepairTypes, RepairPackets, QueueAppends, LoopAssumption
  <1>8. HonestReports' /\ OutboxHonest' /\ policy' = "one_shot" /\ SoundPackets' = SoundPackets
    BY <1>1, RepairQuiet
  <1>9. \A c \in wanted :
            [from |-> p, to |-> q, cell |-> c, stamp |-> beliefs[p][c], left |-> 2 * Delay]
                \in [from : Robots, to : Robots, cell : Cells, stamp : Stamp, left : 0 .. 2 * Delay]
    BY RepairTypes, LoopAssumption
  <1>10. PromiseTypes'
    BY <1>2, <1>9, PromisesTyped DEF PromiseTypes
  <1>11. wanted' # {} => querying' /\ wanted' \in QuerySets[turn']
    BY <1>1 DEF RepairInv
  <1>12. RepairInv'
    BY <1>1, <1>5, <1>7, <1>8, <1>10, <1>11, RepairTypes, RepairAssembles DEF PromiseTypes
  <1>13. QED
    BY <1>1, <1>2, <1>3, <1>12, <1>14

\* The packet at the head of a drain.
LEMMA RepairHead ==
    ASSUME RepairInv, Draining
    PROVE  /\ Head(net) \in SoundPackets /\ Head(net) = net[1] /\ Head(net).wait = 0
           /\ Head(net).from \in Robots /\ Head(net).to \in Robots
           /\ QueueOK(Tail(net), SoundPackets)
           /\ Due /\ phase # "dispatch" /\ querying = FALSE /\ wanted = {}
  <1>1. Due /\ phase # "dispatch"
    BY DEF Draining
  <1>2. /\ Head(net) \in SoundPackets /\ Head(net) = net[1] /\ Head(net).wait = 0
        /\ QueueOK(Tail(net), SoundPackets)
    BY <1>1, RepairTypes, QueueHead
  <1>3. QED
    BY <1>1, <1>2, Idle, RepairPackets

\* Taking a delta in.
LEMMA RepairHandleDelta ==
    ASSUME RepairInv, NEW kept \in Survivals, HandleDelta(kept), UNCHANGED queryVars
    PROVE  /\ RepairInv'
           /\ Sharing!Learn(Head(net).to)
           /\ Head(net).kind = "delta" /\ Draining /\ net' = Tail(net)
           /\ UNCHANGED <<step, phase, turn, emitted, data, querying, wanted, asked, promised>>
  <1> DEFINE m == Head(net)
  <1>1. Draining /\ m.kind = "delta"
    BY DEF HandleDelta
  <1>2. /\ m \in SoundPackets /\ m.to \in Robots /\ QueueOK(Tail(net), SoundPackets)
        /\ querying = FALSE /\ wanted = {}
    BY <1>1, RepairHead
  <1>3. m.update \in emitted /\ ~m.keyed
    BY <1>1, <1>2 DEF SoundPackets
  <1>4. /\ beliefs' = [beliefs EXCEPT ![m.to] = Received(@, m.update)]
        /\ net' = Tail(net)
        /\ UNCHANGED <<step, phase, turn, emitted, data, control, policy, outbox,
                       regional, querying, wanted, asked, promised>>
    BY <1>3 DEF HandleDelta, queryVars
  <1> HIDE DEF m
  <1>5. beliefs' \in [Robots -> [Cells -> Stamp]] /\ Sharing!Learn(m.to)
    BY <1>2, <1>3, <1>4, RepairTypes, ReceivedImplements
  <1>6. HonestReports' /\ Grows /\ emitted \subseteq emitted'
    BY <1>2, <1>5, RepairTypes, SharingStep DEF Sharing!Next
  <1>7. SoundPackets \subseteq SoundPackets'
    BY <1>5, <1>6, PacketsStaySound
  <1>8. QueueOK(net', SoundPackets')
    BY <1>2, <1>4, <1>7, QueueWidens
  <1>9. OutboxHonest'
    BY <1>4, RepairTypes DEF OutboxHonest
  <1>10. LoopTypeOK'
    BY <1>4, <1>5, RepairTypes DEF LoopTypeOK
  <1>11. RepairInv'
    BY <1>2, <1>4, <1>6, <1>8, <1>9, <1>10, RepairTypes, PromisesTyped, RepairAssembles
       DEF PromiseTypes
  <1>12. QED
    BY <1>1, <1>4, <1>5, <1>11 DEF m

\* The answer to a query: reports only, one per cell, no more than were asked
\* for, and each of a queried cell.
LEMMA PatchFacts ==
    ASSUME RepairInv, NEW m \in SoundPackets, m.kind = "query"
    PROVE  /\ Patch(m) \in SoundPackets
           /\ Patch(m).kind = "patch" /\ Patch(m).wait = Delay /\ Patch(m).to = m.from
           /\ Patch(m).updates = PatchFor(m)
           /\ IsFiniteSet(PatchFor(m)) /\ Cardinality(PatchFor(m)) \in Nat
           /\ Cardinality(PatchFor(m)) <= Cardinality(m.entries)
           /\ PatchBytes(Cardinality(PatchFor(m))) \in Nat
  <1> DEFINE newer == {e \in m.entries :
                 /\ Known(beliefs[m.to][e.cell])
                 /\ regional \/ StampLess(e.stamp, beliefs[m.to][e.cell])}
             f == [e \in newer |-> [cell |-> e.cell, stamp |-> beliefs[m.to][e.cell]]]
  <1>1. m.from \in Robots /\ m.to \in Robots /\ m.entries \subseteq Update /\ IsFiniteSet(m.entries)
    BY RepairPackets DEF SoundPackets, SoundQuery
  <1>2. PatchFor(m) = {f[e] : e \in newer}
    BY DEF PatchFor
  <1>3. newer \in SUBSET m.entries
    OBVIOUS
  <1>4. /\ IsFiniteSet(newer) /\ Cardinality(newer) \in Nat
        /\ Cardinality(newer) <= Cardinality(m.entries) /\ Cardinality(m.entries) \in Nat
    <2> HIDE DEF newer
    <2>1. QED
      BY <1>1, <1>3, FS_Subset, FS_CardinalityType
  <1>5. IsFiniteSet(PatchFor(m)) /\ Cardinality(PatchFor(m)) <= Cardinality(newer)
    <2> HIDE DEF newer, f
    <2>1. QED
      BY <1>2, <1>4, ImageFinite
  <1>6. Cardinality(PatchFor(m)) \in Nat
    BY <1>5, FS_CardinalityType
  <1>7. \A u \in PatchFor(m) : u.cell \in Cells /\ u.stamp = beliefs[m.to][u.cell]
                              /\ u = [cell |-> u.cell, stamp |-> u.stamp] /\ Known(u.stamp)
    BY <1>1 DEF PatchFor, Update
  <1>8. PatchFor(m) \subseteq emitted
    BY <1>1, <1>7, RepairTypes, KnownWasReported
  <1>9. \A u, v \in PatchFor(m) : u.cell = v.cell => u = v
    BY <1>7
  <1>10. Patch(m) = [kind |-> "patch", from |-> m.to, to |-> m.from, updates |-> PatchFor(m),
                     wait |-> Delay]
    BY DEF Patch
  <1>11. PatchFor(m) \subseteq Update
    BY <1>8, RepairTypes
  <1>12. Patch(m) \in QueryPacket
    BY <1>1, <1>10, <1>11, LoopAssumption DEF QueryPacket
  <1>13. Patch(m) \in SoundPackets
    BY <1>8, <1>9, <1>10, <1>12 DEF SoundPackets, SoundPatch
  <1>14. PatchBytes(Cardinality(PatchFor(m))) \in Nat
    BY <1>6 DEF PatchBytes, DeltaBytes
  <1> HIDE DEF newer, f
  <1>15. QED
    BY <1>4, <1>5, <1>6, <1>10, <1>13, <1>14

\* Answering a query.
LEMMA RepairHandleQuery ==
    ASSUME RepairInv, NEW kept \in Survivals, HandleQuery(kept)
    PROVE  /\ RepairInv'
           /\ Head(net).kind = "query" /\ Draining
           /\ UNCHANGED <<step, phase, turn, beliefs, emitted, querying, wanted, asked>>
           /\ promised' \subseteq promised
  <1> DEFINE m == Head(net)
             bytes == PatchBytes(Cardinality(PatchFor(m)))
  <1>1. /\ Draining /\ m.kind = "query"
        /\ UNCHANGED <<step, phase, turn, beliefs, emitted, control, policy, outbox,
                       regional, querying, wanted, asked>>
    BY DEF HandleQuery, deliveryVars
  <1>2. \/ /\ net' = Tail(net)
           /\ UNCHANGED <<data, promised>>
        \/ /\ data' = AnswerPaid(data, m.to, bytes)
           /\ net' = AnswerQueued(data, m.to, bytes, kept, Patch(m))
           /\ promised' \subseteq promised
    BY DEF HandleQuery
  <1>3. /\ m \in SoundPackets /\ m.to \in Robots /\ QueueOK(Tail(net), SoundPackets)
        /\ Due /\ querying = FALSE /\ wanted = {}
    BY <1>1, RepairHead
  <1> HIDE DEF m
  <1>4. Patch(m) \in SoundPackets /\ Patch(m).wait = Delay /\ bytes \in Nat
    BY <1>1, <1>3, PatchFacts
  <1> HIDE DEF bytes
  <1>5. data' \in [Robots -> 0 .. DataCap] /\ QueueOK(net', SoundPackets)
    <2>1. /\ AnswerPaid(data, m.to, bytes) \in [Robots -> 0 .. DataCap]
          /\ QueueOK(AnswerQueued(data, m.to, bytes, kept, Patch(m)), SoundPackets)
      BY <1>3, <1>4, QueueAnswer, RepairTypes, RepairPackets, LoopAssumption
    <2>2. QED
      BY <1>2, <1>3, <2>1, RepairTypes
  <1>6. HonestReports' /\ OutboxHonest' /\ policy' = "one_shot" /\ SoundPackets' = SoundPackets
    BY <1>1, RepairQuiet
  <1>7. LoopTypeOK'
    BY <1>1, <1>5, RepairTypes DEF LoopTypeOK
  <1>8. promised' \subseteq promised
    BY <1>2
  <1>9. RepairInv'
    BY <1>1, <1>3, <1>5, <1>6, <1>7, <1>8, RepairTypes, PromisesTyped, RepairAssembles
       DEF PromiseTypes
  <1>10. QED
    BY <1>1, <1>8, <1>9 DEF m

\* Taking a patch in.
LEMMA RepairHandlePatch ==
    ASSUME RepairInv, HandlePatch
    PROVE  /\ RepairInv'
           /\ Sharing!Learn(Head(net).to)
           /\ Head(net).kind = "patch" /\ Draining /\ net' = Tail(net)
           /\ \A u \in Head(net).updates : AtLeast(beliefs'[Head(net).to][u.cell], u.stamp)
           /\ UNCHANGED <<step, phase, turn, emitted, data, querying, wanted, asked, promised>>
  <1> DEFINE m == Head(net)
             belief == Patched(beliefs[m.to], m.updates)
  <1>1. /\ Draining /\ m.kind = "patch"
        /\ beliefs' = [beliefs EXCEPT ![m.to] = belief]
        /\ net' = Tail(net)
        /\ UNCHANGED <<step, phase, turn, emitted, data, control, policy, outbox,
                       regional, querying, wanted, asked, promised>>
    BY DEF HandlePatch, deliveryVars, queryVars
  <1>2. /\ m \in SoundPackets /\ m.to \in Robots /\ QueueOK(Tail(net), SoundPackets)
        /\ querying = FALSE /\ wanted = {}
    BY <1>1, RepairHead
  <1>3. SoundPatch(m)
    BY <1>1, <1>2 DEF SoundPackets
  <1>4. m.updates \in SUBSET Update /\ m.updates \subseteq emitted
    BY <1>3, RepairTypes DEF SoundPatch
  <1>5. beliefs[m.to] \in [Cells -> Stamp]
    BY <1>2, RepairTypes
  <1> HIDE DEF m
  <1>6. /\ belief \in [Cells -> Stamp]
        /\ \A c \in Cells :
               \/ belief[c] = beliefs[m.to][c]
               \/ /\ StampLess(beliefs[m.to][c], belief[c])
                  /\ [cell |-> c, stamp |-> belief[c]] \in emitted
        /\ \A u \in m.updates : AtLeast(belief[u.cell], u.stamp)
    BY <1>3, <1>4, <1>5, PatchedFacts DEF SoundPatch
  <1> HIDE DEF belief
  <1>7. beliefs' \in [Robots -> [Cells -> Stamp]] /\ Sharing!Learn(m.to)
    BY <1>1, <1>2, <1>6, RepairTypes, LearnImplements
  <1>8. HonestReports' /\ Grows /\ emitted \subseteq emitted'
    BY <1>2, <1>7, RepairTypes, SharingStep DEF Sharing!Next
  <1>9. SoundPackets \subseteq SoundPackets'
    BY <1>7, <1>8, PacketsStaySound
  <1>10. QueueOK(net', SoundPackets')
    BY <1>1, <1>2, <1>9, QueueWidens
  <1>11. OutboxHonest'
    BY <1>1, RepairTypes DEF OutboxHonest
  <1>12. LoopTypeOK'
    BY <1>1, <1>7, RepairTypes DEF LoopTypeOK
  <1>13. RepairInv'
    BY <1>1, <1>2, <1>8, <1>10, <1>11, <1>12, RepairTypes, PromisesTyped, RepairAssembles
       DEF PromiseTypes
  <1>14. beliefs'[m.to] = belief
    BY <1>1, <1>2, RepairTypes
  <1>15. QED
    BY <1>1, <1>6, <1>7, <1>13, <1>14 DEF m

\* A sound packet stays one as its wait runs down.
LEMMA PacketWaits ==
    ASSUME NEW m \in SoundPackets, m.wait > 0
    PROVE  LET n == [m EXCEPT !.wait = @ - 1] IN
           /\ n \in SoundPackets
           /\ n.wait = m.wait - 1 /\ n.kind = m.kind /\ n.from = m.from /\ n.to = m.to
           /\ m.kind = "query" => n.entries = m.entries
           /\ m.kind = "patch" => n.updates = m.updates
  <1> DEFINE n == [m EXCEPT !.wait = @ - 1]
  <1>1. m \in Packet \cup QueryPacket /\ m.wait - 1 \in Nat
    BY RepairPackets
  <1>2. /\ n \in Packet \cup QueryPacket /\ n.wait = m.wait - 1
        /\ n.kind = m.kind /\ n.from = m.from /\ n.to = m.to
        /\ m.kind = "delta" => n.update = m.update /\ n.keyed = m.keyed
        /\ m.kind = "query" => n.entries = m.entries
        /\ m.kind = "patch" => n.updates = m.updates
    BY <1>1 DEF Packet, QueryPacket
  <1> HIDE DEF n
  <1>3. n \in SoundPackets
    BY <1>2 DEF SoundPackets, SoundQuery, SoundPatch
  <1>4. QED
    BY <1>2, <1>3 DEF n

\* The clock advances.
LEMMA RepairTick ==
    ASSUME RepairInv, Tick
    PROVE  /\ RepairInv'
           /\ EndStep
           /\ Len(net') = Len(net)
           /\ \A i \in 1 .. Len(net) :
                  net'[i] = [net[i] EXCEPT !.wait = @ - 1] /\ net[i].wait > 0
           /\ promised' = {[x EXCEPT !.left = @ - 1] : x \in {y \in promised : y.left > 0}}
           /\ UNCHANGED <<turn, beliefs, emitted, querying, wanted, asked>>
  <1>1. /\ EndStep
        /\ promised' = {[x EXCEPT !.left = @ - 1] : x \in {y \in promised : y.left > 0}}
        /\ UNCHANGED <<policy, outbox, tried, regional, querying, wanted, asked>>
    BY DEF Tick, deliveryVars
  <1>2. phase = "settle" /\ UNCHANGED <<turn, beliefs, emitted>>
    BY <1>1 DEF EndStep
  <1>3. LoopTypeOK'
    BY <1>1, RepairTypes, EndStepTypes
  <1>4. querying = FALSE /\ wanted = {}
    BY <1>2, Idle
  <1>5. HonestReports' /\ OutboxHonest' /\ policy' = "one_shot" /\ SoundPackets' = SoundPackets
    BY <1>1, <1>2, RepairQuiet
  <1>6. /\ QueueOK(net', SoundPackets)
        /\ Len(net') = Len(net)
        /\ \A i \in 1 .. Len(net) :
               net'[i] = [net[i] EXCEPT !.wait = @ - 1] /\ net[i].wait > 0
    BY <1>1, RepairTypes, RepairPackets, PacketWaits, QueueTicks
  <1>7. PromiseTypes'
    <2>1. SUFFICES ASSUME NEW x \in promised, x.left > 0
                   PROVE  [x EXCEPT !.left = @ - 1] \in
                              [from : Robots, to : Robots, cell : Cells, stamp : Stamp,
                               left : 0 .. 2 * Delay]
      BY <1>1 DEF PromiseTypes
    <2>2. x \in [from : Robots, to : Robots, cell : Cells, stamp : Stamp, left : 0 .. 2 * Delay]
      BY PromisesTyped DEF PromiseTypes
    <2>3. x.left - 1 \in 0 .. 2 * Delay
      BY <2>1, <2>2, LoopAssumption
    <2>4. QED
      BY <2>2, <2>3
  <1>8. RepairInv'
    BY <1>1, <1>3, <1>4, <1>5, <1>6, <1>7, RepairTypes, RepairAssembles DEF PromiseTypes
  <1>9. QED
    BY <1>1, <1>2, <1>6, <1>8

-----------------------------------------------------------------------------
\* Whatever the budget and the delay are.

LEMMA RepairStep ==
    ASSUME RepairInv, [RepairNext]_allVars
    PROVE  RepairInv' /\ [Sharing!Next]_(Sharing!sharingVars)
  <1>1. CASE EndArrivals /\ UNCHANGED <<deliveryVars, queryVars>>
    BY <1>1, RepairEndArrivals DEF EndArrivals, Sharing!sharingVars
  <1>2. ASSUME NEW r \in Robots, NEW w \in Shown(r), Sense(r, w), UNCHANGED queryVars
        PROVE  RepairInv' /\ Sharing!Next
    BY <1>2, RepairSense DEF Sharing!Next
  <1>3. ASSUME NEW s \in Robots, NEW t \in outbox[s], NEW kept \in Survivals, SendDelta(s, t, kept)
        PROVE  RepairInv' /\ UNCHANGED <<beliefs, emitted>>
    BY <1>3, RepairSendDelta
  <1>4. ASSUME NEW s \in Robots, EndDeltas(s)
        PROVE  RepairInv' /\ UNCHANGED <<beliefs, emitted>>
    BY <1>4, RepairEndDeltas
  <1>5. CASE SkipDeltas
    BY <1>5, RepairSkipDeltas DEF Sharing!sharingVars
  <1>6. ASSUME NEW q \in Robots, NEW cells \in QuerySets[q], Choose(q, cells)
        PROVE  RepairInv' /\ UNCHANGED <<beliefs, emitted>>
    BY <1>6, RepairChoose
  <1>7. ASSUME NEW q \in Robots, NEW p \in Robots, NEW kept \in Survivals, Ask(q, p, kept)
        PROVE  RepairInv' /\ UNCHANGED <<beliefs, emitted>>
    BY <1>7, RepairAsk
  <1>8. ASSUME NEW q \in Robots, EndAsking(q)
        PROVE  RepairInv' /\ UNCHANGED <<beliefs, emitted>>
    BY <1>8, RepairEndAsking
  <1>9. ASSUME NEW kept \in Survivals, HandleDelta(kept), UNCHANGED queryVars
        PROVE  RepairInv' /\ Sharing!Next
    <2>1. RepairInv' /\ Sharing!Learn(Head(net).to) /\ Head(net).to \in Robots
      BY <1>9, RepairHandleDelta, RepairHead
    <2>2. QED
      BY <2>1 DEF Sharing!Next
  <1>10. ASSUME NEW kept \in Survivals, HandleQuery(kept)
         PROVE  RepairInv' /\ UNCHANGED <<beliefs, emitted>>
    BY <1>10, RepairHandleQuery
  <1>11. CASE HandlePatch
    <2>1. RepairInv' /\ Sharing!Learn(Head(net).to) /\ Head(net).to \in Robots
      BY <1>11, RepairHandlePatch, RepairHead
    <2>2. QED
      BY <2>1 DEF Sharing!Next
  <1>12. CASE Tick
    BY <1>12, RepairTick DEF Sharing!sharingVars
  <1>13. CASE UNCHANGED allVars
    BY <1>13, RepairStutter DEF allVars, vars, loopVars, Sharing!sharingVars
  <1>14. QED
    BY <1>1, <1>2, <1>3, <1>4, <1>5, <1>6, <1>7, <1>8, <1>9, <1>10, <1>11, <1>12, <1>13
       DEF RepairNext, Sharing!sharingVars

\* For every budget, delay, schedule of teammates and family of questions: the
\* packets under way name what their senders have and what was reported, and no
\* query or answer overdraws a ledger.
THEOREM RepairInvariance == RepairSpec => []RepairInv
  <1>1. RepairInit => RepairInv
    BY RepairInitEstablishes
  <1>2. RepairInv /\ [RepairNext]_allVars => RepairInv'
    BY RepairStep
  <1>3. QED
    BY <1>1, <1>2, PTL DEF RepairSpec

\* The types, and with them both ledgers: queries never overdraw the control
\* budget, nor the patches the data budget they share with the deltas.
THEOREM RepairTypeCorrect == RepairSpec => []RepairTypeOK
  <1>1. RepairInv => RepairTypeOK
    BY DEF RepairInv
  <1>2. QED
    BY <1>1, RepairInvariance, PTL

\* Repair by query implements the abstract map sharing: no replica moves
\* backwards or takes a stamp nobody reported, for a regional sync as well.
THEOREM RepairRefinement == RepairSpec => RepairImplementsSharing
  <1>1. RepairInit => Sharing!Init
    BY LoopStarts DEF RepairInit, Init
  <1>2. RepairInv /\ [RepairNext]_allVars => [Sharing!Next]_(Sharing!sharingVars)
    BY RepairStep
  <1>3. QED
    BY <1>1, <1>2, RepairInvariance, PTL
       DEF RepairSpec, RepairImplementsSharing, ImplementsSharing, Sharing!Spec

-----------------------------------------------------------------------------
\* The packets that a queue carries, under sending, handling and the clock.

Carried(q) == {q[i] : i \in 1 .. Len(q)}

LEMMA CarriedSent ==
    ASSUME NEW S, NEW q \in Seq(S), NEW m \in S, NEW kept
    PROVE  /\ Carried(q) \subseteq Carried(q \o Sent(kept, m))
           /\ Carried(q \o Sent(kept, m)) \subseteq Carried(q) \cup {m}
           /\ kept => m \in Carried(q \o Sent(kept, m))
  <1> DEFINE n == q \o Sent(kept, m)
  <1>1. /\ n \in Seq(S)
        /\ Len(n) \in {Len(q), Len(q) + 1} /\ Len(q) \in Nat
        /\ \A i \in 1 .. Len(q) : n[i] = q[i]
        /\ Len(n) = Len(q) + 1 => n[Len(n)] = m
    BY SentAppends
  <1>2. kept => Len(n) = Len(q) + 1
    BY DEF Sent
  <1> HIDE DEF n
  <1>3. \A i \in 1 .. Len(n) : n[i] \in Carried(q) \cup {m}
    <2>1. SUFFICES ASSUME NEW i \in 1 .. Len(n) PROVE n[i] \in Carried(q) \cup {m}
      OBVIOUS
    <2>2. CASE i \in 1 .. Len(q)
      BY <1>1, <2>2 DEF Carried
    <2>3. CASE i \notin 1 .. Len(q)
      <3>1. Len(n) = Len(q) + 1 /\ i = Len(n)
        BY <1>1, <2>3
      <3>2. QED
        BY <1>1, <3>1
    <2>4. QED
      BY <2>2, <2>3
  <1>4. \A i \in 1 .. Len(q) : i \in 1 .. Len(n) /\ n[i] = q[i]
    BY <1>1
  <1>5. kept => Len(n) \in 1 .. Len(n) /\ n[Len(n)] = m
    BY <1>1, <1>2
  <1>6. QED
    BY <1>3, <1>4, <1>5 DEF Carried, n

LEMMA CarriedTail ==
    ASSUME NEW S, NEW q \in Seq(S), q # <<>>
    PROVE  /\ Head(q) \in Carried(q)
           /\ Carried(Tail(q)) \subseteq Carried(q)
           /\ Carried(q) \subseteq {Head(q)} \cup Carried(Tail(q))
  <1>1. /\ Head(q) = q[1] /\ Len(q) >= 1 /\ Len(q) \in Nat /\ Len(Tail(q)) = Len(q) - 1
        /\ \A i \in 1 .. Len(Tail(q)) : Tail(q)[i] = q[i + 1]
    BY TailShifts
  <1>2. \A i \in 1 .. Len(Tail(q)) : i + 1 \in 1 .. Len(q)
    BY <1>1
  <1>3. ASSUME NEW i \in 1 .. Len(q) PROVE q[i] \in {Head(q)} \cup Carried(Tail(q))
    <2>1. CASE i = 1
      BY <1>1, <2>1
    <2>2. CASE i # 1
      <3>1. i - 1 \in 1 .. Len(Tail(q)) /\ Tail(q)[i - 1] = q[(i - 1) + 1] /\ (i - 1) + 1 = i
        BY <1>1, <2>2
      <3>2. QED
        BY <3>1 DEF Carried
    <2>3. QED
      BY <2>1, <2>2
  <1>4. 1 \in 1 .. Len(q)
    BY <1>1
  <1>5. QED
    BY <1>1, <1>2, <1>3, <1>4 DEF Carried

\* A packet joins that is not the twin of one under way.
LEMMA NoTwinsSent ==
    ASSUME NEW S, NEW q \in Seq(S), NEW m \in S, NEW kept, NoTwins(q),
           \A x \in Carried(q) : ~Twins(x, m)
    PROVE  NoTwins(q \o Sent(kept, m))
  <1> DEFINE n == q \o Sent(kept, m)
  <1>1. /\ Len(n) \in {Len(q), Len(q) + 1} /\ Len(q) \in Nat
        /\ \A i \in 1 .. Len(q) : n[i] = q[i]
        /\ Len(n) = Len(q) + 1 => n[Len(n)] = m
    BY SentAppends
  <1> HIDE DEF n
  <1>2. \A i \in 1 .. Len(q) : n[i] \in Carried(q)
    BY <1>1 DEF Carried
  <1>3. ASSUME NEW i \in 1 .. Len(n), NEW j \in 1 .. Len(n), Twins(n[i], n[j])
        PROVE  i = j
    <2>1. CASE i \in 1 .. Len(q) /\ j \in 1 .. Len(q)
      <3>1. n[i] = q[i] /\ n[j] = q[j]
        BY <1>1, <2>1
      <3>2. QED
        BY <1>3, <2>1, <3>1 DEF NoTwins
    <2>2. CASE i \in 1 .. Len(q) /\ j \notin 1 .. Len(q)
      <3>1. n[j] = m
        BY <1>1, <2>2
      <3>2. QED
        BY <1>2, <1>3, <2>2, <3>1
    <2>3. CASE i \notin 1 .. Len(q) /\ j \in 1 .. Len(q)
      <3>1. n[i] = m /\ Twins(n[j], n[i])
        BY <1>1, <1>3, <2>3 DEF Twins
      <3>2. QED
        BY <1>2, <2>3, <3>1
    <2>4. CASE i \notin 1 .. Len(q) /\ j \notin 1 .. Len(q)
      BY <1>1, <2>4
    <2>5. QED
      BY <2>1, <2>2, <2>3, <2>4
  <1>4. QED
    BY <1>3 DEF NoTwins, n

\* The head of a queue is no twin of what follows it.
LEMMA NoTwinsTail ==
    ASSUME NEW S, NEW q \in Seq(S), q # <<>>, NoTwins(q)
    PROVE  NoTwins(Tail(q)) /\ \A x \in Carried(Tail(q)) : ~Twins(Head(q), x)
  <1>1. /\ Head(q) = q[1] /\ Len(q) >= 1 /\ Len(q) \in Nat /\ Len(Tail(q)) = Len(q) - 1
        /\ \A i \in 1 .. Len(Tail(q)) : Tail(q)[i] = q[i + 1]
    BY TailShifts
  <1>2. \A i \in 1 .. Len(Tail(q)) : i + 1 \in 1 .. Len(q) /\ i + 1 # 1
    BY <1>1
  <1>3. 1 \in 1 .. Len(q)
    BY <1>1
  <1>4. \A i \in 1 .. Len(Tail(q)) : ~Twins(Head(q), Tail(q)[i])
    BY <1>1, <1>2, <1>3 DEF NoTwins
  <1>5. ASSUME NEW i \in 1 .. Len(Tail(q)), NEW j \in 1 .. Len(Tail(q)), Twins(Tail(q)[i], Tail(q)[j])
        PROVE  i = j
    <2>1. i + 1 = j + 1
      BY <1>1, <1>2, <1>5 DEF NoTwins
    <2>2. QED
      BY <2>1
  <1>6. QED
    BY <1>4, <1>5 DEF NoTwins, Carried

\* When the head of a queue is not due, nothing is.
LEMMA NothingIsDue ==
    ASSUME NEW S, QueueOK(net, S), ~Due, \A x \in S : x.wait \in Nat
    PROVE  \A m \in InTransit : m.wait > 0
  <1>1. net \in Seq(S) /\ Len(net) \in Nat
    BY DEF QueueOK
  <1>2. SUFFICES ASSUME NEW i \in 1 .. Len(net) PROVE net[i].wait > 0
    BY DEF InTransit
  <1>3. net # <<>> /\ Head(net) = net[1] /\ 1 \in 1 .. Len(net)
    BY <1>1, <1>2
  <1>4. net[1].wait \in Nat /\ net[1].wait # 0 /\ net[i].wait \in Nat
    BY <1>1, <1>2, <1>3 DEF Due
  <1>5. net[1].wait <= net[i].wait
    BY <1>2, <1>3 DEF QueueOK
  <1>6. QED
    BY <1>4, <1>5

-----------------------------------------------------------------------------
\* The round trip, when answers fit.

LEMMA TimelyFacts ==
    ASSUME TimelyInv
    PROVE  /\ RepairInv /\ NoTwins(net) /\ DrainedByNow
           /\ QueueOK(net, SoundPackets) /\ net \in Seq(SoundPackets)
           /\ InTransit = Carried(net) /\ InTransit \subseteq SoundPackets
           /\ \A m \in InTransit : m.wait \in Nat /\ m.from \in Robots /\ m.to \in Robots
           /\ PromiseTypes
  <1>1. RepairInv /\ NoTwins(net) /\ DrainedByNow /\ QueueOK(net, SoundPackets)
    BY RepairTypes DEF TimelyInv
  <1>2. net \in Seq(SoundPackets)
    BY <1>1 DEF QueueOK
  <1>3. InTransit = Carried(net) /\ InTransit \subseteq SoundPackets
    BY <1>2 DEF InTransit, Carried
  <1>4. QED
    BY <1>1, <1>2, <1>3, RepairPackets, PromisesTyped

\* A drain in which something is due is the first one of the step.
LEMMA DrainsOnArrival ==
    ASSUME TimelyInv, Draining
    PROVE  phase = "arrivals" /\ Due
  BY DEF Draining, TimelyInv, DrainedByNow

\* A promise stays kept while replicas move forward, if the packet that it
\* counted on has delivered or has a successor.
LEMMA PromiseCarries ==
    ASSUME TimelyInv, beliefs' \in [Robots -> [Cells -> Stamp]], Grows,
           NEW x \in promised,
           \A m \in InTransit : Asking(x, m) \/ Bringing(x, m) =>
               \/ AtLeast(beliefs'[x.to][x.cell], x.stamp)
               \/ \E n \in InTransit' : Asking(x, n) \/ Bringing(x, n)
    PROVE  PromiseKept(x)'
  <1>1. SUFFICES /\ AtLeast(beliefs'[x.from][x.cell], x.stamp)
                 /\ \/ AtLeast(beliefs'[x.to][x.cell], x.stamp)
                    \/ \E n \in InTransit' : Asking(x, n) \/ Bringing(x, n)
    BY DEF PromiseKept, Asking, Bringing
  <1>2. /\ x.from \in Robots /\ x.to \in Robots /\ x.cell \in Cells /\ x.stamp \in Stamp
    BY TimelyFacts DEF PromiseTypes
  <1>3. /\ AtLeast(beliefs[x.from][x.cell], x.stamp)
        /\ \/ AtLeast(beliefs[x.to][x.cell], x.stamp)
           \/ \E m \in InTransit : Asking(x, m) \/ Bringing(x, m)
    BY DEF TimelyInv, PromisesKept, PromiseKept
  <1>4. beliefs \in [Robots -> [Cells -> Stamp]]
    BY TimelyFacts, RepairTypes
  <1>5. AtLeast(beliefs'[x.from][x.cell], x.stamp)
    BY <1>2, <1>3, <1>4, StillKnown
  <1>6. CASE AtLeast(beliefs[x.to][x.cell], x.stamp)
    BY <1>2, <1>4, <1>5, <1>6, StillKnown
  <1>7. CASE \E m \in InTransit : Asking(x, m) \/ Bringing(x, m)
    BY <1>5, <1>7
  <1>8. QED
    BY <1>3, <1>6, <1>7

\* A query that waits the full delay is remembered as long as its step lasts.
LEMMA StillThisStep ==
    ASSUME TimelyInv,
           \A m \in InTransit' : (m.kind = "query" /\ m.wait = Delay) => m \in InTransit,
           \A m \in InTransit : (m.kind = "query" /\ m.wait = Delay) =>
               \/ phase' = "settle"
               \/ /\ phase' = "dispatch" /\ querying'
                  /\ m.from < turn' \/ (m.from = turn' /\ m.to \in asked')
    PROVE  SentThisStep'
  BY DEF SentThisStep

\* The steps that leave the queue alone.
LEMMA TimelyQuiet ==
    ASSUME TimelyInv, RepairInv', UNCHANGED net, Grows, promised' \subseteq promised,
           phase' = "arrivals" => UNCHANGED <<phase, data>>,
           phase = "arrivals" => phase' = "arrivals" \/ ~Due,
           \A m \in InTransit : (m.kind = "query" /\ m.wait = Delay) =>
               \/ phase' = "settle"
               \/ /\ phase' = "dispatch" /\ querying'
                  /\ m.from < turn' \/ (m.from = turn' /\ m.to \in asked')
    PROVE  TimelyInv'
  <1>1. InTransit' = InTransit /\ NoTwins(net')
    BY TimelyFacts DEF InTransit
  <1>2. DrainedByNow'
    BY DEF TimelyInv, DrainedByNow, Due
  <1>3. SentThisStep'
    BY <1>1, StillThisStep
  <1>4. AnswersFunded'
    <2>1. CASE phase' = "arrivals"
      <3>1. phase = "arrivals" /\ UNCHANGED data /\ \A p : Askers(p)' = Askers(p)
        BY <1>1, <2>1 DEF Askers
      <3>2. QED
        BY <3>1 DEF TimelyInv, AnswersFunded
    <2>2. QED
      BY <2>1 DEF AnswersFunded
  <1>5. PromisesKept'
    <2>1. beliefs' \in [Robots -> [Cells -> Stamp]]
      BY DEF RepairInv, RepairTypeOK, LoopTypeOK
    <2>2. \A x \in promised' : PromiseKept(x)'
      BY <1>1, <2>1, PromiseCarries
    <2>3. QED
      BY <2>2 DEF PromisesKept
  <1>6. NoTwins(net)'
    BY <1>1 DEF NoTwins
  <1>7. QED
    BY <1>2, <1>3, <1>4, <1>5, <1>6 DEF TimelyInv

\* Sending in the dispatch phase.
LEMMA TimelySend ==
    ASSUME AnswersFit, TimelyInv, RepairInv', NEW m \in SoundPackets, m.wait = Delay, NEW kept,
           net' = net \o Sent(kept, m), UNCHANGED beliefs,
           phase = "dispatch" /\ phase' = "dispatch",
           \A x \in InTransit : ~Twins(x, m), SentThisStep', PromisesKept'
    PROVE  TimelyInv'
  <1>1. net \in Seq(SoundPackets) /\ NoTwins(net) /\ ~Due /\ InTransit = Carried(net)
    BY TimelyFacts DEF DrainedByNow
  <1>2. NoTwins(net')
    BY <1>1, NoTwinsSent
  <1>3. ~Due'
    <2>1. SUFFICES ASSUME net' # <<>> PROVE Head(net').wait # 0
      BY DEF Due
    <2>2. Delay # 0
      BY LoopAssumption DEF AnswersFit
    <2>3. CASE net = <<>>
      <3>1. net' = <<m>>
        BY <2>1, <2>3 DEF Sent
      <3>2. QED
        BY <2>2, <3>1
    <2>4. CASE net # <<>>
      <3>1. Head(net') = Head(net)
        BY <1>1, <2>4 DEF Sent
      <3>2. QED
        BY <1>1, <2>4, <3>1 DEF Due
    <2>5. QED
      BY <2>3, <2>4
  <1>4. DrainedByNow' /\ AnswersFunded'
    BY <1>3 DEF DrainedByNow, AnswersFunded
  <1>5. NoTwins(net)'
    BY <1>2 DEF NoTwins
  <1>6. QED
    BY <1>4, <1>5 DEF TimelyInv

\* No query waits the full delay before the step's queries begin.
LEMMA NoneYet ==
    ASSUME TimelyInv, phase \in {"arrivals", "sense"} \/ (phase = "dispatch" /\ querying = FALSE)
    PROVE  \A m \in InTransit : ~(m.kind = "query" /\ m.wait = Delay)
  BY DEF TimelyInv, SentThisStep

LEMMA TimelyEndArrivals ==
    ASSUME TimelyInv, EndArrivals, UNCHANGED <<deliveryVars, queryVars>>
    PROVE  TimelyInv'
  <1>1. RepairInv'
    BY RepairEndArrivals, TimelyFacts
  <1>2. /\ phase = "arrivals" /\ phase' = "sense" /\ ~Due
        /\ UNCHANGED <<beliefs, net, promised>>
    BY DEF EndArrivals, queryVars
  <1>3. QED
    BY <1>1, <1>2, NoneYet, UnchangedGrows, TimelyQuiet

LEMMA TimelySense ==
    ASSUME TimelyInv, NEW r \in Robots, NEW w \in Shown(r), Sense(r, w), UNCHANGED queryVars
    PROVE  TimelyInv'
  <1>1. RepairInv' /\ Sharing!Look(r)
    BY RepairSense, TimelyFacts
  <1>2. Grows
    BY <1>1, TimelyFacts, RepairTypes, SharingStep DEF Sharing!Next
  <1>3. /\ phase = "sense" /\ phase' \in {"sense", "dispatch"}
        /\ UNCHANGED <<net, promised>>
    BY DEF Sense, Observe, PassTurn, queryVars
  <1>4. QED
    BY <1>1, <1>2, <1>3, NoneYet, TimelyQuiet

LEMMA TimelyEndDeltas ==
    ASSUME TimelyInv, NEW s \in Robots, EndDeltas(s)
    PROVE  TimelyInv'
  <1>1. /\ RepairInv'
        /\ phase = "dispatch" /\ phase' = "dispatch" /\ querying = FALSE
        /\ UNCHANGED <<beliefs, net, promised>>
    BY RepairEndDeltas, TimelyFacts
  <1>2. QED
    BY <1>1, NoneYet, UnchangedGrows, TimelyQuiet

LEMMA TimelySkipDeltas ==
    ASSUME TimelyInv, SkipDeltas
    PROVE  TimelyInv'
  <1>1. RepairInv' /\ UNCHANGED <<phase, beliefs, net, data, promised>>
    BY RepairSkipDeltas, TimelyFacts
  <1>2. phase = "dispatch" /\ querying = FALSE
    BY TimelyFacts, Idle DEF SkipDeltas
  <1>3. QED
    BY <1>1, <1>2, NoneYet, UnchangedGrows, TimelyQuiet

LEMMA TimelyChoose ==
    ASSUME TimelyInv, NEW q \in Robots, NEW cells \in QuerySets[q], Choose(q, cells)
    PROVE  TimelyInv'
  <1>1. /\ RepairInv'
        /\ UNCHANGED <<phase, turn, beliefs, net, data, asked, promised, querying>>
    BY RepairChoose, TimelyFacts
  <1>2. \A m \in InTransit : (m.kind = "query" /\ m.wait = Delay) =>
            \/ phase = "settle"
            \/ /\ phase = "dispatch" /\ querying
               /\ m.from < turn \/ (m.from = turn /\ m.to \in asked)
    BY DEF TimelyInv, SentThisStep
  <1>3. phase = "dispatch"
    BY DEF Choose
  <1>4. QED
    BY <1>1, <1>2, <1>3, UnchangedGrows, TimelyQuiet

LEMMA TimelyEndAsking ==
    ASSUME TimelyInv, NEW q \in Robots, EndAsking(q)
    PROVE  TimelyInv'
  <1>1. /\ RepairInv'
        /\ phase = "dispatch" /\ querying /\ turn = q /\ PassTurn(q, "settle")
        /\ querying' = (q # NumRobots - 1)
        /\ UNCHANGED <<beliefs, net, promised>>
    BY RepairEndAsking, TimelyFacts
  <1>2. \/ phase' = "settle"
        \/ phase' = "dispatch" /\ querying' /\ turn' = q + 1
    BY <1>1 DEF PassTurn
  <1>3. \A m \in InTransit : (m.kind = "query" /\ m.wait = Delay) =>
            m.from \in Robots /\ (m.from < q \/ m.from = q)
    BY <1>1, TimelyFacts DEF TimelyInv, SentThisStep
  <1>4. \A i \in Robots : i < q \/ i = q => i < q + 1
    BY LoopAssumption DEF Robots
  <1>5. \A m \in InTransit : (m.kind = "query" /\ m.wait = Delay) =>
            phase' = "settle" \/ (phase' = "dispatch" /\ querying' /\ m.from < turn')
    BY <1>2, <1>3, <1>4
  <1>6. QED
    BY <1>1, <1>2, <1>5, UnchangedGrows, TimelyQuiet

LEMMA TimelyStutter ==
    ASSUME TimelyInv, UNCHANGED allVars
    PROVE  TimelyInv'
  <1>1. RepairInv'
    BY RepairStutter, TimelyFacts
  <1>2. UNCHANGED <<phase, turn, beliefs, net, data, querying, asked, promised>>
    BY DEF allVars, vars, loopVars, queryVars
  <1>3. \A m \in InTransit : (m.kind = "query" /\ m.wait = Delay) =>
            \/ phase = "settle"
            \/ /\ phase = "dispatch" /\ querying
               /\ m.from < turn \/ (m.from = turn /\ m.to \in asked)
    BY DEF TimelyInv, SentThisStep
  <1>4. phase = "arrivals" => phase' = "arrivals"
    BY <1>2
  <1>5. QED
    BY <1>1, <1>2, <1>3, <1>4, UnchangedGrows, TimelyQuiet

\* A delta joins: none of the earlier packets is touched.
LEMMA TimelySendDelta ==
    ASSUME AnswersFit, TimelyInv, NEW s \in Robots, NEW t \in outbox[s], NEW kept \in Survivals,
           SendDelta(s, t, kept)
    PROVE  TimelyInv'
  <1> DEFINE m == Delta(s, t)
  <1>1. /\ RepairInv'
        /\ net' = net \o Sent(kept, m) /\ m \in SoundPackets
        /\ m.kind = "delta" /\ m.wait = Delay
        /\ phase = "dispatch" /\ phase' = "dispatch" /\ querying = FALSE
        /\ UNCHANGED <<beliefs, promised>>
    BY RepairSendDelta, TimelyFacts
  <1> HIDE DEF m
  <1>2. Carried(net) \subseteq Carried(net') /\ Carried(net') \subseteq Carried(net) \cup {m}
    BY <1>1, TimelyFacts, CarriedSent
  <1>3. InTransit' = Carried(net')
    BY DEF InTransit, Carried
  <1>4. SentThisStep'
    BY <1>1, <1>2, <1>3, NoneYet, TimelyFacts, StillThisStep
  <1>5. beliefs' \in [Robots -> [Cells -> Stamp]]
    BY <1>1, TimelyFacts, RepairTypes
  <1>6. \A x \in promised' : PromiseKept(x)'
    BY <1>1, <1>2, <1>3, <1>5, TimelyFacts, UnchangedGrows, PromiseCarries
  <1>7. \A x \in InTransit : ~Twins(x, m)
    BY <1>1 DEF Twins
  <1>8. PromisesKept'
    BY <1>6 DEF PromisesKept
  <1>9. QED
    BY <1>1, <1>4, <1>7, <1>8, TimelySend

\* A question joins: it has no twin, as its receiver was not asked before, and
\* it is what the new promises count on.
LEMMA TimelyAsk ==
    ASSUME AnswersFit, TimelyInv, NEW q \in Robots, NEW p \in Robots, NEW kept \in Survivals,
           Ask(q, p, kept)
    PROVE  TimelyInv'
  <1> DEFINE m == Query(q, p)
             new == {[from |-> p, to |-> q, cell |-> c, stamp |-> beliefs[p][c],
                      left |-> 2 * Delay] : c \in wanted}
  <1>1. /\ RepairInv'
        /\ net' = net \o Sent(kept, m) /\ m \in SoundPackets
        /\ phase = "dispatch" /\ querying /\ turn = q /\ p \notin asked
        /\ asked' = asked \cup {p}
        /\ promised' \subseteq promised \cup new
        /\ ~kept => promised' = promised
        /\ UNCHANGED <<phase, turn, beliefs, querying, wanted>>
    BY RepairAsk, TimelyFacts
  <1>2. /\ m.kind = "query" /\ m.from = q /\ m.to = p /\ m.wait = Delay
        /\ m.entries = {[cell |-> c, stamp |-> beliefs[q][c]] : c \in wanted}
    BY DEF Query
  <1> HIDE DEF m, new
  <1>3. /\ Carried(net) \subseteq Carried(net') /\ Carried(net') \subseteq Carried(net) \cup {m}
        /\ kept => m \in Carried(net')
    BY <1>1, TimelyFacts, CarriedSent
  <1>4. InTransit' = Carried(net') /\ InTransit = Carried(net)
    BY TimelyFacts DEF InTransit, Carried
  <1>5. SentThisStep'
    <2>1. SUFFICES ASSUME NEW n \in InTransit', n.kind = "query", n.wait = Delay
                   PROVE  n.from < turn' \/ (n.from = turn' /\ n.to \in asked')
      BY <1>1 DEF SentThisStep
    <2>2. CASE n = m
      BY <1>1, <1>2, <2>2
    <2>3. CASE n \in InTransit
      BY <1>1, <2>1, <2>3 DEF TimelyInv, SentThisStep
    <2>4. QED
      BY <1>3, <1>4, <2>2, <2>3
  <1>6. \A x \in InTransit : ~Twins(x, m)
    <2>1. SUFFICES ASSUME NEW x \in InTransit, Twins(x, m) PROVE FALSE
      OBVIOUS
    <2>2. x.kind = "query" /\ x.wait = Delay /\ x.from = q /\ x.to = p
      BY <1>2, <2>1 DEF Twins
    <2>3. q < q \/ p \in asked
      BY <1>1, <2>1, <2>2 DEF TimelyInv, SentThisStep
    <2>4. QED
      BY <1>1, <2>3 DEF Robots
  <1>7. beliefs' \in [Robots -> [Cells -> Stamp]]
    BY <1>1, TimelyFacts, RepairTypes
  <1>8. ASSUME NEW x \in promised PROVE PromiseKept(x)'
    BY <1>1, <1>3, <1>4, <1>7, UnchangedGrows, PromiseCarries
  <1>9. ASSUME NEW x \in new, kept PROVE PromiseKept(x)'
    <2>1. PICK c \in wanted : x = [from |-> p, to |-> q, cell |-> c, stamp |-> beliefs[p][c],
                                   left |-> 2 * Delay]
      BY DEF new
    <2>2. AtLeast(beliefs'[x.from][x.cell], x.stamp)
      BY <1>1, <2>1 DEF AtLeast
    <2>3. \E e \in m.entries : e.cell = x.cell
      <3>1. [cell |-> c, stamp |-> beliefs[q][c]] \in m.entries
        BY <1>2
      <3>2. [cell |-> c, stamp |-> beliefs[q][c]].cell = x.cell
        BY <2>1
      <3>3. QED
        BY <3>1, <3>2
    <2>4. Asking(x, m)
      BY <1>2, <2>1, <2>3, LoopAssumption DEF Asking
    <2>5. m \in InTransit'
      BY <1>3, <1>4, <1>9
    <2>6. QED
      BY <2>2, <2>4, <2>5 DEF PromiseKept, Asking, Bringing
  <1>10. \A x \in promised' : PromiseKept(x)'
    BY <1>1, <1>8, <1>9
  <1>11. PromisesKept'
    BY <1>10 DEF PromisesKept
  <1>12. QED
    BY <1>1, <1>2, <1>5, <1>6, <1>11, TimelySend

-----------------------------------------------------------------------------
\* The answers are paid for.

\* What fits a number of times fits the share of each.
LEMMA ShareFits ==
    ASSUME NEW bytes \in Nat, NEW n \in Nat \ {0}, NEW cap \in Nat, bytes * n <= cap
    PROVE  bytes <= cap \div n
  <1> DEFINE share == cap \div n
  <1>1. share \in Nat /\ cap < n * share + n
    BY Division
  <1> HIDE DEF share
  <1>2. SUFFICES ASSUME bytes >= share + 1 PROVE FALSE
    BY <1>1 DEF share
  <1>3. \A a, b, c \in Nat : a >= b => a * c >= b * c
    OBVIOUS
  <1>4. bytes * n >= (share + 1) * n
    BY <1>1, <1>2, <1>3
  <1>5. (share + 1) * n = n * share + n
    BY <1>1
  <1>6. bytes * n \in Nat /\ n * share \in Nat
    BY <1>1
  <1>7. QED
    BY <1>1, <1>4, <1>5, <1>6

\* Who asks a robot is another robot of the team.
LEMMA TeammatesFacts ==
    ASSUME NEW p \in Robots, NEW A \in SUBSET (Robots \ {p})
    PROVE  /\ IsFiniteSet(A) /\ Cardinality(A) \in Nat /\ Cardinality(A) <= NumRobots - 1
           /\ A # {} => NumRobots - 1 \in Nat \ {0}
  <1>1. IsFiniteSet(Robots) /\ Cardinality(Robots) = NumRobots
    BY FS_Interval, LoopAssumption DEF Robots
  <1>2. IsFiniteSet(Robots \ {p}) /\ Cardinality(Robots \ {p}) = NumRobots - 1
    BY <1>1, FS_RemoveElement
  <1>3. IsFiniteSet(A) /\ Cardinality(A) \in Nat /\ Cardinality(A) <= NumRobots - 1
    BY <1>2, FS_Subset, FS_CardinalityType
  <1>4. ASSUME A # {} PROVE NumRobots - 1 \in Nat \ {0}
    <2>1. PICK q \in Robots : q # p
      BY <1>4
    <2>2. QED
      BY <2>1, LoopAssumption DEF Robots
  <1>5. QED
    BY <1>3, <1>4

LEMMA AskersFacts ==
    ASSUME TimelyInv, NEW p \in Robots
    PROVE  Askers(p) \in SUBSET (Robots \ {p})
  BY TimelyFacts DEF Askers, SoundPackets

\* The answer to a query takes no more than the share of its sender.
LEMMA AnswerWithinShare ==
    ASSUME AnswersFit, TimelyInv, NEW m \in InTransit, m.kind = "query"
    PROVE  /\ PatchShare \in Nat
           /\ PatchBytes(Cardinality(PatchFor(m))) \in Nat
           /\ PatchBytes(Cardinality(PatchFor(m))) <= PatchShare
  <1>1. /\ m \in SoundPackets /\ m.from \in Robots /\ m.to \in Robots
    BY TimelyFacts
  <1>2. /\ SoundQuery(m) /\ m.from # m.to
    BY <1>1 DEF SoundPackets
  <1>3. PICK cells \in QuerySets[m.from] : Cardinality(m.entries) <= Cardinality(cells)
    BY <1>2 DEF SoundQuery
  <1>4. NumRobots - 1 \in Nat \ {0}
    BY <1>1, <1>2, LoopAssumption DEF Robots
  <1>5. Cardinality(cells) \in Nat
    BY <1>1, CellsFinite, QueryAssumption
  <1>6. /\ Cardinality(PatchFor(m)) \in Nat /\ Cardinality(PatchFor(m)) <= Cardinality(m.entries)
        /\ PatchBytes(Cardinality(PatchFor(m))) \in Nat
    BY <1>1, TimelyFacts, PatchFacts
  <1>7. Cardinality(m.entries) \in Nat
    BY <1>2, FS_CardinalityType DEF SoundQuery
  <1>8. /\ PatchBytes(Cardinality(cells)) \in Nat
        /\ PatchBytes(Cardinality(PatchFor(m))) <= PatchBytes(Cardinality(cells))
    BY <1>3, <1>5, <1>6, <1>7 DEF PatchBytes, DeltaBytes
  <1>9. PatchBytes(Cardinality(cells)) * (NumRobots - 1) <= DataCap
    BY <1>1, <1>3 DEF AnswersFit
  <1>10. PatchBytes(Cardinality(cells)) <= PatchShare
    BY <1>4, <1>8, <1>9, ShareFits, LoopAssumption DEF PatchShare
  <1>11. PatchShare \in Nat
    BY <1>4, Division, LoopAssumption DEF PatchShare
  <1>12. QED
    BY <1>6, <1>8, <1>10, <1>11

\* A full ledger covers an answer to every teammate.
LEMMA FundedAtFirst ==
    ASSUME NEW p \in Robots, NEW A \in SUBSET (Robots \ {p}), A # {}
    PROVE  PatchShare * Cardinality(A) <= DataCap
  <1> DEFINE n == NumRobots - 1
             k == Cardinality(A)
  <1>1. k \in Nat /\ k <= n /\ n \in Nat \ {0} /\ DataCap \in Nat
    BY TeammatesFacts, LoopAssumption
  <1> HIDE DEF n, k
  <1>2. PatchShare \in Nat /\ n * PatchShare <= DataCap
    BY <1>1, Division DEF PatchShare, n
  <1>3. \A a, b, c \in Nat : b <= c => a * b <= c * a /\ a * b \in Nat /\ c * a \in Nat
    OBVIOUS
  <1>4. PatchShare * k <= n * PatchShare /\ PatchShare * k \in Nat /\ n * PatchShare \in Nat
    BY <1>1, <1>2, <1>3
  <1>5. QED
    BY <1>1, <1>2, <1>4 DEF k

\* The ledger still covers the rest once somebody's answer is paid for, and
\* nobody's if fewer wait for the same money.
LEMMA FundedAfter ==
    ASSUME NEW p \in Robots, NEW A \in SUBSET (Robots \ {p}), NEW B \in SUBSET A, B # {},
           NEW left \in Nat, PatchShare * Cardinality(A) <= left
    PROVE  /\ PatchShare * Cardinality(B) <= left
           /\ PatchShare <= left
           /\ \A q \in A \ B : \A bytes \in 0 .. PatchShare :
                  PatchShare * Cardinality(B) <= left - bytes
  <1>1. /\ IsFiniteSet(A) /\ Cardinality(A) \in Nat /\ Cardinality(B) \in Nat
        /\ Cardinality(B) <= Cardinality(A) /\ NumRobots - 1 \in Nat \ {0}
    BY TeammatesFacts, FS_Subset
  <1>2. PatchShare \in Nat
    BY <1>1, Division, LoopAssumption DEF PatchShare
  <1>3. \A a, b, c \in Nat : b <= c => a * b <= a * c /\ a * b \in Nat /\ a * c \in Nat
    OBVIOUS
  <1>4. PatchShare * Cardinality(B) <= PatchShare * Cardinality(A)
    BY <1>1, <1>2, <1>3
  <1>5. Cardinality(B) # 0
    BY <1>1, FS_Subset, FS_EmptySet
  <1>6. PatchShare * 1 <= PatchShare * Cardinality(B)
    BY <1>1, <1>2, <1>3, <1>5
  <1>7. ASSUME NEW q \in A \ B, NEW bytes \in 0 .. PatchShare
        PROVE  PatchShare * Cardinality(B) <= left - bytes
    <2>1. IsFiniteSet(A \ {q}) /\ Cardinality(A \ {q}) = Cardinality(A) - 1
      BY <1>1, FS_RemoveElement
    <2>2. B \in SUBSET (A \ {q})
      OBVIOUS
    <2>3. Cardinality(B) + 1 <= Cardinality(A)
      BY <1>1, <2>1, <2>2, FS_Subset
    <2>4. PatchShare * (Cardinality(B) + 1) <= PatchShare * Cardinality(A)
      BY <1>1, <1>2, <1>3, <2>3
    <2>5. PatchShare * (Cardinality(B) + 1) = PatchShare * Cardinality(B) + PatchShare
      BY <1>1, <1>2
    <2>6. /\ PatchShare * Cardinality(B) \in Nat /\ PatchShare * Cardinality(A) \in Nat
          /\ bytes \in Nat /\ bytes <= PatchShare
      BY <1>1, <1>2, <1>3
    <2>7. QED
      BY <1>2, <2>4, <2>5, <2>6
  <1>8. PatchShare * Cardinality(B) \in Nat /\ PatchShare * Cardinality(A) \in Nat
    BY <1>1, <1>2, <1>3
  <1>9. QED
    BY <1>2, <1>4, <1>6, <1>7, <1>8

-----------------------------------------------------------------------------
\* The handlers: they run in the first drain of a step only.

LEMMA TimelyHandled ==
    ASSUME TimelyInv, RepairInv', Draining, UNCHANGED phase, NoTwins(net'),
           \A m \in InTransit' : m.kind = "query" => m \in InTransit,
           AnswersFunded', PromisesKept'
    PROVE  TimelyInv'
  <1>1. phase' = "arrivals" /\ phase = "arrivals"
    BY DrainsOnArrival
  <1>2. DrainedByNow'
    BY <1>1 DEF DrainedByNow
  <1>3. SentThisStep'
    BY <1>1, NoneYet, StillThisStep
  <1>4. NoTwins(net)'
    BY DEF NoTwins
  <1>5. QED
    BY <1>2, <1>3, <1>4 DEF TimelyInv

\* Where nobody asks anew, and nobody's ledger pays, the answers stay funded.
LEMMA FundedWithout ==
    ASSUME TimelyInv, Draining, NEW p \in Robots, NEW left \in Nat, left = data[p],
           NEW B \in SUBSET Askers(p), B # {}
    PROVE  PatchShare * Cardinality(B) <= left
  <1>1. Askers(p) # {} /\ Askers(p) \in SUBSET (Robots \ {p})
    BY AskersFacts
  <1>2. PatchShare * Cardinality(Askers(p)) <= left
    BY <1>1, DrainsOnArrival DEF TimelyInv, AnswersFunded
  <1>3. QED
    BY <1>1, <1>2, FundedAfter

\* A packet that is no query is taken from the queue, and no ledger pays.
LEMMA TimelyTaken ==
    ASSUME TimelyInv, RepairInv', Draining, net' = Tail(net), UNCHANGED <<phase, data>>,
           PromisesKept'
    PROVE  TimelyInv'
  <1>1. net # <<>> /\ net \in Seq(SoundPackets) /\ NoTwins(net) /\ InTransit = Carried(net)
    BY DrainsOnArrival, TimelyFacts DEF Due
  <1>2. NoTwins(net') /\ InTransit' = Carried(net') /\ InTransit' \subseteq InTransit
    BY <1>1, NoTwinsTail, CarriedTail DEF InTransit, Carried
  <1>3. \A p \in Robots : Askers(p)' \in SUBSET Askers(p)
    BY <1>2 DEF Askers
  <1>4. ASSUME NEW p \in Robots, Askers(p)' # {}
        PROVE  PatchShare * Cardinality(Askers(p)') <= data'[p]
    <2>1. data'[p] \in Nat /\ data'[p] = data[p]
      BY TimelyFacts, RepairTypes, LoopAssumption
    <2>2. QED
      BY <1>3, <1>4, <2>1, FundedWithout
  <1>5. AnswersFunded'
    BY <1>4 DEF AnswersFunded, PatchShare
  <1>6. QED
    BY <1>2, <1>5, TimelyHandled

LEMMA TimelyHandleDelta ==
    ASSUME TimelyInv, NEW kept \in Survivals, HandleDelta(kept), UNCHANGED queryVars
    PROVE  TimelyInv'
  <1>1. /\ RepairInv' /\ Sharing!Learn(Head(net).to)
        /\ Head(net).kind = "delta" /\ Draining /\ net' = Tail(net)
        /\ UNCHANGED <<phase, data, promised>>
    BY TimelyFacts, RepairHandleDelta
  <1>2. Grows
    BY <1>1, TimelyFacts, RepairTypes, RepairHead, SharingStep DEF Sharing!Next
  <1>3. beliefs' \in [Robots -> [Cells -> Stamp]]
    BY <1>1 DEF RepairInv, RepairTypeOK, LoopTypeOK
  <1>4. net # <<>> /\ net \in Seq(SoundPackets) /\ InTransit = Carried(net)
    BY <1>1, DrainsOnArrival, TimelyFacts DEF Due
  <1>5. InTransit' = Carried(Tail(net)) /\ InTransit \subseteq {Head(net)} \cup Carried(Tail(net))
    BY <1>1, <1>4, CarriedTail DEF InTransit, Carried
  <1>6. \A x, m : Asking(x, m) \/ Bringing(x, m) => m.kind # "delta"
    BY DEF Asking, Bringing
  <1>7. \A x \in promised' : PromiseKept(x)'
    BY <1>1, <1>2, <1>3, <1>5, <1>6, PromiseCarries
  <1>8. PromisesKept'
    BY <1>7 DEF PromisesKept
  <1>9. QED
    BY <1>1, <1>8, TimelyTaken

\* A patch brings what it promised.
LEMMA TimelyHandlePatch ==
    ASSUME TimelyInv, HandlePatch
    PROVE  TimelyInv'
  <1> DEFINE m == Head(net)
  <1>1. /\ RepairInv' /\ Sharing!Learn(m.to)
        /\ m.kind = "patch" /\ Draining /\ net' = Tail(net)
        /\ \A u \in m.updates : AtLeast(beliefs'[m.to][u.cell], u.stamp)
        /\ UNCHANGED <<phase, emitted, data, promised>>
    BY TimelyFacts, RepairHandlePatch
  <1>2. Grows
    BY <1>1, TimelyFacts, RepairTypes, RepairHead, SharingStep DEF Sharing!Next
  <1>3. beliefs' \in [Robots -> [Cells -> Stamp]]
    BY <1>1 DEF RepairInv, RepairTypeOK, LoopTypeOK
  <1>4. net # <<>> /\ net \in Seq(SoundPackets) /\ InTransit = Carried(net)
    BY <1>1, DrainsOnArrival, TimelyFacts DEF Due
  <1>5. InTransit' = Carried(Tail(net)) /\ InTransit \subseteq {m} \cup Carried(Tail(net))
    BY <1>1, <1>4, CarriedTail DEF InTransit, Carried
  <1>6. m \in SoundPackets /\ m.updates \subseteq Update
    BY <1>1, TimelyFacts, RepairHead, RepairPackets
  <1> HIDE DEF m
  <1>7. ASSUME NEW x \in promised', Asking(x, m) \/ Bringing(x, m)
        PROVE  AtLeast(beliefs'[x.to][x.cell], x.stamp)
    <2>1. PICK u \in m.updates : u.cell = x.cell /\ AtLeast(u.stamp, x.stamp)
      BY <1>1, <1>7 DEF Asking, Bringing
    <2>2. m.to = x.to
      BY <1>1, <1>7 DEF Asking, Bringing
    <2>3. x.to \in Robots /\ x.cell \in Cells /\ x.stamp \in Stamp
      BY <1>1, <1>7, TimelyFacts DEF PromiseTypes
    <2>4. AtLeast(beliefs'[x.to][x.cell], u.stamp) /\ u.stamp \in Stamp
      BY <1>1, <1>6, <2>1, <2>2 DEF Update
    <2>5. beliefs'[x.to][x.cell] \in Stamp
      BY <1>3, <2>3
    <2>6. QED
      BY <2>1, <2>3, <2>4, <2>5, AtLeastTransitive
  <1>8. \A x \in promised' : PromiseKept(x)'
    BY <1>1, <1>2, <1>3, <1>5, <1>7, PromiseCarries
  <1>9. PromisesKept'
    BY <1>8 DEF PromisesKept
  <1>10. QED
    BY <1>1, <1>9, TimelyTaken

\* What the answer to a query leaves out its sender has no need of.
LEMMA LeftOutIsKnown ==
    ASSUME TimelyInv, NEW m \in InTransit, m.kind = "query", NEW e \in m.entries,
           ~(\E u \in PatchFor(m) : u.cell = e.cell)
    PROVE  AtLeast(beliefs[m.from][e.cell], beliefs[m.to][e.cell])
  <1> DEFINE mine == beliefs[m.from][e.cell]
             theirs == beliefs[m.to][e.cell]
  <1>1. /\ m \in SoundPackets /\ m.from \in Robots /\ m.to \in Robots /\ m.entries \subseteq Update
    BY TimelyFacts, RepairPackets
  <1>2. e.cell \in Cells /\ e.stamp \in Stamp
    BY <1>1 DEF Update
  <1>3. mine \in Stamp /\ theirs \in Stamp /\ HonestReports /\ emitted \subseteq Update
    BY <1>1, <1>2, TimelyFacts, RepairTypes
  <1>4. AtLeast(mine, e.stamp)
    BY <1>1 DEF SoundPackets, SoundQuery
  <1>5. ~(Known(theirs) /\ StampLess(e.stamp, theirs))
    <2>1. SUFFICES ASSUME Known(theirs), StampLess(e.stamp, theirs)
                   PROVE  [cell |-> e.cell, stamp |-> theirs] \in PatchFor(m)
      OBVIOUS
    <2>2. QED
      BY <2>1 DEF PatchFor
  <1>6. CASE Known(theirs)
    <2>1. AtLeast(e.stamp, theirs)
      BY <1>2, <1>3, <1>5, <1>6, StampLessTotal DEF AtLeast
    <2>2. QED
      BY <1>2, <1>3, <1>4, <2>1, AtLeastTransitive
  <1>7. CASE ~Known(theirs)
    <2>1. theirs = InitialStamp
      <3>1. SUFFICES ASSUME [cell |-> e.cell, stamp |-> theirs] \in emitted PROVE FALSE
        BY <1>1, <1>2, <1>3 DEF HonestReports, Legitimate
      <3>2. theirs.state = Truth[e.cell]
        BY <1>3, <3>1 DEF HonestReports
      <3>3. Truth[e.cell] # UNKNOWN
        BY <1>2, LoopAssumption DEF SensedState, FREE, BLOCKED, UNKNOWN
      <3>4. QED
        BY <1>7, <3>2, <3>3 DEF Known
    <2>2. mine = InitialStamp \/ mine.version > 0
      BY <1>1, <1>2, <1>3 DEF HonestReports, Legitimate
    <2> HIDE DEF mine, theirs
    <2>3. AtLeast(mine, InitialStamp)
      BY <1>3, <2>2 DEF AtLeast, StampLess, InitialStamp, Stamp
    <2>4. QED
      BY <2>1, <2>3 DEF mine, theirs
  <1>8. QED
    BY <1>6, <1>7

\* What answering a query does to the queue and the ledgers: the answer fits.
LEMMA AnswerIsSent ==
    ASSUME AnswersFit, TimelyInv, NEW kept \in Survivals, HandleQuery(kept)
    PROVE  LET m == Head(net)
               bytes == PatchBytes(Cardinality(PatchFor(m)))
           IN  \/ /\ PatchFor(m) = {} /\ net' = Tail(net) /\ UNCHANGED <<data, promised>>
               \/ /\ net' = Tail(net) \o Sent(kept, Patch(m))
                  /\ data' = [data EXCEPT ![m.to] = @ - bytes]
                  /\ promised' = IF kept THEN promised ELSE promised \ PromisedBy(m)
                  /\ bytes \in 0 .. PatchShare
  <1> DEFINE m == Head(net)
             bytes == PatchBytes(Cardinality(PatchFor(m)))
  <1>1. Draining /\ m.kind = "query"
    BY DEF HandleQuery
  <1>2. \/ PatchFor(m) = {} /\ net' = Tail(net) /\ UNCHANGED <<data, promised>>
        \/ /\ data' = AnswerPaid(data, m.to, bytes)
           /\ net' = AnswerQueued(data, m.to, bytes, kept, Patch(m))
           /\ promised' = IF kept THEN promised ELSE promised \ PromisedBy(m)
    BY DEF HandleQuery
  <1>3. net # <<>> /\ net \in Seq(SoundPackets) /\ InTransit = Carried(net)
    BY <1>1, DrainsOnArrival, TimelyFacts DEF Due
  <1>4. m \in InTransit /\ m.wait = 0 /\ m.from \in Robots /\ m.to \in Robots
    BY <1>1, <1>3, CarriedTail, RepairHead, TimelyFacts
  <1> HIDE DEF m
  <1>5. PatchShare \in Nat /\ bytes \in Nat /\ bytes <= PatchShare
    BY <1>1, <1>4, AnswerWithinShare
  <1>6. m.from \in Askers(m.to)
    BY <1>1, <1>4 DEF Askers
  <1>7. data[m.to] \in Nat
    BY <1>4, TimelyFacts, RepairTypes, LoopAssumption
  <1>8. PatchShare <= data[m.to]
    <2>1. Askers(m.to) \in SUBSET (Robots \ {m.to}) /\ Askers(m.to) # {}
      BY <1>4, <1>6, AskersFacts
    <2>2. PatchShare * Cardinality(Askers(m.to)) <= data[m.to]
      BY <1>1, <1>4, <2>1, DrainsOnArrival DEF TimelyInv, AnswersFunded
    <2>3. QED
      BY <1>4, <1>7, <2>1, <2>2, FundedAfter
  <1> HIDE DEF bytes
  <1>9. CanSpend(data[m.to], bytes)
    BY <1>5, <1>7, <1>8 DEF CanSpend
  <1>10. \/ PatchFor(m) = {} /\ net' = Tail(net) /\ UNCHANGED <<data, promised>>
         \/ /\ net' = Tail(net) \o Sent(kept, Patch(m))
            /\ data' = [data EXCEPT ![m.to] = @ - bytes]
            /\ promised' = IF kept THEN promised ELSE promised \ PromisedBy(m)
            /\ bytes \in 0 .. PatchShare
    BY <1>2, <1>5, <1>9 DEF AnswerPaid, AnswerQueued
  <1>11. QED
    BY <1>10 DEF m, bytes

\* A query is answered: the requester now counts on the answer, or has what it
\* asked for, or the answer was lost and with it the promise.
LEMMA TimelyHandleQuery ==
    ASSUME AnswersFit, TimelyInv, NEW kept \in Survivals, HandleQuery(kept)
    PROVE  TimelyInv'
  <1> DEFINE m == Head(net)
             bytes == PatchBytes(Cardinality(PatchFor(m)))
  <1>1. /\ RepairInv' /\ m.kind = "query" /\ Draining
        /\ UNCHANGED <<phase, beliefs>> /\ promised' \subseteq promised
    BY TimelyFacts, RepairHandleQuery
  <1>2. /\ net # <<>> /\ net \in Seq(SoundPackets) /\ InTransit = Carried(net) /\ NoTwins(net)
        /\ phase = "arrivals"
    BY <1>1, DrainsOnArrival, TimelyFacts DEF Due
  <1>3. /\ m \in InTransit /\ m \in SoundPackets /\ m.wait = 0
        /\ m.from \in Robots /\ m.to \in Robots
    BY <1>1, <1>2, CarriedTail, RepairHead, TimelyFacts
  <1>4. \/ PatchFor(m) = {} /\ net' = Tail(net) /\ UNCHANGED <<data, promised>>
        \/ /\ net' = Tail(net) \o Sent(kept, Patch(m))
           /\ data' = [data EXCEPT ![m.to] = @ - bytes]
           /\ promised' = IF kept THEN promised ELSE promised \ PromisedBy(m)
           /\ bytes \in 0 .. PatchShare
    BY AnswerIsSent
  <1>5. /\ Tail(net) \in Seq(SoundPackets) /\ NoTwins(Tail(net))
        /\ \A x \in Carried(Tail(net)) : ~Twins(m, x)
        /\ Carried(Tail(net)) \subseteq InTransit
        /\ InTransit \subseteq {m} \cup Carried(Tail(net))
    BY <1>2, TailShifts, NoTwinsTail, CarriedTail
  <1> HIDE DEF m
  <1>6. Patch(m) \in SoundPackets /\ Patch(m).kind = "patch" /\ Patch(m).wait = Delay
        /\ Patch(m).to = m.from /\ Patch(m).updates = PatchFor(m)
    BY <1>1, <1>3, TimelyFacts, PatchFacts
  <1> HIDE DEF bytes
  <1>7. InTransit' = Carried(net')
    BY DEF InTransit, Carried
  <1>8. /\ Carried(Tail(net)) \subseteq InTransit'
        /\ InTransit' \subseteq Carried(Tail(net)) \cup {Patch(m)}
    <2>1. CASE net' = Tail(net)
      BY <1>7, <2>1
    <2>2. CASE net' = Tail(net) \o Sent(kept, Patch(m))
      BY <1>5, <1>6, <1>7, <2>2, CarriedSent
    <2>3. QED
      BY <1>4, <2>1, <2>2
  <1>9. NoTwins(net')
    <2>1. \A x \in Carried(Tail(net)) : ~Twins(x, Patch(m))
      BY <1>6 DEF Twins
    <2>2. NoTwins(Tail(net) \o Sent(kept, Patch(m)))
      BY <1>5, <1>6, <2>1, NoTwinsSent
    <2>3. QED
      BY <1>4, <1>5, <2>2
  <1>10. \A n \in InTransit' : n.kind = "query" => n \in Carried(Tail(net))
    BY <1>6, <1>8
  <1>11. \A p \in Robots : Askers(p)' \in SUBSET Askers(p)
    BY <1>5, <1>10 DEF Askers
  <1>12. /\ m.from \in Askers(m.to)
         /\ \A p \in Robots : p = m.to => m.from \notin Askers(p)'
    <2>1. \A n \in Carried(Tail(net)) :
              ~(n.kind = "query" /\ n.wait = 0 /\ n.from = m.from /\ n.to = m.to)
      BY <1>1, <1>3, <1>5 DEF Twins
    <2>2. QED
      <3>1. m.from \in Askers(m.to)
        BY <1>1, <1>3 DEF Askers
      <3>2. ASSUME NEW p \in Robots, p = m.to PROVE m.from \notin Askers(p)'
        BY <1>10, <2>1, <3>2 DEF Askers
      <3>3. QED
        BY <3>1, <3>2
  <1>13. ASSUME NEW p \in Robots, Askers(p)' # {}
         PROVE  PatchShare * Cardinality(Askers(p)') <= data'[p]
    <2>1. /\ data[p] \in Nat /\ data \in [Robots -> 0 .. DataCap]
          /\ Askers(p) \in SUBSET (Robots \ {p}) /\ Askers(p) # {}
      BY <1>11, <1>13, TimelyFacts, RepairTypes, LoopAssumption, AskersFacts
    <2>2. PatchShare * Cardinality(Askers(p)) <= data[p]
      BY <1>2, <2>1 DEF TimelyInv, AnswersFunded
    <2>3. CASE data'[p] = data[p]
      BY <1>11, <1>13, <2>1, <2>2, <2>3, FundedAfter
    <2>4. CASE data'[p] # data[p]
      <3>1. p = m.to /\ data'[p] = data[p] - bytes /\ bytes \in 0 .. PatchShare
        BY <1>3, <1>4, <2>1, <2>4
      <3>2. m.from \in Askers(p) \ Askers(p)'
        BY <1>12, <3>1
      <3>3. QED
        BY <1>11, <1>13, <2>1, <2>2, <3>1, <3>2, FundedAfter
    <2>5. QED
      BY <2>3, <2>4
  <1>14. AnswersFunded'
    BY <1>13 DEF AnswersFunded, PatchShare
  <1>15. ASSUME NEW x \in promised', Asking(x, m)
         PROVE  \/ AtLeast(beliefs'[x.to][x.cell], x.stamp)
                \/ \E n \in InTransit' : Asking(x, n) \/ Bringing(x, n)
    <2>1. PICK e \in m.entries : e.cell = x.cell
      BY <1>15 DEF Asking
    <2>2. /\ m.from = x.to /\ m.to = x.from /\ x.left = Delay
          /\ x \in promised /\ x.from \in Robots /\ x.to \in Robots /\ x.cell \in Cells
          /\ x.stamp \in Stamp
      BY <1>1, <1>3, <1>15, TimelyFacts, LoopAssumption DEF Asking, PromiseTypes
    <2>3. /\ AtLeast(beliefs[x.from][x.cell], x.stamp)
          /\ beliefs[x.from][x.cell] \in Stamp /\ beliefs[x.to][x.cell] \in Stamp
      BY <2>2, TimelyFacts, RepairTypes DEF TimelyInv, PromisesKept, PromiseKept
    <2>4. CASE \E u \in PatchFor(m) : u.cell = e.cell
      <3>1. PICK u \in PatchFor(m) : u.cell = e.cell
        BY <2>4
      <3>2. u.stamp = beliefs[m.to][u.cell]
        BY DEF PatchFor
      <3>3. /\ net' = Tail(net) \o Sent(kept, Patch(m))
            /\ promised' = IF kept THEN promised ELSE promised \ PromisedBy(m)
        BY <1>4, <3>1
      <3>4. kept
        BY <1>15, <2>2, <3>3 DEF PromisedBy
      <3>5. Patch(m) \in InTransit'
        BY <1>5, <1>6, <1>7, <3>3, <3>4, CarriedSent
      <3>6. Bringing(x, Patch(m))
        <4>1. u.cell = x.cell /\ AtLeast(u.stamp, x.stamp) /\ u \in Patch(m).updates
          BY <1>6, <2>1, <2>2, <2>3, <3>1, <3>2
        <4>2. QED
          BY <1>6, <2>2, <4>1 DEF Bringing
      <3>7. QED
        BY <3>5, <3>6
    <2>5. CASE ~(\E u \in PatchFor(m) : u.cell = e.cell)
      <3>1. AtLeast(beliefs[x.to][x.cell], beliefs[x.from][x.cell])
        BY <1>1, <1>3, <2>1, <2>2, <2>5, LeftOutIsKnown
      <3>2. AtLeast(beliefs[x.to][x.cell], x.stamp)
        BY <2>2, <2>3, <3>1, AtLeastTransitive
      <3>3. QED
        BY <1>1, <3>2
    <2>6. QED
      BY <2>4, <2>5
  <1>16. beliefs' \in [Robots -> [Cells -> Stamp]]
    BY <1>1 DEF RepairInv, RepairTypeOK, LoopTypeOK
  <1>17. \A x : ~Bringing(x, m)
    BY <1>1 DEF Bringing
  <1>18. \A x \in promised' : \A n \in InTransit : Asking(x, n) \/ Bringing(x, n) =>
             \/ AtLeast(beliefs'[x.to][x.cell], x.stamp)
             \/ \E k \in InTransit' : Asking(x, k) \/ Bringing(x, k)
    BY <1>5, <1>8, <1>15, <1>17
  <1>19. \A x \in promised' : PromiseKept(x)'
    BY <1>1, <1>16, <1>18, UnchangedGrows, PromiseCarries
  <1>20. PromisesKept'
    BY <1>19 DEF PromisesKept
  <1>21. \A n \in InTransit' : n.kind = "query" => n \in InTransit
    BY <1>5, <1>10
  <1>22. QED
    BY <1>1, <1>9, <1>14, <1>20, <1>21, TimelyHandled

\* The clock advances: every packet and every promise comes one step nearer.
LEMMA TimelyTick ==
    ASSUME AnswersFit, TimelyInv, Tick
    PROVE  TimelyInv'
  <1>1. /\ RepairInv' /\ EndStep
        /\ Len(net') = Len(net)
        /\ \A i \in 1 .. Len(net) :
               net'[i] = [net[i] EXCEPT !.wait = @ - 1] /\ net[i].wait > 0
        /\ promised' = {[x EXCEPT !.left = @ - 1] : x \in {y \in promised : y.left > 0}}
        /\ UNCHANGED beliefs
    BY TimelyFacts, RepairTick
  <1>2. phase' = "arrivals" /\ data' = [r \in Robots |-> DataCap]
    BY <1>1 DEF EndStep
  <1>3. /\ net \in Seq(SoundPackets) /\ Len(net) \in Nat /\ NoTwins(net)
        /\ \A i \in 1 .. Len(net) : net[i] \in SoundPackets /\ net[i] \in InTransit
    BY TimelyFacts DEF InTransit
  <1>4. ASSUME NEW i \in 1 .. Len(net)
        PROVE  /\ net'[i].wait = net[i].wait - 1 /\ net[i].wait \in Nat /\ net[i].wait > 0
               /\ net'[i].kind = net[i].kind /\ net'[i].from = net[i].from
               /\ net'[i].to = net[i].to
               /\ net[i].kind = "query" => net'[i].entries = net[i].entries
               /\ net[i].kind = "patch" => net'[i].updates = net[i].updates
    BY <1>1, <1>3, RepairPackets, PacketWaits
  <1>5. NoTwins(net')
    <2>1. SUFFICES ASSUME NEW i \in 1 .. Len(net), NEW j \in 1 .. Len(net), Twins(net'[i], net'[j])
                   PROVE  i = j
      BY <1>1 DEF NoTwins
    <2>2. Twins(net[i], net[j])
      BY <1>4, <2>1 DEF Twins
    <2>3. QED
      BY <1>3, <2>2 DEF NoTwins
  <1>6. DrainedByNow'
    BY <1>2 DEF DrainedByNow
  <1>7. SentThisStep'
    <2>1. \A i \in 1 .. Len(net) : net'[i].wait # Delay
      <3>1. SUFFICES ASSUME NEW i \in 1 .. Len(net) PROVE net'[i].wait # Delay
        OBVIOUS
      <3>2. net[i].wait <= Delay
        BY TimelyFacts DEF QueueOK
      <3>3. QED
        BY <1>4, <3>2, LoopAssumption
    <2>2. QED
      BY <1>1, <2>1 DEF SentThisStep, InTransit
  <1>8. ASSUME NEW p \in Robots, Askers(p)' # {}
        PROVE  PatchShare * Cardinality(Askers(p)') <= data'[p]
    <2>1. Askers(p)' \in SUBSET (Robots \ {p})
      <3>1. \A i \in 1 .. Len(net) : net[i].kind = "query" => net[i].from # net[i].to
        BY <1>3 DEF SoundPackets
      <3>2. QED
        BY <1>1, <1>4, <3>1 DEF Askers, InTransit
    <2>2. QED
      BY <1>2, <1>8, <2>1, FundedAtFirst
  <1>9. AnswersFunded'
    BY <1>8 DEF AnswersFunded, PatchShare
  <1>10. ASSUME NEW x \in promised, x.left > 0
         PROVE  PromiseKept([x EXCEPT !.left = @ - 1])'
    <2> DEFINE y == [x EXCEPT !.left = @ - 1]
    <2>1. /\ x.left \in Nat
          /\ x \in [from : Robots, to : Robots, cell : Cells, stamp : Stamp, left : 0 .. 2 * Delay]
      BY TimelyFacts, LoopAssumption DEF PromiseTypes
    <2>2. /\ y.left = x.left - 1 /\ y.from = x.from /\ y.to = x.to /\ y.cell = x.cell
          /\ y.stamp = x.stamp
      BY <2>1
    <2> HIDE DEF y
    <2>3. ASSUME NEW i \in 1 .. Len(net), Asking(x, net[i]) \/ Bringing(x, net[i])
          PROVE  Asking(y, net'[i]) \/ Bringing(y, net'[i])
      <3>1. CASE Asking(x, net[i])
        <4>1. net'[i].wait + Delay = y.left
          BY <1>4, <2>1, <2>2, <3>1, LoopAssumption DEF Asking
        <4>2. QED
          BY <1>4, <2>2, <3>1, <4>1 DEF Asking
      <3>2. CASE Bringing(x, net[i])
        BY <1>4, <2>1, <2>2, <3>2 DEF Bringing
      <3>3. QED
        BY <2>3, <3>1, <3>2
    <2>4. /\ AtLeast(beliefs'[y.from][y.cell], y.stamp)
          /\ \/ AtLeast(beliefs'[y.to][y.cell], y.stamp)
             \/ \E i \in 1 .. Len(net) : Asking(x, net[i]) \/ Bringing(x, net[i])
      BY <1>1, <2>2 DEF TimelyInv, PromisesKept, PromiseKept, InTransit
    <2>5. \/ AtLeast(beliefs'[y.to][y.cell], y.stamp)
          \/ \E n \in InTransit' : Asking(y, n) \/ Bringing(y, n)
      BY <1>1, <2>3, <2>4 DEF InTransit
    <2>6. PromiseKept(y)'
      BY <2>4, <2>5 DEF PromiseKept, Asking, Bringing
    <2>7. QED
      BY <2>6 DEF y
  <1>11. PromisesKept'
    BY <1>1, <1>10 DEF PromisesKept
  <1>12. NoTwins(net)'
    BY <1>5 DEF NoTwins
  <1>13. QED
    BY <1>1, <1>6, <1>7, <1>9, <1>11, <1>12 DEF TimelyInv

-----------------------------------------------------------------------------
\* The round trip.

LEMMA TimelyStarts ==
    ASSUME RepairInit
    PROVE  TimelyInv
  <1>1. RepairInv
    BY RepairInitEstablishes
  <1>2. net = <<>> /\ promised = {}
    BY DEF RepairInit, Init, LoopInit, QueryInit
  <1>3. InTransit = {} /\ Len(net) = 0
    BY <1>2 DEF InTransit
  <1>4. NoTwins(net) /\ ~Due
    BY <1>2, <1>3 DEF NoTwins, Due
  <1>5. QED
    BY <1>1, <1>2, <1>3, <1>4
       DEF TimelyInv, DrainedByNow, SentThisStep, AnswersFunded, Askers, PromisesKept

LEMMA TimelyStep ==
    ASSUME AnswersFit, TimelyInv, [RepairNext]_allVars
    PROVE  TimelyInv'
  BY TimelyEndArrivals, TimelySense, TimelySendDelta, TimelyEndDeltas, TimelySkipDeltas,
     TimelyChoose, TimelyAsk, TimelyEndAsking, TimelyHandleDelta, TimelyHandleQuery,
     TimelyHandlePatch, TimelyTick, TimelyStutter
     DEF RepairNext

\* What is promised for now is there, once the answers of the step are in.
LEMMA PromisesFallDue ==
    ASSUME AnswersFit, TimelyInv
    PROVE  RepairInTime
  <1>1. SUFFICES ASSUME NEW x \in promised, x.left = 0, phase # "arrivals"
                 PROVE  AtLeast(beliefs[x.to][x.cell], x.stamp)
    BY DEF RepairInTime
  <1>2. \A m \in InTransit : m.wait \in Nat /\ m.wait > 0
    BY <1>1, TimelyFacts, NothingIsDue, RepairPackets DEF DrainedByNow
  <1>3. \A m \in InTransit : ~Asking(x, m) /\ ~Bringing(x, m)
    BY <1>1, <1>2, LoopAssumption DEF Asking, Bringing
  <1>4. QED
    BY <1>3 DEF TimelyInv, PromisesKept, PromiseKept

\* The round trip the deadline planners count on, for every team, map, delay
\* and budget that holds one full patch per teammate, and however many deltas
\* compete for the budget: two delays after asking, unless a packet was lost,
\* the robot has what its teammate had when it asked.
THEOREM AnswersComeInTime == RepairSpec => []RepairInTime
  <1>1. CASE AnswersFit
    <2>1. RepairInit => TimelyInv
      BY TimelyStarts
    <2>2. TimelyInv /\ [RepairNext]_allVars => TimelyInv'
      BY <1>1, TimelyStep
    <2>3. TimelyInv => RepairInTime
      BY <1>1, PromisesFallDue
    <2>4. QED
      BY <2>1, <2>2, <2>3, PTL DEF RepairSpec
  <1>2. CASE ~AnswersFit
    <2>1. RepairInTime
      BY <1>2 DEF RepairInTime
    <2>2. QED
      BY <2>1, PTL
  <1>3. QED
    BY <1>1, <1>2

-----------------------------------------------------------------------------
\* A set meets what two scenarios differ in if and only if it tells them apart.
LEMMA MeetsDifference ==
    ASSUME NEW l, NEW r, NEW cells
    PROVE  Difference(l, r) \cap cells # {} <=> l \cap cells # r \cap cells
  BY DEF Difference

\* What the steps of the code compare, for what the robot does: plans differ first
\* in a step no earlier than the round trip if and only if they lead to the same
\* positions until then, and to different ones later.
LEMMA InTimeIsDecidable ==
    ASSUME NEW a, NEW b
    PROVE  InTime(a, b) <=> Decidable(a, b)
  <1>1. CorridorHorizon \in Nat \ {0} /\ RoundTrip \in Nat
    BY CertificateAssumption
  <1>2. \A k \in Steps : k + 1 \in 1 .. CorridorHorizon /\ (k >= RoundTrip <=> ~(k + 1 <= RoundTrip))
    BY <1>1 DEF Steps
  <1>3. \A k \in 1 .. CorridorHorizon :
            k - 1 \in Steps /\ (k - 1) + 1 = k /\ (k - 1 >= RoundTrip <=> ~(k <= RoundTrip))
    BY <1>1 DEF Steps
  <1>4. Alike(a, b) <=> Differing(a, b) = {}
    <2>1. ASSUME Alike(a, b), NEW k \in Differing(a, b)
          PROVE  FALSE
      BY <1>2, <2>1 DEF Alike, Differing
    <2>2. ASSUME Differing(a, b) = {}, NEW k \in 1 .. CorridorHorizon
          PROVE  At(a, k) = At(b, k)
      <3>1. k - 1 \in Steps /\ (k - 1) + 1 = k
        BY <1>3
      <3>2. k - 1 \notin Differing(a, b)
        BY <2>2
      <3>3. At(a, (k - 1) + 1) = At(b, (k - 1) + 1)
        BY <3>1, <3>2 DEF Differing
      <3>4. QED
        BY <3>1, <3>3
    <2>3. QED
      BY <2>1, <2>2 DEF Alike
  <1>5. Together(a, b) <=> \A k \in Differing(a, b) : k >= RoundTrip
    <2>1. ASSUME Together(a, b), NEW k \in Differing(a, b)
          PROVE  k >= RoundTrip
      BY <1>2, <2>1 DEF Together, Differing
    <2>2. ASSUME \A k \in Differing(a, b) : k >= RoundTrip,
                 NEW k \in 1 .. CorridorHorizon, k <= RoundTrip
          PROVE  At(a, k) = At(b, k)
      <3>1. k - 1 \in Steps /\ (k - 1) + 1 = k /\ ~(k - 1 >= RoundTrip)
        BY <1>3, <2>2
      <3>2. k - 1 \notin Differing(a, b)
        BY <2>2, <3>1
      <3>3. At(a, (k - 1) + 1) = At(b, (k - 1) + 1)
        BY <3>1, <3>2 DEF Differing
      <3>4. QED
        BY <3>1, <3>3
    <2>3. QED
      BY <2>1, <2>2 DEF Together
  <1>6. QED
    BY <1>4, <1>5 DEF InTime, Decidable

\* The scenario-separation theorem of docs/CARE_ALGORITHM.md: a query identifies
\* every decision that can still be made if and only if it hits every constraint.
THEOREM HitsIsSeparates ==
    ASSUME NEW cells
    PROVE  Hits(cells) <=> Separates(cells)
  <1>1. ASSUME Hits(cells), NEW l \in Scenarios, NEW r \in Scenarios,
               Decidable(plans[l], plans[r])
        PROVE  l \cap cells # r \cap cells
    <2>1. <<l, r>> \in {p \in Scenarios \X Scenarios : InTime(plans[p[1]], plans[p[2]])}
      BY <1>1, InTimeIsDecidable
    <2>2. Difference(l, r) \in Constraints
      BY <2>1 DEF Constraints
    <2>3. QED
      BY <1>1, <2>2, MeetsDifference DEF Hits
  <1>2. ASSUME Separates(cells), NEW constraint \in Constraints
        PROVE  constraint \cap cells # {}
    <2>1. PICK l \in Scenarios, r \in Scenarios :
            InTime(plans[l], plans[r]) /\ constraint = Difference(l, r)
      BY <1>2 DEF Constraints
    <2>2. QED
      BY <1>2, <2>1, InTimeIsDecidable, MeetsDifference DEF Separates
  <1>3. QED
    BY <1>1, <1>2 DEF Hits, Separates

\* The candidates are as many as their number, and no subset of them has more.
LEMMA CandidatesFinite ==
    /\ IsFiniteSet(Candidates)
    /\ Cardinality(Candidates) = NumCandidates
    /\ \A cells \in SUBSET Candidates :
        IsFiniteSet(cells) /\ Cardinality(cells) \in 0 .. NumCandidates
  <1>1. IsFiniteSet(Candidates) /\ Cardinality(Candidates) = NumCandidates
    BY CertificateAssumption, FS_Interval DEF Candidates
  <1>2. ASSUME NEW cells \in SUBSET Candidates
        PROVE  IsFiniteSet(cells) /\ Cardinality(cells) \in 0 .. NumCandidates
    BY <1>1, FS_Subset, FS_CardinalityType, CertificateAssumption
  <1>3. QED
    BY <1>1, <1>2

\* With a scenario, every scenario with fewer blocked cells is considered.
LEMMA SubScenario ==
    ASSUME NEW s \in Scenarios, NEW cells
    PROVE  s \cap cells \in Scenarios
  <1>1. s \in SUBSET Candidates /\ s \cap cells \in SUBSET Candidates
    BY DEF Scenarios
  <1>2. Cardinality(s \cap cells) <= Cardinality(s)
    BY <1>1, CandidatesFinite, FS_Subset
  <1>3. Cardinality(s \cap cells) \in Int /\ Cardinality(s) \in Int /\ Cardinality(s) <= Order
    BY <1>1, CandidatesFinite DEF Scenarios
  <1>4. QED
    BY <1>1, <1>2, <1>3, CertificateAssumption DEF Scenarios

\* Asking for every candidate separates.
LEMMA AllCandidatesHit == Hits(Candidates)
  <1>1. Separates(Candidates)
    <2>1. SUFFICES ASSUME NEW l \in Scenarios, NEW r \in Scenarios,
                          l \cap Candidates = r \cap Candidates
                   PROVE  ~Decidable(plans[l], plans[r])
      BY DEF Separates
    <2>2. l = r
      BY <2>1 DEF Scenarios
    <2>3. QED
      BY <2>2 DEF Decidable, Alike
  <1>2. QED
    BY <1>1, HitsIsSeparates

-----------------------------------------------------------------------------
\* Nothing is asked before the search ends; the sizes already tried held no
\* hitting set; what was asked for is the first of its size.
SearchInv ==
    /\ \A n \in 0 .. size - 1 : Hitting(n) = {}
    /\ stage = "search" => query = {}
    /\ stage # "search" =>
        /\ query \in Hitting(size)
        /\ \A other \in Hitting(size) \ {query} : Precedes(query, other)

CertificateInv == CertificateTypeOK /\ SearchInv

\* A repair starts with nothing tried and nothing asked.
LEMMA InitCertificate == CertificateInit => CertificateInv
  <1>1. SUFFICES ASSUME CertificateInit PROVE CertificateInv
    OBVIOUS
  <1>2. {} \in Scenarios
    <2>1. Cardinality({}) = 0
      BY FS_EmptySet
    <2>2. QED
      BY <2>1, CertificateAssumption DEF Scenarios
  <1>3. QED
    BY <1>1, <1>2, CertificateAssumption DEF CertificateInit, CertificateInv, CertificateTypeOK, SearchInv

\* Constraints, and with them hitting sets, depend on the plans alone.
LEMMA SamePlans ==
    ASSUME plans' = plans, NEW n
    PROVE  Hitting(n)' = Hitting(n)
  BY DEF Hitting, Hits, Constraints

\* A size without hitting set is not the largest.
LEMMA EnlargeCertificate ==
    ASSUME CertificateInv, Enlarge
    PROVE  CertificateInv'
  <1>1. size # NumCandidates
    <2>1. SUFFICES ASSUME size = NumCandidates PROVE FALSE
      OBVIOUS
    <2>2. Candidates \in Hitting(size)
      BY <2>1, AllCandidatesHit, CandidatesFinite DEF Hitting
    <2>3. QED
      BY <2>2 DEF Enlarge
  <1>2. CertificateTypeOK'
    BY <1>1, CertificateAssumption DEF CertificateInv, CertificateTypeOK, Enlarge
  <1>3. SearchInv'
    <2>1. ASSUME NEW n \in 0 .. size' - 1
          PROVE  Hitting(n)' = {}
      <3>1. n \in 0 .. size - 1 \/ n = size
        BY CertificateAssumption DEF CertificateInv, CertificateTypeOK, Enlarge
      <3>2. Hitting(n) = {}
        BY <3>1 DEF CertificateInv, SearchInv, Enlarge
      <3>3. QED
        BY <3>2, SamePlans DEF Enlarge
    <2>2. stage' = "search" /\ query' = {}
      BY DEF CertificateInv, SearchInv, Enlarge
    <2>3. QED
      BY <2>1, <2>2 DEF SearchInv
  <1>4. QED
    BY <1>2, <1>3 DEF CertificateInv

\* The search ends with the first set of its size.
LEMMA SettleCertificate ==
    ASSUME CertificateInv, Settle
    PROVE  CertificateInv'
  <1>1. PICK cells \in Hitting(size) :
            /\ \A other \in Hitting(size) \ {cells} : Precedes(cells, other)
            /\ query' = cells
    BY DEF Settle
  <1>2. /\ stage' = "asked" /\ size' = size /\ plans' = plans
        /\ truth' = truth /\ answers' = answers
    BY DEF Settle
  <1>3. CertificateTypeOK'
    <2>1. cells \in SUBSET Candidates
      BY DEF Hitting
    <2>2. answers = {}
      BY DEF CertificateInv, CertificateTypeOK, SearchInv, Settle
    <2>3. QED
      BY <1>1, <1>2, <2>1, <2>2 DEF CertificateInv, CertificateTypeOK
  <1>4. SearchInv'
    <2>1. \A n : Hitting(n)' = Hitting(n)
      BY <1>2, SamePlans
    <2>2. QED
      BY <1>1, <1>2, <2>1 DEF CertificateInv, SearchInv, Precedes
  <1>5. QED
    BY <1>3, <1>4 DEF CertificateInv

\* Answers do not change what was asked.
LEMMA AnswerCertificate ==
    ASSUME CertificateInv,
           NEW scenario \in Scenarios, NEW cells \in SUBSET query, Answer(scenario, cells)
    PROVE  CertificateInv'
  <1>1. CertificateTypeOK'
    BY DEF CertificateInv, CertificateTypeOK, Answer
  <1>2. SearchInv'
    <2>1. \A n : Hitting(n)' = Hitting(n)
      BY SamePlans DEF Answer
    <2>2. QED
      BY <2>1 DEF CertificateInv, SearchInv, Answer, Precedes
  <1>3. QED
    BY <1>1, <1>2 DEF CertificateInv

\* Every step of a repair preserves the invariant.
LEMMA NextCertificate == CertificateInv /\ [CertificateNext]_certificateVars => CertificateInv'
  <1>1. SUFFICES ASSUME CertificateInv, [CertificateNext]_certificateVars PROVE CertificateInv'
    OBVIOUS
  <1>2. CASE Enlarge
    BY <1>1, <1>2, EnlargeCertificate
  <1>3. CASE Settle
    BY <1>1, <1>3, SettleCertificate
  <1>4. ASSUME NEW scenario \in Scenarios, NEW cells \in SUBSET query, Answer(scenario, cells)
        PROVE  CertificateInv'
    BY <1>1, <1>4, AnswerCertificate
  <1>5. CASE UNCHANGED certificateVars
    <2>1. \A n : Hitting(n)' = Hitting(n)
      BY <1>5, SamePlans DEF certificateVars
    <2>2. QED
      BY <1>1, <1>5, <2>1 DEF CertificateInv, CertificateTypeOK, SearchInv, certificateVars, Precedes
  <1>6. QED
    BY <1>1, <1>2, <1>3, <1>4, <1>5 DEF CertificateNext, Finished

\* The search keeps to the sizes there are and ends with a separating set.
THEOREM SearchCorrect == CertificateSpec => []CertificateInv
  BY InitCertificate, NextCertificate, PTL DEF CertificateSpec

\* The types of a repair; in particular no conflict is left without a query.
THEOREM CertificateTypes == CertificateSpec => []CertificateTypeOK
  BY SearchCorrect, PTL DEF CertificateInv

-----------------------------------------------------------------------------
\* What is asked for is the first smallest set of candidates that separates.
LEMMA InvMinimum == CertificateInv => Minimum
  <1>1. SUFFICES ASSUME CertificateInv, stage = "asked"
                 PROVE  /\ Separates(query)
                        /\ \A cells \in SUBSET Candidates : Separates(cells) =>
                            \/ Cardinality(query) < Cardinality(cells)
                            \/ Cardinality(query) = Cardinality(cells)
                               /\ (cells = query \/ Precedes(query, cells))
    BY DEF Minimum
  <1>2. query \in Hitting(size) /\ Cardinality(query) = size /\ Hits(query)
    BY <1>1 DEF CertificateInv, SearchInv, Hitting
  <1>3. ASSUME NEW cells \in SUBSET Candidates, Separates(cells)
        PROVE  \/ Cardinality(query) < Cardinality(cells)
               \/ Cardinality(query) = Cardinality(cells)
                  /\ (cells = query \/ Precedes(query, cells))
    <2>1. Cardinality(cells) \in 0 .. NumCandidates /\ size \in 0 .. NumCandidates
      BY <1>1, CandidatesFinite DEF CertificateInv, CertificateTypeOK
    <2>2. cells \in Hitting(Cardinality(cells))
      BY <1>3, HitsIsSeparates DEF Hitting
    <2>3. Cardinality(cells) \notin 0 .. size - 1
      BY <1>1, <2>2 DEF CertificateInv, SearchInv
    <2>4. size < Cardinality(cells) \/ size = Cardinality(cells)
      BY <2>1, <2>3, CertificateAssumption
    <2>5. CASE size = Cardinality(cells)
      BY <1>1, <1>2, <2>2, <2>5 DEF CertificateInv, SearchInv
    <2>6. QED
      BY <1>2, <2>4, <2>5
  <1>4. QED
    BY <1>2, <1>3, HitsIsSeparates

\* The certificate is exact: minimum_scenario_certificate returns the first
\* smallest set of cells whose answers tell the decidable scenarios apart.
THEOREM CertificateMinimum == CertificateSpec => []Minimum
  BY SearchCorrect, InvMinimum, PTL

\* The robot's own view is one of the scenarios it planned for, and a full
\* answer does not tell it from the truth: so their plans agree.
LEMMA InvInformed == CertificateInv => DecisionsInformed
  <1>1. SUFFICES ASSUME CertificateInv, stage = "answered", answers = query
                 PROVE  ~Decidable(plans[View], plans[truth])
    BY DEF DecisionsInformed, Decidable
  <1>2. truth \in Scenarios /\ View \in Scenarios
    BY <1>1, SubScenario DEF CertificateInv, CertificateTypeOK, View
  <1>3. View \cap query = truth \cap query
    BY <1>1 DEF View
  <1>4. Separates(query)
    BY <1>1, HitsIsSeparates DEF CertificateInv, SearchInv, Hitting
  <1>5. QED
    BY <1>2, <1>3, <1>4 DEF Separates

\* A robot whose query is answered in full plans as if it knew the true state
\* of every candidate, unless the two plans part before the answer could come.
THEOREM CertificateInforms == CertificateSpec => []DecisionsInformed
  BY SearchCorrect, InvInformed, PTL

\* With one candidate blocked, the all-free scenario differs in that candidate
\* alone, so a set that tells the two apart must hold it.
LEMMA InvSensitive == CertificateInv => SensitiveAsked
  <1>1. SUFFICES ASSUME CertificateInv, Order > 0, stage # "search",
                        NEW c \in Candidates, InTime(plans[{}], plans[{c}])
                 PROVE  c \in query
    BY DEF SensitiveAsked, SensitiveCells
  <1>2. {} \in Scenarios /\ {c} \in Scenarios
    <2>1. Cardinality({}) = 0 /\ Cardinality({c}) = 1
      BY FS_EmptySet, FS_Singleton
    <2>2. QED
      BY <1>1, <2>1, CertificateAssumption DEF Scenarios
  <1>3. Separates(query)
    BY <1>1, HitsIsSeparates DEF CertificateInv, SearchInv, Hitting
  <1>4. {} \cap query # {c} \cap query
    BY <1>1, <1>2, <1>3, InTimeIsDecidable DEF Separates
  <1>5. QED
    BY <1>4

\* The certificate contains every cell the single-cell baseline asks for, for
\* any candidates, plans and round trip.
THEOREM CertificateCoversSingleCells == CertificateSpec => []SensitiveAsked
  BY SearchCorrect, InvSensitive, PTL
==============================================================================
