----------------------------- MODULE QueryRepair -----------------------------
(***************************************************************************)
(* Repair by digest query: a robot asks its teammates for the cells its    *)
(* planner calls decisive, sending its own stamps of them; a teammate      *)
(* answers with one PATCH of everything it knows better.  New observations *)
(* still travel as one-shot deltas and share the data budget with patches. *)
(*                                                                         *)
(* Which cells a robot asks for is the business of the planners (corridor, *)
(* deadline witness, scenario certificate, ...): here any set of a given   *)
(* collection.  Teammates are asked nearest first with rotating ties; as   *)
(* positions are not modelled, here in any order.                          *)
(***************************************************************************)
EXTENDS DeltaDelivery

CONSTANTS
    QuerySets,      \* [Robots -> SUBSET SUBSET Cells], what a planner may ask
    QueryInterval,  \* repair_interval_steps (sync_interval_steps if regional)
    PeerLimit,      \* max_digest_peers; at least NumRobots - 1 if unlimited
    Regimes         \* the values of `regional' under study

ASSUME QueryAssumption ==
    /\ QuerySets \in [Robots -> SUBSET SUBSET Cells]
    /\ QueryInterval \in {1, 2}  \* the model's clock keeps the parity only
    /\ PeerLimit \in Nat \ {0}
    /\ Regimes \subseteq BOOLEAN
    /\ Policies = {"one_shot"}

VARIABLES
    regional,  \* PERIODIC_REGIONAL_SYNC: no deltas, patches whatever the stamps
    querying,  \* whether the dispatch phase has come to _send_queries
    wanted,    \* the cells the robot whose turn it is asks for
    asked,     \* the teammates it has asked in this step
    promised   \* history: what the answers under way should bring

queryVars == <<regional, querying, wanted, asked, promised>>
allVars == <<vars, queryVars>>

Query(q, p) ==
    [kind |-> "query", from |-> q, to |-> p, wait |-> Delay,
     entries |-> {[cell |-> c, stamp |-> beliefs[q][c]] : c \in wanted}]

\* Mutant of PatchFor: newer means a higher version, not a greater stamp.
PatchForByVersion(m) ==
    {[cell |-> e.cell, stamp |-> beliefs[m.to][e.cell]] : e \in
        {d \in m.entries :
            /\ Known(beliefs[m.to][d.cell])
            /\ regional \/ d.stamp.version < beliefs[m.to][d.cell].version}}

\* The answer to query m: the responder's update for every queried cell it
\* knows better than the requester did, or knows at all for a regional sync.
PatchFor(m) ==
    {[cell |-> e.cell, stamp |-> beliefs[m.to][e.cell]] : e \in
        {d \in m.entries :
            /\ Known(beliefs[m.to][d.cell])
            /\ regional \/ StampLess(d.stamp, beliefs[m.to][d.cell])}}

Patch(m) ==
    [kind |-> "patch", from |-> m.to, to |-> m.from, updates |-> PatchFor(m),
     wait |-> Delay]

QueryInit ==
    /\ regional \in Regimes
    /\ querying = FALSE
    /\ wanted = {}
    /\ asked = {}
    /\ promised = {}

-----------------------------------------------------------------------------
\* _dispatch_data: the deltas first (not for a regional sync), then, every
\* QueryInterval steps, the queries.
SendDelta(s, t, kept) ==
    /\ ~regional /\ ~querying
    /\ Attempt(s, t, kept)
    /\ UNCHANGED queryVars

EndDeltas(s) ==
    /\ ~regional /\ ~querying
    /\ EndSending(s, "dispatch")
    /\ querying' = (s = NumRobots - 1)
    /\ UNCHANGED <<regional, wanted, asked, promised>>

SkipDeltas ==
    /\ regional /\ ~querying
    /\ phase = "dispatch"
    /\ querying' = TRUE
    /\ UNCHANGED <<vars, regional, wanted, asked, promised>>

QueryStep == step % QueryInterval = 0

\* The planner of robot q names the cells to ask for; an empty choice sends
\* nothing (the early `continue' of _send_queries).
Choose(q, cells) ==
    /\ querying /\ phase = "dispatch" /\ turn = q
    /\ QueryStep /\ wanted = {}
    /\ cells # {}
    /\ wanted' = cells
    /\ UNCHANGED <<vars, regional, querying, asked, promised>>

MayAsk(q) == Cardinality(asked) < PeerLimit /\ asked # Robots \ {q}

\* Mutant of Ask: every teammate is asked, whatever the control budget holds.
AskUnchecked(q, p, kept) ==
    /\ querying /\ phase = "dispatch" /\ turn = q
    /\ wanted # {}
    /\ p \notin asked /\ p # q /\ MayAsk(q)
    /\ control' = [control EXCEPT ![q] = @ - DigestQueryBytes(Cardinality(wanted))]
    /\ net' = net \o Sent(kept, Query(q, p))
    /\ asked' = asked \cup {p}
    /\ UNCHANGED <<step, phase, turn, beliefs, emitted, data, deliveryVars,
                   regional, querying, wanted, promised>>

\* One iteration of the loop over the teammates that finds budget left.
Ask(q, p, kept) ==
    /\ querying /\ phase = "dispatch" /\ turn = q
    /\ wanted # {}
    /\ p \notin asked /\ p # q /\ MayAsk(q)
    /\ CanSpend(control[q], DigestQueryBytes(Cardinality(wanted)))
    /\ control' = [control EXCEPT ![q] = @ - DigestQueryBytes(Cardinality(wanted))]
    /\ net' = net \o Sent(kept, Query(q, p))
    /\ asked' = asked \cup {p}
    /\ promised' = IF kept
            THEN promised \cup
                {[from |-> p, to |-> q, cell |-> c, stamp |-> beliefs[p][c],
                  left |-> 2 * Delay] : c \in wanted}
            ELSE promised
    /\ UNCHANGED <<step, phase, turn, beliefs, emitted, data, deliveryVars,
                   regional, querying, wanted>>

\* All teammates are asked, or the control budget holds no further query.
EndAsking(q) ==
    /\ querying /\ phase = "dispatch" /\ turn = q
    /\ \/ ~QueryStep
       \/ wanted = {} /\ {} \in QuerySets[q]
       \/ /\ wanted # {}
          /\ \/ ~MayAsk(q)
             \/ ~CanSpend(control[q], DigestQueryBytes(Cardinality(wanted)))
    /\ PassTurn(q, "settle")
    /\ querying' = (q # NumRobots - 1)
    /\ wanted' = {}
    /\ asked' = {}
    /\ UNCHANGED <<step, beliefs, emitted, net, data, control, deliveryVars,
                   regional, promised>>

-----------------------------------------------------------------------------
\* What was promised to the sender of query m when it was sent.
PromisedBy(m) ==
    {x \in promised : x.from = m.to /\ x.to = m.from /\ x.left = Delay}

\* _handle_message, DIGEST_QUERY: the whole patch is one packet, which is
\* deferred for good when it does not fit the responder's data budget.
HandleQuery(kept) ==
    /\ Draining
    /\ LET m == Head(net)
           bytes == PatchBytes(Cardinality(PatchFor(m)))
       IN  /\ m.kind = "query"
           /\ IF PatchFor(m) = {}
              THEN net' = Tail(net) /\ UNCHANGED <<data, promised>>
              ELSE /\ data' = AnswerPaid(data, m.to, bytes)
                   /\ net' = AnswerQueued(data, m.to, bytes, kept, Patch(m))
                   /\ promised' = IF kept THEN promised ELSE promised \ PromisedBy(m)
    /\ UNCHANGED <<step, phase, turn, beliefs, emitted, control, deliveryVars,
                   regional, querying, wanted, asked>>

\* _handle_message, PATCH.
HandlePatch ==
    /\ Draining
    /\ LET m == Head(net) IN
       /\ m.kind = "patch"
       /\ beliefs' = [beliefs EXCEPT ![m.to] = Patched(@, m.updates)]
    /\ net' = Tail(net)
    /\ UNCHANGED <<step, phase, turn, emitted, data, control, deliveryVars, queryVars>>

\* The clock of the promises; a promise whose time is up is settled.
Tick ==
    /\ EndStep
    /\ promised' = {[x EXCEPT !.left = @ - 1] : x \in {y \in promised : y.left > 0}}
    /\ UNCHANGED <<deliveryVars, regional, querying, wanted, asked>>

-----------------------------------------------------------------------------
RepairInit == Init /\ QueryInit

RepairNext ==
    \/ EndArrivals /\ UNCHANGED <<deliveryVars, queryVars>>
    \/ \E r \in Robots : \E w \in Shown(r) : Sense(r, w) /\ UNCHANGED queryVars
    \/ \E s \in Robots : \E t \in outbox[s], kept \in Survivals : SendDelta(s, t, kept)
    \/ \E s \in Robots : EndDeltas(s)
    \/ SkipDeltas
    \/ \E q \in Robots : \E cells \in QuerySets[q] : Choose(q, cells)
    \/ \E q, p \in Robots, kept \in Survivals : Ask(q, p, kept)
    \/ \E q \in Robots : EndAsking(q)
    \/ \E kept \in Survivals : HandleDelta(kept) /\ UNCHANGED queryVars
    \/ \E kept \in Survivals : HandleQuery(kept)
    \/ HandlePatch
    \/ Tick

RepairSpec == RepairInit /\ [][RepairNext]_allVars

-----------------------------------------------------------------------------
QueryPacket ==
    [kind : {"query"}, from : Robots, to : Robots, entries : SUBSET Update, wait : Nat]
    \cup [kind : {"patch"}, from : Robots, to : Robots, updates : SUBSET Update,
          wait : Nat]

\* The queries of a step never overdraw the control budget, nor the patches the
\* data budget they share with the deltas; no promise outlives its round trip.
RepairTypeOK ==
    /\ LoopTypeOK
    /\ net \in Seq(Packet \cup QueryPacket)
    /\ regional \in Regimes
    /\ querying \in BOOLEAN
    /\ wanted \subseteq Cells
    /\ asked \subseteq Robots
    /\ promised \subseteq
        [from : Robots, to : Robots, cell : Cells, stamp : Stamp, left : 0 .. 2 * Delay]

\* A data budget that holds one full patch per teammate, on a link with a delay.
AnswersFit ==
    /\ Delay > 0
    /\ \A q \in Robots : \A cells \in QuerySets[q] :
           PatchBytes(Cardinality(cells)) * (NumRobots - 1) <= DataCap

\* The round trip the deadline planners count on (2 * delay_steps in
\* deadline_decision_repair_plan and minimum_scenario_certificate): when
\* neither the query nor its answer is lost, then two delays after asking, and
\* before it senses and plans, the robot holds of every cell it asked for at
\* least the stamp its teammate held when it asked.  A data budget that holds
\* one full patch per teammate is enough, however many deltas wait for the same
\* budget: they are sent after the answers of the step.
RepairInTime ==
    AnswersFit =>
        \A x \in promised :
            (x.left = 0 /\ phase # "arrivals")
            => AtLeast(beliefs[x.to][x.cell], x.stamp)

\* No policy of this family loses or invents an observation either.
RepairImplementsSharing == ImplementsSharing

-----------------------------------------------------------------------------
\* What makes these properties inductive.  A query under way names stamps that
\* its sender has by now, of cells that its planner asked for.
SoundQuery(m) ==
    /\ IsFiniteSet(m.entries)
    /\ \A e \in m.entries : AtLeast(beliefs[m.from][e.cell], e.stamp)
    /\ \E cells \in QuerySets[m.from] : Cardinality(m.entries) <= Cardinality(cells)

\* A patch under way carries reports, one per cell.
SoundPatch(m) ==
    /\ m.updates \subseteq emitted
    /\ \A u, v \in m.updates : u.cell = v.cell => u = v

SoundPackets ==
    {m \in Packet \cup QueryPacket :
        /\ m.kind # "ack"
        /\ m.kind = "delta" => m.update \in emitted /\ ~m.keyed
        /\ m.kind = "query" => m.from # m.to /\ SoundQuery(m)
        /\ m.kind = "patch" => SoundPatch(m)}

\* The inductive invariant that holds whatever the budget and the delay are.
RepairInv ==
    /\ RepairTypeOK
    /\ HonestReports
    /\ policy = "one_shot"
    /\ OutboxHonest
    /\ querying => phase = "dispatch"
    /\ wanted # {} => querying /\ wanted \in QuerySets[turn]
    /\ QueueOK(net, SoundPackets)

InTransit == {net[i] : i \in 1 .. Len(net)}

\* A drain leaves nothing that is due, and on a link with a delay nothing that
\* is sent later in the step is.
DrainedByNow == phase # "arrivals" => ~Due

\* No two queries of a robot to the same teammate are due in the same step, as
\* no teammate is asked twice in a step.
Twins(a, b) ==
    /\ a.kind = "query" /\ b.kind = "query"
    /\ a.from = b.from /\ a.to = b.to /\ a.wait = b.wait

NoTwins(q) == \A i, j \in 1 .. Len(q) : Twins(q[i], q[j]) => i = j

\* A query that waits the full delay was sent in this step: its sender has
\* had its turn, or has it now and remembers whom it asked.
SentThisStep ==
    \A m \in InTransit : (m.kind = "query" /\ m.wait = Delay) =>
        \/ phase = "settle"
        \/ /\ phase = "dispatch" /\ querying
           /\ m.from < turn \/ (m.from = turn /\ m.to \in asked)

\* What is left of a ledger while messages arrive covers the answers to come.
Askers(p) ==
    {q \in Robots : \E m \in InTransit :
        m.kind = "query" /\ m.wait = 0 /\ m.from = q /\ m.to = p}

PatchShare == DataCap \div (NumRobots - 1)

AnswersFunded ==
    phase = "arrivals" =>
        \A p \in Robots : Askers(p) # {} =>
            PatchShare * Cardinality(Askers(p)) <= data[p]

\* A promise is kept, or the query or its answer is still under way, in time.
Asking(x, m) ==
    /\ m.kind = "query" /\ m.from = x.to /\ m.to = x.from /\ m.wait + Delay = x.left
    /\ \E e \in m.entries : e.cell = x.cell

Bringing(x, m) ==
    /\ m.kind = "patch" /\ m.to = x.to /\ m.wait = x.left
    /\ \E u \in m.updates : u.cell = x.cell /\ AtLeast(u.stamp, x.stamp)

PromiseKept(x) ==
    /\ AtLeast(beliefs[x.from][x.cell], x.stamp)
    /\ \/ AtLeast(beliefs[x.to][x.cell], x.stamp)
       \/ \E m \in InTransit : Asking(x, m) \/ Bringing(x, m)

PromisesKept == \A x \in promised : PromiseKept(x)

\* The inductive invariant of the round trip when answers fit.
TimelyInv ==
    /\ RepairInv
    /\ DrainedByNow
    /\ NoTwins(net)
    /\ SentThisStep
    /\ AnswersFunded
    /\ PromisesKept

=============================================================================
