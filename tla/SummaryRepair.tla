---------------------------- MODULE SummaryRepair ----------------------------
(***************************************************************************)
(* The two policies that repair what a summary of a replica shows to be    *)
(* missing.  New observations travel as one-shot deltas; every             *)
(* RepairInterval steps each robot sends a summary to its teammates.       *)
(*                                                                         *)
(*   mismatch  MISMATCH_TRIGGERED_FULL_REPAIR: a digest of the whole       *)
(*             replica; a teammate whose digest is another one queues all  *)
(*             it knows, and sends from that queue in later repair steps;  *)
(*   iblt      IBLT_RECONCILIATION: a sketch of the records in one         *)
(*             partition of the cells, the partitions taking turns; a      *)
(*             teammate subtracts it from its own and answers with a patch *)
(*             of the records that only its own replica has.               *)
(*                                                                         *)
(* A digest is what it is computed from, the stamps.  The hashes of a      *)
(* partition are the same in every cycle, so that a difference which does  *)
(* not peel stays until one of the replicas changes.                       *)
(***************************************************************************)
EXTENDS DeltaDelivery, Sketches

CONSTANTS
    Methods,         \* the policies under study
    RepairInterval,  \* repair_interval_steps
    PeerLimit,       \* max_digest_peers; at least NumRobots - 1 if unlimited
    Partitions       \* iblt_partitions

DigestBytes == 16
SketchBytes == 8 + 23 * IbltCells

ASSUME SummaryAssumption ==
    /\ Methods \subseteq {"mismatch", "iblt"}
    /\ RepairInterval \in {1, 2}  \* the model's clock keeps the parity only
    /\ PeerLimit \in Nat \ {0}
    /\ Partitions \in Nat \ {0}
    /\ "iblt" \in Methods => SketchBytes <= ControlCap  \* run raises an error otherwise
    /\ Policies = {"one_shot"}

VARIABLES
    method,     \* the policy of this runner
    stage,      \* the part of the dispatch phase: "deltas", "summaries", "repairs"
    asked,      \* the teammates the robot whose turn it is has come to
    partition,  \* the partition the sketches of this step are of
    repairs,    \* full_repair_outboxes: [Robots -> SUBSET RepairTask]
    drawn       \* the loss draws of repair packets so far

summaryVars == <<method, stage, asked, partition, repairs, drawn>>
allVars == <<vars, summaryVars>>

RepairTask == [update : Update, receiver : Robots]

SummaryInit ==
    /\ method \in Methods
    /\ stage = "deltas"
    /\ asked = {}
    /\ partition = 0
    /\ repairs = [r \in Robots |-> {}]
    /\ drawn = {}

-----------------------------------------------------------------------------
\* update_from_belief for every cell of a set that the replica knows.
Records(belief, cells) ==
    {[cell |-> c, stamp |-> belief[c]] : c \in {k \in cells : Known(belief[k])}}

PartitionCells(part) == {c \in Cells : (c - 1) % Partitions = part}

Summary(q, p) ==
    IF method = "mismatch"
    THEN [kind |-> "digest", from |-> q, to |-> p, held |-> beliefs[q], wait |-> Delay]
    ELSE [kind |-> "sketch", from |-> q, to |-> p, part |-> partition,
          table |-> Build(partition, Records(beliefs[q], PartitionCells(partition))),
          wait |-> Delay]

SummaryBytes == IF method = "mismatch" THEN DigestBytes ELSE SketchBytes

-----------------------------------------------------------------------------
\* _dispatch_data: the deltas of every robot, then the summaries of every
\* robot, then what its digests have made every robot queue.
SendDelta(s, t, kept) ==
    /\ stage = "deltas"
    /\ Attempt(s, t, kept)
    /\ UNCHANGED summaryVars

EndDeltas(s) ==
    /\ stage = "deltas"
    /\ EndSending(s, "dispatch")
    /\ stage' = IF s = NumRobots - 1 THEN "summaries" ELSE stage
    /\ UNCHANGED <<method, asked, partition, repairs, drawn>>

IsRepairStep == step % RepairInterval = 0

SummariesLeft(q) ==
    /\ IsRepairStep
    /\ Cardinality(asked) < PeerLimit
    /\ asked # Robots \ {q}

\* One iteration of the loop over the teammates; the summary may be deferred.
SendSummary(q, p, kept) ==
    /\ stage = "summaries" /\ phase = "dispatch" /\ turn = q
    /\ SummariesLeft(q)
    /\ p \notin asked /\ p # q
    /\ asked' = asked \cup {p}
    /\ IF CanSpend(control[q], SummaryBytes)
       THEN /\ control' = [control EXCEPT ![q] = @ - SummaryBytes]
            /\ net' = net \o Sent(kept, Summary(q, p))
       ELSE UNCHANGED <<control, net>>
    /\ UNCHANGED <<step, phase, turn, beliefs, emitted, data, deliveryVars,
                   method, stage, partition, repairs, drawn>>

EndSummaries(q) ==
    /\ stage = "summaries" /\ phase = "dispatch" /\ turn = q
    /\ ~SummariesLeft(q)
    /\ PassTurn(q, IF method = "mismatch" THEN "dispatch" ELSE "settle")
    /\ stage' = IF q < NumRobots - 1 THEN stage
                ELSE IF method = "mismatch" THEN "repairs" ELSE "deltas"
    /\ asked' = {}
    /\ UNCHANGED <<step, beliefs, emitted, net, data, control, deliveryVars,
                   method, partition, repairs, drawn>>

\* The loss of a repair packet is drawn from a hash of the update and the
\* receiver alone: a queued task is popped when it is sent and queued anew with
\* no attempts, so that every packet of this update for this receiver meets the
\* same draw.
Draws(t) ==
    {kept \in Survivals : [task |-> t, kept |-> ~kept] \notin drawn}

\* _send_full_repair_tasks: oldest first, as far as the budget goes.
SendRepair(s, t, kept) ==
    /\ stage = "repairs" /\ phase = "dispatch" /\ turn = s
    /\ IsRepairStep
    /\ CanSpend(data[s], DeltaBytes)
    /\ t \in repairs[s] /\ \A u \in repairs[s] : ~Earlier(u, t)
    /\ kept \in Draws(t)
    /\ data' = [data EXCEPT ![s] = @ - DeltaBytes]
    /\ net' = net \o Sent(kept, Delta(s, t))
    /\ repairs' = [repairs EXCEPT ![s] = @ \ {t}]
    /\ drawn' = drawn \cup {[task |-> t, kept |-> kept]}
    /\ UNCHANGED <<step, phase, turn, beliefs, emitted, control, deliveryVars,
                   method, stage, asked, partition>>

EndRepairs(s) ==
    /\ stage = "repairs" /\ phase = "dispatch" /\ turn = s
    /\ ~IsRepairStep \/ repairs[s] = {} \/ ~CanSpend(data[s], DeltaBytes)
    /\ PassTurn(s, "settle")
    /\ stage' = IF s = NumRobots - 1 THEN "deltas" ELSE stage
    /\ UNCHANGED <<step, beliefs, emitted, net, data, control, deliveryVars,
                   method, asked, partition, repairs, drawn>>

-----------------------------------------------------------------------------
\* Mutant of HandleDigest: a digest that differs is answered with the own one.
HandleDigestReplied ==
    /\ Draining
    /\ LET m == Head(net)
           differ == m.held # beliefs[m.to]
       IN
       /\ m.kind = "digest"
       /\ repairs' = IF ~differ THEN repairs
              ELSE [repairs EXCEPT ![m.to] = @ \cup
                       {[update |-> u, receiver |-> m.from] :
                            u \in Records(beliefs[m.to], Cells)}]
       /\ net' = IF differ THEN Append(Tail(net), Summary(m.to, m.from)) ELSE Tail(net)
    /\ UNCHANGED <<step, phase, turn, beliefs, emitted, data, control, deliveryVars,
                   method, stage, asked, partition, drawn>>

\* _handle_message, REPLICA_DIGEST: everything known is queued for the sender.
HandleDigest ==
    /\ Draining
    /\ LET m == Head(net) IN
       /\ m.kind = "digest"
       /\ repairs' = IF m.held = beliefs[m.to] THEN repairs
              ELSE [repairs EXCEPT ![m.to] = @ \cup
                       {[update |-> u, receiver |-> m.from] :
                            u \in Records(beliefs[m.to], Cells)}]
    /\ net' = Tail(net)
    /\ UNCHANGED <<step, phase, turn, beliefs, emitted, data, control, deliveryVars,
                   method, stage, asked, partition, drawn>>

\* The order of the encoded records: after the header, which is the same for
\* all, the source and the cell are the leading bytes.
EncodedBefore(u, v) ==
    \/ u.stamp.source < v.stamp.source
    \/ u.stamp.source = v.stamp.source /\ u.cell < v.cell

\* Mutant of PatchRoom: the header is forgotten.
PatchRoomNoHeader(left) == left \div DeltaBytes

\* How many records a patch within the bytes left may hold.
PatchRoom(left) == IF left < PatchBytes(0) THEN 0
                   ELSE (left - PatchBytes(0)) \div DeltaBytes

\* Mutant of Selected: a patch that does not fit is not sent at all.
SelectedWhole(records, room) == IF Cardinality(records) <= room THEN records ELSE {}

\* The first records in the order of their encodings, as far as the budget goes.
Selected(records, room) ==
    {u \in records : Cardinality({v \in records : EncodedBefore(v, u)}) < room}

IbltPatch(m, updates) ==
    [kind |-> "patch", from |-> m.to, to |-> m.from, updates |-> updates, wait |-> Delay]

\* What the table of a sketch leaves of the receiver's own.
Read(m) ==
    Peel(m.part, Subtract(Build(m.part, Records(beliefs[m.to], PartitionCells(m.part))), m.table))

\* _handle_message, IBLT_SKETCH, for a difference that does not peel, ...
FailToDecode ==
    /\ Draining
    /\ LET m == Head(net) IN m.kind = "sketch" /\ ~Read(m).success
    /\ net' = Tail(net)
    /\ UNCHANGED <<step, phase, turn, beliefs, emitted, data, control, deliveryVars,
                   summaryVars>>

\* ... and for one that does: the records that only the own replica has.
Decode(kept) ==
    /\ Draining
    /\ Head(net).kind = "sketch" /\ Read(Head(net)).success
    /\ LET m == Head(net)
           chosen == Selected(Read(m).positive, PatchRoom(data[m.to]))
           bytes == PatchBytes(Cardinality(chosen))
       IN  IF chosen = {}
           THEN net' = Tail(net) /\ UNCHANGED data
           ELSE /\ data' = [data EXCEPT ![m.to] = @ - bytes]
                /\ net' = Tail(net) \o Sent(kept, IbltPatch(m, chosen))
    /\ UNCHANGED <<step, phase, turn, beliefs, emitted, control, deliveryVars, summaryVars>>

\* _handle_message, IBLT_PATCH.
HandlePatch ==
    /\ Draining
    /\ LET m == Head(net) IN
       /\ m.kind = "patch"
       /\ beliefs' = [beliefs EXCEPT ![m.to] = Patched(@, m.updates)]
    /\ net' = Tail(net)
    /\ UNCHANGED <<step, phase, turn, emitted, data, control, deliveryVars, summaryVars>>

-----------------------------------------------------------------------------
\* The partition is the number of the repair step modulo the partitions.
NextPartition ==
    IF NextStep % RepairInterval = 0 THEN (partition + 1) % Partitions ELSE partition

Tick ==
    /\ EndStep
    /\ partition' = IF method = "iblt" THEN NextPartition ELSE partition
    /\ UNCHANGED <<deliveryVars, method, stage, asked, repairs, drawn>>

SummaryNext ==
    \/ EndArrivals /\ UNCHANGED <<deliveryVars, summaryVars>>
    \/ \E r \in Robots : \E w \in Shown(r) : Sense(r, w) /\ UNCHANGED summaryVars
    \/ \E s \in Robots : \E t \in outbox[s], kept \in Survivals : SendDelta(s, t, kept)
    \/ \E s \in Robots : EndDeltas(s)
    \/ \E q, p \in Robots, kept \in Survivals : SendSummary(q, p, kept)
    \/ \E q \in Robots : EndSummaries(q)
    \/ \E s \in Robots : \E t \in repairs[s], kept \in Survivals : SendRepair(s, t, kept)
    \/ \E s \in Robots : EndRepairs(s)
    \/ \E kept \in Survivals : HandleDelta(kept) /\ UNCHANGED summaryVars
    \/ HandleDigest
    \/ FailToDecode
    \/ \E kept \in Survivals : Decode(kept)
    \/ HandlePatch
    \/ Tick

SummarySpec == Init /\ SummaryInit /\ [][SummaryNext]_allVars

-----------------------------------------------------------------------------
\* The runner never stops.  The draw of a summary and of a patch contains the
\* step: no link loses all digests, all sketches of one partition, or all
\* patches of one partition.
SummarySurvives(q, p, part) == partition = part /\ SendSummary(q, p, TRUE)

PatchSurvives(p, q, part) ==
    /\ Draining /\ Head(net).to = p /\ Head(net).from = q
    /\ Head(net).kind = "sketch" /\ Head(net).part = part
    /\ Decode(TRUE)
    /\ net' # Tail(net)

DigestsSurvive ==
    \A q \in Robots : \A p \in Robots \ {q} : SF_allVars(SendSummary(q, p, TRUE))

SketchesSurvive ==
    \A q \in Robots : \A p \in Robots \ {q}, part \in 0 .. Partitions - 1 :
        /\ SF_allVars(SummarySurvives(q, p, part))
        /\ SF_allVars(PatchSurvives(p, q, part))

SummaryFairSpec ==
    /\ SummarySpec
    /\ WF_allVars(SummaryNext)
    /\ \/ method = "mismatch" /\ DigestsSurvive
       \/ method = "iblt" /\ SketchesSurvive

\* A repair packet that may arrive whenever it is sent arrives in the end.  The
\* draws leave that possible only if the first one was not a loss.
RepairSurvives(s, r, c) ==
    \E t \in repairs[s] : t.receiver = r /\ t.update.cell = c /\ SendRepair(s, t, TRUE)

MismatchFairSpec ==
    /\ SummaryFairSpec
    /\ \A s \in Robots : \A r \in Robots \ {s}, c \in Cells :
        SF_allVars(RepairSurvives(s, r, c))

-----------------------------------------------------------------------------
\* Neither summaries, repairs nor truncated patches overdraw their budgets.
SummaryTypeOK ==
    /\ LoopTypeOK
    /\ method \in Methods
    /\ stage \in {"deltas", "summaries", "repairs"}
    /\ asked \subseteq Robots
    /\ partition \in 0 .. Partitions - 1
    /\ repairs \in [Robots -> SUBSET RepairTask]
    /\ drawn \subseteq [task : RepairTask, kept : BOOLEAN]

\* Both policies implement the abstract promise, although their queues and
\* patches hold records that the receiver superseded meanwhile.
SummaryImplementsSharing == ImplementsSharing

\* What makes these inductive.  The table of a sketch under way was built from
\* reports, and a patch carries reports; digests are only compared.
SummaryPacket ==
    [kind : {"digest"}, from : Robots, to : Robots, held : [Cells -> Stamp], wait : Nat]
    \cup [kind : {"sketch"}, from : Robots, to : Robots, part : 0 .. Partitions - 1,
          table : [Slots -> [count : Nat, keys : SUBSET Update]], wait : Nat]
    \cup [kind : {"patch"}, from : Robots, to : Robots, updates : SUBSET Update, wait : Nat]

SoundSketch(m) ==
    \E items \in SUBSET emitted : IsFiniteSet(items) /\ m.table = Build(m.part, items)

SoundPackets ==
    {m \in Packet \cup SummaryPacket :
        /\ m.kind # "ack"
        /\ m.kind = "delta" => m.update \in emitted /\ ~m.keyed
        /\ m.kind = "sketch" => SoundSketch(m)
        /\ m.kind = "patch" => m.updates \subseteq emitted}

\* What is queued for a teammate was reported, and is still when it is sent.
RepairsHonest == \A r \in Robots : \A t \in repairs[r] : t.update \in emitted

\* The inductive invariant of both policies.
SummaryInv ==
    /\ SummaryTypeOK
    /\ HonestReports
    /\ policy = "one_shot"
    /\ OutboxHonest
    /\ RepairsHonest
    /\ QueueOK(net, SoundPackets)

\* The budget pays for this task although everything is queued for everybody.
PaidFor(s, t) ==
    LET queue == [update : Records(beliefs[s], Cells), receiver : Robots \ {s}]
        first == {u \in queue : Earlier(u, t)}
    IN  (Cardinality(first) + 1) * DeltaBytes <= DataCap

\* What robot q lacks of what p has, unless the budget ends before it is sent, the
\* packet for it was drawn as lost, or the difference of their partitions does not
\* peel.
Repairable(q, p, c) ==
    LET part == (c - 1) % Partitions
        ours == Records(beliefs[q], PartitionCells(part))
        theirs == Records(beliefs[p], PartitionCells(part))
        task == [update |-> [cell |-> c, stamp |-> beliefs[p][c]], receiver |-> q]
    IN  /\ StampLess(beliefs[q][c], beliefs[p][c])
        /\ IF method = "mismatch"
           THEN PaidFor(p, task) /\ [task |-> task, kept |-> FALSE] \notin drawn
           ELSE Difference(part, theirs, ours).success

\* Everything that can be repaired is, whatever deltas were lost: digests are
\* compared, and partitions come round, while queues, sketches and patches of
\* older replicas are under way.  Full repair starts again with the oldest for
\* every digest that differs, and gets as far as its budget goes; a patch may be
\* cut to a single record, and that one may be older than what its receiver has.
\* Nor do packets that are handled without delay bring about others for ever:
\* nothing would be repaired any more in a step that does not end.
SummaryConverges ==
    <>[](\A q, p \in Robots, c \in Cells : ~Repairable(q, p, c))

\* The comment on _loss_draw: "A stable per-packet draw keeps common packets
\* matched across policies."  If every packet has its own draw, a link that may
\* lose any one of them does not keep a robot from what its teammate sends
\* again for every digest that differs.
MismatchRepaired ==
    \A q \in Robots : \A p \in Robots \ {q}, c \in Cells :
        StampLess(beliefs[q][c], beliefs[p][c]) ~> AtLeast(beliefs[q][c], beliefs[p][c])

=============================================================================
