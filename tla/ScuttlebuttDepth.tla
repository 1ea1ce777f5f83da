--------------------------- MODULE ScuttlebuttDepth ---------------------------
(***************************************************************************)
(* The policy SCUTTLEBUTT_DEPTH: no deltas; each robot keeps, per origin,  *)
(* the newest update of every cell, sends its teammates the highest        *)
(* version it has from every origin, and is answered with what it lacks:   *)
(* the origins with most to send first, oldest first within an origin, cut *)
(* off at the data budget.  A digest also asks for the responder's own     *)
(* digest, so that an exchange goes both ways (push-pull).                 *)
(*                                                                         *)
(* The tie between origins that have equally much to send is broken by a   *)
(* hash: here either may come first.  The order of teammates depends on    *)
(* positions, which are not modelled: here any.                            *)
(***************************************************************************)
EXTENDS ReplicaLoop, FiniteSets

CONSTANTS
    DigestInterval,  \* repair_interval_steps
    PeerLimit,       \* max_digest_peers; at least NumRobots - 1 if unlimited
    Links            \* <<q, p>>: q's digests to p and p's patches to q keep arriving

ASSUME ScuttleAssumption ==
    /\ DigestInterval \in {1, 2}  \* the model's clock keeps the parity only
    /\ PeerLimit \in Nat \ {0}
    /\ Links \subseteq {pair \in Robots \X Robots : pair[1] # pair[2]}

VARIABLES
    archive,  \* [Robots -> SUBSET Update]: per holder, all origins together
    asked     \* the teammates the robot whose turn it is has sent its digest

scuttleVars == <<archive, asked>>
gossipVars == <<loopVars, scuttleVars>>

Origin(u) == u.stamp.source

\* scuttle_version: one origin's updates in the order of step, then of cell.
Version(u) == u.stamp.at * NumCells + u.cell

SameKey(u, v) == Origin(u) = Origin(v) /\ u.cell = v.cell

\* record_scuttle_update, for a set of updates with distinct keys.
Record(held, updates) ==
    LET fresh == {u \in updates : \A v \in held : SameKey(u, v) => Version(v) < Version(u)}
    IN  {v \in held : \A u \in fresh : ~SameKey(u, v)} \cup fresh

\* Mutant of MaxVersion: the highest version of any origin.
MaxVersionOfAny(held, o) ==
    LET versions == {0} \cup {Version(u) : u \in held}
    IN  CHOOSE n \in versions : \A k \in versions : k <= n

\* scuttle_max_versions: zero for an origin nothing is held of.
MaxVersion(held, o) ==
    LET versions == {0} \cup {Version(u) : u \in {v \in held : Origin(v) = o}}
    IN  CHOOSE n \in versions : \A k \in versions : k <= n

Maxima(held) == [o \in Robots |-> MaxVersion(held, o)]

DigestBytes == 4 + 5 * NumRobots

Digest(q, p, pull) ==
    [kind |-> "digest", from |-> q, to |-> p, maxima |-> Maxima(archive[q]),
     pull |-> pull, wait |-> Delay]

Patch(p, q, updates) ==
    [kind |-> "patch", from |-> p, to |-> q, updates |-> updates, wait |-> Delay]

-----------------------------------------------------------------------------
\* scuttle_depth_updates.
Available(held, maxima) == {u \in held : Version(u) > maxima[Origin(u)]}

Depth(updates, o) == Cardinality({u \in updates : Origin(u) = o})

\* Mutant of MayPrecede: the newest update of an origin first.
MayPrecedeNewestFirst(updates, u, v) ==
    IF Origin(u) = Origin(v)
    THEN Version(u) > Version(v)
    ELSE Depth(updates, Origin(u)) >= Depth(updates, Origin(v))

\* u may come before v in the order the patch is filled in.
MayPrecede(updates, u, v) ==
    IF Origin(u) = Origin(v)
    THEN Version(u) < Version(v)
    ELSE Depth(updates, Origin(u)) >= Depth(updates, Origin(v))

\* The first n updates of such an order; origins follow one another whole.
IsTruncation(selected, updates, n) ==
    /\ Cardinality(selected) = IF Cardinality(updates) < n THEN Cardinality(updates) ELSE n
    /\ \A u \in selected, v \in updates \ selected : MayPrecede(updates, u, v)
    /\ Cardinality({Origin(u) : u \in selected}
           \cap {Origin(v) : v \in updates \ selected}) <= 1

\* Mutant of PatchRoom: the header of the patch is forgotten.
PatchRoomNoHeader(left) == left \div DeltaBytes

\* How many updates a patch may carry under the budget left.
PatchRoom(left) == IF left < 4 THEN 0 ELSE (left - 4) \div DeltaBytes

Truncations(updates, left) ==
    {s \in SUBSET updates : IsTruncation(s, updates, PatchRoom(left))}

-----------------------------------------------------------------------------
ScuttleInit ==
    /\ LoopInit
    /\ archive = [r \in Robots |-> {}]
    /\ asked = {}

SenseAndRecord(r, window) ==
    /\ Observe(r, window)
    /\ archive' = [archive EXCEPT ![r] = Record(@, Discovered(r, window))]
    /\ UNCHANGED asked

IsDigestStep == step % DigestInterval = 0

MayAsk(q) ==
    /\ IsDigestStep
    /\ Cardinality(asked) < PeerLimit
    /\ asked # Robots \ {q}
    /\ CanSpend(control[q], DigestBytes)

\* _send_scuttle_digests: one teammate after the other.
SendDigest(q, p, kept) ==
    /\ phase = "dispatch" /\ turn = q
    /\ MayAsk(q) /\ p \notin asked /\ p # q
    /\ control' = [control EXCEPT ![q] = @ - DigestBytes]
    /\ net' = net \o Sent(kept, Digest(q, p, TRUE))
    /\ asked' = asked \cup {p}
    /\ UNCHANGED <<step, phase, turn, beliefs, emitted, data, archive>>

EndDigests(q) ==
    /\ phase = "dispatch" /\ turn = q
    /\ ~MayAsk(q)
    /\ asked' = {}
    /\ PassTurn(q, "settle")
    /\ UNCHANGED <<step, beliefs, emitted, net, data, control, archive>>

\* _handle_message, SCUTTLE_DIGEST: a patch of what the sender lacks, as much
\* as the data budget holds, then the responder's own digest if asked for.
HandleDigest(selected, keptPatch, keptDigest) ==
    /\ Draining
    /\ LET m == Head(net)
           replies == m.pull /\ CanSpend(control[m.to], DigestBytes)
       IN  /\ m.kind = "digest"
           /\ selected \in Truncations(Available(archive[m.to], m.maxima), data[m.to])
           /\ selected = {} => keptPatch
           /\ ~replies => keptDigest
           /\ net' = Tail(net)
                  \o Sent(keptPatch /\ selected # {}, Patch(m.to, m.from, selected))
                  \o Sent(keptDigest /\ replies, Digest(m.to, m.from, FALSE))
           /\ data' = IF selected = {} THEN data ELSE
                  [data EXCEPT ![m.to] = @ - PatchBytes(Cardinality(selected))]
           /\ control' = IF replies THEN [control EXCEPT ![m.to] = @ - DigestBytes]
                         ELSE control
    /\ UNCHANGED <<step, phase, turn, beliefs, emitted, scuttleVars>>

\* The stamp a cell ends with after apply_update of several stamps.
Newest(stamps) == CHOOSE s \in stamps : \A t \in stamps : AtLeast(s, t)

StampsOf(c, updates) == {u.stamp : u \in {v \in updates : v.cell = c}}

\* Mutant of HandlePatch: applied to the belief map only.
HandlePatchUnrecorded ==
    /\ Draining
    /\ LET m == Head(net) IN
       /\ m.kind = "patch"
       /\ beliefs' = [beliefs EXCEPT ![m.to] =
              [c \in Cells |-> Newest({@[c]} \cup StampsOf(c, m.updates))]]
    /\ net' = Tail(net)
    /\ UNCHANGED <<step, phase, turn, emitted, data, control, scuttleVars>>

\* Mutant of HandlePatch: a patched cell takes the patch's stamp.
HandlePatchBlindly ==
    /\ Draining
    /\ LET m == Head(net) IN
       /\ m.kind = "patch"
       /\ archive' = [archive EXCEPT ![m.to] = Record(@, m.updates)]
       /\ beliefs' = [beliefs EXCEPT ![m.to] =
              [c \in Cells |-> IF StampsOf(c, m.updates) = {} THEN @[c]
                               ELSE Newest(StampsOf(c, m.updates))]]
    /\ net' = Tail(net)
    /\ UNCHANGED <<step, phase, turn, emitted, data, control, asked>>

\* _handle_message, SCUTTLE_PATCH: recorded in the archive, then applied.
HandlePatch ==
    /\ Draining
    /\ LET m == Head(net) IN
       /\ m.kind = "patch"
       /\ archive' = [archive EXCEPT ![m.to] = Record(@, m.updates)]
       /\ beliefs' = [beliefs EXCEPT ![m.to] =
              [c \in Cells |-> Newest({@[c]} \cup StampsOf(c, m.updates))]]
    /\ net' = Tail(net)
    /\ UNCHANGED <<step, phase, turn, emitted, data, control, asked>>

ScuttleNext ==
    \/ EndArrivals /\ UNCHANGED scuttleVars
    \/ \E r \in Robots : \E w \in Shown(r) : SenseAndRecord(r, w)
    \/ \E q, p \in Robots, kept \in Survivals : SendDigest(q, p, kept)
    \/ \E q \in Robots : EndDigests(q)
    \/ /\ Draining /\ Head(net).kind = "digest"
       /\ \E s \in SUBSET archive[Head(net).to], keptPatch, keptDigest \in Survivals :
              HandleDigest(s, keptPatch, keptDigest)
    \/ HandlePatch
    \/ EndStep /\ UNCHANGED scuttleVars

ScuttleSpec == ScuttleInit /\ [][ScuttleNext]_gossipVars

-----------------------------------------------------------------------------
\* The runner never stops, and on the links of Links no digest or patch is lost
\* every time: each loss is drawn from a hash that contains the step.  The other
\* links may lose everything for ever.
DigestSurvives(q, p) ==
    \/ SendDigest(q, p, TRUE)
    \/ /\ Draining /\ Head(net).to = q /\ Head(net).from = p
       /\ Head(net).kind = "digest" /\ Head(net).pull
       /\ CanSpend(control[q], DigestBytes)
       /\ \E s \in SUBSET archive[q], keptPatch \in Survivals :
              HandleDigest(s, keptPatch, TRUE)

PatchSurvives(p, q) ==
    /\ Draining /\ Head(net).to = p /\ Head(net).from = q
    /\ Head(net).kind = "digest"
    /\ \E s \in SUBSET archive[p] \ {{}}, keptDigest \in Survivals :
           HandleDigest(s, TRUE, keptDigest)

ScuttleFairSpec ==
    /\ ScuttleSpec
    /\ WF_gossipVars(ScuttleNext)
    /\ \A link \in Links :
        /\ SF_gossipVars(DigestSurvives(link[1], link[2]))
        /\ SF_gossipVars(PatchSurvives(link[2], link[1]))

-----------------------------------------------------------------------------
DigestPacket ==
    [kind : {"digest"}, from : Robots, to : Robots, maxima : [Robots -> Nat],
     pull : BOOLEAN, wait : Nat]
    \cup [kind : {"patch"}, from : Robots, to : Robots, updates : SUBSET Update,
          wait : Nat]

\* No truncated patch overdraws the data budget it was cut to, no digest the
\* control budget.
ScuttleTypeOK ==
    /\ LoopTypeOK
    /\ net \in Seq(DigestPacket)
    /\ archive \in [Robots -> SUBSET Update]
    /\ asked \subseteq Robots

\* The Scuttlebutt invariant that the truncation is to preserve: whoever holds
\* an update of an origin holds everything that origin reported before, or
\* something newer of the same cell.  A digest of one number per origin stands
\* for all a robot has only if this holds, whatever patches were lost, cut
\* short, computed from an old digest or delivered after newer ones.
NoGaps ==
    \A h \in Robots : \A v \in archive[h] : \A u \in emitted :
        (Origin(u) = Origin(v) /\ Version(u) < Version(v)) =>
            \E w \in archive[h] : SameKey(u, w) /\ Version(u) <= Version(w)

\* The archive a robot gossips from and the belief map it plans on never come
\* apart, though the two are updated by different rules (the newest version per
\* origin and cell; the greatest stamp per cell).
ArchiveMatchesBelief ==
    \A h \in Robots, c \in Cells :
        beliefs[h][c] = Newest({InitialStamp} \cup StampsOf(c, archive[h]))

\* What makes NoGaps inductive.  A robot reports in the order of Version: what
\* it reports next has a step that none of its reports has.
ReportsInOrder ==
    \A u \in emitted :
        /\ u.stamp.at \in Nat /\ u.stamp.at < Horizon /\ u.stamp.at <= step
        /\ u.stamp.at = step =>
               \/ phase = "sense" /\ Origin(u) < turn
               \/ phase \in {"dispatch", "settle"}

\* Archives hold reports, each robot's all of its own, and without gaps; as the
\* map does not change, a report never gives way to one of the same cell.
ArchivesComplete ==
    /\ \A h \in Robots : archive[h] \subseteq emitted /\ IsFiniteSet(archive[h])
    /\ \A u \in emitted : u \in archive[Origin(u)]
    /\ \A h \in Robots : \A v \in archive[h] : \A u \in emitted :
        (Origin(u) = Origin(v) /\ Version(u) < Version(v)) => u \in archive[h]

\* A belief is in the archive unless the cell is unknown, and nothing there is newer.
BeliefIsNewest ==
    \A h \in Robots, c \in Cells :
        /\ beliefs[h][c] \in {InitialStamp} \cup StampsOf(c, archive[h])
        /\ \A t \in StampsOf(c, archive[h]) : AtLeast(beliefs[h][c], t)

\* A digest under way, however old, names versions that were reported, and its
\* sender has all that it covers.
SoundDigest(m) ==
    /\ \A u \in emitted : Version(u) <= m.maxima[Origin(u)] => u \in archive[m.from]
    /\ \A o \in Robots : m.maxima[o] > 0 =>
           \E v \in emitted : Origin(v) = o /\ Version(v) = m.maxima[o]

\* A patch under way leaves no gap in the archive of the robot it is for.
SoundPatch(m) ==
    /\ m.updates \subseteq emitted /\ IsFiniteSet(m.updates)
    /\ \A v \in m.updates : \A u \in emitted :
        (Origin(u) = Origin(v) /\ Version(u) < Version(v)) =>
            u \in archive[m.to] \cup m.updates

SoundPackets ==
    {m \in DigestPacket : IF m.kind = "digest" THEN SoundDigest(m) ELSE SoundPatch(m)}

\* The inductive invariant of the gossip.
ScuttleInv ==
    /\ ScuttleTypeOK
    /\ HonestReports
    /\ ReportsInOrder
    /\ ArchivesComplete
    /\ BeliefIsNewest
    /\ QueueOK(net, SoundPackets)

\* Robot q ends up with everything p knows when the link between them is in
\* Links, even when a patch holds a single update, every digest or patch may be
\* lost many times over, and teammates compete for p's budget.
ScuttleConverges ==
    \A link \in Links :
        <>[](\A c \in Cells : AtLeast(beliefs[link[1]][c], beliefs[link[2]][c]))

=============================================================================
