-------------------------- MODULE MerkleAntiEntropy --------------------------
(***************************************************************************)
(* The policy MERKLE_ANTI_ENTROPY: every MerkleInterval steps each robot   *)
(* probes its teammates with the hash of one node of a tree over its whole *)
(* replica.  A teammate whose hash of that node is the same answers MATCH; *)
(* otherwise it answers with the hashes of the node's children, or, at a   *)
(* leaf, with its update of that cell.  The robot keeps, per teammate, the *)
(* nodes found to differ and goes on with the largest.  New observations   *)
(* travel as one-shot deltas under the same data budget.                   *)
(*                                                                         *)
(* A hash of a node is what it is a hash of: the stamps of the cells below *)
(* the node.  The cached tree of a robot is rebuilt whenever its replica   *)
(* has changed, so that it is always the tree of the current replica.      *)
(***************************************************************************)
EXTENDS DeltaDelivery

CONSTANTS
    MerkleInterval,  \* repair_interval_steps
    PeerLimit,       \* max_digest_peers; at least NumRobots - 1 if unlimited
    Fanout,          \* merkle_fanout
    Learners         \* the robots whose probes and answers keep arriving

ChildrenBytes == 4 + 16 * Fanout
ProbeBytes == 20
MatchBytes == 4

ASSUME MerkleAssumption ==
    /\ MerkleInterval \in {1, 2}  \* the model's clock keeps the parity only
    /\ PeerLimit \in Nat \ {0}
    /\ Fanout \in Nat /\ Fanout >= 2
    /\ ChildrenBytes <= ControlCap  \* run raises an error otherwise
    /\ Policies = {"one_shot"}
    /\ Learners \subseteq Robots

VARIABLES
    probing,  \* whether the dispatch phase has come to _send_merkle_roots
    asked,    \* the teammates the robot whose turn it is has come to
    pending,  \* _merkle_pending: [Robots -> [Robots -> SUBSET Nodes]]
    compared  \* history: what teammate p held when robot q last found out that
              \* their roots differ: [Robots -> [Robots -> [Cells -> Stamp]]]

merkleVars == <<probing, asked, pending, compared>>
allVars == <<vars, merkleVars>>

-----------------------------------------------------------------------------
\* The tree.  Node 1 is the root, children follow their parents in the heap.

\* The loop that multiplies the number of leaves until every cell has one.
Grown[n \in 1 .. NumCells * Fanout] == IF n >= NumCells THEN n ELSE Grown[n * Fanout]

LeafCount == Grown[1]
LeafBase == (LeafCount - 1) \div (Fanout - 1) + 1
Nodes == 1 .. LeafBase + LeafCount - 1

IsLeaf(n) == n >= LeafBase
Children(n) == Fanout * (n - 1) + 2 .. Fanout * (n - 1) + 1 + Fanout
LeafNode(c) == LeafBase + c - 1

\* The cells whose stamps the hash of a node covers; none below padding leaves.
Below[n \in Nodes] ==
    IF IsLeaf(n) THEN {c \in Cells : LeafNode(c) = n}
    ELSE UNION {Below[k] : k \in Children(n)}

Digest(belief, n) == [c \in Below[n] |-> belief[c]]

\* The children of n whose hashes differ, given the teammate's stamps below n.
Mismatches(belief, n, theirs) ==
    {k \in Children(n) : Digest(belief, k) # Digest(theirs, k)}

-----------------------------------------------------------------------------
Probe(q, p, n) ==
    [kind |-> "probe", from |-> q, to |-> p, node |-> n,
     digest |-> Digest(beliefs[q], n), wait |-> Delay]

\* What the teammate answers to probe m, and what the answer costs.
Match(m) ==
    [kind |-> "match", from |-> m.to, to |-> m.from, node |-> m.node, wait |-> Delay]

Branches(m) ==
    [kind |-> "children", from |-> m.to, to |-> m.from, node |-> m.node,
     digest |-> Digest(beliefs[m.to], m.node), wait |-> Delay]

LeafPatch(m, c) ==
    [kind |-> "patch", from |-> m.to, to |-> m.from,
     update |-> [cell |-> c, stamp |-> beliefs[m.to][c]], wait |-> Delay]

Matches(m) == Digest(beliefs[m.to], m.node) = m.digest

\* The cell of a leaf, if the teammate knows it.
KnownBelow(m) == {c \in Below[m.node] : Known(beliefs[m.to][c])}

MerkleInit ==
    /\ probing = FALSE
    /\ asked = {}
    /\ pending = [q \in Robots |-> [p \in Robots |-> {}]]
    /\ compared = [q \in Robots |-> [p \in Robots |-> [c \in Cells |-> InitialStamp]]]

-----------------------------------------------------------------------------
\* _dispatch_data: the deltas, then, every MerkleInterval steps, the probes.
SendDelta(s, t, kept) ==
    /\ ~probing
    /\ Attempt(s, t, kept)
    /\ UNCHANGED merkleVars

EndDeltas(s) ==
    /\ ~probing
    /\ EndSending(s, "dispatch")
    /\ probing' = (s = NumRobots - 1)
    /\ UNCHANGED <<asked, pending, compared>>

ProbesLeft(q) ==
    /\ step % MerkleInterval = 0
    /\ Cardinality(asked) < PeerLimit
    /\ asked # Robots \ {q}

\* A comparison with nothing left to look at restarts at the root.
Open(nodes) == IF nodes = {} THEN {1} ELSE nodes

Selected(nodes) == CHOOSE n \in nodes : \A k \in nodes : k <= n

ProbeFits(q) == CanSpend(control[q], ProbeBytes)

\* One iteration of the loop over the teammates; the probe may be deferred.
SendProbe(q, p, kept) ==
    /\ probing /\ phase = "dispatch" /\ turn = q
    /\ ProbesLeft(q)
    /\ p \notin asked /\ p # q
    /\ asked' = asked \cup {p}
    /\ pending' = [pending EXCEPT ![q][p] = Open(@)]
    /\ IF ProbeFits(q)
       THEN /\ control' = [control EXCEPT ![q] = @ - ProbeBytes]
            /\ net' = net \o Sent(kept, Probe(q, p, Selected(Open(pending[q][p]))))
       ELSE UNCHANGED <<control, net>>
    /\ UNCHANGED <<step, phase, turn, beliefs, emitted, data, deliveryVars,
                   probing, compared>>

EndProbes(q) ==
    /\ probing /\ phase = "dispatch" /\ turn = q
    /\ ~ProbesLeft(q)
    /\ PassTurn(q, "settle")
    /\ probing' = (q # NumRobots - 1)
    /\ asked' = {}
    /\ UNCHANGED <<step, beliefs, emitted, net, data, control, deliveryVars,
                   pending, compared>>

-----------------------------------------------------------------------------
\* An answer under the control budget of the robot that handles the probe.
AnswerControl(m, bytes, kept, answer) ==
    /\ control' = AnswerPaid(control, m.to, bytes)
    /\ net' = AnswerQueued(control, m.to, bytes, kept, answer)
    /\ UNCHANGED data

\* _handle_message, MERKLE_PROBE: MATCH for equal hashes and for a leaf whose
\* cell the teammate does not know, a patch for a leaf it does, and the hashes
\* of the children otherwise.
HandleProbe(kept) ==
    /\ Draining
    /\ LET m == Head(net) IN
       /\ m.kind = "probe"
       /\ \/ /\ Matches(m) \/ (IsLeaf(m.node) /\ KnownBelow(m) = {})
             /\ AnswerControl(m, MatchBytes, kept, Match(m))
          \/ /\ ~Matches(m) /\ IsLeaf(m.node)
             /\ \E c \in KnownBelow(m) :
                 /\ data' = AnswerPaid(data, m.to, PatchBytes(1))
                 /\ net' = AnswerQueued(data, m.to, PatchBytes(1), kept, LeafPatch(m, c))
                 /\ UNCHANGED control
          \/ /\ ~Matches(m) /\ ~IsLeaf(m.node)
             /\ AnswerControl(m, ChildrenBytes, kept, Branches(m))
    /\ UNCHANGED <<step, phase, turn, beliefs, emitted, deliveryVars, merkleVars>>

\* Mutant of HandleChildren: only the first differing branch is retained.
HandleChildrenFirstOnly ==
    /\ Draining
    /\ LET m == Head(net)
           mismatches == Mismatches(beliefs[m.to], m.node, m.digest)
       IN  /\ m.kind = "children"
           /\ pending' = [pending EXCEPT ![m.to][m.from] = (@ \ {m.node})
                  \cup {n \in mismatches : \A k \in mismatches : n <= k}]
           /\ compared' = IF m.node = 1
                  THEN [compared EXCEPT ![m.to][m.from] = m.digest] ELSE compared
    /\ net' = Tail(net)
    /\ UNCHANGED <<step, phase, turn, beliefs, emitted, data, control, deliveryVars,
                   probing, asked>>

\* _handle_message, MERKLE_CHILDREN: the node gives way to its children that
\* differ from the robot's own tree by now.
HandleChildren ==
    /\ Draining
    /\ LET m == Head(net) IN
       /\ m.kind = "children"
       /\ pending' = [pending EXCEPT ![m.to][m.from] =
              (@ \ {m.node}) \cup Mismatches(beliefs[m.to], m.node, m.digest)]
       /\ compared' = IF m.node = 1
              THEN [compared EXCEPT ![m.to][m.from] = m.digest] ELSE compared
    /\ net' = Tail(net)
    /\ UNCHANGED <<step, phase, turn, beliefs, emitted, data, control, deliveryVars,
                   probing, asked>>

\* Mutant of HandleMatch: nothing is discarded.
HandleMatchIgnored ==
    /\ Draining
    /\ Head(net).kind = "match"
    /\ net' = Tail(net)
    /\ UNCHANGED <<step, phase, turn, beliefs, emitted, data, control, deliveryVars,
                   merkleVars>>

\* _handle_message, MERKLE_MATCH.
HandleMatch ==
    /\ Draining
    /\ LET m == Head(net) IN
       /\ m.kind = "match"
       /\ pending' = [pending EXCEPT ![m.to][m.from] = @ \ {m.node}]
    /\ net' = Tail(net)
    /\ UNCHANGED <<step, phase, turn, beliefs, emitted, data, control, deliveryVars,
                   probing, asked, compared>>

\* Mutant of HandlePatch: the leaf's cell takes what the patch holds.
HandlePatchBlindly ==
    /\ Draining
    /\ LET m == Head(net) IN
       /\ m.kind = "patch"
       /\ pending' = [pending EXCEPT ![m.to][m.from] = @ \ {LeafNode(m.update.cell)}]
       /\ beliefs' = [beliefs EXCEPT ![m.to][m.update.cell] = m.update.stamp]
    /\ net' = Tail(net)
    /\ UNCHANGED <<step, phase, turn, emitted, data, control, deliveryVars,
                   probing, asked, compared>>

\* _handle_message, MERKLE_PATCH: the leaf is settled, whether or not the
\* patch was newer than what the robot has.
HandlePatch ==
    /\ Draining
    /\ LET m == Head(net) IN
       /\ m.kind = "patch"
       /\ pending' = [pending EXCEPT ![m.to][m.from] = @ \ {LeafNode(m.update.cell)}]
       /\ beliefs' = [beliefs EXCEPT ![m.to] = Received(@, m.update)]
    /\ net' = Tail(net)
    /\ UNCHANGED <<step, phase, turn, emitted, data, control, deliveryVars,
                   probing, asked, compared>>

-----------------------------------------------------------------------------
MerkleNext ==
    \/ EndArrivals /\ UNCHANGED <<deliveryVars, merkleVars>>
    \/ \E r \in Robots : \E w \in Shown(r) : Sense(r, w) /\ UNCHANGED merkleVars
    \/ \E s \in Robots : \E t \in outbox[s], kept \in Survivals : SendDelta(s, t, kept)
    \/ \E s \in Robots : EndDeltas(s)
    \/ \E q, p \in Robots, kept \in Survivals : SendProbe(q, p, kept)
    \/ \E q \in Robots : EndProbes(q)
    \/ \E kept \in Survivals : HandleDelta(kept) /\ UNCHANGED merkleVars
    \/ \E kept \in Survivals : HandleProbe(kept)
    \/ HandleChildren
    \/ HandleMatch
    \/ HandlePatch
    \/ EndStep /\ UNCHANGED <<deliveryVars, merkleVars>>

MerkleSpec == Init /\ MerkleInit /\ [][MerkleNext]_allVars

-----------------------------------------------------------------------------
\* The runner never stops, and no link from or to a learner loses all its
\* probes, or all answers of one kind: each is drawn from a hash that contains
\* the step.  The other robots' links may lose everything for ever.
ProbeSurvives(q, p) == ProbeFits(q) /\ SendProbe(q, p, TRUE)

AnswerSurvives(p, q, kind) ==
    /\ Draining /\ Head(net).to = p /\ Head(net).from = q
    /\ HandleProbe(TRUE)
    /\ net' # Tail(net)
    /\ net'[Len(net')].kind = kind

MerkleFairSpec ==
    /\ MerkleSpec
    /\ WF_allVars(MerkleNext)
    /\ \A q \in Learners : \A p \in Robots \ {q} :
        /\ SF_allVars(ProbeSurvives(q, p))
        /\ \A kind \in {"match", "children", "patch"} :
            SF_allVars(AnswerSurvives(p, q, kind))

-----------------------------------------------------------------------------
\* Probes and hashes of children never overdraw the control budget, leaf
\* patches never the data budget; only nodes of the tree are retained.
MerkleTypeOK ==
    /\ LoopTypeOK
    /\ probing \in BOOLEAN
    /\ asked \subseteq Robots
    /\ pending \in [Robots -> [Robots -> SUBSET Nodes]]
    /\ \A q, p \in Robots : compared[q][p] \in [Cells -> Stamp]
    /\ \A i \in 1 .. Len(net) : net[i].kind \in {"probe", "children"} =>
           DOMAIN net[i].digest = Below[net[i].node]

\* "We therefore retain sibling branches and resume them on later repair
\* ticks" (_send_merkle_roots): whatever teammate p knew better when robot q
\* learnt that their roots differ, q has meanwhile received or has a branch
\* that leads there still pending, although both replicas change and probes,
\* answers and patches are lost on the way.  In particular nothing of it is
\* missing when no branch is left and the comparison restarts.
NoBranchLost ==
    \A q, p \in Robots, c \in Cells :
        \/ AtLeast(beliefs[q][c], compared[q][p][c])
        \/ \E n \in pending[q][p] : c \in Below[n]

\* Merkle anti-entropy also implements the abstract promise.
MerkleImplementsSharing == Sharing!Spec

\* A learner ends up with everything its teammates know although the deltas are
\* sent once only and may be lost, and whether or not the teammates ever learn
\* anything themselves: each comparison ends, whatever the other robot turns
\* out not to know or to know worse, and the next one finds what is missing.
MerkleConverges ==
    \A q \in Learners, p \in Robots :
        <>[](\A c \in Cells : AtLeast(beliefs[q][c], beliefs[p][c]))

\* The check at the start of run accepts any control budget that one answer
\* with the hashes of children fits (psr_runner.py:301-307), and traversal is
\* depth-first so that it "reaches repairable leaves" before the budget is
\* exhausted (psr_runner.py:680-684): then a difference is repaired in the end.
DifferencesRepaired ==
    \A q, p \in Robots : \A c \in Cells :
        StampLess(beliefs[q][c], beliefs[p][c]) ~> AtLeast(beliefs[q][c], beliefs[p][c])

-----------------------------------------------------------------------------
\* What makes NoBranchLost inductive.  Hashes under way are of stamps their
\* sender has by now, and patches carry reports.
MerklePacket ==
    [kind : {"probe", "children"}, from : Robots, to : Robots, node : Nodes,
     digest : UNION {[Below[n] -> Stamp] : n \in Nodes}, wait : Nat]
    \cup [kind : {"match"}, from : Robots, to : Robots, node : Nodes, wait : Nat]
    \cup [kind : {"patch"}, from : Robots, to : Robots, update : Update, wait : Nat]

SoundDigest(m) ==
    /\ m.digest \in [Below[m.node] -> Stamp]
    /\ \A c \in Below[m.node] : AtLeast(beliefs[m.from][c], m.digest[c])

SoundPackets ==
    {m \in Packet \cup MerklePacket :
        /\ m.kind # "ack"
        /\ m.kind \in {"delta", "patch"} => m.update \in emitted
        /\ m.kind = "delta" => ~m.keyed
        /\ m.kind \in {"probe", "children"} => SoundDigest(m)
        /\ m.kind = "children" => ~IsLeaf(m.node)}

\* What a comparison found out was true, and is still.
ComparedIsKnown ==
    /\ compared \in [Robots -> [Robots -> [Cells -> Stamp]]]
    /\ \A q, p \in Robots, c \in Cells : AtLeast(beliefs[p][c], compared[q][p][c])

\* The cells that an answer settles or splits, and what its receiver has of them
\* or can go by.
Settles(m) ==
    IF m.kind = "patch" THEN {m.update.cell}
    ELSE IF m.kind \in {"children", "match"} THEN Below[m.node] ELSE {}

Brought(m, c) ==
    IF m.kind = "patch" THEN m.update.stamp
    ELSE IF m.kind = "children" THEN m.digest[c] ELSE beliefs[m.to][c]

\* An answer is never older than the comparison it belongs to, nor than the
\* hashes that the same robot sent to the same robot before it.
AnswersInOrder ==
    \A j \in 1 .. Len(net) : \A c \in Settles(net[j]) :
        /\ AtLeast(Brought(net[j], c), compared[net[j].to][net[j].from][c])
        /\ \A i \in 1 .. j - 1 :
            (/\ net[i].kind = "children" /\ c \in Below[net[i].node]
             /\ net[i].from = net[j].from /\ net[i].to = net[j].to)
            => AtLeast(Brought(net[j], c), net[i].digest[c])

MerkleInv ==
    /\ MerkleTypeOK
    /\ HonestReports
    /\ policy = "one_shot"
    /\ OutboxHonest
    /\ QueueOK(net, SoundPackets)
    /\ ComparedIsKnown
    /\ AnswersInOrder
    /\ NoBranchLost

=============================================================================
