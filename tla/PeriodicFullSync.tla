--------------------------- MODULE PeriodicFullSync ---------------------------
(***************************************************************************)
(* The policy PERIODIC_FULL_SYNC: every SyncInterval steps each robot      *)
(* sends a chunk of everything it knows to its teammates, rotating over    *)
(* cells and receivers; in the other steps it sends one-shot deltas.  With *)
(* an interval of one this is the Continuous Full Sync of the experiments. *)
(*                                                                         *)
(* The chunk is sent by a double loop, cells outside and receivers inside; *)
(* place k of the chunk is iteration k \div R of the outer loop and k % R  *)
(* of the inner one, for R receivers.                                      *)
(***************************************************************************)
EXTENDS DeltaDelivery

CONSTANTS
    SyncInterval,  \* sync_interval_steps
    RoundCycle     \* model bound: rounds are counted modulo this value

\* Rounds are only read modulo the number of receivers and modulo a number of
\* known cells.
ASSUME SyncAssumption ==
    /\ SyncInterval \in {1, 2}  \* the model's clock keeps the parity only
    /\ RoundCycle \in Nat \ {0}
    /\ \A n \in 1 .. NumCells : RoundCycle % n = 0
    /\ NumRobots > 1 => RoundCycle % (NumRobots - 1) = 0
    /\ Policies = {"one_shot"}

VARIABLES
    round,  \* step \div sync_interval_steps
    place   \* how much of its chunk the robot whose turn it is has sent

syncVars == <<round, place>>
allSyncVars == <<vars, syncVars>>

IsSyncStep == step % SyncInterval = 0

NumReceivers == NumRobots - 1

\* The i-th teammate of s in the order of robot numbers.
ReceiverAt(s, i) == IF i < s THEN i ELSE i + 1

KnownCells(s) == {c \in Cells : Known(beliefs[s][c])}

\* The i-th known cell of s in row-major order.
KnownAt(s, i) ==
    CHOOSE c \in KnownCells(s) : Cardinality({d \in KnownCells(s) : d < c}) = i

\* Mutant of CellsPerReceiver: the budget is not shared among the receivers.
CellsPerRound(s) == (data[s] + DeltaBytes * place) \div DeltaBytes

\* messages_per_round // len(receivers), but at least one: what the budget
\* held when the robot's turn began, place packets ago.
CellsPerReceiver(s) ==
    LET fits == (data[s] + DeltaBytes * place) \div DeltaBytes
        share == fits \div NumReceivers
    IN  IF share = 0 THEN 1 ELSE share

\* Mutant of CellAt: every round starts with the first known cell.
CellFromStart(s, k) ==
    KnownAt(s, (k \div NumReceivers) % Cardinality(KnownCells(s)))

\* The cell and the receiver of place k of the chunk of s.
CellAt(s, k) ==
    KnownAt(s, (round * CellsPerReceiver(s) + k \div NumReceivers)
                   % Cardinality(KnownCells(s)))
TargetAt(s, k) == ReceiverAt(s, (round + (k % NumReceivers)) % NumReceivers)

\* Mutant of Repair: what is sent is stamped anew.
RepairRestamped(s) ==
    LET c == CellAt(s, place) IN
    [kind |-> "delta", from |-> s, to |-> TargetAt(s, place), keyed |-> FALSE,
     update |-> [cell |-> c, stamp |-> [beliefs[s][c] EXCEPT !.at = step, !.source = s]],
     wait |-> Delay]

\* The packet at the current place of the chunk of s.
Repair(s) ==
    LET c == CellAt(s, place) IN
    [kind |-> "delta", from |-> s, to |-> TargetAt(s, place), keyed |-> FALSE,
     update |-> [cell |-> c, stamp |-> beliefs[s][c]], wait |-> Delay]

ChunkLeft(s) ==
    /\ NumReceivers > 0
    /\ KnownCells(s) # {}
    /\ place < CellsPerReceiver(s) * NumReceivers
    /\ CanSpend(data[s], DeltaBytes)

SyncInit == round = 0 /\ place = 0

-----------------------------------------------------------------------------
\* _dispatch_data: the deltas of a step that is not a sync step.
SendSyncDelta(s, t, kept) ==
    /\ ~IsSyncStep
    /\ Attempt(s, t, kept)
    /\ UNCHANGED syncVars

EndSyncDeltas(s) ==
    /\ ~IsSyncStep
    /\ EndSending(s, "settle")
    /\ UNCHANGED syncVars

\* One iteration of the inner loop of _periodic_full_sync.
SendSync(s, kept) ==
    /\ IsSyncStep /\ phase = "dispatch" /\ turn = s
    /\ ChunkLeft(s)
    /\ data' = [data EXCEPT ![s] = @ - DeltaBytes]
    /\ net' = net \o Sent(kept, Repair(s))
    /\ place' = place + 1
    /\ UNCHANGED <<step, phase, turn, beliefs, emitted, control, deliveryVars, round>>

EndChunk(s) ==
    /\ IsSyncStep /\ phase = "dispatch" /\ turn = s
    /\ ~ChunkLeft(s)
    /\ place' = 0
    /\ PassTurn(s, "settle")
    /\ UNCHANGED <<step, beliefs, emitted, net, data, control, deliveryVars, round>>

NextRound ==
    /\ EndStep
    /\ round' = IF NextStep % SyncInterval = 0 THEN (round + 1) % RoundCycle ELSE round
    /\ UNCHANGED <<deliveryVars, place>>

-----------------------------------------------------------------------------
SyncNext ==
    \/ EndArrivals /\ UNCHANGED <<deliveryVars, syncVars>>
    \/ \E r \in Robots : \E w \in Shown(r) : Sense(r, w) /\ UNCHANGED syncVars
    \/ \E s \in Robots : \E t \in outbox[s], kept \in Survivals : SendSyncDelta(s, t, kept)
    \/ \E s \in Robots : EndSyncDeltas(s)
    \/ \E s \in Robots, kept \in Survivals : SendSync(s, kept)
    \/ \E s \in Robots : EndChunk(s)
    \/ \E kept \in Survivals : HandleDelta(kept) /\ UNCHANGED syncVars
    \/ NextRound

SyncSpec == Init /\ SyncInit /\ [][SyncNext]_allSyncVars

-----------------------------------------------------------------------------
\* The runner never stops.
RunningSpec == SyncSpec /\ WF_allSyncVars(SyncNext)

\* A link that is offered news of a cell again and again does not lose all of
\* these packets: each is drawn from a hash of its round.
NewsSurvives(s, r) ==
    /\ ChunkLeft(s) /\ TargetAt(s, place) = r
    /\ LET c == CellAt(s, place) IN ~AtLeast(beliefs[r][c], beliefs[s][c])
    /\ SendSync(s, TRUE)

SyncFairSpec ==
    /\ RunningSpec
    /\ \A s \in Robots : \A r \in Robots \ {s} : SF_allSyncVars(NewsSurvives(s, r))

-----------------------------------------------------------------------------
\* Neither the chunk of a sync step nor the deltas of the others overdraw the
\* data budget, and a chunk never holds more packets than the budget.
SyncTypeOK ==
    /\ TypeOK
    /\ round \in 0 .. RoundCycle - 1
    /\ place \in 0 .. (DataCap \div DeltaBytes)

\* With a budget of at least one packet per teammate, a chunk never ends in the
\* middle of a cell: every teammate is sent the same cells in a round, although
\* the budget, not a count, is what stops the loop.
RoundIsEven ==
    (/\ IsSyncStep /\ phase = "dispatch"
     /\ NumReceivers > 0 /\ DataCap >= DeltaBytes * NumReceivers
     /\ ~ChunkLeft(turn))
    => place % NumReceivers = 0

\* What makes RoundIsEven inductive.  Ledgers are full until the dispatch, and
\* in a sync step a robot's until its turn: what the count of cells is computed
\* from is then the whole budget, however much of the chunk is already sent.
LedgersFull ==
    /\ phase \in {"arrivals", "sense"} => \A r \in Robots : data[r] = DataCap
    /\ (phase = "dispatch" /\ IsSyncStep) =>
           /\ \A r \in Robots : r > turn => data[r] = DataCap
           /\ data[turn] + DeltaBytes * place = DataCap

\* Only a chunk under way is counted, up to its length.
ChunkFits ==
    place > 0 =>
        /\ phase = "dispatch" /\ IsSyncStep
        /\ NumReceivers > 0
        /\ KnownCells(turn) # {}
        /\ place <= CellsPerReceiver(turn) * NumReceivers

\* The inductive invariant of the sync, on top of that of the deltas.
SyncInv == IndInv /\ SyncTypeOK /\ LedgersFull /\ ChunkFits

\* The comment on _periodic_full_sync: "The deterministic round rotates both
\* cells and peers, so a small cap cannot silently starve high-index receivers
\* or later cells."  What one robot knows, every robot comes to know.
NoStarvation ==
    \A c \in Cells, p \in Robots : \A q \in Robots \ {p} :
        Known(beliefs[p][c]) ~> Known(beliefs[q][c])

\* With a budget of one packet per teammate the rotation does reach every
\* receiver with every cell, so that the replicas end up identical, whatever
\* one-shot deltas were lost before and although the number of known cells,
\* which the rotation counts modulo, grows while it runs.
SyncConverges == <>[]Agreement

\* A sync neither invents a stamp nor moves a replica backwards.
SyncImplementsSharing == ImplementsSharing

=============================================================================
