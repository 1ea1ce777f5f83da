---------------------------- MODULE ReplicaStamps ----------------------------
(***************************************************************************)
(* The stamps that order two observations of one map cell, the rule by     *)
(* which a belief map takes an incoming update, and the byte sizes of the  *)
(* packets that carry updates between robots.                              *)
(*                                                                         *)
(* A belief map keeps four arrays per robot (versions, last_observed_step, *)
(* source_ids, occupancy); for one cell they form a stamp, compared as the *)
(* Python tuple of the four integers in that order.                        *)
(***************************************************************************)
EXTENDS Integers

\* CellState.  UNKNOWN is only ever the state of a cell nobody reported.
UNKNOWN == -1
FREE    == 0
BLOCKED == 1

SensedState == {FREE, BLOCKED}

Stamp == [version : Nat, at : Int, source : Int, state : Int]

\* What every cell of a new belief map holds.
InitialStamp == [version |-> 0, at |-> -1, source |-> -1, state |-> UNKNOWN]

\* The comparison of two stamps as Python tuples: lexicographic.
StampLess(a, b) ==
    \/ a.version < b.version
    \/ /\ a.version = b.version
       /\ \/ a.at < b.at
          \/ /\ a.at = b.at
             /\ \/ a.source < b.source
                \/ a.source = b.source /\ a.state < b.state

\* Stamp a supersedes or equals stamp b.
AtLeast(a, b) == a = b \/ StampLess(b, a)

\* Mutant of Apply: only the version is compared, so ties keep what came first.
ApplyByVersion(current, incoming) ==
    IF current.version < incoming.version THEN incoming ELSE current

\* BeliefMap.apply_update on one cell: anything not strictly newer than the
\* current stamp is refused, anything newer replaces all four fields.
Apply(current, incoming) ==
    IF StampLess(current, incoming) THEN incoming ELSE current

\* update_from_belief returns None for a cell whose state is negative.
Known(stamp) == stamp.state # UNKNOWN

-----------------------------------------------------------------------------
\* Packet sizes: the length of what the encoders of wire.py produce.

DeltaBytes == 13
AckBytes == 8
DigestQueryBytes(entries) == 16 + 6 * entries
PatchBytes(updates) == 4 + DeltaBytes * updates

\* CommunicationBudget.can_spend, on the bytes a ledger has left.
CanSpend(remaining, bytes) == bytes <= remaining

=============================================================================
