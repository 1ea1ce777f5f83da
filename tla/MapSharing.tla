----------------------------- MODULE MapSharing ------------------------------
(***************************************************************************)
(* What any of the communication policies promises, with no network, no    *)
(* budget and no clock: robots observe cells and report what they saw, and *)
(* a replica otherwise moves only forward, to stamps that some robot       *)
(* reported for that very cell.  The policy modules implement this         *)
(* specification.                                                          *)
(***************************************************************************)
EXTENDS ReplicaStamps

CONSTANTS Robots, Cells, Truth

VARIABLES beliefs, emitted

sharingVars == <<beliefs, emitted>>

Init ==
    /\ beliefs = [r \in Robots |-> [c \in Cells |-> InitialStamp]]
    /\ emitted = {}

\* The cells whose stamp robot r replaces in this step.
Changed(r) == {c \in Cells : beliefs'[r][c] # beliefs[r][c]}

\* Only the replica of robot r changes.
Only(r) ==
    /\ beliefs' \in [Robots -> [Cells -> Stamp]]
    /\ \A q \in Robots \ {r} : beliefs'[q] = beliefs[q]

\* Robot r's sensor shows cells it did not have right: each gets the next
\* version, in r's name, and is reported.
Look(r) ==
    /\ Only(r)
    /\ \A c \in Changed(r) :
        /\ beliefs[r][c].state # Truth[c]
        /\ beliefs'[r][c].state = Truth[c]
        /\ beliefs'[r][c].source = r
        /\ beliefs'[r][c].version = beliefs[r][c].version + 1
    /\ emitted' = emitted \cup
           {[cell |-> c, stamp |-> beliefs'[r][c]] : c \in Changed(r)}

\* Robot r takes newer stamps from what was reported.
Learn(r) ==
    /\ Only(r)
    /\ \A c \in Changed(r) :
        /\ StampLess(beliefs[r][c], beliefs'[r][c])
        /\ [cell |-> c, stamp |-> beliefs'[r][c]] \in emitted
    /\ UNCHANGED emitted

Next == \E r \in Robots : Look(r) \/ Learn(r)

Spec == Init /\ [][Next]_sharingVars

=============================================================================
