----------------------------- MODULE EpisodeLimits -----------------------------
(***************************************************************************)
(* What a configuration is checked for when it is made and when an episode *)
(* starts, and what the episode can go on to send: the fields of the codec *)
(* are narrower than the integers of the program, and a value that does    *)
(* not fit is noticed only when it is first encoded, in the middle of an   *)
(* episode.                                                                *)
(*                                                                         *)
(* A configuration is a record of the numbers the checks and the codec     *)
(* look at; sizes are those of the instance, the rest is PSRConfig.        *)
(***************************************************************************)
EXTENDS WireCodec

\* PSRConfig.__post_init__; an absent limit on peers is the number 0.
ConfigAccepted(c) ==
    /\ c.data >= 0 /\ c.control >= 0
    /\ c.repair_interval >= 1 /\ c.sync_interval >= 1 /\ c.horizon >= 1
    /\ c.peers >= 0
    /\ 1 <= c.order /\ c.order <= c.max_cells
    /\ c.hashes >= 2 /\ c.cells >= c.hashes
    /\ FitsLong(c.seed)
    /\ c.partitions >= 1
    /\ FitsLong(c.seed + c.partitions - 1)
    /\ Bounded(c.fanout, 2, 255)
    /\ c.session >= 1 /\ c.multiplier >= 1 /\ c.samples >= 1

\* Mutant of EpisodeAccepted: as many robots as fit a byte.
EpisodeAcceptedByByte(c) ==
    /\ c.size <= 64 /\ c.agents <= 255 /\ c.steps <= 65535
    /\ c.policy = "scuttle" => 4 + 5 * c.agents <= c.control
    /\ c.policy = "iblt" => 8 + 23 * c.cells <= c.control
    /\ c.policy = "merkle" => 4 + HashWidth * c.fanout <= c.control

\* The checks at the start of run.
EpisodeAccepted(c) ==
    /\ c.size <= 64 /\ c.agents <= 63 /\ c.steps <= 65535
    /\ c.policy = "scuttle" => 4 + 5 * c.agents <= c.control
    /\ c.policy = "iblt" => 8 + 23 * c.cells <= c.control
    /\ c.policy = "merkle" => 4 + HashWidth * c.fanout <= c.control

-----------------------------------------------------------------------------
\* What robots that observe a map which does not change can report: a cell has
\* version 1 once someone has seen it.

\* The updates and, with the unknown cells, the stamps of an episode.
Reported(c, u) ==
    /\ u.x \in 0 .. c.size - 1 /\ u.y \in 0 .. c.size - 1
    /\ u.sender \in 0 .. c.agents - 1
    /\ u.version = 1
    /\ u.time \in 0 .. c.steps - 1
    /\ u.state \in {"free", "blocked"}

StampOf(u) ==
    [x |-> u.x, y |-> u.y, version |-> u.version, time |-> u.time,
     source |-> u.sender, state |-> u.state]

UnknownStamp(x, y) ==
    [x |-> x, y |-> y, version |-> 0, time |-> -1, source |-> -1, state |-> "unknown"]

\* scuttle_version.
ScuttleVersion(c, u) == u.time * c.size * c.size + u.x * c.size + u.y + 1

\* The last leaf of the tree that stands for a cell: the tree is complete, and
\* its leaves are as many as the first power of the fanout that is enough.
LeafCount(c) ==
    LET grown[n \in Nat] == IF n >= c.size * c.size THEN n ELSE grown[n * c.fanout]
    IN  grown[1]

LastLeaf(c) == (LeafCount(c) - 1) \div (c.fanout - 1) + c.size * c.size

\* Everything an episode may have to encode for one update and one cell.
Encodable(c, u) ==
    /\ DeltaFits(u)
    /\ EntryFits(StampOf(u)) /\ EntryFits(UnknownStamp(u.x, u.y))
    /\ Bounded(c.size * c.size, 0, 65535)
    /\ c.policy = "scuttle" => c.agents <= 256 /\ FitsLong(ScuttleVersion(c, u))
    /\ c.policy = "merkle" => NodeFits(LastLeaf(c)) /\ Bounded(c.fanout, 1, 255)
    /\ c.policy = "iblt" =>
        /\ Bounded(c.hashes, 2, 255) /\ Bounded(c.cells, c.hashes, 65535)
        /\ FitsLong(c.seed + c.partitions - 1)
        /\ Bounded(c.size * c.size, 0, 32767)

\* The extreme updates of an episode.
Corners(c) ==
    [x : {0, c.size - 1}, y : {0, c.size - 1}, sender : {0, c.agents - 1}, version : {1},
     time : {0, c.steps - 1}, state : {"free", "blocked"}]

\* Some robot will be refused the encoding of what it has to say.
RefusedLate(c) == \E u \in Corners(c) : Reported(c, u) /\ ~Encodable(c, u)

=============================================================================
