------------------------------- MODULE MCSuite -------------------------------
(***************************************************************************)
(* Two suites on one directory, on small jobs: a search on a map of six by *)
(* six, pools of two workers, a matrix of two studies, configurations that *)
(* are refused at every stage, and values at the edges of the codec.       *)
(***************************************************************************)
EXTENDS ResultAudits

\* The remainder of a sum of bytes stands for the checksum.
RECURSIVE SumOf(_)
SumOf(bytes) == IF bytes = <<>> THEN 0 ELSE bytes[1] + SumOf(Tail(bytes))
MCCrc(bytes) == SumOf(bytes) % 65536

MCGoalDistances == 4 .. 10
MCSeekerSteps == 4 .. 12
MCObserverSteps == 3 .. 6
MCMinimumSizes == (2 :> 6) @@ (4 :> 6)

\* A map with several conflicts, one that is nearly empty and one with nothing in it.
Rich == {<<0, 1>>, <<0, 2>>, <<0, 3>>, <<3, 1>>, <<4, 1>>, <<4, 4>>, <<4, 5>>, <<5, 2>>, <<5, 5>>}
MCBitmaps == {Rich, {<<2, 2>>}, {}}

MCDraws ==
    {[start |-> <<1, 0>>, goal |-> <<5, 4>>], [start |-> <<3, 5>>, goal |-> <<0, 0>>],
     [start |-> <<3, 4>>, goal |-> <<3, 0>>], [start |-> <<3, 4>>, goal |-> <<0, 0>>]}

\* One episode of the smallest kind.
Base ==
    [family |-> "random", densities |-> <<20>>, radii |-> <<1>>, layouts |-> <<>>,
     networks |-> <<>>, seeds |-> <<0>>, losses |-> <<30>>, delays |-> <<0>>,
     planners |-> <<"astar">>, policies |-> <<"one_shot">>, workers |-> 1, link_seed |-> 7,
     agents |-> 4, size |-> 6, steps |-> 8, attempts |-> 2, draws |-> 2,
     data |-> 676, control |-> 512, repair_interval |-> 1, sync_interval |-> 4, horizon |-> 5,
     peers |-> 0, order |-> 2, max_cells |-> 8, hashes |-> 3, cells |-> 21, seed |-> 20260809,
     partitions |-> 16, fanout |-> 16, session |-> 4, multiplier |-> 2, samples |-> 128,
     policy |-> "one_shot"]

Suite(c) == [kind |-> "suite", studies |-> <<c>>]

Natural == [Base EXCEPT !.family = "natural_critical_random", !.policies = <<"one_shot", "scuttle">>,
                         !.workers = 2]

Serial == [Base EXCEPT !.planners = <<"astar", "dstar_lite">>, !.densities = <<10, 20>>]

Pooled ==
    [Base EXCEPT !.radii = <<1, 2, 1>>, !.layouts = <<<<7>>>>, !.networks = <<<<0, 1>>>>,
                 !.workers = 2]

\* Designs of pairs: radii, delays, losses, and one study run twice.
RadiusStudy ==
    [Base EXCEPT !.seeds = <<0, 1>>, !.radii = <<1, 2>>, !.sync_interval = 1,
                 !.policies = <<"one_shot", "scuttle">>]

DelayStudy == [Base EXCEPT !.seeds = <<0, 1>>, !.delays = <<0, 1>>, !.planners = <<"astar", "dstar_lite">>]

LossStudy == [Base EXCEPT !.seeds = <<0, 1>>, !.losses = <<0, 30>>]

Rerun ==
    LET c == [Base EXCEPT !.seeds = <<0, 1>>, !.delays = <<0, 1>>]
    IN  <<c, [c EXCEPT !.workers = 2]>>

\* Refused when planned, by a generator, by the pool or in an episode.
Refusals ==
    {[Base EXCEPT !.layouts = <<<<7>>>>],
     [Base EXCEPT !.radii = <<1, 0>>],
     [Base EXCEPT !.family = "fork_bottleneck_upper_block"],
     [Base EXCEPT !.family = "multifork_cluttered", !.size = 32, !.agents = 8, !.densities = <<20, 1>>],
     [Base EXCEPT !.family = "tiled_cluttered_fork", !.size = 24, !.densities = <<20>>],
     [Base EXCEPT !.family = "multifork_t_junction", !.size = 32, !.agents = 8],
     [Base EXCEPT !.family = "unheard_of"],
     [Base EXCEPT !.workers = 0],
     [Base EXCEPT !.seeds = <<>>],
     [Base EXCEPT !.seeds = <<>>, !.workers = 2],
     [Base EXCEPT !.policies = <<"one_shot", "merkle", "one_shot">>, !.control = 100, !.workers = 2]}

\* Configurations at the edges of the fields of the wire.
Edges ==
    {[Base EXCEPT !.agents = n, !.size = z, !.steps = t, !.policies = <<p>>, !.control = 8192] :
        n \in {63, 64}, z \in {64, 65}, t \in {65535, 65536}, p \in {"one_shot", "scuttle"}}
    \cup {[Base EXCEPT !.agents = 63, !.size = 64, !.policies = <<p>>, !.control = 8192,
                       !.hashes = h, !.cells = w, !.fanout = f] :
            p \in {"iblt", "merkle"}, h \in {2, 255}, w \in {2, 255}, f \in {2, 255, 256}}

MCStarts ==
    {[a |-> Suite(c), b |-> Suite(Base)] :
        c \in {Natural, Pooled, Serial, RadiusStudy, DelayStudy, LossStudy} \cup Refusals \cup Edges}
    \cup {[a |-> [kind |-> "matrix", studies |-> Rerun],
           b |-> [kind |-> "matrix", studies |-> <<Base>>]]}

-----------------------------------------------------------------------------
\* The codec: what fits its fields is read back as it was written.

Updates ==
    [sender : {0, 62, 255}, x : {0, 255}, y : {63, 255}, state : {"free", "blocked"},
     version : {0, 65535}, time : {0, 70000, 2000000000}]

Stamps ==
    {e \in [x : {0, 5, 63, 64}, y : {0, 63}, version : {0, 1, 255}, time : {-1, 0, 65534},
            source : {-1, 0, 62, 63}, state : {"unknown", "free", "blocked"}] : EntryFits(e)}

Sums == [i \in 1 .. 21 |-> i + 100]
Digest == [i \in 1 .. 16 |-> i]

ASSUME DeltasReadBack ==
    \A u \in Updates, a, r \in BOOLEAN : LET p == [update |-> u, ack |-> a, repair |-> r] IN
        DeltaFits(u) /\ DecodeDelta(EncodeDelta(p)) = p

ASSUME QueriesReadBack ==
    \A e, f \in Stamps : e.x = 63 /\ f.y = 0 =>
        LET q == [entries |-> <<e, f>>, regional |-> e.version = 0, action |-> f.version = 0]
        IN  DecodeEntry(EncodeEntry(e)) = e /\ DecodeQuery(EncodeQuery(q)) = q

ASSUME PatchesReadBack ==
    \A u, v \in {w \in Updates : w.sender = 62} : DecodePatch(EncodePatch(<<u, v>>)) = <<u, v>>

ASSUME ReconciliationReadsBack ==
    /\ DecodeScuttle(EncodeScuttle(<<0, 70000, 5>>, TRUE)) =
            [maxima |-> <<0, 70000, 5>>, reply |-> TRUE]
    /\ DecodeProbe(EncodeProbe(300, Digest)) = [node |-> 300, digest |-> Digest]
    /\ DecodeChildren(EncodeChildren(300, <<Digest, Digest>>)) =
            [node |-> 300, digests |-> <<Digest, Digest>>]
    /\ DecodeMatch(EncodeMatch(65535)) = [node |-> 65535]
    /\ \A n \in {-32768, -3, 0, 700, 32767} :
        LET k == [hashes |-> 2, seed |-> 20260809,
                  cells |-> <<[count |-> n, sums |-> Sums], [count |-> 0, sums |-> Sums]>>]
        IN  SketchFits(k) /\ DecodeSketch(EncodeSketch(k)) = k

\* The nodes of every tree a configuration may ask for have numbers that fit.
ASSUME NodesFit ==
    \A fanout \in 2 .. 255, size \in 2 .. 64 : NodeFits(LastLeaf([fanout |-> fanout, size |-> size]))

=============================================================================
