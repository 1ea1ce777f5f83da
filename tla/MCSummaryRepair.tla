--------------------------- MODULE MCSummaryRepair ---------------------------
(***************************************************************************)
(* Small instances of SummaryRepair with two robots.                       *)
(*                                                                         *)
(* Pair: each robot sees one of two sets of cells, and the budgets cut     *)
(* both a queue of repairs and a patch.  The report of cell 1 by robot 0   *)
(* may be superseded by robot 1, and yet be the first record of the patch  *)
(* that should bring cell 3.  Cell 3 of robot 0 is hashed like cell 5 of   *)
(* robot 1, so that a difference with both does not peel, while cell 2 is  *)
(* in the other partition.                                                 *)
(* Single: a single cell that both robots report.                          *)
(***************************************************************************)
EXTENDS SummaryRepair, TLC

PairTruth == <<BLOCKED, FREE, BLOCKED, FREE, FREE>>
PairWindows == (0 :> {{1, 3}, {2, 3}}) @@ (1 :> {{1}, {5}})

\* The two cells of a table of four that a record is hashed to.
Hashes == <<{0, 1}, {0, 2}, {0, 3}, {1, 2}, {1, 3}, {2, 3}>>
MCIndices(seed, r) == Hashes[((r.cell + 4 * r.stamp.source + seed) % 6) + 1]

\* A difference peels into exactly the records on either side, unless some of
\* them are hashed so that no cell has just one of these.
ASSUME PeelingIsComplete ==
    \A ours, theirs \in SUBSET [cell : 1 .. 3, stamp : [source : 0 .. 1]] :
        ours \cap theirs = {} =>
            LET read == Difference(0, ours, theirs)
                Stuck(items) == \A i \in 0 .. IbltCells - 1 :
                    Cardinality({r \in items : i \in MCIndices(0, r)}) # 1
            IN  /\ read.success = (\A items \in SUBSET (ours \cup theirs) \ {{}} : ~Stuck(items))
                /\ read.success => read.positive = ours /\ read.negative = theirs

SingleTruth == <<BLOCKED>>
SingleWindows == (0 :> {{1}}) @@ (1 :> {{1}})

=============================================================================
