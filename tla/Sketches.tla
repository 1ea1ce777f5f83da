------------------------------- MODULE Sketches -------------------------------
(***************************************************************************)
(* Invertible Bloom lookup tables: how a set of records is inserted, how   *)
(* two tables are subtracted, and how the difference is peeled.            *)
(*                                                                         *)
(* The XOR sums of keys and checksums in a cell are known by the records   *)
(* that went into them an odd number of times: no two sets of records have *)
(* the same sums, as long as checksums of 64 bits do not collide.          *)
(***************************************************************************)
EXTENDS Integers, FiniteSets

CONSTANTS
    IbltCells,      \* iblt_cells
    IbltHashes,     \* iblt_hashes
    Indices(_, _)   \* the cells of a record, for the seed of a partition

ASSUME SketchAssumption ==
    IbltHashes \in Nat /\ IbltHashes >= 2 /\ IbltCells \in Nat /\ IbltCells >= IbltHashes

Xor(a, b) == (a \ b) \cup (b \ a)

\* The cells of a table.
Slots == 0 .. IbltCells - 1

\* build_iblt.
Build(seed, items) ==
    [i \in Slots |->
        LET here == {r \in items : i \in Indices(seed, r)}
        IN  [count |-> Cardinality(here), keys |-> here]]

\* subtract_iblt.
Subtract(left, right) ==
    [i \in Slots |-> [count |-> left[i].count - right[i].count,
                      keys |-> Xor(left[i].keys, right[i].keys)]]

\* A cell with a count of one either way, whose checksum is that of its key.
Pure(cell) == cell.count \in {-1, 1} /\ Cardinality(cell.keys) = 1

Removed(seed, table, item, count) ==
    [i \in Slots |->
        IF i \in Indices(seed, item)
        THEN [count |-> table[i].count - count, keys |-> Xor(table[i].keys, {item})]
        ELSE table[i]]

\* How far the peeling of a table with some records has come: what is left of it,
\* the cells to look at, and the records that were read on either side.
Progress(items) ==
    [table : [Slots -> [count : Int, keys : SUBSET items]], queue : SUBSET Slots,
     positive : SUBSET items, negative : SUBSET items]

\* A record is read from a pure cell and taken out of all its cells.
Taken(seed, p, index) ==
    LET count == p.table[index].count
        item == CHOOSE r \in p.table[index].keys : TRUE
    IN  [table |-> Removed(seed, p.table, item, count),
         queue |-> (p.queue \ {index}) \cup Indices(seed, item),
         positive |-> IF count = 1 THEN p.positive \cup {item} ELSE p.positive,
         negative |-> IF count = 1 THEN p.negative ELSE p.negative \cup {item}]

\* One cell of the queue is looked at.
Looked(seed, p) ==
    LET index == CHOOSE i \in p.queue : TRUE
    IN  IF Pure(p.table[index]) THEN Taken(seed, p, index)
        ELSE [p EXCEPT !.queue = @ \ {index}]

\* peel_iblt of a table that was subtracted from another: every cell is looked
\* at, and again whenever a record is taken out of it.  What is left does not
\* depend on the order.
Peeled(seed, items, start) ==
    LET peeled[p \in Progress(items)] ==
            IF p.queue = {} THEN p ELSE peeled[Looked(seed, p)]
    IN  peeled[start]

Peel(seed, table) ==
    LET items == UNION {table[i].keys : i \in Slots}
        end == Peeled(seed, items, [table |-> table, queue |-> Slots,
                                    positive |-> {}, negative |-> {}])
    IN  [success |-> \A i \in Slots : end.table[i] = [count |-> 0, keys |-> {}],
         positive |-> end.positive, negative |-> end.negative]

\* What the owner of some records reads from the table of others.
Difference(seed, ours, theirs) == Peel(seed, Subtract(Build(seed, ours), Build(seed, theirs)))

=============================================================================
