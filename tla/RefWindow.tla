------------------------------ MODULE RefWindow ------------------------------
(***************************************************************************)
(* The pruning window of client/state-db (src/pruning.rs): the canonical   *)
(* blocks whose states are still kept, each with its death row, the trie   *)
(* nodes that go when the block is pruned.  The methods of RefWindow and   *)
(* DeathRowQueue are operators on a record w:                              *)
(*   counting  the queue is Mem (the database does not count references)   *)
(*             rather than DbBacked                                        *)
(*   base      the number of the next block to prune                       *)
(*   rows      death_rows of Mem, cache of DbBacked                        *)
(*   last      DbBacked's last; -1 stands for None                         *)
(* death_index of Mem is the inverse of the rows and is not kept apart.    *)
(* `journal' is the pruning journal: a partial function from numbers to    *)
(* records.                                                                *)
(***************************************************************************)
EXTENDS Integers, Sequences, FiniteSets, FiniteSetsExt, Functions, TLC

CONSTANT MaxBlocks   \* Constraints::max_blocks

ASSUME MaxBlocksAssumption == MaxBlocks \in Nat

\* window_size.clamp(1, DEFAULT_MAX_BLOCK_CONSTRAINT); the upper limit is
\* beyond the windows considered here.
cache_capacity == Max({MaxBlocks, 1})

Row(record) == [hash |-> record.hash, deleted |-> record.deleted]

\* The rows that follow number n on disk without a gap, at most limit of them.
RowsFrom(journal, n, limit) ==
    LET whole == {m \in 0 .. limit : \A i \in 0 .. m - 1 : n + i \in DOMAIN journal}
    IN [i \in 1 .. Max(whole) |-> Row(journal[n + i - 1])]

\* Mutant: the death rows are left alone.
ReinsertedIgnored(rows, S) == rows

\* Mem: a node that is inserted again leaves the death row it is in.
Reinserted(rows, S) == [i \in DOMAIN rows |-> [rows[i] EXCEPT !.deleted = @ \ S]]

import(w, n, record) ==
    IF w.counting
    THEN [w EXCEPT !.rows = Append(Reinserted(@, record.inserted), Row(record))]
    ELSE [w EXCEPT !.rows = IF n = w.base + Len(@) /\ Len(@) < cache_capacity
                            THEN Append(@, Row(record)) ELSE @,
                   !.last = n]

\* RefWindow::new.  Mem imports the journal record by record; DbBacked reads
\* the first batch.
NewWindow(counting, pruned, last, journal) ==
    LET base == pruned + 1
        empty == [counting |-> counting, base |-> base, rows |-> <<>>,
                  last |-> IF counting THEN -1 ELSE last]
        stored == Len(RowsFrom(journal, base, Cardinality(DOMAIN journal)))
        read[n \in 0 .. stored] ==
          IF n = 0 THEN empty
          ELSE import(read[n - 1], base + n - 1, journal[base + n - 1])
    IN IF counting THEN read[stored]
       ELSE [empty EXCEPT !.rows = RowsFrom(journal, base, cache_capacity)]

window_size(w) ==
    IF w.counting THEN Len(w.rows)
    ELSE IF w.last = -1 THEN 0 ELSE w.last + 1 - w.base

\* load_batch_from_db, called when the cache is empty.
Loaded(w, journal) ==
    IF w.counting \/ w.rows # <<>> THEN w
    ELSE [w EXCEPT !.rows = RowsFrom(journal, w.base, cache_capacity)]

HaveBlock(w, b, n) ==
    IF n < w.base \/ n >= w.base + window_size(w) THEN "No"
    ELSE IF n - w.base >= Len(w.rows) THEN "Maybe"
    ELSE IF w.rows[n - w.base + 1].hash = b THEN "Yes" ELSE "No"

\* "This branch is taken if the node imports the target block of a warp sync."
WarpTarget(w, n) == w.base = 0 /\ window_size(w) = 0 /\ n > 0

CanNote(w, n) == WarpTarget(w, n) \/ w.base + window_size(w) = n

note_canonical(w, n, record) ==
    import([w EXCEPT !.base = IF WarpTarget(w, n) THEN n ELSE @], n, record)

\* The loop of StateDbSync::prune.  It ends when the window is within its
\* limit, at a pinned block, or when the next row cannot be read.  The journal
\* is what the database holds: the transaction under way is not in it.
PruneStep(w, journal, pinned) ==
    LET l == Loaded(w, journal)
    IN IF window_size(w) <= MaxBlocks THEN [window |-> w, row |-> <<>>]
       ELSE IF l.rows = <<>> \/ Head(l.rows).hash \in pinned
            THEN [window |-> l, row |-> <<>>]
       ELSE [window |-> [l EXCEPT !.base = @ + 1, !.rows = Tail(@)],
             row |-> <<Head(l.rows)>>]

\* The window after the loop, and the rows it pruned, in order.
prune(w, journal, pinned) ==
    LET most == window_size(w)
        after[n \in 0 .. most] ==
          IF n = 0 THEN [window |-> w, pruned |-> <<>>]
          ELSE LET step == PruneStep(after[n - 1].window, journal, pinned)
               IN [window |-> step.window, pruned |-> after[n - 1].pruned \o step.row]
    IN after[most]

=============================================================================
