------------------------------- MODULE StateDb -------------------------------
(***************************************************************************)
(* State database maintenance: client/state-db (src/lib.rs) with its       *)
(* canonicalization and pruning windows, driven the way client/db drives   *)
(* it.  A block import operation inserts a block, canonicalizes finalized  *)
(* or old blocks, commits one database transaction and then either syncs   *)
(* the state database or, when anything failed, resets it from disk.       *)
(* Readers pin and unpin block states at any time between those calls,     *)
(* each call under the lock of StateDb, and the process may stop anywhere. *)
(*                                                                         *)
(* The pruning modes modelled are Constrained and ArchiveCanonical;        *)
(* ArchiveAll bypasses both windows.                                       *)
(***************************************************************************)
EXTENDS NonCanonicalOverlay, RefWindow

CONSTANTS
    Root,             \* the root node of every block's state
    Setups,           \* how the database may be opened, see Init
    MaxCanonicalized, \* bound: canonicalizations in one operation
    MaxReaders,       \* bound: states in use at a time
    ReuseDiscarded,   \* blocks of discarded forks that are still kept for some
                      \* reader are built on, or pinned by a new reader
    FailWhileRead     \* operations fail while states are in use

ASSUME StateDbAssumption ==
    /\ Root \in [Blocks -> Keys] /\ \A b \in Blocks : Root[b] \in Ins[b]
    /\ \A s \in Setups : /\ s.mode \in {"constrained", "archive_canonical"}
                         /\ s.counting \in BOOLEAN /\ s.offset \in Nat
    /\ MaxCanonicalized \in Nat /\ MaxReaders \in Nat
    /\ ReuseDiscarded \in BOOLEAN /\ FailWhileRead \in BOOLEAN

VARIABLES
    setup,    \* mode, reference counting and the number of First
    overlay,  \* StateDbSync::non_canonical
    window,   \* StateDbSync::pruning
    pinned,   \* StateDbSync::pinned
    disk,     \* the columns STATE and STATE_META
    staged,   \* what the columns become when the operation's transaction commits
    op,       \* the operation under way
    known,    \* blocks whose headers are in the database
    readers   \* live RefTrackingStates and pinned notifications per block

vars == <<setup, overlay, window, pinned, disk, staged, op, known, readers>>

Constrained == setup.mode = "constrained"

Number(b) == setup.offset + Cardinality(Line[b]) - 1

Idle == [phase |-> "idle", inserted |-> NoBlock, canonicalized |-> 0]

NoPins == [b \in Blocks |-> 0]

EmptyDisk == [last |-> [hash |-> NoBlock, number |-> -1], pruned |-> -1,
              journal |-> << >>, rows |-> << >>, data |-> [k \in Keys |-> 0]]

Init ==
    /\ setup \in Setups
    /\ disk = EmptyDisk /\ staged = EmptyDisk
    /\ overlay = New(EmptyDisk.last, << >>)
    /\ window = NewWindow(setup.counting, -1, -1, << >>)
    /\ pinned = NoPins
    /\ op = Idle
    /\ known = {}
    /\ readers = NoPins

Open == op.phase \in {"idle", "open"}

-----------------------------------------------------------------------------

InsertBlock(b) ==
    LET n == Number(b)
        inserted == insert(overlay, b, n)
        key == <<n, available_index(overlay, n)>>
    IN /\ Open /\ op.inserted = NoBlock
       /\ b \notin known
       /\ b = First \/ Parent[b] \in known
       /\ CanInsert(overlay, b, n)
       /\ ReuseDiscarded \/ Parent[b] \in Held(overlay) \cup {overlay.last.hash}
       /\ overlay' = inserted
       /\ staged' = [staged EXCEPT !.last = IF FirstEver(overlay, n) THEN inserted.last ELSE @,
                                   !.journal = (key :> b) @@ @]
       /\ op' = [op EXCEPT !.phase = "open", !.inserted = b]
       /\ UNCHANGED <<setup, window, pinned, disk, known, readers>>

\* The database either counts references or keeps one copy of a node; in a
\* commit set the insertions are written before the deletions.
Written(data, inserted, rows) ==
    LET times(k) == Cardinality({i \in DOMAIN rows : k \in rows[i].deleted})
    IN [k \in Keys |->
          LET put == IF k \notin inserted THEN data[k]
                     ELSE IF setup.counting THEN 1 ELSE data[k] + 1
          IN IF setup.counting THEN (IF times(k) > 0 THEN 0 ELSE put)
             ELSE IF times(k) > put THEN 0 ELSE put - times(k)]

PinnedBlocks == {b \in Blocks : pinned[b] > 0}

\* canonicalize_block: the overlay gives up the level, the window takes the
\* block in and is pruned.  In archive mode there is no window, and nothing is
\* ever deleted.
CanonicalizeBlock(b) ==
    LET n == Number(b)
        record == [hash |-> b, deleted |-> Del[b],
                   inserted |-> IF setup.counting THEN Ins[b] ELSE {}]
        result == IF Constrained
                  THEN prune(note_canonical(window, n, record), disk.rows, PinnedBlocks)
                  ELSE [window |-> window, pruned |-> <<>>]
        rows == (n :> record) @@ staged.rows
    IN /\ Open /\ op.canonicalized < MaxCanonicalized
       /\ b \in known \/ (b = op.inserted /\ (Constrained \/ b = First))
       /\ CanCanonicalize(overlay, b)
       /\ Constrained => CanNote(window, n)
       /\ overlay' = canonicalize(overlay, b)
       /\ window' = result.window
       /\ staged' = [staged EXCEPT
            !.last = [hash |-> b, number |-> n],
            !.journal = Restrict(@, DOMAIN @ \ JournalKeys(overlay, Leaving(overlay, b))),
            !.rows = IF Constrained
                     THEN Restrict(rows, {i \in DOMAIN rows : i >= result.window.base})
                     ELSE @,
            !.pruned = IF Constrained THEN result.window.base - 1 ELSE @,
            !.data = Written(@, Ins[b], result.pruned)]
       /\ op' = [op EXCEPT !.phase = "open", !.canonicalized = @ + 1]
       /\ UNCHANGED <<setup, pinned, disk, known, readers>>

-----------------------------------------------------------------------------
(* The end of an operation: commit_operation. *)

Commit ==
    /\ op.phase = "open"
    /\ op.inserted = First => op.canonicalized > 0
    /\ disk' = staged
    /\ known' = known \cup ({op.inserted} \ {NoBlock})
    /\ op' = [op EXCEPT !.phase = "written"]
    /\ UNCHANGED <<setup, overlay, window, pinned, staged, readers>>

Sync ==
    /\ op.phase = "written"
    /\ overlay' = sync(overlay)
    /\ op' = Idle
    /\ UNCHANGED <<setup, window, pinned, disk, staged, known, readers>>

\* Backend::finalize_block commits without a sync.
FinishUnsynced ==
    /\ op.phase = "written" /\ op.inserted = NoBlock /\ op.canonicalized = 1
    /\ op' = Idle
    /\ UNCHANGED <<setup, overlay, window, pinned, disk, staged, known, readers>>

\* StateDbSync::new: everything in memory is rebuilt from what is on disk, and
\* no block is pinned.
Rebuild(d) ==
    /\ overlay' = New(d.last, d.journal)
    /\ window' = IF Constrained
                 THEN NewWindow(setup.counting, d.pruned, d.last.number, d.rows)
                 ELSE window
    /\ pinned' = NoPins

\* Any error in the operation, the database's included: reset.
Fail ==
    /\ op.phase = "open"
    /\ FailWhileRead \/ readers = NoPins
    /\ Rebuild(disk)
    /\ staged' = disk
    /\ op' = Idle
    /\ UNCHANGED <<setup, disk, known, readers>>

Restart ==
    /\ Rebuild(disk)
    /\ staged' = disk
    /\ op' = Idle
    /\ readers' = NoPins
    /\ UNCHANGED <<setup, disk, known>>

-----------------------------------------------------------------------------
(* Readers: state_at and pin_block of the backend, and their release. *)

OnDisk(k) == disk.data[k] > 0

Stored(b) == OnDisk(Root[b])

CanPin(b) ==
    \/ have_block(overlay, b)
    \/ IF Constrained
       THEN LET have == HaveBlock(window, b, Number(b))
            IN have = "Yes" \/ (have = "Maybe" /\ Stored(b))
       ELSE Stored(b)

KeptForOthers(b) ==
    /\ b \in DOMAIN overlay.insertions
    /\ overlay.pinned[b] = 0

Pin(b) ==
    /\ b \in known /\ CanPin(b)
    /\ ReuseDiscarded \/ ~KeptForOthers(b)
    /\ MapThenSumSet(LAMBDA r : readers[r], Blocks) < MaxReaders
    /\ pinned' = [pinned EXCEPT ![b] = @ + 1]
    /\ overlay' = IF pinned[b] = 0 THEN pin(overlay, b) ELSE overlay
    /\ readers' = [readers EXCEPT ![b] = @ + 1]
    /\ UNCHANGED <<setup, window, disk, staged, op, known>>

Unpin(b) ==
    /\ readers[b] > 0
    /\ pinned' = [pinned EXCEPT ![b] = IF @ = 0 THEN 0 ELSE @ - 1]
    /\ overlay' = IF pinned[b] = 1 THEN unpin(overlay, b) ELSE overlay
    /\ readers' = [readers EXCEPT ![b] = @ - 1]
    /\ UNCHANGED <<setup, window, disk, staged, op, known>>

-----------------------------------------------------------------------------

\* A level or a block is dropped with its journal records in one transaction.
Dropped(o, S, after) ==
    LET d == [disk EXCEPT !.journal = Restrict(@, DOMAIN @ \ JournalKeys(o, S))]
    IN /\ overlay' = after
       /\ disk' = d /\ staged' = d
       /\ known' = known \ S

\* The revert command opens the database, drops levels and exits.
RevertOne ==
    LET o == New(disk.last, disk.journal)
    IN /\ op = Idle /\ readers = NoPins
       /\ o.levels # <<>>
       /\ Dropped(o, DOMAIN o.levels[Len(o.levels)], revert_one(o))
       /\ window' = IF Constrained
                    THEN NewWindow(setup.counting, disk.pruned, disk.last.number, disk.rows)
                    ELSE window
       /\ pinned' = NoPins
       /\ UNCHANGED <<setup, op, readers>>

\* remove_leaf_block.  Pins are not consulted, so nobody may read the block.
RemoveBlock(b) ==
    /\ op = Idle /\ readers[b] = 0
    /\ CanRemove(overlay, b)
    /\ \A d \in known : Parent[d] # b
    /\ Dropped(overlay, {b}, remove(overlay, b))
    /\ UNCHANGED <<setup, window, pinned, op, readers>>

Next ==
    \/ \E b \in Blocks : InsertBlock(b)
    \/ \E b \in Blocks : CanonicalizeBlock(b)
    \/ Commit
    \/ Sync
    \/ FinishUnsynced
    \/ Fail
    \/ Restart
    \/ \E b \in Blocks : Pin(b)
    \/ \E b \in Blocks : Unpin(b)
    \/ RevertOne
    \/ \E b \in Blocks : RemoveBlock(b)

Spec == Init /\ [][Next]_vars

-----------------------------------------------------------------------------
(* What is claimed. *)

\* The type invariant.
TypeOK ==
    /\ setup \in Setups
    /\ overlay.last.hash \in Blocks \cup {NoBlock}
    /\ \A i \in DOMAIN overlay.levels :
          overlay.levels[i] \in [DOMAIN overlay.levels[i] -> 0 .. MaxSiblings - 1]
    /\ Held(overlay) \cup DOMAIN overlay.insertions = overlay.parents
    /\ overlay.parents \subseteq Blocks
    /\ overlay.values \in [Keys -> Nat] /\ overlay.pinned \in [Blocks -> Nat]
    /\ overlay.insertions \in [DOMAIN overlay.insertions -> Nat \ {0}]
    /\ window.base \in Nat /\ window_size(window) \in Nat
    /\ disk.data \in [Keys -> Nat] /\ staged.data \in [Keys -> Nat]
    /\ op.phase \in {"idle", "open", "written"}
    /\ op.inserted \in Blocks \cup {NoBlock} /\ op.canonicalized \in 0 .. MaxCanonicalized
    /\ known \subseteq Blocks
    /\ readers \in [Blocks -> Nat] /\ pinned \in [Blocks -> Nat]

\* The chain that is canonical on disk, and the number of a block's last
\* ancestor on it (of the block itself when it is canonical).
Canonical == IF disk.last.hash = NoBlock THEN {} ELSE Line[disk.last.hash]

ForksAt(b) == Max({-1} \cup {Number(a) : a \in Line[b] \cap Canonical})

Readable(b) == \A k \in State[b] : overlay.values[k] > 0 \/ OnDisk(k)

\* have_state_at of the backend.
HaveStateAt(b) ==
    LET found == overlay.values[Root[b]] > 0 \/ Stored(b)
    IN IF ~Constrained THEN found
       ELSE IF Number(b) > overlay.last.number THEN have_block(overlay, b)
       ELSE LET have == HaveBlock(window, b, Number(b))
            IN have = "Yes" \/ (have = "Maybe" /\ found)

\* The canonical block after b's last canonical ancestor has not been pruned,
\* so the nodes b shares with the canonical chain are still there.
Covered(b) == disk.pruned <= ForksAt(b)

\* At most one block was canonicalized since the last sync.
OneUnsynced == Len(overlay.canonical) <= 1

\* "While a block is pinned, its state is also preserved" (client/api,
\* backend.rs): a state in use can be read in full, from memory or from disk,
\* whatever is imported, discarded, canonicalized or pruned meanwhile (pin and unpin,
\* lib.rs), as long as pruning has not passed the point where its block left
\* the canonical chain.
PinnedReadable ==
    OneUnsynced => \A b \in Blocks : readers[b] > 0 /\ Covered(b) => Readable(b)

\* A block whose state the backend reports as available (have_state_at) has
\* all of it, at every moment of an operation, with canonicalization done in
\* memory and not on disk, and after a restart.
HaveStateReadable ==
    OneUnsynced =>
      \A b \in known : HaveStateAt(b) /\ Covered(b) => Readable(b)

\* The reference count of a trie node in memory is the number of blocks held
\* there that insert it: discard_values never misses a value ("Trying to
\* discard missing value") and canonicalize finds every value ("For each key
\* in overlays there's a value in values").
ValuesCounted ==
    \A k \in Keys : overlay.values[k] =
        Cardinality({b \in Held(overlay) \cup DOMAIN overlay.insertions : k \in Ins[b]})

\* When nobody reads a state and everything is synced, nothing but the
\* overlay's own blocks is kept in memory (unpin releases all that
\* canonicalize kept).
NothingLeaks ==
    readers = NoPins /\ op = Idle /\ overlay.canonical = <<>> =>
        overlay.insertions = << >>

\* What the overlay keeps in memory is exact: every count is justified by the
\* blocks that are held, and nothing is held for nobody.
MemoryExact == TypeOK /\ ValuesCounted /\ NothingLeaks

\* Between operations the journals on disk rebuild the windows in memory: "The
\* overlay is journaled to the backing database and rebuilt on startup"
\* (lib.rs).  Only levels that have become empty are not found again.
RestartSame ==
    LET o == New(disk.last, disk.journal)
        w == NewWindow(setup.counting, disk.pruned, disk.last.number, disk.rows)
    IN op = Idle =>
         /\ o.last = overlay.last
         /\ Held(o) = Held(overlay)
         /\ \A i \in DOMAIN o.levels : o.levels[i] = overlay.levels[i]
         /\ Constrained =>
              /\ w.base = window.base /\ window_size(w) = window_size(window)
              /\ setup.counting => w = window

\* The window continues where the overlay stops, so that note_canonical never
\* reports an invalid number, and its cache holds the canonical blocks from
\* its base on (import, load_batch_from_db, prune_one).
WindowFollows ==
    Constrained /\ op.phase = "idle" /\ disk.last.number >= 0 =>
        /\ window.base + window_size(window) = overlay.last.number + 1
        /\ \A i \in DOMAIN window.rows :
             /\ window.rows[i].hash \in Canonical
             /\ Number(window.rows[i].hash) = window.base + i - 1

\* The nodes on disk are those of the canonical blocks from the last pruned
\* one on, no fewer and no more: pruning a block removes what it deleted and
\* nobody inserted again, and never leaves anything behind (prune_one, and
\* import of the Mem queue).
DiskExact ==
    {k \in Keys : OnDisk(k)} =
        UNION {State[b] : b \in {a \in Canonical : Number(a) >= disk.pruned}}

\* The pruning window and the database it prunes are in step.
PruningExact == WindowFollows /\ DiskExact

\* The last canonicalized block can be read in full while its transaction is on
\* its way to disk: "Force pin canonicalized block so that it is no discarded
\* immediately" (canonicalize, noncanonical.rs).
CanonicalStaysReadable ==
    overlay.last.hash \in Blocks => Readable(overlay.last.hash)
=============================================================================
