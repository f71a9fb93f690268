# Verification of patch-polkadot-sdk

This directory holds TLA+ models of the code in this repository, the TLC
configurations that check them on small instances, and proofs checked by TLAPS.

The repository consists of a tool that derives a trimmed `polkadot-sdk`
(`src/src`, `src/patch.sh`, `src/patches`) and of the tree it produced
(`src/polkadot-sdk/substrate`), a Substrate node with its networking, storage,
transaction pool, consensus and runtime libraries. The models are translated
from the source; paths below are relative to `src/polkadot-sdk/substrate` unless
they start with `src/`. `PROJECT.json` maps every definition to its lines, and
lists all parts of the system, the modelled and the others.

## How to run

    tlasany M.tla                     parse a module
    tlc -workers 2 -config X.cfg M    check a run (module and cfg as listed below)
    tlapm M_proofs.tla                check the proofs of a module

## The system and what is modelled

| part | state | what is hard about it | modules |
|---|---|---|---|
| manifest tool (`src/src`), driven by `src/patch.sh` | crate folders, manifests, Cargo.lock | crates visited in file-system order, some vanish while a list of them is worked off, a lock file older than the manifests | `PatchTool` |
| protocol controller (`client/network/src/protocol_controller.rs`) and what it sees of the peer store | reserved and regular peers, slot counters | inputs from three sources in any order | `ProtocolController`, `PeerStanding`, `ConnectionCommands` |
| notifications (`client/network/src/protocol/notifications`) | a state per peer and per connection, delays, incoming requests; a state per handler | four asynchronous parties, two connections with one peer, stale answers, losses with messages in flight | `Notifications`, `NotifsHandler`, `ControlledNotifications` |
| block sync (`client/network/sync`) | peers' states, ranges being downloaded, requests in flight | late answers, peers that leave, restarts, an import queue that works behind | `ChainSync`, `BlockCollection` |
| state database (`client/state-db`, part of `client/db`) | overlay of non-canonical blocks, pruning window, pins, journals | readers across operations, a crash between commit and sync, discarded forks in use, a cache smaller than the window | `StateDb`, `NonCanonicalOverlay`, `RefWindow` |
| GRANDPA authority sets (`utils/fork-tree`, `client/consensus/grandpa`, `frame/grandpa`) | pending changes, set id, history; runtime state per block | import queue and voter share a lock that is released in between; forced changes; restarts | `ForkTree`, `AuthoritySet`, `GrandpaPallet`, `GrandpaImport` |
| transaction pool (`client/transaction-pool`) | ready and future queues, tags, bans, enacted chain | verification that is awaited, revalidation in the background, best and finalized events in any order | `TransactionGraph`, `TxPool`, `EnactmentState` |
| overlayed changes (`primitives/state-machine`) | versions of every key, open transactions, cached root | nested transactions with appends that move data instead of copying it | `OverlayedChangeSet`, `Overlay`, `OverlayViews`, `NestedStorage` |

Modules `MC...` hold the instances TLC checks, modules `..._proofs` the theorems;
`ChangeSetViews` has the terms that the proofs about the overlay use.

## Modules

### Connections with peers

Three parties decide on a connection: the controller, which owns the slots of a
protocol; `Notifications`, which owns the connections with each peer; and one
handler per connection, which owns the substreams. They are different tasks,
joined by channels, so each acts on an outdated view of the others.

    PeerStanding  <-- ProtocolController --implements--> ConnectionCommands
                                                              | drives
    NotifsHandler <-- Notifications <-- ControlledNotifications

* `ProtocolController` has one action per handler of
  `protocol_controller.rs`. The code runs a handler to completion, except that
  the two loops of `on_set_reserved_peers` call the peer store, which other
  threads change; their iterations are steps of their own
  (`SetReservedInsert`, `SetReservedRemove`). `nodes` and `reservedNodes` are
  the two maps of the code, `numIn` and `numOut` its counters, `sent` the
  messages of the last step.
* `PeerStanding` is what a controller can see of the peer store: a peer is
  unknown, good or banned. `outgoing_candidates` may return any choice of the
  right size, since the ranking depends on reputations that are not modelled.
* `ConnectionCommands` is what the controller promises to the reader of its
  messages: they tell exactly which peers it counts as connected.
* `NotifsHandler` is the state machine of one protocol in `handler.rs`,
  including `pending_opening`, the memory of an outbound request given up.
  The swarm is external: channels keep their order, the end of a connection is
  delivered last, and what was in flight to the handler is lost.
* `Notifications` is one entry of the map `peers`: the peer's state, the state
  of each connection and their order in the list, back-off delays, incoming
  requests, validations, and the API's view (`num_peers`, the sink in use).
  Reaching a combination the code has no branch for leaves the entry
  `Poisoned`, as `mem::replace` does. `debug_assert!`s that fail are collected
  in `failed`; `abandoned` is a history of requests the code has given up.
* `ControlledNotifications` puts any controller that obeys
  `ConnectionCommands` on the other side of the two channels. A run with the
  real controller would show nothing else to `Notifications`, since the
  controller is proved to implement it.

### Block sync

`ChainSync` is the strategy of `chain_sync.rs` with the pending responses of
`pending_responses.rs` and the import queue as it sees it: peers that join, leave
and announce; ancestor search, ranges, fork targets; answers that are complete,
partial, wrong, late or missing; results of imports; restarts. `BlockCollection`
has the operations of `blocks.rs`. All blocks are on one chain, so a number
stands for a hash. A batch of the import queue is imported block by block: after
a block that fails the rest is cancelled, and an error is one of those that
`on_blocks_processed` answers with a restart, with the loss of a peer, with both or,
for `BadBlock` of a block without a peer and `MissingState`, with neither.

### The state database

* `NonCanonicalOverlay` has the operations of `noncanonical.rs` as functions
  from overlay to overlay: levels of siblings with their journal indices,
  reference-counted values, parents, pins and the insertions kept for pinned
  blocks. Trie nodes are keys; a block inserts some and deletes some, and its
  state is what its line of ancestors leaves.
* `RefWindow` has those of `pruning.rs` for both queues: the one in memory, which
  forgets deletions of nodes inserted again, and the one backed by the database,
  which caches the first rows (`MaxBlocks`).
* `StateDb` composes them as `lib.rs` does and adds what the backend
  (`client/db/src/lib.rs`) does around them: an operation stages writes, commits
  them in one transaction, then calls `sync`; readers pin and unpin at any time;
  any error resets memory from disk; the process may stop between any two steps.

### GRANDPA authority sets

* `ForkTree` has the operations of the fork tree that the authority set uses
  (`import`, `finalizes_any_with_descendent_if`,
  `finalize_with_descendent_if`). A tree is the set of its nodes and
  `best_finalized_number`; roots and children follow from the block tree.
* `AuthoritySet` has those of `authorities.rs` on one value: standard changes in
  a fork tree, forced changes in their sorted list, the set id, the authorities
  and the history of sets. A change is named by the block that signals it.
* `GrandpaPallet` is the runtime's side (`frame/grandpa`): `schedule_change`,
  `on_new_session`, `note_stalled`, `on_finalize`, with a state per block since
  forks differ. It produces the digests the client reads.
* `GrandpaImport` is one client: the import queue (`import.rs`) and the voter
  (`environment.rs`, `lib.rs`) with the lock they share and the copy on disk
  (`aux_schema.rs`). An import is several steps: the authority set is changed
  under the lock (`Begin`), the block goes to the database, the lock
  is released, the justification is verified and applied. The voter finalizes in
  between where the lock allows it. `op` is the import under way, with the
  set to put back on failure (`op.old`), `disk` what a restart finds. The rest of the
  network is an environment of honest voters, which finalize one chain and
  never past a block that changes the set.

### The transaction pool

* `TransactionGraph` has the methods of `BasePool`, `ReadyTransactions` and
  `FutureTransactions` as operators from pool to pool; `ready` is the order of
  `insertion_id`. A failed `assert!` or `expect` sets `panicked`.
* `EnactmentState` is `enactment_state.rs`, with the blocks enacted as history.
* `TxPool` composes them: submission, maintenance, revalidation and reports,
  each verification being a step that ends later, on a pool that
  may have changed.

### Overlayed changes

* `OverlayedChangeSet` is `changeset.rs`: the versions of every key and the sets of
  dirty keys per transaction. Data is a sequence of bytes, because a list that is
  appended to is moved from version to version with its length prefix
  rewritten, and given back by truncation.
* `Overlay` is `OverlayedChanges` with the storage functions of `ext.rs` above it:
  main trie, a child trie, the offchain changes and the cached root. `clear_prefix`
  and `kill_child_storage` take a limit and a cursor, as `limit_remove_from_backend` does.
* `NestedStorage` is what they promise, a stack of whole maps; `OverlayViews` runs
  both side by side. A drain hands over the tries of the cached root if there is one
  (`Drained`), so a root that is out of date is seen after it.

### The manifest tool

`PatchTool` models the commands of `main.rs` on the manifests of a workspace, in the
order `patch.sh` gives them: crates, folders, members, workspace dependencies with
their aliases, the three dependency tables, features and their entries. cargo and
cargo-machete are external: cargo writes a lock file for what it builds, machete may
find any dependencies unused. The model keeps the tool's string matching of
member paths (`Spelled`) apart from what lies in a folder (`Below`); folders exist by
themselves (`folders`, `Within`), since a folder without crates takes members along too.
`asked` and `disabled` are histories of the names given to `remove_dependency` and
`remove_feature`.

## Runs

"States" are distinct states found by TLC. A run takes one to four minutes with two
workers. Violation runs stop at the first counterexample.

| run | module, cfg | expects | shows | states |
|---|---|---|---|---|
| `controller` | `MCProtocolController` | pass | with three peers and one slot each way, the slot books are exact, the limits hold, banned peers are not taken up, the messages implement `ConnectionCommands`, and no reserved peer or free slot is forgotten | 108,702 |
| `notifications_two` | `MCNotifications`, `MCNotificationsTwo` | pass | with two connections, `Notifications`, the handlers and the API stay in step up to the first poisoning; a handler never has two outbound requests; no assertion fails | 788,032 |
| `notifications_live` | `MCNotifications`, `MCNotificationsLive` | pass | with one connection at a time no entry is poisoned, requests of the remote are answered, openings and closings end, back-offs end | 166,364 |
| `sync` | `MCChainSync` | pass | the strategy, the pending responses, the collection and the import queue stay in step; `best_queued` runs ahead of the imports only by an error that does not restart; the sync rests with blocks missing in three ways only; only an ancestor search forgets a download | 100,902 |
| `sync_stall` | `MCChainSync`, `MCChainSyncStall` | violation | an announcement turns a download into an ancestor search, and the sync stops for good | |
| `state_db` | `MCStateDb` | pass | states in use or reported available can be read, reference counts are exact, journals rebuild memory, the disk holds exactly the states not pruned | 246,788 |
| `state_db_pin` | `MCStateDb`, `MCStateDbPin` | violation | a discarded block pinned late loses its state | |
| `grandpa` | `MCGrandpa` | pass | the client follows the sets of the network, in memory and on disk; no change is forgotten; history and voter agree with them; it catches up | 97,685 |
| `grandpa_assert` | `MCGrandpa`, `MCGrandpaAssert` | violation | the voter finalizes the block under import between verification and finalization of its justification, and the import queue panics | |
| `txpool` | `MCTxPool` | pass | the pool's indices agree, block authors get every ready transaction in order, maintenance follows the finalized chain | 674,058 |
| `overlay` | `MCOverlay` | pass | at every depth the overlay shows what a stack of copies would, walks keys in order, and only `append_storage` and an `exit_runtime` with transactions open make a cached root stale | 199,806 |
| `patch_tool` | `MCPatchTool` | pass | members exist and dependencies resolve, nothing goes but what matches the names and paths to be removed, the root manifest ends without unused dependencies | 139,170 |

### Bounds

* `controller`: three peers make competition for one slot, a promotion and a
  demotion possible at the same time. The proofs remove these bounds. Symmetry is
  not used, since the run checks liveness.
* `notifications_*`: `MaxDelays` bounds the delays that run at once,
  `MaxIncoming` the requests of the remote in a behaviour, `MaxQueue` the
  messages under way when the controller sends a command of its own. Two
  requests suffice for a stale answer to meet a later request, two delays for
  an old delay to meet a new back-off. Behaviours end where `MaxIncoming` is
  reached, hence `CHECK_DEADLOCK FALSE`. With two connections the bounds are one
  each, at most four messages are between `Notifications` and the two handlers
  (`MaxInFlight`), the connections can be exchanged, and exploration stops at a
  poisoned entry, about which nothing is claimed. The proofs remove all of these
  bounds for the safety properties.
* `sync`: two peers with best blocks one or three, three blocks in ranges of three,
  one announcement and one fault (a wrong or missing answer or a failed import);
  a range can be asked of two peers, answered in part and restarted under way.
  `sync_stall` needs five blocks, so that the range is not the last.
* `state_db`: seven blocks on four forks of depth three, two siblings per level
  (`MaxSiblings`; the code has 32), a cache of one row, two canonicalizations per
  operation and two readers; three setups (database that counts references or not,
  pruning window 0 or 2, archive). x is deleted and inserted again, z is
  inserted on two forks, y is deleted on one only.
* `grandpa`: a chain of four blocks and a fork, one failed import or restart. The
  blocks signal sessions, a delayed change, a stall and forced changes with two
  medians; the client imports everything or begins from a state. The proofs
  of `DiskInStep` and `NoChangeForgotten` remove these bounds.
* `txpool`: the transactions of one account, as `CheckNonce` validates them, one
  nonce used twice; two blocks and a fork; two events, one
  verification at a time, three calls. Four calls (1,922,938 states) show nothing else.
* `overlay`: two keys of the main trie, one of them a list, one of a child trie, one
  of the offchain database; depth two, two writes, two elements. With
  `CompactLimit = 2` the length prefix of a list grows at its second element, as it
  does at its 64th in the code.
* `patch_tool`: six crates and five folders cover every relation of interest: a crate
  outside substrate, one with a test crate inside its folder, one whose path starts
  with the same string, one whose path starts with the string of a folder without
  crates, one that depends on all in every form, and a feature with the name of a
  removed dependency. The proofs remove this bound.

### Fairness

* `ProtocolController`: a loop that has begun continues (weak fairness), and the
  timer is served again and again (strong fairness: `next_action` polls the
  channels first, so a single tick may be late, but the loop yields to the timer
  whenever both are empty).
* `ControlledNotifications!FairSpec`: every task keeps running, negotiations end by
  their timeout, each delay fires, the protocol answers what it is asked to
  validate. The remote, the controller's own initiative and the API are not forced to do
  anything. Strong fairness on reading messages and reports stands for weak
  fairness of the code: the bound `MaxDelays` can disable them for a while,
  which the code cannot.
* `GrandpaImport`: an import that has begun goes on and the voter reads its commands
  (weak fairness); blocks and requested justifications are offered again and
  again (strong fairness: a failed import or the lock may be in the way for a
  while). Nothing forces the network to author or finalize, nor a client to stop.
* `ChainSync!FairSpec`: the import queue, its results, disconnections and back-offs
  are worked off, and a request is answered, times out or is cancelled. The
  conditions are stated on the queues themselves.

### What the environment is kept from doing

The claims come with conditions, each named in the model, and each there because
the claim fails without it.

* State database. `ReuseDiscarded = FALSE`: nobody pins or builds on a block that
  is discarded and in memory only because of a pinned descendant;
  `state_db_pin` drops this. `FailWhileRead = FALSE`: an operation fails only
  while nobody reads, since `reset` forgets the pins of readers that are alive.
  `Covered`: a pinned block of a discarded fork shares nodes with the canonical
  chain, and `prune` looks at the pin of the block at its base only, so those nodes
  go once the window passes the fork point. `OneUnsynced`: with two blocks
  canonicalized since the last sync the first can lose its values.
  RevertOne and RemoveBlock ignore pins, as the code does; they happen when
  nobody reads the blocks concerned.
* Overlay. The environment may do anything. That a cached root is that of what is
  seen is not claimed: `append_storage` and `exit_runtime` leave a root cached before
  them as it was, and `storage_noop_guard.rs:48` asks for the root before arbitrary code.
  `RootStaysFresh` says that no other operation makes it stale.
* Sync. `RestsSynced` excepts a range forgotten by an ancestor search (`sync_stall`),
  blocks passed over after an error that does not restart, and a downloaded range that
  `ready_blocks` is not called for again; each does happen.
* Manifest tool. Between the removals and machete a `dep:` entry, or an entry on a
  removed feature, may name nothing; cargo runs later. A manifest's own alias of a
  removed crate stays (`MCPatchToolAlias`).
* GRANDPA. Voters are honest; the block that signals a forced change is not
  re-orged; `StateAtChange = FALSE`: a state is not imported at a block that changes
  the set. `VoterInStep` is about clients that imported all blocks, `CatchesUp`
  leaves out a client whose best block was on a fork left behind when it started.
* Transaction pool. Transactions require at most one tag, like nonces.
* Notifications. After a poisoning nothing is claimed; one assertion is
  excepted (below).

## Proofs

All theorems hold for every value of the constants that satisfies the named
assumptions of the modules.

| module | theorem | states |
|---|---|---|
| `ProtocolController_proofs` | `TypeCorrect` | `Spec => []TypeOK`; in particular the unsigned counters never pass below zero |
| | `SlotsExact`, `SlotsBounded` | `[]SlotAccounting`, `[]SlotLimits` |
| | `NeverCorrupted` | `[]ReservedNotRegular`: the `assert!` of `on_remove_reserved_peer` holds |
| | `ReservedOnlyCorrect` | `[]ReservedOnlyRespected` |
| | `CommandsCorrect` | `Spec => CommandsSpec`: the controller implements `ConnectionCommands` |
| | `BannedNeverTakenUp` | `Spec => BannedNotConnected`, an action property |
| `NotifBooks_proofs` | `OneRequest` | `[]OneRequestAtMost`: a handler negotiates at most one outbound substream |
| `NotifSteps_proofs` | `BooksStayInStep` | `Spec /\ []Sane => [](BooksInStep /\ HandlersAgree /\ AssertionsHold)`, any number of connections, until the entry is poisoned |
| | `OneConnectionNeverPoisons` | one connection at a time: `[]NeverPoisoned` |
| | `OneConnectionInStep` | one connection at a time: the books without the condition |
| `GrandpaImport_proofs` | `StoredInStep` | `[]DiskInStep`: what a restart reads is what memory holds, or what it goes back to if the import under way fails |
| | `NothingForgotten` | `[]NoChangeForgotten`: a standard change still to enact is on disk |
| `EnactPatch_proofs` | `AlwaysConsistent` | `[]ManifestsConsistent` |
| | `NothingElseEverDropped` | `[]NothingElseDropped` |
| | `EndsTidy` | `[]WorkspaceTidy` |
| | `FollowsFinalized` | `EnactSpec => []EnactmentFollows` |
| `OverlayTheorems_proofs` | `OverlayShowsNested` | `[]SeesNested`: at every depth the overlay shows what a stack of copies of the storage would |
| | `CachedRootStaysFresh` | `RootStaysFresh`: a step that makes a cached root differ from that of what is seen is an append, or an exit of the runtime with transactions open |
| | `ChangeSetsInLockStep` | `[]LockStep`: the change sets are at the same depth, and a key has a version for each transaction that wrote it and at most one more |
| | `NextKeyIsRight` | `[]NextKeyRight`: walking the keys gives the least one above that has a value |

**Controller** (assumes finitely many peers, natural numbers of slots). The inductive
invariant `IndInv` is the conjunction of the five state properties. None is
inductive alone: a handler keeps the limits only because the counters are exact;
the counters are exact only because a peer is never reserved and regular at
once, so that a promotion moves one entry; that needs the types. The argument has
one lemma per handler (`On...KeepsBooks`), all resting on two facts about
cardinalities: writing one entry of a map moves the count of a direction by the
difference (`SlotsExcept`), and taking up a set of candidates moves it by their
number. For the refinement, one lemma per handler (`On...Emits`) shows that its
messages and the change of the connected peers form an `Emit` or `Dropped` step
of `ConnectionCommands` or a stutter.

**Notifications** (assumes nothing of connections and bounds). `OneRequest` rests on
`RequestInv`, which adds that nothing is remembered in the states gone, Opening and
Open; without this, the end of a negotiation could leave an Open handler with the
memory of a request that no longer exists.

The books are harder, because `Notifications` and a handler
see each other through channels. `NotifBooks_proofs` first says what is in step while
messages are under way: the reports on their way lead the state that
`Notifications` has of a connection, step by step, to a final state; what the
handler is in and what the commands on their way will make of it depend
on that final state only. Two facts carry it. A report read moves the state one step
along its way and leaves the end where it was. A command sent changes every state
on the way alike, so that the way survives, ending in the new state.
It then states the invariant `BooksInv`: this for every connection
(`LinkInStep`), what a state of the peer says of its connections (`Standing`), which
connections are listed (`Listed`), what the API was told (`Told`), which requests
are recorded (`Entries`), types, and that nothing failed but the excepted
assertion. `NotifSteps_proofs` has one lemma per event of the behaviour.

`[]Sane` cannot be dropped: `ConnectionEstablished` turns a poisoned entry back into
a Disabled one with what is left of its books. The proof shows more than the
statement: the one place where an entry can be poisoned is
`behaviour.rs:2013`, CloseDesired while the peer is Incoming, and it takes another
connection; hence the two theorems about one connection.

**GRANDPA** (assumes a block tree whose headers have the numbers of their parents plus
one, and the types of the runtime's calls). The first half of `GrandpaImport_proofs` has
the facts about block trees, the fork tree and the operations on a set. The
invariant `GrandpaInv` consists of the types of the network and of the client, how far the client is (`StartInv`), `DiskInv` (with
the lock free the disk is the same set as memory, with the lock held the same as
`op.old`), what is known of the block under import (`OpInv`), that
above the finalized block imports leave no holes (`NoHoles`), that blocks of the gap
signal no delayed change (`GapInv`), and `NoChangeForgotten`. The argument:

* ancestors are below and on one line (`AncestorsBelow`, `AncestorsLinear`), by
  induction along the numbers;
* a finalization that reports Unchanged has passed no root and dropped no node,
  so that not writing it leaves nothing stale (`FinalizeUnchanged`);
* a node comparable with the finalized block that is not due yet is kept by
  `finalize_with_descendent_if` (`FinalizeKeeps`);
* a forced change is applied at the imported block only if that block enacts it;
  `NoHoles` excludes that another imported block above it had a change to lose;
* what `Begin` changed under the lock is either written with the block or put
  back from `op.old`.

`NoHoles` is what makes the fourth point hold: every imported block above the
finalized number has its parent imported, hence all its ancestors down to that
number, so a block that is only now being imported is below none of them.

**Manifest tool** (assumes that names are unambiguous and that a key means the same
package in all tables of a manifest, `NamesAssumption` and `ManifestsAssumption`).
`ManifestsConsistent` says that members exist, that what a built crate has from the
workspace is in the root manifest, that a removed crate is left as a dependency only under a
manifest's own alias, and that entries of features name what is there, of every form from
machete on. `NothingElseDropped` says that a crate goes only with a folder it is in and its
membership only by the spelling of its path; and until machete, that a dependency goes only
with its package or by its own name, a feature only by `remove_feature`, and an entry only
by a name: entries on dependencies and on features look alike, so it need not be on what was removed.
`Inv` says that the manifests have their shape (`Shape`, with what is left of aliases), that
until machete they are what was given less what matches (`Faithful`), that after it
all entries resolve (`AllResolve`), that what is built resolves, and that between fix and
trim the lock file covers what is built. `Faithful` is kept because what was lost only
grows with further removals (`LostGrow`, `MatchesGrow`) and each command drops by names it
adds to that (`KeptShrinks`). `TidyInv` follows the round of fix, machete
and trim: a round that changed no manifest trimmed by a current lock file.
Trimming by a lock file that covers what is built changes neither what is locked
nor what is built, which is why the loop of `patch.sh` may stop there.

**Enactment state.** The last finalized block is on the chain of the last best one and
the enacted blocks are that chain, until a jump is skipped.

**Overlay** (assumes a finite set of main-trie keys, ordered as natural numbers; that
main trie, child trie and offchain storage have different keys; and that a value whose
first byte announces a length has all bytes of that length: `OverlayAssumption`).
`OverlayedChangeSet_proofs` is about one change set. A list that is appended to takes
its data from the version below, which is left empty and gets it back by
truncation, so a version does not hold its own value. `Chain` says what makes
giving back possible: a version that took data has at least the elements it owes, and
one that owes nothing to the version above has its data in form, length
prefix and elements. `ValueOf` is what a key shows once the transactions above a depth
are undone, and `KeySound` adds to `Chain` the number of versions. `Chain` and the
values at all depths are needed together: a commit that drops a middle version
keeps what the outer transactions show only because the data moves up with
the debt of the version dropped. There is one lemma per operation (set, append, read,
clear, start, commit, roll back, enter and exit the runtime), first for a key,
then for the whole change set (`Sound`, `ValueIn`): soundness is kept, and the value at
each depth is what the operation does to a stack of copies. `ChangeSetViews` has the
terms (`Sound`, `ValueIn`, `Starts`, `Commits`, ...).

`OverlayViews_proofs` first states, one law per operation, what these lemmas say, and uses
nothing else of the change sets: its lemmas assume `Laws`, which keeps the many facts about versions out of the provers' context. Nothing is
left assumed: `OverlayTheorems_proofs` proves `Laws` (`LawsHold`) from the lemmas of
`OverlayedChangeSet_proofs` and the library's theorems about finite sets, and states the
theorems without it. The lemmas put main trie, child trie and offchain changes together. The
inductive invariant `ViewsInv` says that the three change sets are sound and at the same
depth, that the backend holds well-formed values, that the views are the
stack of `NestedStorage`, that the mode and the number of client transactions are the
same on both sides, and that a cached root is the root of values. The depth is needed because a child trie comes into being
with as many open transactions as the main trie has; the mode, because what may be
closed depends on it; the cached root, because a drain stores the tries that it is the
root of, fresh or not. For `CachedRootStaysFresh` the operations that do not drop the cached
root, other than the two excepted, are shown to change nothing that is seen of the
tries. `LockStep` follows from soundness.
`NextKeyRight` is shown in two steps: the loop of `next_storage_key`, a
recursive function, passes only keys without a value and ends on the first one with a
value, by induction on the number of keys left; and the least key of the two
it compares is the least one of the view.

### What is only model-checked, and why

* Liveness (`ReservedEventuallyConnected`, `SlotsEventuallyFilled`, `RemoteAnswered`,
  `TransitionsEnd`, `WaitingEnds`, `CatchesUp`) and `SyncsToTip`: fairness and
  ENABLED are outside the reach of the prover.
* `FollowsNetwork`, `HistoryNamesSigner`, `VoterInStep` of GRANDPA: they relate the
  client to the whole past of the network, and the voter to commands sent under earlier
  sets; an inductive invariant has to follow that past. Not attempted yet.
* The state database and the sync: their operations are folds and
  recursive functions over levels, rows and ranges, and what such a function
  returns needs an induction per operation.
* `PoolSound` and `ReadyOrder`: `TransactionGraph` is written with RECURSIVE
  operators, which the prover does not support.

## Where the code and what is said of it differ

Runs that show a disagreement (details and quotations in `PROJECT.json`, `findings`):

* `grandpa_assert`: `import_block` decides under the lock that finalizing will enact a
  change and releases it; if the voter finalizes the block meanwhile, the
  assertion at `import.rs:892` fails.
* `state_db_pin`: `pin` does not count a pin of a block that was discarded earlier.
* `sync_stall`: an announcement on an unknown fork overwrites DownloadingNew
  without `clear_peer_download`, and the range is never asked for again.

Further configurations, one claim each, that TLC refutes as well:

| module, cfg | claim | what happens |
|---|---|---|
| `MCNotifications`, `MCNotifPoisoned` | Poisoned is not "found in the wild" (`behaviour.rs:200`) | CloseDesired of a connection told to close arrives while the other made the peer Incoming (2013) |
| `MCNotifications`, `MCNotifSink` | "If it closes, a second open connection may take over" (`behaviour.rs:110`) | the sink is replaced only if the list order agrees with the order of opening (1529) |
| `MCNotifications`, `MCNotifConsistency` | "the eventual consistency is maintained" (`protocol_controller.rs:42`) | a Connect crosses an incoming request whose connection then ends; the Reject finds a dead entry (620) |
| `MCStateDb`, `MCStateDbCanonical` | the canonicalized block "is no discarded immediately" (`noncanonical.rs:405`) | with two blocks canonicalized in one operation, unpinning a discarded child of the first takes its count to zero (550) |
| `MCPatchTool`, `MCPatchToolAlias` | "If this dependency is an alias for a removed crate, remove it" (`src/src/crate_toml.rs:43`) | the key is removed from the dependency's own table, and the dependency stays (48) |
| `MCTxPool`, `MCTxPoolStuck` | `base_pool.rs:255`: recently pruned tags spare a transaction the future queue | with an empty pool `prune` does not look up the tags of a block (`pool.rs:378`), and a transaction under verification waits for ever |

Met while modelling, without a run:

* `remove_reserved_peer` is documented "Does not disconnect the peer."
  (`protocol_controller.rs:191`); `on_remove_reserved_peer` drops the connection
  when no slot is free for it, or in reserved-only mode (526).
* Notifications. The `debug_assert!` at `behaviour.rs:1795` leaves out
  `OpeningThenClosing`, which the comment above it includes; it fails with two
  connections, and `AssertionsHold` excepts it. If the sender of a validation result
  is dropped, the request is never answered (2328), while `handler.rs:53`
  promises the remote an answer. A rejection by the protocol that finds the
  connection gone reports no drop to the controller (1125). A Drop read while
  the peer is Incoming turns a later Accept into a rejection nobody reports (1036).
  A request given up leaves its entry in `incoming` for ever. Repeated failed dials
  keep a peer backed off.
* GRANDPA. The comment of `apply_forced_changes` speaks of a best-block trigger; it
  runs on every imported block. The pause on a forced signal is not undone if its
  fork loses. A forced change whose median is below a recorded change would
  unsort the history. During gap sync `insert` uses the number of the signalling
  block. `import_state` writes block and authority set in two transactions. A stale
  ChangeAuthorities command can reach a voter after a state import.
* Transaction pool. With transactions that require two tags, `missing_tags` of a
  waiting one go stale when the provider of a satisfied tag is removed, and it is
  promoted without that tag (`ready.rs:150`). On a detected cycle promoted
  transactions are dropped, though `base_pool.rs:410` says they go back to
  future. TooLowPriority on a first import loses the waiting transactions taken
  by `satisfy_tags` without an event. Pruning may exceed the ready limit until the
  next submission.
* Overlay. `append_storage` (`mod.rs:334`) and `exit_runtime` (504) do not call
  `mark_dirty`, which 304 asks of every change. `changeset.rs:837` says open
  transactions are committed on exit; they are rolled back.
* Sync. After a restart with batches in flight `best_queued` can lag behind the common
  numbers of peers, and ranges beyond it wait until a peer reconnects.
  `ready_blocks` is called only on a new answer or a removed peer. `clear`
  ("Clear everything.") keeps `queued_blocks`. Partial answers can give overlapping
  ranges, and a batch with duplicates. An announcement during an ancestor search
  is dropped. `BadBlock` and `MissingState` do not restart (870, 879), and
  `best_queued` stays above the block that was refused.
* Manifest tool. Members are matched by string prefix (`src/src/main.rs:58`), so that
  `remove_folder_of_crates` of `a/test` takes the member `a/testing` along, which is
  left on disk. An entry of a feature goes by its name, also when a feature is meant.

## Not modelled

`PROJECT.json` lists the parts left out with the reason. Within the modelled ones:

* notifications: contents and handshakes, several subscribers of one protocol, the
  inbound half of an open substream, whose end the handler tolerates;
* sync: forks, gap, state and warp sync, justification requests,
  `set_sync_fork_request`, the count of bans;
* state database: mode ArchiveAll, a failing `Backend::finalize_block`, which
  has no caller in the tree, headers, bodies and columns;
* GRANDPA: the rounds (crate finality-grandpa), gossip, `until_imported`, `revert`,
  the import of proofs;
* transaction pool: watchers, limits in bytes, trimming of bans, `tree_route` errors,
  the fork-aware pool; submission is one step after verification, and so is
  `prune_tags`;
* overlay: `child_storage_root`, `clear_child_prefix`, `next_child_storage_key`,
  extrinsic indices, transaction index operations; the backend applies the
  drained changes (external);
* manifest tool: versions, source edits.

## What could come next

Proofs: `BusyIsAwaited` of `ChainSync` (requests and peers' states in step), `ValuesCounted`
and `RestartSame` of `StateDb`, `FollowsNetwork`. Models:
the litep2p peerset as a second implementation of `ConnectionCommands`, the
reputations of the peer store, the epoch changes of BABE over the fork tree, the
leaf set with its undo.
