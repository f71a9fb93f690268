------------------------------ MODULE ChainSync ------------------------------
(***************************************************************************)
(* Full sync of one chain: the ChainSync strategy with its collection of   *)
(* ranges, run by the SyncingEngine's loop, against the peers that answer, *)
(* announce, fail and leave, and the import queue that works through the   *)
(* batches it is given (substrate/client/network/sync/src/engine.rs,       *)
(* strategy/chain_sync.rs, strategy/disconnected_peers.rs).                *)
(*                                                                         *)
(* Blocks are the numbers 0 .. MaxBlock of one chain: a number stands for  *)
(* the hash, and nobody is on another fork.  A handler changes `sync` and  *)
(* leaves actions in it; the engine then asks for the strategy's actions   *)
(* and carries them out, in the same iteration of its loop.                *)
(* Left out: gap, state and warp sync, justification requests, explicit    *)
(* fork requests, and the count of disconnections that bans a peer.        *)
(***************************************************************************)
EXTENDS BlockCollection

CONSTANTS
    Peers,               \* the peers that may connect
    MaxBlock,            \* the height the peers' chain ends at
    MaxBlocksPerRequest, \* max_blocks_per_request
    MaxParallel,         \* max_parallel_downloads
    MaxDownloadAhead,    \* MAX_DOWNLOAD_AHEAD
    MaxImporting,        \* MAX_IMPORTING_BLOCKS
    MaxLookBack,         \* MAX_BLOCKS_TO_LOOK_BACKWARDS
    MajorSyncBlocks,     \* MAJOR_SYNC_BLOCKS
    FinalityLag,         \* how far the client's finalized block trails its best
    Heads,               \* the heights the peers' chains may have at first
    Jump,                \* how many blocks an announcement may be ahead of the last
    MaxAnnouncements,    \* bound on announcements
    MaxFaults            \* bound on failed imports, bad answers and disconnections

ASSUME SyncAssumption ==
    /\ MaxBlock \in Nat \ {0} /\ MaxBlocksPerRequest \in Nat \ {0} /\ MaxParallel \in Nat \ {0}
    /\ Heads \subseteq 1 .. MaxBlock

VARIABLES
    sync,      \* the ChainSync strategy
    pending,   \* PendingResponses: peer -> the request its response is awaited for
    backoff,   \* DisconnectedPeers: the peers not to be asked for now
    leaving,   \* the peers the engine asked the network to disconnect
    best,      \* the client's best block
    queue,     \* the import queue: the batches not imported yet
    tried,     \* what became of the blocks of the first batch that were tried
    processed, \* BlocksProcessed commands on their way to the engine
    imported,  \* NewBestBlockImported commands on their way to the engine
    head,      \* the height of each peer's chain
    announced, \* how many announcements there have been
    faults     \* how many faults have happened

vars == <<sync, pending, backoff, leaving, best, queue, tried, processed, imported, head, announced, faults>>

Numbers == 0 .. MaxBlock
Finalized == Max({0, best - FinalityLag})

-----------------------------------------------------------------------------
(* PeerSyncState *)

Available == [tag |-> "available"]
DownloadingNew(start) == [tag |-> "new", start |-> start]
DownloadingStale(hash) == [tag |-> "stale", hash |-> hash]
AncestorSearch(current, start, kind, a, b) ==
    [tag |-> "search", current |-> current, start |-> start, kind |-> kind, a |-> a, b |-> b]
StartSearch(current, start) == AncestorSearch(current, start, "exponential", 1, 0)

(* Requests: the blocks from - max + 1 .. from, in descending order. *)
BlockRequest(from, max) == [from |-> from, max |-> max]
ancestry_request(n) == BlockRequest(n, 1)

(* SyncingAction *)
StartRequest(p, request) == [act |-> "StartRequest", peer |-> p, request |-> request]
CancelRequest(p) == [act |-> "CancelRequest", peer |-> p]
DropPeer(p) == [act |-> "DropPeer", peer |-> p]
ImportBlocks(initial, blocks) == [act |-> "ImportBlocks", initial |-> initial, blocks |-> blocks]

Push(s, action) == [s EXCEPT !.actions = Append(@, action)]

block_known(s, n) == n \in s.queue_blocks \/ n <= best

-----------------------------------------------------------------------------
(* What the strategy thinks of its state. *)

median_seen(s) ==
    LET n == Cardinality(DOMAIN s.peers)
        nth == n \div 2 + 1
    IN  CHOOSE b \in Numbers :
            /\ Cardinality({p \in DOMAIN s.peers : s.peers[p].best < b}) < nth
            /\ Cardinality({p \in DOMAIN s.peers : s.peers[p].best <= b}) >= nth

is_major_syncing(s) == DOMAIN s.peers # {} /\ median_seen(s) - best > MajorSyncBlocks

update_common_number(s, p, n) ==
    IF p \in DOMAIN s.peers /\ s.peers[p].common < n THEN [s EXCEPT !.peers[p].common = n] ELSE s

on_block_queued(s, n) ==
    LET common(p) == IF n > s.best_queued /\ s.peers[p].state.tag # "search"
                     THEN Min({s.peers[p].best, n}) ELSE s.peers[p].common
    IN  [s EXCEPT !.fork_targets = Unset(@, {n}),
                  !.best_queued = Max({@, n}),
                  !.peers = [p \in DOMAIN @ |-> [@[p] EXCEPT !.common = common(p)]],
                  !.allowed = Peers]

validate_and_queue_blocks(s, blocks) ==
    LET new == SelectSeq(blocks, LAMBDA b : b.number \notin s.queue_blocks)
        t == IF new = <<>> THEN s ELSE on_block_queued(s, Last(new).number)
    IN  Push([t EXCEPT !.queue_blocks = @ \cup {new[i].number : i \in DOMAIN new}],
             ImportBlocks(is_major_syncing(s), new))

QueueReady(s, always) ==
    LET Queue(r) == LET t == [s EXCEPT !.blocks = r.collection]
                    IN  IF r.ready = <<>> /\ ~always THEN t ELSE validate_and_queue_blocks(t, r.ready)
    IN  Queue(ready_blocks(s.blocks, s.best_queued + 1))

-----------------------------------------------------------------------------
(* add_peer, remove_peer and restart *)

add_peer(s, p, peer_best) ==
    LET Add(common, state) == [s EXCEPT !.peers = Set(@, p, [common |-> common, best |-> peer_best, state |-> state])]
        Allowed(t) == [t EXCEPT !.allowed = @ \cup {p}]
        common_best == Min({s.best_queued, peer_best})
    IN  IF block_known(s, peer_best) THEN Allowed(Add(common_best, Available))
        ELSE IF Cardinality(s.queue_blocks) > MajorSyncBlocks THEN Add(s.best_queued, Available)
        ELSE IF s.best_queued = 0 THEN Allowed(Add(0, Available))
        ELSE Push(Allowed(Add(0, StartSearch(common_best, s.best_queued))),
                  StartRequest(p, ancestry_request(common_best)))

(* Mutant: the ranges of a peer that left stay marked as being downloaded. *)
remove_peerKeepsDownload(s, p) ==
    LET targets == [n \in DOMAIN s.fork_targets |-> [s.fork_targets[n] EXCEPT !.peers = @ \ {p}]]
    IN  QueueReady([s EXCEPT !.peers = Unset(@, {p}),
                             !.allowed = Peers,
                             !.fork_targets = Unset(targets, {n \in DOMAIN targets : targets[n].peers = {}})],
                   FALSE)

(* Mutant: the remaining peers are not asked for what the peer was asked. *)
remove_peerNotAllowed(s, p) ==
    LET targets == [n \in DOMAIN s.fork_targets |-> [s.fork_targets[n] EXCEPT !.peers = @ \ {p}]]
    IN  QueueReady([s EXCEPT !.blocks = clear_peer_download(@, p),
                             !.peers = Unset(@, {p}),
                             !.fork_targets = Unset(targets, {n \in DOMAIN targets : targets[n].peers = {}})],
                   FALSE)

remove_peer(s, p) ==
    LET targets == [n \in DOMAIN s.fork_targets |-> [s.fork_targets[n] EXCEPT !.peers = @ \ {p}]]
    IN  QueueReady([s EXCEPT !.blocks = clear_peer_download(@, p),
                             !.peers = Unset(@, {p}),
                             !.allowed = Peers,
                             !.fork_targets = Unset(targets, {n \in DOMAIN targets : targets[n].peers = {}})],
                   FALSE)

(* Mutant: the requests in flight are not cancelled. *)
restartNoCancel(s) ==
    LET Readd(t, p) == add_peer(t, p, s.peers[p].best)
    IN  FoldLeft(Readd,
                 [s EXCEPT !.blocks = clear(@), !.best_queued = best, !.allowed = Peers, !.peers = EmptyFun],
                 SetToSeq(DOMAIN s.peers))

(* Mutant: best_queued is not reset. *)
restartKeepsQueued(s) ==
    LET Readd(t, p) ==
            add_peer(IF s.peers[p].state.tag = "available" THEN t ELSE Push(t, CancelRequest(p)), p, s.peers[p].best)
    IN  FoldLeft(Readd, [s EXCEPT !.blocks = clear(@), !.allowed = Peers, !.peers = EmptyFun], SetToSeq(DOMAIN s.peers))

(* restart: every range is forgotten, the best queued block is the client's *)
(* best again, and every peer is added anew, its request cancelled.        *)
restart(s) ==
    LET Readd(t, p) ==
            add_peer(IF s.peers[p].state.tag = "available" THEN t ELSE Push(t, CancelRequest(p)), p, s.peers[p].best)
    IN  FoldLeft(Readd,
                 [s EXCEPT !.blocks = clear(@), !.best_queued = best, !.allowed = Peers, !.peers = EmptyFun],
                 SetToSeq(DOMAIN s.peers))

-----------------------------------------------------------------------------
(* Announcements *)

on_validated_block_announce(s, p, n) ==
    LET peer == s.peers[p]
        known == block_known(s, n)
        known_parent == block_known(s, n - 1)
        continues_known_fork == known \/ known_parent \/ n - 1 = peer.best
        t == [s EXCEPT !.peers[p].best = n]
        u == IF known /\ s.best_queued >= n THEN update_common_number(t, p, n)
             ELSE IF n - 1 = s.best_queued \/ (known_parent /\ s.best_queued >= n)
                  THEN update_common_number(t, p, n - 1) ELSE t
        current == Min({n, s.best_queued})
        a == [u EXCEPT !.allowed = @ \cup {p}]
        downloading == \E q \in DOMAIN a.peers : a.peers[q].state = DownloadingStale(n)
        target == IF n \in DOMAIN a.fork_targets THEN a.fork_targets[n]
                  ELSE [parent |-> TRUE, peers |-> {}]
    IN  IF peer.state.tag = "search" THEN s
        ELSE IF ~continues_known_fork /\ ~is_major_syncing(s)
        THEN Push([u EXCEPT !.peers[p].common = Min({@, Finalized}),
                            !.peers[p].state = StartSearch(current, s.best_queued)],
                  StartRequest(p, ancestry_request(current)))
        ELSE IF IF known \/ downloading THEN n \in DOMAIN a.fork_targets ELSE ~is_major_syncing(a)
        THEN [a EXCEPT !.fork_targets = Set(@, n, [target EXCEPT !.peers = @ \cup {p}])]
        ELSE a

-----------------------------------------------------------------------------
(* Answers *)

(* handle_ancestor_search_state: the next state of the search, or <<>> when *)
(* it is over.                                                             *)
handle_ancestor_search_state(st, match) ==
    LET curr == st.current
        left == IF match THEN curr ELSE st.a
        right == IF match THEN st.b ELSE curr
        middle == left + (right - left) \div 2
        Exponential(n, d) == <<AncestorSearch(n, st.start, "exponential", d, 0)>>
        Binary(l, r) == <<AncestorSearch(l + (r - l) \div 2, st.start, "binary", l, r)>>
    IN  IF st.kind = "exponential"
        THEN IF ~match THEN Exponential(Max({0, curr - st.a}), 2 * st.a)
             ELSE IF st.a = 1 THEN <<>> ELSE Binary(curr, curr + st.a \div 2)
        ELSE IF st.a >= curr \/ middle = curr THEN <<>> ELSE Binary(left, right)

(* The common number an answered search step yields. *)
CommonFound(s, p) ==
    LET peer == s.peers[p]
        match == peer.state.current <= best
    IN  IF ~match THEN peer.common
        ELSE IF peer.state.start < s.best_queued /\ s.best_queued <= peer.best THEN s.best_queued
        ELSE Max({peer.common, peer.state.current})

OnAncestor(s, p) ==
    LET peer == s.peers[p]
        next == handle_ancestor_search_state(peer.state, peer.state.current <= best)
        t == [s EXCEPT !.peers[p].common = CommonFound(s, p)]
        theirs == peer.best
        target == IF theirs \in DOMAIN t.fork_targets THEN t.fork_targets[theirs]
                  ELSE [parent |-> FALSE, peers |-> {}]
        u == [t EXCEPT !.peers[p].state = Available]
    IN  IF next # <<>>
        THEN Push([t EXCEPT !.peers[p].state = next[1]], StartRequest(p, ancestry_request(next[1].current)))
        ELSE IF t.peers[p].common < theirs /\ theirs < s.best_queued
        THEN [u EXCEPT !.fork_targets = Set(@, theirs, [target EXCEPT !.peers = @ \cup {p}])]
        ELSE u

(* on_block_data with the blocks first .. request.from. *)
on_block_data(s, p, request, first) ==
    LET a == [s EXCEPT !.allowed = @ \cup {p}]
        st == s.peers[p].state
        blocks == [i \in 1 .. request.from - first + 1 |-> [number |-> first + i - 1, origin |-> p]]
        free == [a EXCEPT !.peers[p].state = Available]
    IN  CASE st.tag = "new" -> QueueReady([free EXCEPT !.blocks = insert(clear_peer_download(@, p), first, Len(blocks), p)], TRUE)
          [] st.tag = "stale" -> validate_and_queue_blocks(free, blocks)
          [] st.tag = "search" -> OnAncestor(a, p)
          [] OTHER -> validate_and_queue_blocks(a, <<>>)

(* on_block_data with an answer that validate_blocks or the match on the   *)
(* peer's state refuses: no blocks, too many, or others than requested.    *)
RefuseBlockData(s, p) ==
    LET a == [s EXCEPT !.allowed = @ \cup {p}]
        st == s.peers[p].state
        t == CASE st.tag = "new" -> [a EXCEPT !.blocks = clear_peer_download(@, p), !.peers[p].state = Available]
               [] st.tag = "stale" -> [a EXCEPT !.peers[p].state = Available]
               [] OTHER -> a
    IN  Push(t, DropPeer(p))

-----------------------------------------------------------------------------
(* Results of the import queue *)

Restarts(results) == \E i \in DOMAIN results : results[i].result \in {"invalid", "other"}

(* on_blocks_processed: results are records with the block's number, its   *)
(* origin and what became of it; only those up to the first error count.   *)
(* A block that is incomplete or fails verification, one whose parent is   *)
(* unknown and any other error restart the sync.  A blacklisted block only *)
(* costs its peer the connection, and one whose parent's state is missing  *)
(* is passed over: best_queued stays past them.                            *)
on_blocks_processed(s, results) ==
    LET Forget(t, r) == [t EXCEPT !.queue_blocks = @ \ {r.number}, !.blocks = clear_queued(@, r.number)]
        t == FoldLeft(Forget, s, results)
        oks == SelectSeq(results, LAMBDA r : r.result = "ok")
        u == FoldLeft(LAMBDA v, r : update_common_number(v, r.origin, r.number), t, oks)
        errors == SelectSeq(results, LAMBDA r : r.result \notin {"ok", "cancelled"})
        v == IF errors # <<>> /\ errors[1].result \in {"invalid", "bad"} THEN Push(u, DropPeer(errors[1].origin)) ELSE u
    IN  [(IF Restarts(results) THEN restart(v) ELSE v) EXCEPT !.allowed = Peers]

-----------------------------------------------------------------------------
(* Requests *)

(* fork_sync_request: a known or finalized target is forgotten; one that p *)
(* has and that is not too far ahead is requested.                         *)
LiveTargets(s) ==
    LET finalized == Min({s.best_queued, Finalized})
    IN  Restrict(s.fork_targets, {n \in DOMAIN s.fork_targets : n > finalized /\ ~block_known(s, n)})

ForkTargetsFor(s, p) ==
    {n \in DOMAIN LiveTargets(s) : p \in s.fork_targets[n].peers /\ n - s.best_queued < MaxBlocksPerRequest}

fork_sync_request(s, n) ==
    BlockRequest(n, IF s.fork_targets[n].parent /\ block_known(s, n - 1) THEN 1
                    ELSE n - Min({s.best_queued, Finalized}))

(* The request for one available and allowed peer in block_requests, given *)
(* the range that peer_block_request finds for it; of several fork targets *)
(* the map gives `first' before the others.                                *)
RequestGiven(s, p, first, needed) ==
    LET peer == s.peers[p]
        Ask(t, state, request) == Push([t EXCEPT !.peers[p].state = state], StartRequest(p, request))
        range == IF s.best_queued >= peer.best THEN <<>> ELSE needed.range
        targets == ForkTargetsFor(s, p)
        n == IF first \in targets THEN first ELSE Min(targets)
    IN  IF /\ s.best_queued - peer.common > MaxLookBack
           /\ s.best_queued < peer.best
           /\ peer.common < Min({s.best_queued, Finalized})
           /\ Cardinality(s.queue_blocks) <= MajorSyncBlocks
        THEN Ask(s, StartSearch(s.best_queued, s.best_queued), ancestry_request(s.best_queued))
        ELSE IF range # <<>>
        THEN Ask([s EXCEPT !.blocks = needed.collection], DownloadingNew(range[1]),
                 BlockRequest(range[2] - 1, range[2] - range[1]))
        ELSE IF targets # {}
        THEN Ask([s EXCEPT !.fork_targets = LiveTargets(s)], DownloadingStale(n), fork_sync_request(s, n))
        ELSE [s EXCEPT !.fork_targets = LiveTargets(s)]

RequestFor(s, p, max_parallel, first) ==
    RequestGiven(s, p, first,
        needed_blocks(s.blocks, p, MaxBlocksPerRequest, s.peers[p].best, s.peers[p].common,
                      max_parallel, MaxDownloadAhead))

(* The peers that block_requests may ask, those in off being backed off; a  *)
(* full import queue stops all requests.                                   *)
Askable(s, off) ==
    IF Cardinality(s.queue_blocks) > MaxImporting THEN {}
    ELSE {p \in (DOMAIN s.peers \cap s.allowed) \ off : s.peers[p].state = Available}

(* The fork target that the map may give first; 0 when that decides nothing. *)
TargetsFirst(s) == IF Cardinality(DOMAIN s.fork_targets) > 1 THEN DOMAIN s.fork_targets ELSE {0}

(* block_requests, with the peers that may be asked in some order. *)
block_requests(s, order, first) ==
    LET max_parallel == IF is_major_syncing(s) THEN 1 ELSE MaxParallel
        Allow(t) == IF t.actions = s.actions THEN t ELSE [t EXCEPT !.allowed = {}]
    IN  Allow(FoldLeft(LAMBDA u, p : RequestFor(u, p, max_parallel, first), s, order))

-----------------------------------------------------------------------------
(* The engine: process_strategy_actions, after every event. *)

PendingAfter(requests, actions) ==
    LET Do(f, a) == CASE a.act = "StartRequest" -> Set(f, a.peer, a.request)
                      [] a.act \in {"CancelRequest", "DropPeer"} -> Unset(f, {a.peer})
                      [] OTHER -> f
    IN  FoldLeft(Do, requests, actions)

ImportsOf(actions) == SelectSeq(actions, LAMBDA a : a.act = "ImportBlocks" /\ a.blocks # <<>>)
DropsOf(actions) == {actions[i].peer : i \in {j \in DOMAIN actions : actions[j].act = "DropPeer"}}

(* The rest of the iteration in which an event made the strategy s and the *)
(* pending responses requests, with the peers in off backed off and those  *)
(* in going to be disconnected.                                            *)
Process(s, requests, off, going) ==
    \E order \in SetToSeqs(Askable(s, off)), first \in TargetsFirst(s) :
        \E t \in {block_requests(s, order, first)} :
            /\ sync' = [t EXCEPT !.actions = <<>>]
            /\ pending' = PendingAfter(requests, t.actions)
            /\ queue' = queue \o ImportsOf(t.actions)
            /\ backoff' = off
            /\ leaving' = going \cup DropsOf(t.actions)

Fault == faults < MaxFaults /\ faults' = faults + 1

-----------------------------------------------------------------------------
(* Events *)

Join(p) ==
    /\ p \notin DOMAIN sync.peers
    /\ Process(add_peer(sync, p, head[p]), pending, backoff, leaving)
    /\ UNCHANGED <<best, tried, processed, imported, head, announced, faults>>

(* on_sync_peer_disconnected: the peer leaves by itself or because it was  *)
(* disconnected.                                                           *)
Leave(p) ==
    /\ p \in DOMAIN sync.peers
    /\ IF p \in leaving THEN UNCHANGED faults ELSE Fault
    /\ Process(remove_peer(sync, p), Unset(pending, {p}),
               IF sync.peers[p].state = Available THEN backoff ELSE backoff \cup {p},
               leaving \ {p})
    /\ UNCHANGED <<best, tried, processed, imported, head, announced>>

Announce(p) ==
    /\ p \in DOMAIN sync.peers
    /\ announced < MaxAnnouncements
    /\ announced' = announced + 1
    /\ \E n \in head[p] + 1 .. Min({MaxBlock, head[p] + Jump}) :
           /\ head' = [head EXCEPT ![p] = n]
           /\ Process(on_validated_block_announce(sync, p, n), pending, backoff, leaving)
    /\ UNCHANGED <<best, tried, processed, imported, faults>>

(* An answer has the block asked for and any number of its ancestors, up   *)
(* to the number requested.                                                *)
Answer(p) ==
    /\ p \in DOMAIN pending
    /\ \E first \in pending[p].from - pending[p].max + 1 .. pending[p].from :
           Process(on_block_data(sync, p, pending[p], first), Unset(pending, {p}), backoff, leaving)
    /\ UNCHANGED <<best, tried, processed, imported, head, announced, faults>>

BadAnswer(p) ==
    /\ p \in DOMAIN pending
    /\ Fault
    /\ Process(RefuseBlockData(sync, p), Unset(pending, {p}), backoff, leaving)
    /\ UNCHANGED <<best, tried, processed, imported, head, announced>>

(* process_response_event with an error: the peer is disconnected. *)
RequestFailure(p) ==
    /\ p \in DOMAIN pending
    /\ Fault
    /\ Process(sync, Unset(pending, {p}), backoff, leaving \cup {p})
    /\ UNCHANGED <<best, tried, processed, imported, head, announced>>

BlocksProcessed ==
    /\ processed # <<>>
    /\ processed' = Tail(processed)
    /\ Process(on_blocks_processed(sync, Head(processed)), pending, backoff, leaving)
    /\ UNCHANGED <<best, tried, imported, head, announced, faults>>

(* NewBestBlockImported: update_chain_info. *)
NewBestBlockImported ==
    /\ imported # <<>>
    /\ imported' = Tail(imported)
    /\ Process(on_block_queued(sync, Head(imported)), pending, backoff, leaving)
    /\ UNCHANGED <<best, tried, processed, head, announced, faults>>

(* The tick of the engine's loop, which also notices that the backoff of a *)
(* peer is over (is_peer_available).                                       *)
Tick(over) ==
    /\ Process(sync, pending, backoff \ over, leaving)
    /\ UNCHANGED <<best, tried, processed, imported, head, announced, faults>>

-----------------------------------------------------------------------------
(* The import queue works through a batch block by block; after an error   *)
(* the rest of the batch is cancelled.  A block whose parent is not known  *)
(* is an error; any block that has to be verified may fail: it is invalid, *)
(* of a blacklisted fork, of one whose state is gone, or cannot be imported *)
(* for another reason.                                                     *)

Outcomes(n) ==
    IF n <= best THEN {"ok"} ELSE IF n > best + 1 THEN {"other"} ELSE {"ok", "invalid", "bad", "missing", "other"}

Result(b, r) == [number |-> b.number, origin |-> b.origin, result |-> r]

import_many_blocks ==
    /\ queue # <<>>
    /\ LET blocks == Head(queue).blocks
           i == Len(tried) + 1
           b == blocks[i]
       IN  \E r \in Outcomes(b.number) :
               LET done == Append(tried, Result(b, r))
                   rest == [j \in 1 .. Len(blocks) - i |-> Result(blocks[i + j], "cancelled")]
                   new == r = "ok" /\ b.number > best
               IN  /\ IF r = "ok" \/ b.number > best + 1 THEN UNCHANGED faults ELSE Fault
                   /\ best' = IF new THEN b.number ELSE best
                   /\ imported' = IF new /\ ~Head(queue).initial THEN Append(imported, b.number) ELSE imported
                   /\ IF r = "ok" /\ i < Len(blocks)
                      THEN tried' = done /\ UNCHANGED <<queue, processed>>
                      ELSE /\ tried' = <<>>
                           /\ queue' = Tail(queue)
                           /\ processed' = Append(processed, IF r = "ok" THEN done ELSE done \o rest)
    /\ UNCHANGED <<sync, pending, backoff, leaving, head, announced>>

-----------------------------------------------------------------------------
Init ==
    /\ best = 0
    /\ sync = [peers |-> EmptyFun, blocks |-> NewCollection, best_queued |-> best, queue_blocks |-> {},
               fork_targets |-> EmptyFun, allowed |-> {}, actions |-> <<>>]
    /\ pending = EmptyFun
    /\ backoff = {}
    /\ leaving = {}
    /\ queue = <<>>
    /\ tried = <<>>
    /\ processed = <<>>
    /\ imported = <<>>
    /\ head \in [Peers -> Heads]
    /\ announced = 0
    /\ faults = 0

Next ==
    \/ \E p \in Peers : Join(p) \/ Leave(p) \/ Announce(p) \/ Answer(p) \/ BadAnswer(p) \/ RequestFailure(p)
    \/ BlocksProcessed \/ NewBestBlockImported \/ (\E over \in SUBSET backoff : Tick(over))
    \/ import_many_blocks

Spec == Init /\ [][Next]_vars

(* The import queue works through its batches, the engine through its      *)
(* commands, the peers answer what they are asked (or their requests fail), *)
(* a peer that is to be disconnected is, and a backoff ends.  Each is      *)
(* stated on the variable it advances, which TLC evaluates faster than the *)
(* whole action and which the action's own weak fairness implies.          *)
Fairness ==
    /\ WF_queue(queue # <<>> /\ queue' = Tail(queue))
    /\ WF_processed(processed # <<>> /\ processed' = Tail(processed))
    /\ WF_imported(imported # <<>> /\ imported' = Tail(imported))
    /\ \A p \in Peers :
           /\ WF_leaving(p \in leaving /\ leaving' = leaving \ {p})
           /\ WF_backoff(p \in backoff /\ backoff' = backoff \ {p})
           /\ \/ []<>(p \notin DOMAIN pending)
              \/ []<><<p \in DOMAIN pending' => pending'[p] # pending[p]>>_pending

FairSpec == Spec /\ Fairness

-----------------------------------------------------------------------------
(* Properties *)

Error(results) == \E i \in DOMAIN results : results[i].result \notin {"ok", "cancelled"}

Downloaders(start) == {p \in DOMAIN sync.peers : sync.peers[p].state = DownloadingNew(start)}

(* The ranges that fewer peers download than the collection counts. *)
Forgotten ==
    {start \in DOMAIN sync.blocks.blocks :
        LET r == sync.blocks.blocks[start]
        IN  r.state = "downloading" /\ r.downloading > Cardinality(Downloaders(start))}

(* A peer the strategy takes for busy has a response pending or is about to *)
(* be disconnected, and no response is awaited from one it takes for       *)
(* available, however answers, failures, restarts, cancelled requests,     *)
(* announcements and disconnections interleave: a busy peer whose response *)
(* was dropped would never be asked again.                                 *)
BusyIsAwaited ==
    \A p \in DOMAIN sync.peers :
        IF sync.peers[p].state = Available THEN p \notin DOMAIN pending ELSE p \in DOMAIN pending \cup leaving

(* A download is never forgotten: as many peers as the collection counts    *)
(* download a range it marks as being downloaded (needed_blocks,           *)
(* clear_peer_download), except where an announcement on an unknown fork   *)
(* sends one of them into an ancestor search.  A range nobody downloads is *)
(* not asked for again in major sync and holds back everything after it.   *)
OnlySearchForgets ==
    [][\A start \in Forgotten' \ Forgotten :
           \E p \in Downloaders(start) \cap DOMAIN sync'.peers : sync'.peers[p].state.tag = "search"]_vars

(* The blocks that are with the import queue, and those whose results are  *)
(* on their way back.                                                      *)
Waiting == UNION {{queue[i].blocks[j].number : j \in DOMAIN queue[i].blocks} : i \in DOMAIN queue}
Reported == UNION {{processed[i][j].number : j \in DOMAIN processed[i]} : i \in DOMAIN processed}

(* best_queued is not ahead of what is being imported, or an error is on    *)
(* its way: one that was reported, or the one that a block without its     *)
(* parent will meet.                                                       *)
Accounted ==
    \/ best + 1 .. sync.best_queued \subseteq Waiting
    \/ \E i \in DOMAIN processed : Error(processed[i])
    \/ \E n \in Waiting : n > best + 1 /\ n - 1 \notin Waiting

(* The next results to be handled hold an error that does not restart.     *)
Skips == processed # <<>> /\ Error(Head(processed)) /\ ~Restarts(Head(processed))

(* queue_blocks holds exactly the blocks that are with the import queue or *)
(* whose results are on their way back, and best_queued runs ahead of what *)
(* is being imported, which nobody would be asked for again, only when a   *)
(* blacklisted block or one whose parent's state is missing is passed over *)
(* without a restart (validate_and_queue_blocks, restart, and the arms     *)
(* BadBlock and MissingState of on_blocks_processed).                      *)
QueuedIsImporting ==
    [][/\ (sync.queue_blocks = Waiting \cup Reported)'
       /\ Accounted /\ ~Accounted' => Skips /\ processed' = Tail(processed)]_vars

Synced == \A p \in DOMAIN sync.peers : sync.peers[p].best <= best

(* Nothing is on its way, and the next tick will not ask for anything. *)
AtRest ==
    /\ pending = EmptyFun /\ leaving = {} /\ queue = <<>> /\ processed = <<>> /\ imported = <<>>
    /\ \A order \in SetToSeqs(Askable(sync, {})) : block_requests(sync, order, 0).actions = <<>>

(* Blocks were passed over; a range was downloaded and not handed on. *)
PassedOver == sync.best_queued > best
HeldBack == \E start \in DOMAIN sync.blocks.blocks : sync.blocks.blocks[start].state = "complete"

(* The sync comes to rest, when every answer, import result and command has *)
(* been handled, without a block that the strategy knows a peer to have    *)
(* only in one of three ways: a range was forgotten by a peer's ancestor   *)
(* search, blocks were passed over without a restart, or a downloaded      *)
(* range is held back (a restart put best_queued behind blocks still to be *)
(* imported, and the news of their import does not call ready_blocks).     *)
(* Requests that fail, peers that leave, partial answers and restarts lose *)
(* nothing else.                                                           *)
RestsSynced == AtRest => Synced \/ Forgotten # {} \/ PassedOver \/ HeldBack

(* The SyncingEngine syncs to the tip: the client keeps getting every block *)
(* that the strategy knows its peers to have ("the actor responsible for   *)
(* syncing Substrate chain to tip", engine.rs).                            *)
SyncsToTip == []<>Synced
=============================================================================
