--------------------------- MODULE BlockCollection ---------------------------
(***************************************************************************)
(* The collection of block ranges that the chain sync strategy is          *)
(* downloading or has queued for import                                    *)
(* (substrate/client/network/sync/src/blocks.rs).                          *)
(*                                                                         *)
(* A collection is a record                                                *)
(*   blocks         start number -> range: being downloaded by a number of *)
(*                  peers, complete (the blocks one peer sent), or queued; *)
(*   peer_requests  peer -> the start of the range it was last asked for;  *)
(*   queued_blocks  first block of a queued range -> the end of the range. *)
(* All blocks are on one chain, so a block's number stands for its hash.   *)
(***************************************************************************)
EXTENDS Integers, FiniteSets, Sequences, SequencesExt, FiniteSetsExt, Functions

Downloading(len, downloading) == [state |-> "downloading", len |-> len, downloading |-> downloading]
Complete(len, origin) == [state |-> "complete", len |-> len, origin |-> origin]
Queued(len) == [state |-> "queued", len |-> len]

EmptyFun == [x \in {} |-> x]

NewCollection == [blocks |-> EmptyFun, peer_requests |-> EmptyFun, queued_blocks |-> EmptyFun]

Set(f, x, y) == [z \in DOMAIN f \cup {x} |-> IF z = x THEN y ELSE f[z]]
Unset(f, S) == Restrict(f, DOMAIN f \ S)

(* The starts of the ranges in ascending order, as the BTreeMap iterates. *)
Starts(c) == SetToSortSeq(DOMAIN c.blocks, LAMBDA a, b : a < b)

(* clear: the queued ranges are kept. *)
clear(c) == [c EXCEPT !.blocks = EmptyFun, !.peer_requests = EmptyFun]

(* insert: the len > 0 blocks from start on that who sent, unless as many  *)
(* have already been received.                                             *)
insert(c, start, len, who) ==
    IF /\ start \in DOMAIN c.blocks
       /\ c.blocks[start].state = "complete"
       /\ c.blocks[start].len >= len
    THEN c
    ELSE [c EXCEPT !.blocks = Set(@, start, Complete(len, who))]

End(c, start) == start + c.blocks[start].len

(* The range may be asked for again, of another peer. *)
Again(c, start, first, max_parallel) ==
    /\ start >= first
    /\ c.blocks[start].state = "downloading" /\ c.blocks[start].downloading < max_parallel

(* Between the range and the next one, or after the last, blocks are missing. *)
Gap(c, start, first) ==
    End(c, start) >= first /\ \A s \in DOMAIN c.blocks : s > start => End(c, start) < s

(* count blocks from number from on, up to the next range. *)
Fill(c, from, count) == <<from, Min({from + count} \cup {s \in DOMAIN c.blocks : s > from}), 0>>

(* The range <<first, last + 1, peers already downloading it>> that        *)
(* needed_blocks considers: the ranges are walked in ascending order, and  *)
(* the first that offers something decides, unless blocks are missing      *)
(* before all of them.                                                     *)
Wanted(c, count, first, max_parallel) ==
    LET hits == {s \in DOMAIN c.blocks : Again(c, s, first, max_parallel) \/ Gap(c, s, first)}
        start == Min(hits)
    IN  IF hits = {} \/ \A s \in DOMAIN c.blocks : s > first THEN Fill(c, first, count)
        ELSE IF Again(c, start, first, max_parallel)
        THEN <<start, End(c, start), c.blocks[start].downloading>>
        ELSE Fill(c, End(c, start), count)

(* The range w, up to end, is marked as downloaded by who; none when it     *)
(* lies beyond the peer's best block or too far ahead of the first range.  *)
Marked(c, who, w, end, peer_best, max_ahead) ==
    IF \/ w[1] > peer_best
       \/ DOMAIN c.blocks # {} /\ w[1] > Min(DOMAIN c.blocks) + max_ahead
       \/ end <= w[1]
    THEN [range |-> <<>>, collection |-> c]
    ELSE [range |-> <<w[1], end>>,
          collection |->
            [c EXCEPT !.peer_requests = Set(@, who, w[1]),
                      !.blocks = Set(@, w[1], Downloading(end - w[1], w[3] + 1))]]

(* needed_blocks: the range to ask who for, cropped to its best block. *)
needed_blocks(c, who, count, peer_best, common, max_parallel, max_ahead) ==
    LET w == Wanted(c, count, common + 1, max_parallel)
    IN  IF peer_best <= common THEN [range |-> <<>>, collection |-> c]
        ELSE Marked(c, who, w, Min({peer_best + 1, w[2]}), peer_best, max_ahead)

(* ready_blocks: the complete ranges that continue from are marked queued   *)
(* and their blocks handed out, up to the first gap or unfinished range.   *)
ready_blocks(c, from) ==
    LET Visit(acc, start) ==
            LET r == c.blocks[start]
            IN  IF acc.stop \/ start > acc.prev \/ r.state = "downloading" THEN [acc EXCEPT !.stop = TRUE]
                ELSE IF r.state = "queued" THEN acc
                ELSE [acc EXCEPT
                        !.prev = start + r.len,
                        !.ready = @ \o [k \in 1 .. r.len |-> [number |-> start + k - 1, origin |-> r.origin]],
                        !.collection =
                            [@ EXCEPT !.blocks[start] = Queued(r.len),
                                      !.queued_blocks = Set(@, start, start + r.len)]]
        last == FoldLeft(Visit, [stop |-> FALSE, prev |-> from, ready |-> <<>>, collection |-> c], Starts(c))
    IN  [ready |-> last.ready, collection |-> last.collection]

(* clear_queued: when the first block of a queued range has been processed *)
(* every range that starts within it is forgotten.                         *)
clear_queued(c, hash) ==
    IF hash \notin DOMAIN c.queued_blocks THEN c
    ELSE [c EXCEPT !.queued_blocks = Unset(@, {hash}),
                   !.blocks = Unset(@, hash .. c.queued_blocks[hash] - 1)]

(* clear_peer_download: who no longer downloads the range it was asked for. *)
clear_peer_download(c, who) ==
    IF who \notin DOMAIN c.peer_requests THEN c
    ELSE LET start == c.peer_requests[who]
             left == IF start \notin DOMAIN c.blocks \/ c.blocks[start].state # "downloading" THEN c.blocks
                     ELSE IF c.blocks[start].downloading > 1 THEN [c.blocks EXCEPT ![start].downloading = @ - 1]
                     ELSE Unset(c.blocks, {start})
         IN  [c EXCEPT !.peer_requests = Unset(@, {who}), !.blocks = left]

=============================================================================
