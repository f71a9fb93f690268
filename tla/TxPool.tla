------------------------------- MODULE TxPool -------------------------------
(***************************************************************************)
(* The transaction pool of a full node (BasicPool over Pool over           *)
(* ValidatedPool): submissions that are verified against a block before    *)
(* they enter the pool, the maintenance that follows every best and        *)
(* finalized block, the background revalidation, the reports of block      *)
(* authors, the bans.  Verification is a call into the runtime that is     *)
(* awaited, so whatever it answers may be applied to a pool that other     *)
(* tasks have changed meanwhile; each access to the pool itself is under   *)
(* its lock, and is one step.                                              *)
(***************************************************************************)
EXTENDS TransactionGraph, EnactmentState

CONSTANTS Body,            \* [Blocks -> Seq(Hashes)]
          Validity,        \* [Blocks -> [Hashes -> runtime answer]]
          RejectFuture,    \* Options::reject_future_transactions
          MaxEvents,       \* bound: chain events
          MaxJobs,         \* bound: submissions under verification at a time
          MaxCalls         \* bound: submissions and reports

VARIABLES pool,        \* ValidatedPool::pool
          banned,      \* PoolRotator::banned_until
          jobs,        \* submissions whose verification has been answered
          maint,       \* the maintenance in progress
          queue,       \* RevalidationWorker: members and best_block
          batch,       \* the batch of revalidation in progress
          consumed,    \* history: tags that were pruned
          events, calls

vars == <<pool, banned, jobs, best, final, maint, queue, batch, enacted, consumed, skipped,
          events, calls>>

Invalid == [kind |-> "invalid"]
Valid(requires, longevity) ==
    [kind |-> "valid", requires |-> requires, longevity |-> longevity]

\* ValidatedTransaction::valid_at
Entry(b, res) == [requires |-> res.requires, till |-> Number[b] + res.longevity]

\* The blocks of a set of blocks of one chain, the lowest first.
Ascending(S) == SetToSortSeq(S, LAMBDA a, b : Number[a] < Number[b])

Idle == [at |-> Genesis, todo |-> <<>>, tags |-> <<>>, verified |-> <<>>,
         back |-> <<>>, step |-> "idle"]
NoBatch == [at |-> Genesis, invalid |-> {}, valid |-> <<>>, step |-> "idle"]

Init ==
    /\ pool = Empty /\ banned = {} /\ jobs = {}
    /\ EnactInit /\ maint = Idle
    /\ queue = [members |-> {}, at |-> Genesis] /\ batch = NoBatch
    /\ consumed = {} /\ events = 0 /\ calls = 0

\* The orders in which the waiting transactions of a tag may be walked.
Orders(p) == SetToSeqs(FutureSet(p))

-----------------------------------------------------------------------------
(* ValidatedPool: each operator is a set of outcomes [pool, banned] *)

State == [pool |-> pool, banned |-> banned]

\* submit_one of a transaction verified at block b
submit_one(s, ord, h, b, res) ==
    IF res.kind = "valid"
    THEN [banned |-> s.banned] @@ import(s.pool, ord, h, Entry(b, res), RejectFuture)
    ELSE [pool |-> s.pool, ok |-> FALSE,
          banned |-> IF res.kind = "invalid" THEN s.banned \cup {h} ELSE s.banned]

\* enforce_limits: what goes over the limit is removed and banned
Limited(s) ==
    LET Ban(lim) == [pool |-> lim.pool, banned |-> s.banned \cup ToSet(lim.removed)]
    IN  Ban(enforce_limits(s.pool, <<>>))

\* submit: all of them, then the limits if one of them went in
submit(s, txs, b) ==
    LET Step(S, tx) ==
            UNION {{[pool |-> r.pool, banned |-> r.banned, any |-> x.any \/ r.ok] :
                       r \in {submit_one(x, ord, tx.hash, b, tx.res) : ord \in Orders(x.pool)}}
                   : x \in S}
    IN  {IF x.any THEN Limited(x) ELSE [pool |-> x.pool, banned |-> x.banned] :
            x \in FoldLeft(Step, {[pool |-> s.pool, banned |-> s.banned, any |-> FALSE]}, txs)}

\* remove_invalid: the roots are banned, what depends on them is only removed
remove_invalid(s, hashes) ==
    IF hashes = <<>> THEN s
    ELSE [pool |-> remove_subtree(s.pool, hashes).pool, banned |-> s.banned \cup ToSet(hashes)]

\* The transactions of a set that are past their longevity at block number n.
Stale(p, S, n) == {h \in S : p.entry[h].till <= n}

(* clear_stale: what is past its longevity goes; then the bans are lifted, *)
(* if their time is over: that of all of them, or of none.                 *)
clear_stale(s, b) ==
    LET ready == SelectSeq(ReadyIteration(s.pool),
                           LAMBDA h : h \in Stale(s.pool, ReadySet(s.pool), Number[b]))
        fut   == SelectSeq(s.pool.future,
                           LAMBDA h : h \in Stale(s.pool, FutureSet(s.pool), Number[b]))
        rest  == remove_invalid(remove_invalid(s, ready), fut)
    IN  {[rest EXCEPT !.banned = kept] : kept \in {{}, rest.banned}}

\* resubmit: the revalidated ones and what depends on them are removed and go in again
RECURSIVE Resubmitted(_, _, _, _)
Resubmitted(p, todo, at, again) ==
    IF todo = <<>> THEN [pool |-> p, again |-> again]
    ELSE LET rem == remove_subtree(p, <<Head(todo).hash>>)
             new(h) == IF \E i \in DOMAIN todo : todo[i].hash = h
                       THEN Entry(at, todo[CHOOSE i \in DOMAIN todo : todo[i].hash = h].res)
                       ELSE p.entry[h]
             add == [i \in DOMAIN rem.removed |->
                        [hash |-> rem.removed[i], entry |-> new(rem.removed[i])]]
         IN  Resubmitted(rem.pool,
                SelectSeq(Tail(todo), LAMBDA x : x.hash \notin ToSet(rem.removed)),
                at, again \o add)

resubmit(p, updated, at) ==
    LET Step(S, tx) == UNION {{import(q, ord, tx.hash, tx.entry, FALSE).pool :
                                  ord \in Orders(q)} : q \in S}
        Again(rem) == FoldLeft(Step, {rem.pool}, rem.again)
    IN  {IF RejectFuture THEN future_remove(q, FutureSet(q)) ELSE q :
            q \in Again(Resubmitted(p, updated, at, <<>>))}

-----------------------------------------------------------------------------
(* Submissions *)

\* check_is_known, then the runtime's answer at a block
Verified(p, bans, h, b) ==
    IF h \in bans \/ is_imported(p, h) THEN Invalid ELSE Validity[b][h]

(* verify_one: a transaction is verified at the best block; the answer is  *)
(* awaited.                                                                *)
verify_one(h) ==
    /\ h \notin banned /\ ~is_imported(pool, h)
    /\ Cardinality(jobs) < MaxJobs /\ calls < MaxCalls
    /\ calls' = calls + 1
    /\ jobs' = jobs \cup {[hash |-> h, at |-> best, res |-> Validity[best][h]]}
    /\ UNCHANGED <<pool, banned, best, final, maint, queue, batch, enacted, consumed, skipped,
                   events>>

\* A transaction that is already in the pool is not verified: its submission is
\* refused at once, and the refusal bans it.
submit_known(h) ==
    /\ h \notin banned /\ is_imported(pool, h) /\ calls < MaxCalls
    /\ calls' = calls + 1
    /\ \E s \in submit(State, <<[hash |-> h, res |-> Verified(pool, banned, h, best)]>>, best) :
          pool' = s.pool /\ banned' = s.banned
    /\ UNCHANGED <<jobs, best, final, maint, queue, batch, enacted, consumed, skipped,
                   events>>

\* The verified transaction goes to the pool.
Submitted(j) ==
    /\ \E s \in submit(State, <<[hash |-> j.hash, res |-> j.res]>>, j.at) :
          pool' = s.pool /\ banned' = s.banned
    /\ jobs' = jobs \ {j}
    /\ UNCHANGED <<best, final, maint, queue, batch, enacted, consumed, skipped, events, calls>>

\* report_invalid: a block author found a transaction it was offered to be invalid
report_invalid(h) ==
    /\ calls < MaxCalls /\ h \in ReadySet(pool)
    /\ LET s == remove_invalid(State, <<h>>) IN pool' = s.pool /\ banned' = s.banned
    /\ calls' = calls + 1
    /\ UNCHANGED <<jobs, best, final, maint, queue, batch, enacted, consumed, skipped, events>>

-----------------------------------------------------------------------------
(* Maintenance *)

\* The transactions of the retracted blocks that the enacted ones do not have again.
Returning(a, b) ==
    SelectSeq(FoldLeft(LAMBDA s, c : s \o Body[c], <<>>, Reverse(Ascending(Retracted(a, b)))),
              LAMBDA h : \A c \in Enacted(a, b) : h \notin ToSet(Body[c]))

\* maintain: one event at a time; handle_enactment starts when blocks are to be enacted
maintain(b, finalized) ==
    /\ maint.step = "idle" /\ events < MaxEvents
    /\ finalized => final \in Chain(b)
    /\ events' = events + 1
    /\ ChainEvent(b, finalized)
    /\ maint' = IF update(b, finalized).action # "enactment" THEN maint
                ELSE [at |-> b, todo |-> [c \in Enacted(best, b) |-> "body"],
                      tags |-> <<>>, verified |-> <<>>,
                      back |-> Returning(best, b), step |-> "prune"]
    /\ UNCHANGED <<pool, banned, jobs, queue, batch, consumed, calls>>

(* Pool::prune, its first half: the tags of the block's transactions, from *)
(* the pool or, when it is not empty, from the runtime at the parent.      *)
KnownTags(c) ==
    FoldLeft(LAMBDA s, h :
        IF is_imported(pool, h) THEN s \o Provides[h]
        ELSE IF ReadySet(pool) \cup FutureSet(pool) = {} THEN s
        ELSE IF Validity[Parent[c]][h].kind = "valid" THEN s \o Provides[h] ELSE s,
        <<>>, Body[c])

LookUp(c) ==
    /\ maint.step = "prune" /\ maint.todo[c] = "body"
    /\ maint' = [maint EXCEPT !.todo[c] = "tags", !.tags = With(@, c, KnownTags(c))]
    /\ UNCHANGED <<pool, banned, jobs, best, final, queue, batch, enacted, consumed, skipped,
                   events, calls>>

(* Pool::prune_tags up to the verification of what was pruned: the block's *)
(* own transactions are banned, so that they are not verified.             *)
PruneTags(c) ==
    /\ maint.step = "prune" /\ maint.todo[c] = "tags"
    /\ banned' = banned \cup ToSet(Body[c])
    /\ \E ord \in Orders(pool) :
          \E pr \in {prune_tags(pool, ord, maint.tags[c])} :
              LET verified == [i \in DOMAIN pr.pruned |->
                      [hash |-> pr.pruned[i],
                       res |-> Verified(pr.pool, banned', pr.pruned[i], c)]]
              IN  /\ pool' = pr.pool
                  /\ maint' = [maint EXCEPT !.todo[c] = "verified", !.tags = But(@, {c}),
                                            !.verified = With(@, c, verified)]
    /\ consumed' = consumed \cup ToSet(maint.tags[c])
    /\ UNCHANGED <<jobs, best, final, queue, batch, enacted, skipped, events, calls>>

\* resubmit_pruned: what is still valid goes in again; then clear_stale
resubmit_pruned(c) ==
    /\ maint.step = "prune" /\ maint.todo[c] = "verified"
    /\ \E s \in submit(State, maint.verified[c], c) : \E r \in clear_stale(s, c) :
          pool' = r.pool /\ banned' = r.banned
    /\ maint' = [maint EXCEPT !.todo = But(@, {c}), !.verified = But(@, {c})]
    /\ UNCHANGED <<jobs, best, final, queue, batch, enacted, consumed, skipped, events, calls>>

\* resubmit_at: the transactions of retracted blocks are verified, bans or not
VerifyReturning ==
    /\ maint.step = "prune" /\ maint.todo = <<>>
    /\ maint' = [maint EXCEPT !.step = "resubmit",
          !.back = [i \in DOMAIN @ |->
              [hash |-> @[i], res |-> Verified(pool, {}, @[i], maint.at)]]]
    /\ UNCHANGED <<pool, banned, jobs, best, final, queue, batch, enacted, consumed, skipped,
                   events, calls>>

\* The rest of handle_enactment: they are submitted; the ready ones are queued
ResubmitReturning ==
    /\ maint.step = "resubmit"
    /\ \E s \in submit(State, maint.back, maint.at) :
          /\ pool' = s.pool /\ banned' = s.banned
          /\ queue' = [members |-> queue.members \cup ToSet(ReadyIteration(s.pool)),
                       at |-> maint.at]
    /\ maint' = Idle
    /\ UNCHANGED <<jobs, best, final, batch, enacted, consumed, skipped, events, calls>>

-----------------------------------------------------------------------------
(* Revalidation in the background *)

(* batch_revalidate: the queued transactions that are still ready are      *)
(* verified at the worker's best block; the runtime may not know.          *)
batch_revalidate ==
    /\ batch.step = "idle" /\ queue.members # {}
    /\ \E unknown \in {{}, queue.members} :
          LET known   == (queue.members \cap ReadySet(pool)) \ unknown
              isvalid == {h \in known : Validity[queue.at][h].kind = "valid"}
          IN  batch' = [at |-> queue.at, invalid |-> known \ isvalid, step |-> "remove",
                        valid |-> [i \in 1..Cardinality(isvalid) |->
                          LET h == SetToSeq(isvalid)[i]
                          IN  [hash |-> h, res |-> Validity[queue.at][h]]]]
    /\ queue' = [queue EXCEPT !.members = {}]
    /\ UNCHANGED <<pool, banned, jobs, best, final, maint, enacted, consumed, skipped, events, calls>>

RemoveInvalid ==
    /\ batch.step = "remove"
    /\ LET s == remove_invalid(State, SetToSeq(batch.invalid))
       IN  pool' = s.pool /\ banned' = s.banned
    /\ batch' = [batch EXCEPT !.invalid = {}, !.step = "resubmit"]
    /\ UNCHANGED <<jobs, best, final, maint, queue, enacted, consumed, skipped, events, calls>>

Resubmit ==
    /\ batch.step = "resubmit"
    /\ pool' \in resubmit(pool, batch.valid, batch.at)
    /\ batch' = NoBatch
    /\ UNCHANGED <<banned, jobs, best, final, maint, queue, enacted, consumed, skipped, events, calls>>

Next ==
    \/ \E h \in Hashes : verify_one(h) \/ submit_known(h)
    \/ \E j \in jobs : Submitted(j)
    \/ \E h \in Hashes : report_invalid(h)
    \/ \E b \in Blocks, f \in BOOLEAN : maintain(b, f)
    \/ \E c \in DOMAIN maint.todo : LookUp(c) \/ PruneTags(c) \/ resubmit_pruned(c)
    \/ VerifyReturning
    \/ ResubmitReturning
    \/ batch_revalidate
    \/ RemoveInvalid
    \/ Resubmit

Spec == Init /\ [][Next]_vars

-----------------------------------------------------------------------------
(* Properties *)

Pooled == ReadySet(pool) \cup FutureSet(pool)
Requires(h) == ToSet(pool.entry[h].requires)
Count(s, x) == Cardinality({i \in DOMAIN s : s[i] = x})

(* No assert! or expect of the pool fails, and its indices say the same    *)
(* as its transactions: a transaction is in one of the two queues;         *)
(* provided_tags maps exactly the tags of the ready ones to them; every    *)
(* waiting one is wanted for the tags it misses and for no tag that is     *)
(* provided; and a ready one is linked from each provider, the rest of its *)
(* requirements being counted as met from outside.                         *)
PoolSound ==
    /\ ~pool.panicked
    /\ Len(pool.ready) = Cardinality(ReadySet(pool))
    /\ ToSet(pool.ready) = ReadySet(pool) /\ DOMAIN pool.unlocks = ReadySet(pool)
    /\ ToSet(pool.future) = FutureSet(pool)
    /\ ReadySet(pool) \cap FutureSet(pool) = {} /\ DOMAIN pool.entry = Pooled
    /\ DOMAIN pool.provided = UNION {ToSet(Provides[h]) : h \in ReadySet(pool)}
    /\ \A h \in ReadySet(pool) : \A t \in ToSet(Provides[h]) : pool.provided[t] = h
    /\ \A t \in Tags : /\ pool.wanted[t] = {h \in FutureSet(pool) : t \in pool.missing[h]}
                       /\ pool.wanted[t] # {} => t \notin DOMAIN pool.provided
    /\ \A h \in FutureSet(pool) : pool.missing[h] # {}
    /\ \A h \in ReadySet(pool) :
          LET linked == Cardinality({g \in ReadySet(pool) : h \in ToSet(pool.unlocks[g])})
          IN  /\ pool.offset[h] + linked = Len(pool.entry[h].requires)
              /\ h \in pool.best <=> linked = 0
              /\ \A g \in ToSet(pool.unlocks[h]) :
                    /\ g \in ReadySet(pool) /\ Count(pool.unlocks[h], g) = 1
                    /\ Requires(g) \cap ToSet(Provides[h]) # {}

(* What the iterator promises the block author (ready.rs, get): every      *)
(* ready transaction is returned exactly once, and never before the tags   *)
(* it requires, unless those were provided by a block that was pruned.     *)
ReadyOrder ==
    LET out == ReadyIteration(pool)
    IN  /\ Len(out) = Len(pool.ready) /\ ToSet(out) = ReadySet(pool)
        /\ \A i \in DOMAIN out : \A t \in Requires(out[i]) :
              \/ \E j \in 1..(i - 1) : t \in ToSet(Provides[out[j]])
              \/ t \in consumed

(* What recently_pruned is for (base_pool.rs, BasePool): a transaction     *)
(* verified before one or two blocks were pruned and submitted after is    *)
(* not left waiting for a tag those blocks have provided.  Stated for the  *)
(* first chain event, when no block has been retracted.                    *)
NotStuckInVerification ==
    (maint.step = "idle" /\ ~skipped /\ events <= 1 /\ Number[best] <= RecentlyPruned)
      => \A h \in FutureSet(pool) : Validity[best][h] # Valid(<<>>, Validity[best][h].longevity)
=============================================================================
