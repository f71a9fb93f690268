-------------------------- MODULE TransactionGraph --------------------------
(***************************************************************************)
(* The base transaction pool: the dependency graph of the transactions     *)
(* that are ready, the queue of those that still wait for a tag, and the   *)
(* tags of the last two pruned blocks.  The pool is one value, a record;   *)
(* every method of BasePool, ReadyTransactions and FutureTransactions is   *)
(* an operator from a pool to a pool.                                      *)
(*                                                                         *)
(*   ready     hashes in the order of their insertion_id                   *)
(*   entry     what the runtime said of a pooled transaction: the tags it  *)
(*             requires and the block until which it is valid              *)
(*   unlocks   ReadyTx::unlocks          offset  ReadyTx::requires_offset  *)
(*   best      ReadyTransactions::best   provided  provided_tags           *)
(*   future    waiting transactions in the order of imported_at            *)
(*   missing   WaitingTransaction::missing_tags   wanted  wanted_tags      *)
(*   pruned, slot   recently_pruned and recently_pruned_index              *)
(*   panicked  an assert! or expect of the module has failed               *)
(*                                                                         *)
(* The order in which a HashSet of waiting transactions is walked is the   *)
(* parameter "ord", a sequence of those hashes chosen by the caller.       *)
(***************************************************************************)
EXTENDS Naturals, Sequences, FiniteSets, SequencesExt, Functions

CONSTANTS Hashes,        \* transactions
          Tags,
          Provides,      \* [Hashes -> Seq(Tags)]
          Priority,      \* [Hashes -> Nat]
          ReadyLimit,    \* Options::ready.count
          FutureLimit    \* Options::future.count

RecentlyPruned == 2

Empty == [ready |-> <<>>, entry |-> <<>>, unlocks |-> <<>>, offset |-> <<>>,
          best |-> {}, provided |-> <<>>, future |-> <<>>, missing |-> <<>>,
          wanted |-> [t \in Tags |-> {}],
          pruned |-> [i \in 1..RecentlyPruned |-> {}], slot |-> 1,
          panicked |-> FALSE]

ReadySet(p) == DOMAIN p.offset
FutureSet(p) == DOMAIN p.missing
is_imported(p, h) == h \in ReadySet(p) \cup FutureSet(p)

But(f, S) == Restrict(f, DOMAIN f \ S)
With(f, x, v) == [y \in DOMAIN f \cup {x} |-> IF y = x THEN v ELSE f[y]]
Expect(p, ok) == [p EXCEPT !.panicked = @ \/ ~ok]
Leaves(s, x) == SelectSeq(s, LAMBDA y : y # x)

-----------------------------------------------------------------------------
(* FutureTransactions *)

future_import(p, h, e, missing) ==
    [Expect(p, missing # {} /\ h \notin FutureSet(p)) EXCEPT
       !.entry = With(@, h, e), !.future = Append(@, h),
       !.missing = With(@, h, missing),
       !.wanted = [t \in Tags |-> IF t \in missing THEN @[t] \cup {h} ELSE @[t]]]

\* FutureTransactions::remove
future_remove(p, S) ==
    [p EXCEPT !.entry = But(@, S \cap FutureSet(p)),
              !.future = SelectSeq(@, LAMBDA h : h \notin S),
              !.missing = But(@, S),
              !.wanted = [t \in Tags |->
                  @[t] \ {h \in S \cap FutureSet(p) : t \in p.missing[h]}]]

(* One tag is provided: the transactions that waited for it and now wait   *)
(* for nothing leave the queue, in the order "ord".  The result is the     *)
(* pool and the transactions, each with its entry.                         *)
satisfy_tag(acc, tag, ord) ==
    LET p     == acc.pool
        known == p.wanted[tag] \cap FutureSet(p)
        done  == {h \in known : p.missing[h] \subseteq {tag}}
        taken == SelectSeq(ord, LAMBDA h : h \in done)
    IN  [pool |-> [Expect(p, p.wanted[tag] \subseteq FutureSet(p)) EXCEPT
                     !.wanted[tag] = {},
                     !.missing = [h \in FutureSet(p) \ done |->
                                     IF h \in known THEN @[h] \ {tag} ELSE @[h]],
                     !.future = SelectSeq(@, LAMBDA h : h \notin done),
                     !.entry = But(@, done)],
         taken |-> acc.taken \o [i \in DOMAIN taken |->
                                   [hash |-> taken[i], entry |-> p.entry[taken[i]]]]]

satisfy_tags(p, tags, ord) ==
    FoldLeft(LAMBDA acc, t : satisfy_tag(acc, t, ord), [pool |-> p, taken |-> <<>>], tags)

\* FutureTransactions::prune_tags: waiting transactions that provide one of the tags
future_pruned(p, tags) ==
    {h \in FutureSet(p) : ToSet(Provides[h]) \cap ToSet(tags) # {}}

\* WaitingTransaction::new
missing_tags(p, requires) ==
    {t \in ToSet(requires) : /\ t \notin DOMAIN p.provided
                             /\ \A i \in 1..RecentlyPruned : t \notin p.pruned[i]}

-----------------------------------------------------------------------------
(* ReadyTransactions *)

\* The transaction leaves the map of ready transactions and the set of best ones.
DropReady(p, h) ==
    [p EXCEPT !.ready = Leaves(@, h), !.entry = But(@, {h}), !.unlocks = But(@, {h}),
              !.offset = But(@, {h}), !.best = @ \ {h}]

\* Mutant: the providers keep a transaction that has left among those they unlock.
UnlinkForgotten(p, h, requires) == p

\* The provider of each required tag forgets, once per tag, that it unlocks h.
Unlink(p, h, requires) ==
    FoldLeft(LAMBDA q, t :
                IF t \in DOMAIN q.provided /\ q.provided[t] \in ReadySet(q)
                THEN [q EXCEPT !.unlocks[q.provided[t]] = RemoveFirst(@, h)]
                ELSE q,
             p, requires)

RECURSIVE remove_subtree_with_tag_filter(_, _, _, _)
remove_subtree_with_tag_filter(p, stack, filter, removed) ==
    IF stack = <<>> THEN [pool |-> p, removed |-> removed]
    ELSE LET h == Last(stack)
         IN  IF h \notin ReadySet(p)
             THEN remove_subtree_with_tag_filter(p, Front(stack), filter, removed)
             ELSE LET lost  == ToSet(Provides[h]) \ filter
                      gone  == [DropReady(p, h) EXCEPT !.provided = But(@, lost)]
                      rest  == Front(stack) \o (IF lost = {} THEN <<>> ELSE p.unlocks[h])
                  IN  remove_subtree_with_tag_filter(
                         Unlink(gone, h, p.entry[h].requires), rest, filter,
                         Append(removed, h))

ready_remove_subtree(p, hashes) == remove_subtree_with_tag_filter(p, hashes, {}, <<>>)

\* Transactions the new one would replace: those that provide one of its tags.
replace_hashes(p, h) == {p.provided[t] : t \in ToSet(Provides[h]) \cap DOMAIN p.provided}

TotalPriority(S) == FoldLeft(LAMBDA n, h : n + Priority[h], 0, SetToSeq(S))

\* The transaction joins the ready ones that rem left: the providers inside the
\* pool of the tags it requires unlock it.
Joined(rem, h, e, unlocks) ==
    LET linked == FoldLeft(LAMBDA r, t :
                      IF t \notin DOMAIN r.provided THEN r
                      ELSE IF r.provided[t] \notin ReadySet(r) THEN Expect(r, FALSE)
                      ELSE [r EXCEPT !.unlocks[r.provided[t]] = Append(@, h)],
                      rem.pool, e.requires)
        inside == SelectSeq(e.requires, LAMBDA t : t \in DOMAIN rem.pool.provided)
    IN  [ok |-> TRUE, replaced |-> rem.removed,
         pool |-> [linked EXCEPT
            !.ready = Append(@, h), !.entry = With(@, h, e),
            !.unlocks = With(@, h, unlocks),
            !.offset = With(@, h, Len(e.requires) - Len(inside)),
            !.best = IF inside = <<>> THEN @ \cup {h} ELSE @,
            !.provided = [t \in DOMAIN @ \cup ToSet(Provides[h]) |->
                             IF t \in ToSet(Provides[h]) THEN h ELSE @[t]]]]

(* ReadyTransactions::import with replace_previous: "ok" is FALSE when the *)
(* transactions it would replace are together of at least its priority.    *)
ready_import(p0, h, e) ==
    LET old     == replace_hashes(p0, h)
        p       == Expect(p0, h \notin ReadySet(p0) /\ old \subseteq ReadySet(p0))
        low     == old # {} /\ TotalPriority(old) >= Priority[h]
        oldseq  == SetToSeq(old)
        unlocks == FoldLeft(LAMBDA s, o : s \o p.unlocks[o], <<>>, oldseq)
    IN  IF low THEN [ok |-> FALSE, pool |-> p, replaced |-> <<>>]
        ELSE Joined(remove_subtree_with_tag_filter(p, oldseq, ToSet(Provides[h]), <<>>), h, e, unlocks)

\* The providers of the required tags that unlock nothing once h is gone: their tags.
find_previous(p, h, requires) ==
    FoldLeft(LAMBDA acc, t :
        IF t \notin DOMAIN acc.pool.provided \/ acc.pool.provided[t] \notin ReadySet(acc.pool)
        THEN acc
        ELSE LET prev == acc.pool.provided[t]
                 q    == [acc.pool EXCEPT !.unlocks[prev] = RemoveFirst(@, h)]
             IN  [pool |-> q,
                  tags |-> acc.tags \o (IF q.unlocks[prev] = <<>> THEN Provides[prev] ELSE <<>>)],
        [pool |-> p, tags |-> <<>>], requires)

\* A transaction unlocked by a pruned one needs one provider less.
OneLess(p, h) ==
    IF h \notin ReadySet(p) THEN p
    ELSE LET n == p.offset[h] + 1
         IN  [p EXCEPT !.offset[h] = n,
                       !.best = IF n = Len(p.entry[h].requires) THEN @ \cup {h} ELSE @]

RECURSIVE ready_prune_tags(_, _, _)
ready_prune_tags(p, stack, removed) ==
    IF stack = <<>> THEN [pool |-> p, removed |-> removed]
    ELSE LET tag == Last(stack)
             q   == [p EXCEPT !.provided = But(@, {tag})]
         IN  IF tag \notin DOMAIN p.provided \/ p.provided[tag] \notin ReadySet(p)
             THEN ready_prune_tags(q, Front(stack), removed)
             ELSE LET h     == p.provided[tag]
                      prev  == find_previous(DropReady(q, h), h, p.entry[h].requires)
                      freed == FoldLeft(OneLess, prev.pool, p.unlocks[h])
                      other == ToSet(Provides[h]) \ {tag}
                      owned == \A t \in other : /\ t \in DOMAIN freed.provided
                                                /\ freed.provided[t] = h
                  IN  ready_prune_tags(
                         [Expect(freed, owned) EXCEPT !.provided = But(@, other)],
                         Front(stack) \o prev.tags, Append(removed, h))

-----------------------------------------------------------------------------
(* BestIterator: the order in which a block author sees the transactions *)

Position(p, h) == CHOOSE i \in DOMAIN p.ready : p.ready[i] = h

\* TransactionRef::cmp: priority, then the shorter time left, then the older
Before(p, h, g) ==
    \/ Priority[h] > Priority[g]
    \/ Priority[h] = Priority[g] /\ p.entry[h].till < p.entry[g].till
    \/ /\ Priority[h] = Priority[g] /\ p.entry[h].till = p.entry[g].till
       /\ Position(p, h) < Position(p, g)

\* Mutant: the transaction just returned is not counted for the first of its tags.
best_or_awaitingUncounted(p, it, h) ==
    IF h \notin ReadySet(p) THEN it
    ELSE LET n == IF h \in DOMAIN it.awaiting THEN it.awaiting[h] + 1 ELSE p.offset[h]
         IN  IF n >= Len(p.entry[h].requires)
             THEN [it EXCEPT !.best = @ \cup {h}, !.awaiting = But(@, {h})]
             ELSE [it EXCEPT !.awaiting = With(@, h, n)]

\* What returning one transaction does to one that it unlocks.
best_or_awaiting(p, it, h) ==
    IF h \notin ReadySet(p) THEN it
    ELSE LET n == IF h \in DOMAIN it.awaiting THEN it.awaiting[h] + 1 ELSE p.offset[h] + 1
         IN  IF n >= Len(p.entry[h].requires)
             THEN [it EXCEPT !.best = @ \cup {h}, !.awaiting = But(@, {h})]
             ELSE [it EXCEPT !.awaiting = With(@, h, n)]

(* The sequence of transactions the iterator returns; a transaction that   *)
(* is put into the set of best ones again is returned again.               *)
RECURSIVE Iterated(_, _, _)
Iterated(p, it, out) ==
    IF it.best = {} \/ Len(out) > Cardinality(Hashes) THEN out
    ELSE LET h == CHOOSE x \in it.best : \A y \in it.best \ {x} : Before(p, x, y)
             unlocked == FoldLeft(LAMBDA i, g : best_or_awaiting(p, i, g),
                                  [it EXCEPT !.best = @ \ {h}], p.unlocks[h])
         IN  Iterated(p, unlocked, Append(out, h))

ReadyIteration(p) == Iterated(p, [best |-> p.best, awaiting |-> <<>>], <<>>)

-----------------------------------------------------------------------------
(* BasePool *)

\* One round of import_to_ready: what waited for the transaction's tags is taken,
\* and the transaction goes to the ready ones.
ImportOne(sat, tx) == ready_import(sat.pool, tx.hash, tx.entry) @@ [taken |-> sat.taken]

(* import_to_ready: the stack of transactions to import, the first one     *)
(* being the caller's.  On TooLowPriority of the first, and on a cycle,    *)
(* the call fails; what it has done to the pool stays done.                *)
RECURSIVE Importing(_, _, _, _, _)
Importing(p, ord, stack, first, out) ==
    IF stack = <<>> THEN [ok |-> TRUE, pool |-> p, promoted |-> out.promoted,
                          removed |-> out.removed]
    ELSE LET tx   == Last(stack)
             imp  == ImportOne(satisfy_tags(p, Provides[tx.hash], ord), tx)
             rest == Front(stack) \o imp.taken
         IN  IF imp.ok
             THEN Importing(imp.pool, ord, rest, FALSE,
                    [promoted |-> SelectSeq(IF first THEN out.promoted
                                            ELSE Append(out.promoted, tx.hash),
                                            LAMBDA h : h \notin ToSet(imp.replaced)),
                     removed |-> out.removed \o imp.replaced])
             ELSE IF first THEN [ok |-> FALSE, pool |-> imp.pool, promoted |-> <<>>,
                                 removed |-> <<>>]
             ELSE Importing(imp.pool, ord, rest, FALSE,
                    [out EXCEPT !.promoted = Leaves(@, tx.hash),
                                !.removed = Append(@, tx.hash)])

\* A cycle: the transaction was itself replaced by one it promoted.
CycleChecked(res, h) ==
    IF res.ok /\ h \in ToSet(res.removed)
    THEN [ok |-> FALSE, pool |-> ready_remove_subtree(res.pool, res.promoted).pool,
          promoted |-> <<>>, removed |-> <<>>]
    ELSE res

import_to_ready(p, ord, tx) ==
    CycleChecked(Importing(p, ord, <<tx>>, TRUE, [promoted |-> <<>>, removed |-> <<>>]), tx.hash)

\* BasePool::import; "rejects" is reject_future_transactions
import(p, ord, h, e, rejects) ==
    LET missing == missing_tags(p, e.requires)
        failed  == [ok |-> FALSE, pool |-> p, promoted |-> <<>>, removed |-> <<>>]
    IN  IF is_imported(p, h) \/ (missing # {} /\ rejects) THEN failed
        ELSE IF missing # {}
        THEN [failed EXCEPT !.ok = TRUE, !.pool = future_import(p, h, e, missing)]
        ELSE import_to_ready(p, ord, [hash |-> h, entry |-> e])

\* BasePool::remove_subtree
remove_subtree(p, hashes) ==
    LET AndFuture(rem) ==
            [pool |-> future_remove(rem.pool, ToSet(hashes)),
             removed |-> rem.removed \o SelectSeq(hashes, LAMBDA h : h \in FutureSet(rem.pool))]
    IN  AndFuture(ready_remove_subtree(p, hashes))

\* The ready transaction of the lowest priority, the oldest of those.
WorstReady(p) ==
    CHOOSE h \in ReadySet(p) : \A g \in ReadySet(p) \ {h} :
        \/ Priority[h] < Priority[g]
        \/ Priority[h] = Priority[g] /\ Position(p, h) < Position(p, g)

RECURSIVE enforce_limits(_, _)
enforce_limits(p, removed) ==
    LET worst == IF Len(p.ready) > ReadyLimit THEN <<WorstReady(p)>>
                 ELSE IF Len(p.future) > FutureLimit THEN <<Head(p.future)>> ELSE <<>>
        rem   == remove_subtree(p, worst)
    IN  IF worst = <<>> THEN [pool |-> p, removed |-> removed]
        ELSE enforce_limits(rem.pool, removed \o rem.removed)

\* BasePool::prune_tags: "pruned" has to be verified again, the rest has its events
prune_tags(p0, ord, tags) ==
    LET p1  == future_remove([p0 EXCEPT !.pruned[p0.slot] = {},
                                        !.slot = (@ % RecentlyPruned) + 1],
                             future_pruned(p0, tags))
        one == FoldLeft(LAMBDA acc, t :
                   LET sat == satisfy_tags(acc.pool, <<t>>, ord)
                       rem == ready_prune_tags(sat.pool, <<t>>, <<>>)
                   IN  [pool |-> [rem.pool EXCEPT !.pruned[p0.slot] = @ \cup {t}],
                        to_import |-> acc.to_import \o sat.taken,
                        pruned |-> acc.pruned \o rem.removed],
                   [pool |-> p1, to_import |-> <<>>, pruned |-> <<>>], tags)
        Promote(p, tx) == import_to_ready(p, ord, tx).pool
    IN  [pool |-> FoldLeft(Promote, one.pool, one.to_import), pruned |-> one.pruned]
=============================================================================
