---------------------------- MODULE AuthoritySet ----------------------------
(***************************************************************************)
(* The GRANDPA authority set of a client and its pending changes           *)
(* (client/consensus/grandpa/src/authorities.rs), as operations on one     *)
(* value.  A pending change is named by the block that signals it; what it *)
(* says is the digest d[b] of that block:                                  *)
(*   kind    "standard" (DelayKind::Finalized), "forced" (DelayKind::Best) *)
(*           or "none" for a block without a change;                       *)
(*   delay   blocks between the signal and the enactment;                  *)
(*   median  the last finalized block of a forced change.                  *)
(* The authorities a change installs are named by its block too, and the   *)
(* initial ones by the genesis block.                                      *)
(***************************************************************************)
EXTENDS ForkTree, Sequences, FiniteSetsExt, Functions

effective_number(d, b) == Number[b] + d[b].delay

genesis == [authorities |-> Genesis, set_id |-> 0, standard |-> NewTree,
            forced |-> << >>, changes |-> << >>]

-----------------------------------------------------------------------------
\* Adding the change that block b signals.

CanAddStandard(a, b) == CanImport(a.standard, b)

CanAddForced(a, b) == \A c \in Range(a.forced) : ~EqualOrDescendent(c, b)

CanAdd(a, d, b) ==
    IF d[b].kind = "forced" THEN CanAddForced(a, b) ELSE CanAddStandard(a, b)

\* Ordered by the number at which the change takes effect, then by that of the signal.
OrderedBefore(d, b, c) ==
    \/ effective_number(d, b) < effective_number(d, c)
    \/ effective_number(d, b) = effective_number(d, c) /\ Number[b] < Number[c]

\* The list s with x at index i (Vec::insert).
InsertAt(s, i, x) == SubSeq(s, 1, i - 1) \o <<x>> \o SubSeq(s, i, Len(s))

\* The list is sorted: b goes before the first change that is not ordered before it.
add_forced_change(a, d, b) ==
    LET after == {i \in DOMAIN a.forced : ~OrderedBefore(d, a.forced[i], b)}
    IN [a EXCEPT !.forced = InsertAt(@, Min(after \cup {Len(@) + 1}), b)]

add_pending_change(a, d, b) ==
    IF d[b].kind = "forced" THEN add_forced_change(a, d, b)
    ELSE [a EXCEPT !.standard = Import(@, b)]

-----------------------------------------------------------------------------
\* Forced changes, triggered by importing block b.

\* Where in the list the pending forced changes are that take effect at b, and the
\* first of them.
Forcing(a, d, b) ==
    {i \in DOMAIN a.forced : /\ effective_number(d, a.forced[i]) = Number[b]
                             /\ EqualOrDescendent(a.forced[i], b)}

Forced(a, d, b) == a.forced[Min(Forcing(a, d, b))]

\* A standard change that block c relies on and that is not enacted yet.
DependencyUnsatisfied(a, d, c) ==
    \E s \in Roots(a.standard) : /\ effective_number(d, s) <= d[c].median
                                 /\ is_descendent_of(s, c)

apply_forced_changes(a, d, b) ==
    LET c == Forced(a, d, b)
    IN [genesis EXCEPT !.authorities = c, !.set_id = a.set_id + 1,
                       !.changes = Append(a.changes, <<a.set_id, d[c].median>>)]

-----------------------------------------------------------------------------
\* Standard changes, triggered by finalizing block b.

Effective(a, d, b) == {s \in a.standard.nodes : effective_number(d, s) <= Number[b]}

CanApplyStandard(a, d, b) == CanFinalizeWithDescendentIf(a.standard, b, Effective(a, d, b))

\* The elements of the list s that are in S, in their order.
Kept(s, S) ==
    LET upto[n \in 0..Len(s)] ==
            IF n = 0 THEN << >> ELSE IF s[n] \in S THEN Append(upto[n - 1], s[n]) ELSE upto[n - 1]
    IN upto[Len(s)]

apply_standard_changes(a, d, b) ==
    LET enacted == FinalizedRoot(a.standard, b, Effective(a, d, b))
        tree == finalize_with_descendent_if(a.standard, b, Effective(a, d, b))
        changed == Roots(a.standard) # Roots(tree)
        later == {c \in Blocks : effective_number(d, c) > Number[b] /\ is_descendent_of(b, c)}
        kept == [a EXCEPT !.standard = tree, !.forced = IF changed THEN Kept(@, later) ELSE @]
    IN IF enacted = {} THEN kept
       ELSE [kept EXCEPT !.authorities = CHOOSE s \in enacted : TRUE,
                         !.set_id = @ + 1,
                         !.changes = Append(@, <<a.set_id, Number[b]>>)]

\* Status::changed, which decides whether the set is written to disk.
StandardChanged(a, after) == Roots(a.standard) # Roots(after.standard)

enacts_standard_change(a, d, b) ==
    finalizes_any_with_descendent_if(a.standard, b,
        {s \in a.standard.nodes : effective_number(d, s) = Number[b]})

-----------------------------------------------------------------------------
\* The history of sets: which set finalized block number n.

\* AuthoritySetChangeId::Latest and ::Unknown
Latest == -1

Unknown == -2

\* Mutant: the last block of a set is taken for the first of the next.
GetSetIdNext(changes, n) ==
    LET upto == {i \in DOMAIN changes : n < changes[i][2]}
        i == CHOOSE j \in upto : \A k \in upto : j <= k
    IN CASE changes # << >> /\ changes[Len(changes)][2] <= n -> Latest
         [] upto = {} -> Unknown
         [] i = 1 /\ changes[1][1] # 0 -> Unknown
         [] OTHER -> changes[i][1]

get_set_id(changes, n) ==
    LET upto == {i \in DOMAIN changes : n <= changes[i][2]}
        i == CHOOSE j \in upto : \A k \in upto : j <= k
    IN CASE changes # << >> /\ changes[Len(changes)][2] < n -> Latest
         [] upto = {} -> Unknown
         [] i = 1 /\ changes[1][1] # 0 -> Unknown
         [] OTHER -> changes[i][1]

\* The set id a change at block number n gets among those already recorded.
InsertIndex(changes, n) ==
    Min({i \in DOMAIN changes : n <= changes[i][2]} \cup {Len(changes) + 1})

InsertedId(changes, n) ==
    LET i == InsertIndex(changes, n) IN IF i = 1 THEN 0 ELSE changes[i - 1][1] + 1

CanInsert(changes, n) ==
    LET i == InsertIndex(changes, n)
    IN i \in DOMAIN changes => changes[i][1] # InsertedId(changes, n)

insert(changes, n) ==
    InsertAt(changes, InsertIndex(changes, n), <<InsertedId(changes, n), n>>)
=============================================================================
