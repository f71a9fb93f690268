------------------------- MODULE NonCanonicalOverlay -------------------------
(***************************************************************************)
(* The canonicalization window of client/state-db (src/noncanonical.rs):   *)
(* an in-memory tree of blocks above the last canonical one, with a        *)
(* reference count for every trie node they insert, journaled so that it   *)
(* can be rebuilt on startup.  The module holds the struct's methods as    *)
(* operators on a record; StateDb calls them under its lock.               *)
(*                                                                         *)
(* An overlay o has the fields of the struct:                              *)
(*   last       last_canonicalized; number -1 stands for None              *)
(*   levels     one function block -> journal index per block number       *)
(*   parents    the keys of `parents' (the values are Parent, a constant)  *)
(*   values     the reference count of every trie node, 0 when absent      *)
(*   pinned     the pin count of every block, 0 when absent                *)
(*   insertions pinned_insertions: discarded or canonicalized blocks whose *)
(*              insertions stay in memory, with the count of their pins    *)
(*   canonical  pinned_canonincalized, in the order of canonicalization    *)
(* A trie node's content is left out: a key is the hash of its node.       *)
(***************************************************************************)
EXTENDS Integers, Sequences, FiniteSets, FiniteSetsExt, Functions, TLC

CONSTANTS
    Blocks,       \* the blocks that may be imported
    NoBlock,      \* the hash of the parent of First
    First,        \* genesis, or the target of a warp sync
    Parent,       \* the parent of every block
    Keys,         \* trie nodes
    Ins,          \* ChangeSet::inserted of every block
    Del,          \* ChangeSet::deleted of every block
    MaxSiblings   \* MAX_BLOCKS_PER_LEVEL

ASSUME TreeAssumption ==
    /\ NoBlock \notin Blocks /\ First \in Blocks
    /\ Parent \in [Blocks -> Blocks \cup {NoBlock}]
    /\ \A b \in Blocks : Parent[b] = NoBlock <=> b = First
    /\ Ins \in [Blocks -> SUBSET Keys] /\ Del \in [Blocks -> SUBSET Keys]
    /\ MaxSiblings \in Nat \ {0}

\* A block and its ancestors.
Line[b \in Blocks] == IF b = First THEN {b} ELSE {b} \cup Line[Parent[b]]

\* The trie nodes a block's state consists of.
State[b \in Blocks] ==
    IF b = First THEN Ins[b] ELSE (State[Parent[b]] \ Del[b]) \cup Ins[b]

\* A trie reports a node as inserted when its parent's state lacks it, and as
\* deleted when the parent's state has it.
ASSUME ChangesAssumption ==
    /\ Del[First] = {}
    /\ \A b \in Blocks \ {First} :
          /\ Del[b] \subseteq State[Parent[b]]
          /\ Ins[b] \cap State[Parent[b]] = {}

-----------------------------------------------------------------------------

Held(o) == UNION {DOMAIN o.levels[i] : i \in DOMAIN o.levels}

insert_values(values, S) ==
    [k \in Keys |-> values[k] + Cardinality({b \in S : k \in Ins[b]})]

\* The code asserts that the count does not fall below zero; a release build
\* leaves a missing value missing.
discard_values(values, S) ==
    [k \in Keys |-> LET n == Cardinality({b \in S : k \in Ins[b]})
                    IN IF n > values[k] THEN 0 ELSE values[k] - n]

front_block_number(o) == o.last.number + 1

\* The journal is read level by level and ends at the first empty one.
JournalLevel(journal, n) ==
    LET indices == {i \in 0 .. MaxSiblings - 1 : <<n, i>> \in DOMAIN journal}
        blocks == {journal[<<n, i>>] : i \in indices}
    IN [b \in blocks |-> Max({i \in indices : journal[<<n, i>>] = b})]

ReadLevels(journal, front) ==
    LET numbers == {at[1] : at \in DOMAIN journal}
        whole == {m \in 0 .. Cardinality(numbers) :
                    \A i \in 0 .. m - 1 : front + i \in numbers}
    IN [i \in 1 .. Max(whole) |-> JournalLevel(journal, front + i - 1)]

New(last, journal) ==
    LET levels == IF last.number = -1 THEN <<>>
                  ELSE ReadLevels(journal, last.number + 1)
        blocks == UNION {DOMAIN levels[i] : i \in DOMAIN levels}
    IN [last |-> last, levels |-> levels, parents |-> blocks,
        values |-> insert_values([k \in Keys |-> 0], blocks),
        pinned |-> [b \in Blocks |-> 0], insertions |-> << >>,
        canonical |-> <<>>]

-----------------------------------------------------------------------------

\* "assume that parent was canonicalized"
FirstEver(o, n) == o.levels = <<>> /\ o.last.number = -1 /\ n > 0

LevelFor(o, n) ==
    IF o.levels = <<>> \/ n = front_block_number(o) + Len(o.levels)
    THEN Len(o.levels) + 1
    ELSE n - front_block_number(o) + 1

CanInsert(o, b, n) ==
    LET front == front_block_number(o)
        at == LevelFor(o, n)
    IN /\ \/ o.last.number = -1
          \/ /\ n \in front .. front + Len(o.levels)
             /\ IF n = front THEN o.last.hash = Parent[b]
                             ELSE Parent[b] \in o.parents
       /\ at \in DOMAIN o.levels =>
            /\ Cardinality(DOMAIN o.levels[at]) < MaxSiblings
            /\ b \notin DOMAIN o.levels[at]

\* Mutant: the index is the number of blocks in the level.
IndexByCount(o, n) ==
    LET at == LevelFor(o, n)
    IN IF at \in DOMAIN o.levels THEN Cardinality(DOMAIN o.levels[at]) ELSE 0

\* available_index: the lowest journal index no block of the level uses.
available_index(o, n) ==
    LET at == LevelFor(o, n)
    IN IF at \notin DOMAIN o.levels THEN 0
       ELSE Min((0 .. MaxSiblings - 1) \ Range(o.levels[at]))

insert(o, b, n) ==
    LET at == LevelFor(o, n)
        i == available_index(o, n)
    IN [o EXCEPT !.last = IF FirstEver(o, n)
                          THEN [hash |-> Parent[b], number |-> n - 1] ELSE @,
                 !.levels = IF at \in DOMAIN @ THEN [@ EXCEPT ![at] = (b :> i) @@ @]
                            ELSE Append(@, b :> i),
                 !.parents = @ \cup {b},
                 !.values = insert_values(@, {b})]

-----------------------------------------------------------------------------

Below(o, b) == {d \in Held(o) : b \in Line[d]}

\* The blocks that leave the overlay when b is canonicalized: its level, and
\* what descends from the other blocks of the level.
Leaving(o, b) ==
    LET level == DOMAIN Head(o.levels)
    IN level \cup UNION {Below(o, d) : d \in level \ {b}}

CanCanonicalize(o, b) == o.levels # <<>> /\ b \in DOMAIN Head(o.levels)

JournalKeys(o, S) ==
    UNION {{<<o.last.number + i, o.levels[i][b]>> : b \in S \cap DOMAIN o.levels[i]}
             : i \in DOMAIN o.levels}

\* Mutant: the pins of descendants are not counted.
OwnPins(o, b, d) == IF o.pinned[d] > 0 THEN 1 ELSE 0

\* The pins that keep the insertions of a leaving block d: its own and those
\* of what is discarded with it.
Pins(o, b, d) ==
    Cardinality({x \in IF d = b THEN {b} ELSE Below(o, d) : o.pinned[x] > 0})

\* o is the overlay, p the same with b pinned.
Canonicalized(o, p, b) ==
    LET leaving == Leaving(o, b)
        kept == {d \in leaving : Pins(p, b, d) > 0}
    IN [p EXCEPT !.last = [hash |-> b, number |-> front_block_number(o)],
                 !.levels = [i \in 1 .. Len(@) - 1 |->
                               Restrict(@[i + 1], DOMAIN @[i + 1] \ leaving)],
                 !.parents = @ \ (leaving \ kept),
                 !.values = discard_values(@, leaving \ kept),
                 !.insertions = [d \in kept |-> Pins(p, b, d)] @@ @,
                 !.canonical = Append(@, b)]

\* Mutants: the block is not pinned; the pin is not noted for sync.
CanonicalizeUnpinned(o, b) == Canonicalized(o, o, b)

CanonicalizeUnnoted(o, b) ==
    [Canonicalized(o, [o EXCEPT !.pinned[b] = @ + 1], b)
       EXCEPT !.canonical = o.canonical]

canonicalize(o, b) == Canonicalized(o, [o EXCEPT !.pinned[b] = @ + 1], b)

-----------------------------------------------------------------------------

\* revert_one drops the last level, whatever it holds.
revert_one(o) ==
    LET gone == DOMAIN o.levels[Len(o.levels)]
    IN [o EXCEPT !.levels = SubSeq(@, 1, Len(@) - 1),
                 !.parents = @ \ gone,
                 !.values = discard_values(@, gone)]

CanRemove(o, b) ==
    /\ b \in Held(o)
    /\ \/ b \in DOMAIN o.levels[Len(o.levels)]
       \/ \A d \in o.parents : Parent[d] # b

remove(o, b) ==
    LET levels == [i \in DOMAIN o.levels |->
                     Restrict(o.levels[i], DOMAIN o.levels[i] \ {b})]
    IN [o EXCEPT !.levels = IF DOMAIN levels[Len(levels)] = {}
                            THEN SubSeq(levels, 1, Len(levels) - 1) ELSE levels,
                 !.parents = @ \ {b},
                 !.values = discard_values(@, {b})]

have_block(o, b) == b \in o.parents

pin(o, b) == [o EXCEPT !.pinned[b] = @ + 1]

\* When the last pin of h goes, the walk up from h takes one from the count of
\* every ancestor that is kept for its pins, and stops at the first that is not.
Released(o, h) ==
    {x \in Line[h] : \A y \in Line[h] : x \in Line[y] => y \in DOMAIN o.insertions}

unpin(o, h) ==
    LET released == IF o.pinned[h] = 1 THEN Released(o, h) ELSE {}
        gone == {x \in released : o.insertions[x] = 1}
    IN [o EXCEPT !.pinned[h] = IF @ = 0 THEN 0 ELSE @ - 1,
                 !.insertions = [x \in DOMAIN @ \ gone |->
                                   IF x \in released THEN @[x] - 1 ELSE @[x]],
                 !.parents = @ \ gone,
                 !.values = discard_values(@, gone)]

\* sync unpins the canonicalized blocks in the order of the vector.
sync(o) ==
    LET after[n \in 0 .. Len(o.canonical)] ==
          IF n = 0 THEN [o EXCEPT !.canonical = <<>>]
          ELSE unpin(after[n - 1], o.canonical[n])
    IN after[Len(o.canonical)]

=============================================================================
