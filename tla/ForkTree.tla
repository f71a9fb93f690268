------------------------------ MODULE ForkTree ------------------------------
(***************************************************************************)
(* The tree of utils/fork-tree: items announced by some blocks of a block  *)
(* tree, kept per fork until finality passes them.                         *)
(*                                                                         *)
(* A tree is the set of the blocks that carry its nodes together with the  *)
(* number of the best finalized block (-1 for None).  Nodes of a branch    *)
(* are imported in order, as import assumes, so the parent of a node is    *)
(* the deepest of its ancestors in the tree and the shape needs no         *)
(* variable of its own; the order of siblings (rebalance) decides nothing  *)
(* because at most one child of a node is on the way to a given block.  A  *)
(* predicate on node data is the set of the nodes it accepts.              *)
(***************************************************************************)
EXTENDS Integers, FiniteSets

CONSTANTS
    Blocks,   \* block hashes
    Genesis,  \* the hash of block number 0
    Parent    \* the parent hash of every block

Hashes == Blocks \cup {Genesis}

\* Every header has the number of its parent's plus one.
ASSUME BlockTreeAssumption ==
    /\ Genesis \notin Blocks /\ Parent \in [Blocks -> Hashes]
    /\ \E number \in [Hashes -> 0..Cardinality(Blocks)] :
          number[Genesis] = 0 /\ \A b \in Blocks : number[b] = number[Parent[b]] + 1

Number[h \in Hashes] == IF h = Genesis THEN 0 ELSE Number[Parent[h]] + 1

Ancestors[h \in Hashes] ==
    IF h = Genesis THEN {} ELSE {Parent[h]} \cup Ancestors[Parent[h]]

is_descendent_of(base, hash) == base \in Ancestors[hash]

EqualOrDescendent(base, hash) == base = hash \/ is_descendent_of(base, hash)

\* On one branch.
Comparable(b, c) == EqualOrDescendent(b, c) \/ EqualOrDescendent(c, b)

NewTree == [nodes |-> {}, best |-> -1]

-----------------------------------------------------------------------------
\* The nodes above a block, its closest one, and the shape this gives the tree.

Above(t, h) == {n \in t.nodes : is_descendent_of(n, h)}

Deepest(S) == CHOOSE n \in S : \A m \in S : Number[m] <= Number[n]

Highest(S) == CHOOSE n \in S : \A m \in S : Number[n] <= Number[m]

Roots(t) == {n \in t.nodes : Above(t, n) = {}}

Children(t, n) == {m \in t.nodes : Above(t, m) # {} /\ Deepest(Above(t, m)) = n}

Subtrees(t, S) == {m \in t.nodes : \E n \in S : EqualOrDescendent(n, m)}

Reverts(t, h) == Number[h] <= t.best

-----------------------------------------------------------------------------

CanImport(t, h) == ~Reverts(t, h) /\ h \notin t.nodes

Import(t, h) == [t EXCEPT !.nodes = @ \cup {h}]

\* A node that is passed by finalizing h while a child of it is passed as well.
PassesChild(t, n, h) == \E c \in Children(t, n) : EqualOrDescendent(c, h)

\* Ok(Some(true)) is "root", Ok(Some(false)) "inner", Ok(None) "none".
finalizes_any_with_descendent_if(t, h, accepted) ==
    LET found == {n \in t.nodes \cap accepted : EqualOrDescendent(n, h)}
        node == Highest(found)
    IN CASE Reverts(t, h) -> "error"
         [] found = {} -> "none"
         [] PassesChild(t, node, h) -> "error"
         [] node \in Roots(t) -> "root"
         [] OTHER -> "inner"

\* The root that finalizing h finalizes, if any.
FinalizedRoot(t, h, accepted) == {r \in Roots(t) \cap accepted : EqualOrDescendent(r, h)}

CanFinalizeWithDescendentIf(t, h, accepted) ==
    /\ ~Reverts(t, h)
    /\ \A r \in FinalizedRoot(t, h, accepted) : ~PassesChild(t, r, h)

\* Mutant: a root that waits at, or above, the finalized block goes.
FinalizeKeepsOnlyBelow(t, h, accepted) ==
    LET passed == FinalizedRoot(t, h, accepted)
        opened == [t EXCEPT !.nodes = IF passed = {} THEN @ ELSE Subtrees(t, passed) \ passed]
    IN [nodes |-> {n \in opened.nodes : is_descendent_of(h, n)}, best |-> Number[h]]

finalize_with_descendent_if(t, h, accepted) ==
    LET passed == FinalizedRoot(t, h, accepted)
        opened == [t EXCEPT !.nodes = IF passed = {} THEN @ ELSE Subtrees(t, passed) \ passed]
        retained == {r \in Roots(opened) : EqualOrDescendent(h, r) \/ is_descendent_of(r, h)}
    IN [nodes |-> Subtrees(opened, retained), best |-> Number[h]]

=============================================================================
