------------------------ MODULE GrandpaImport_proofs ------------------------
(***************************************************************************)
(* Proofs about GrandpaImport, for every tree of blocks, every run of the  *)
(* runtime and any number of faults: the set on disk is in step with the   *)
(* one in memory (StoredInStep), and no pending change is lost from it     *)
(* (NothingForgotten).  The first part has the facts about block trees,    *)
(* the fork tree, the lists of an authority set and its operations         *)
(* (ForkTree, AuthoritySet, GrandpaPallet); the second part GrandpaInv,    *)
(* the inductive invariant, and the theorems.                              *)
(***************************************************************************)
EXTENDS GrandpaImport, WellFoundedInduction, TLAPS

-----------------------------------------------------------------------------
(* Block trees. *)

(* A set of numbers that is not empty has a least one. *)
LEMMA MinInSet ==
  ASSUME NEW S \in SUBSET Nat, S # {}
  PROVE  \E n \in S : \A m \in S : n <= m
<1>1. PICK x \in S : \A y \in S : ~ (<<y, x>> \in OpToRel(<, Nat))
  BY Zenon, NatLessThanWellFounded, WFMin
<1>2. \A y \in S : x =< y
  <2> SUFFICES ASSUME NEW y \in S, ~(x =< y) PROVE FALSE
    OBVIOUS
  <2>1. <<y, x>> \in Nat \X Nat /\ y < x
    OBVIOUS
  <2>2. <<y, x>> \in OpToRel(<, Nat)
    BY <2>1 DEF OpToRel
  <2> QED BY Zenon, <1>1, <2>2
<1> QED BY <1>2

(* A block has its parent's number plus one: the recursive function is defined on        *)
(* the whole tree.                                                                       *)
LEMMA NumberIs ==
  /\ Number \in [Hashes -> Nat]
  /\ Number[Genesis] = 0
  /\ \A b \in Blocks : Number[b] = Number[Parent[b]] + 1
<1> DEFINE P(g) == g = [h \in Hashes |-> IF h = Genesis THEN 0 ELSE g[Parent[h]] + 1]
<1>1. PICK m \in [Hashes -> 0..Cardinality(Blocks)] :
         m[Genesis] = 0 /\ \A b \in Blocks : m[b] = m[Parent[b]] + 1
  BY BlockTreeAssumption
<1>2. P(m)
  BY <1>1, BlockTreeAssumption DEF Hashes
<1>3. Number = CHOOSE g : P(g)  BY DEF Number
<1>4. P(Number)  BY <1>2, <1>3
<1>5. \A h \in Hashes : m[h] \in Nat
  BY <1>1
<1>6. /\ Number[Genesis] = 0
      /\ \A b \in Blocks : Number[b] = Number[Parent[b]] + 1
  BY <1>4, BlockTreeAssumption DEF Hashes
<1> DEFINE S == {m[h] : h \in {x \in Hashes : Number[x] # m[x]}}
<1>7. S = {}
  <2> SUFFICES ASSUME S # {} PROVE FALSE  OBVIOUS
  <2>1. S \subseteq Nat  BY <1>5
  <2>2. PICK n \in S : \A k \in S : n <= k  BY Zenon, <2>1, MinInSet
  <2>3. PICK x \in Hashes : Number[x] # m[x] /\ n = m[x]  BY <2>2
  <2>4. x \in Blocks  BY <2>3, <1>1, <1>6 DEF Hashes
  <2>5. Parent[x] \in Hashes  BY <2>4, BlockTreeAssumption
  <2>6. m[x] = m[Parent[x]] + 1 /\ m[Parent[x]] \in Nat  BY <1>1, <2>4, <2>5, <1>5
  <2>7. Number[Parent[x]] = m[Parent[x]]
    <3> SUFFICES ASSUME Number[Parent[x]] # m[Parent[x]] PROVE FALSE  OBVIOUS
    <3>1. m[Parent[x]] \in S  BY <2>5
    <3>2. n <= m[Parent[x]]  BY <3>1, <2>2
    <3> QED  BY ONLY <3>2, <2>3, <2>6
  <2> QED  BY <2>7, <2>6, <1>6, <2>4, <2>3
<1>8. \A h \in Hashes : Number[h] = m[h]  BY <1>7
<1> QED  BY <1>4, <1>6, <1>8, <1>5

(* Induction along the chain: a set that has the genesis block, and every block whose    *)
(* parent it has, has every block.                                                       *)
LEMMA Induct ==
  ASSUME NEW S, Genesis \in S, \A b \in Blocks : Parent[b] \in S => b \in S
  PROVE  Hashes \subseteq S
<1> DEFINE N == {Number[h] : h \in Hashes \ S}
<1> SUFFICES ASSUME N # {} PROVE FALSE  OBVIOUS
<1>1. N \subseteq Nat  BY NumberIs
<1>2. PICK n \in N : \A m \in N : n <= m  BY Zenon, <1>1, MinInSet
<1>3. PICK h \in Hashes \ S : n = Number[h]  BY <1>2
<1>4. h \in Blocks /\ Parent[h] \in Hashes \ S  BY <1>3, BlockTreeAssumption DEF Hashes
<1>5. Number[Parent[h]] \in N  BY <1>4
<1> QED  BY <1>2, <1>3, <1>4, <1>5, NumberIs

(* The ancestors of a block are its parent and the ancestors of that. *)
LEMMA AncestorsIs ==
  /\ Ancestors[Genesis] = {}
  /\ \A b \in Blocks : Ancestors[b] = {Parent[b]} \cup Ancestors[Parent[b]]
<1> DEFINE P(g) == g = [h \in Hashes |-> IF h = Genesis THEN {} ELSE {Parent[h]} \cup g[Parent[h]]]
           Closed(S) == \A y \in S : y \in Blocks => Parent[y] \in S
           Line(h) == {x \in Hashes : \A S \in SUBSET Hashes : Closed(S) /\ Parent[h] \in S => x \in S}
           A == [h \in Hashes |-> IF h = Genesis THEN {} ELSE Line(h)]
<1>1. ASSUME NEW b \in Blocks
      PROVE  A[b] = {Parent[b]} \cup A[Parent[b]]
  <2> DEFINE p == Parent[b]
  <2>1. p \in Hashes /\ b \in Hashes /\ b # Genesis  BY BlockTreeAssumption DEF Hashes
  <2>2. A[b] = Line(b)  BY <2>1
  <2>3. CASE p = Genesis
    <3>1. A[p] = {}  BY <2>1, <2>3
    <3>2. {p} \in SUBSET Hashes /\ Closed({p})  BY <2>1, <2>3, BlockTreeAssumption
    <3>3. Line(b) = {p}  BY Zenon, <3>2, <2>1
    <3> QED  BY <3>1, <3>3, <2>2
  <2>4. CASE p # Genesis
    <3>1. p \in Blocks /\ Parent[p] \in Hashes  BY <2>1, <2>4, BlockTreeAssumption DEF Hashes
    <3>2. A[p] = Line(p)  BY <2>1, <2>4
    <3>3. Parent[p] \in Line(p)  BY <3>1
    <3>4. ASSUME NEW y \in Line(p), y \in Blocks PROVE Parent[y] \in Line(p)
      <4>1. Parent[y] \in Hashes  BY <3>4, BlockTreeAssumption
      <4> QED  BY <3>4, <4>1
    <3>5. {p} \cup Line(p) \in SUBSET Hashes /\ Closed({p} \cup Line(p))  BY <3>3, <3>4, <2>1
    <3>6. Line(b) \subseteq {p} \cup Line(p)  BY Zenon, <3>5
    <3>7. p \in Line(b)  BY <2>1
    <3>8. Line(p) \subseteq Line(b)  BY <3>1
    <3> QED  BY <3>2, <3>6, <3>7, <3>8, <2>2
  <2> QED  BY <2>3, <2>4
<1>2. P(A)
  <2> HIDE DEF Line
  <2>1. A = [h \in Hashes |-> A[h]] /\ A[Genesis] = {}  BY DEF Hashes
  <2>2. \A h \in Hashes : A[h] = IF h = Genesis THEN {} ELSE {Parent[h]} \cup A[Parent[h]]
    BY Zenon, <1>1, <2>1 DEF Hashes
  <2> HIDE DEF A
  <2> QED  BY <2>1, <2>2
<1>3. Ancestors = CHOOSE g : P(g)  BY DEF Ancestors
<1>4. P(Ancestors)
  <2> HIDE DEF A
  <2> QED  BY Zenon, <1>2, <1>3
<1> QED  BY <1>4, BlockTreeAssumption DEF Hashes

(* Ancestors have lower numbers. *)
LEMMA AncestorsBelow ==
  \A h \in Hashes : \A x \in Ancestors[h] : x \in Hashes /\ Number[x] < Number[h]
<1> DEFINE S == {h \in Hashes : \A x \in Ancestors[h] : x \in Hashes /\ Number[x] < Number[h]}
<1>1. Genesis \in S  BY AncestorsIs DEF Hashes
<1>2. ASSUME NEW b \in Blocks, Parent[b] \in S PROVE b \in S
  <2>1. b \in Hashes /\ Number[b] = Number[Parent[b]] + 1 /\ Number[Parent[b]] \in Nat
    BY <1>2, NumberIs DEF Hashes
  <2>2. ASSUME NEW x \in Ancestors[b] PROVE x \in Hashes /\ Number[x] < Number[b]
    <3>1. CASE x = Parent[b]  BY <3>1, <2>1, <1>2
    <3>2. CASE x \in Ancestors[Parent[b]]  BY <3>2, <2>1, <1>2, NumberIs
    <3> QED  BY <3>1, <3>2, AncestorsIs
  <2> QED  BY <2>1, <2>2
<1> HIDE DEF S
<1>3. Hashes \subseteq S  BY <1>1, <1>2, Induct
<1> QED  BY <1>3 DEF S

(* An ancestor of an ancestor is one. *)
LEMMA AncestorsTransitive ==
  \A h \in Hashes : \A x \in Ancestors[h] : Ancestors[x] \subseteq Ancestors[h]
<1> DEFINE S == {h \in Hashes : \A x \in Ancestors[h] : Ancestors[x] \subseteq Ancestors[h]}
<1>1. Genesis \in S  BY AncestorsIs DEF Hashes
<1>2. ASSUME NEW b \in Blocks, Parent[b] \in S PROVE b \in S
  BY <1>2, AncestorsIs DEF Hashes
<1> HIDE DEF S
<1>3. Hashes \subseteq S  BY <1>1, <1>2, Induct
<1> QED  BY <1>3 DEF S

(* The ancestors of a block are on one chain. *)
LEMMA AncestorsLinear ==
  \A h \in Hashes : \A x, y \in Ancestors[h] : x = y \/ x \in Ancestors[y] \/ y \in Ancestors[x]
<1> DEFINE S == {h \in Hashes : \A x, y \in Ancestors[h] :
                    x = y \/ x \in Ancestors[y] \/ y \in Ancestors[x]}
<1>1. Genesis \in S  BY AncestorsIs DEF Hashes
<1>2. ASSUME NEW b \in Blocks, Parent[b] \in S PROVE b \in S
  BY <1>2, AncestorsIs DEF Hashes
<1> HIDE DEF S
<1>3. Hashes \subseteq S  BY <1>1, <1>2, Induct
<1> QED  BY <1>3 DEF S

(* What is at or above a block: an order. *)
LEMMA OrderFacts ==
  ASSUME NEW x \in Hashes, NEW y \in Hashes, NEW z \in Hashes
  PROVE  /\ EqualOrDescendent(x, y) /\ EqualOrDescendent(y, z) => EqualOrDescendent(x, z)
         /\ EqualOrDescendent(x, z) /\ EqualOrDescendent(y, z) => Comparable(x, y)
         /\ is_descendent_of(x, y) => Number[x] < Number[y]
         /\ EqualOrDescendent(x, y) => Number[x] <= Number[y]
         /\ EqualOrDescendent(x, y) /\ is_descendent_of(y, z) => is_descendent_of(x, z)
<1>1. Number[x] \in Nat /\ Number[y] \in Nat  BY NumberIs
<1> QED  BY <1>1, AncestorsTransitive, AncestorsLinear, AncestorsBelow
         DEF EqualOrDescendent, is_descendent_of, Comparable

(* Above every node there is a root, or the node is one. *)
LEMMA RootAbove ==
  ASSUME NEW t, t.nodes \subseteq Blocks, NEW n \in t.nodes
  PROVE  \E r \in Roots(t) : EqualOrDescendent(r, n)
<1> DEFINE Rooted(m) == m \in t.nodes => \E r \in Roots(t) : EqualOrDescendent(r, m)
           S == {h \in Hashes : Rooted(h) /\ \A m \in Ancestors[h] : Rooted(m)}
<1>1. ASSUME NEW h \in Hashes, \A m \in Ancestors[h] : Rooted(m) PROVE Rooted(h)
  <2> SUFFICES ASSUME h \in t.nodes PROVE \E r \in Roots(t) : EqualOrDescendent(r, h)  OBVIOUS
  <2>1. CASE Above(t, h) = {}
    BY <2>1 DEF Roots, EqualOrDescendent
  <2>2. CASE Above(t, h) # {}
    <3>1. PICK m \in t.nodes : m \in Ancestors[h]  BY <2>2 DEF Above, is_descendent_of
    <3>2. PICK r \in Roots(t) : EqualOrDescendent(r, m)  BY <3>1, <1>1
    <3>3. r \in Hashes /\ m \in Hashes  BY <3>1 DEF Roots, Hashes
    <3>4. EqualOrDescendent(m, h)  BY <3>1 DEF EqualOrDescendent, is_descendent_of
    <3> QED  BY <3>2, <3>3, <3>4, OrderFacts
  <2> QED  BY <2>1, <2>2
<1> HIDE DEF Rooted
<1>2. Genesis \in S  BY <1>1, AncestorsIs DEF Hashes
<1>3. ASSUME NEW b \in Blocks, Parent[b] \in S PROVE b \in S
  <2>1. b \in Hashes /\ \A m \in Ancestors[b] : Rooted(m)  BY <1>3, AncestorsIs DEF Hashes
  <2> QED  BY <2>1, <1>1
<1> HIDE DEF S
<1>4. Hashes \subseteq S  BY <1>2, <1>3, Induct
<1> QED  BY <1>4 DEF S, Rooted, Hashes

TreeType == [nodes : SUBSET Blocks, best : Nat \cup {-1}]

(* The nodes left once the passed root is opened, and what is retained of them. *)
Opened(t, h, accepted) ==
    [t EXCEPT !.nodes = IF FinalizedRoot(t, h, accepted) = {} THEN @
                        ELSE Subtrees(t, FinalizedRoot(t, h, accepted))
                               \ FinalizedRoot(t, h, accepted)]

Retained(o, h) == {r \in Roots(o) : EqualOrDescendent(h, r) \/ is_descendent_of(r, h)}

Finalization(t, h, accepted, u, o) ==
    /\ u = [nodes |-> Subtrees(o, Retained(o, h)), best |-> Number[h]]
    /\ u \in TreeType /\ o \in TreeType
    /\ u.nodes \subseteq o.nodes
    /\ o.nodes = IF FinalizedRoot(t, h, accepted) = {} THEN t.nodes
                 ELSE Subtrees(t, FinalizedRoot(t, h, accepted)) \ FinalizedRoot(t, h, accepted)
    /\ FinalizedRoot(t, h, accepted) = {} => o = t

(* What finalize_with_descendent_if makes of a tree. *)
LEMMA FinalizeIs ==
  ASSUME NEW t \in TreeType, NEW h \in Hashes, NEW accepted
  PROVE  Finalization(t, h, accepted, finalize_with_descendent_if(t, h, accepted),
                      Opened(t, h, accepted))
<1>0. PICK u, o : u = finalize_with_descendent_if(t, h, accepted) /\ o = Opened(t, h, accepted)
  OBVIOUS
<1>1. u = [nodes |-> Subtrees(o, Retained(o, h)), best |-> Number[h]]
  BY <1>0 DEF finalize_with_descendent_if, Opened, Retained
<1>2. o.nodes = IF FinalizedRoot(t, h, accepted) = {} THEN t.nodes
                ELSE Subtrees(t, FinalizedRoot(t, h, accepted)) \ FinalizedRoot(t, h, accepted)
  BY <1>0 DEF Opened, TreeType
<1>3. FinalizedRoot(t, h, accepted) = {} => o = t
  BY <1>0 DEF Opened, TreeType
<1>4. o.nodes \subseteq Blocks  BY <1>2 DEF Subtrees, TreeType
<1>5. o \in TreeType  BY <1>0, <1>4, <1>2 DEF Opened, TreeType
<1>6. Subtrees(o, Retained(o, h)) \subseteq o.nodes  BY DEF Subtrees
<1>7. u \in TreeType  BY <1>1, <1>4, <1>6, NumberIs DEF TreeType
<1> QED  BY <1>0, <1>1, <1>2, <1>3, <1>5, <1>6, <1>7 DEF Finalization

(* A finalization that leaves the roots of the tree as they are passes no root and drops *)
(* no node.                                                                              *)
LEMMA FinalizeUnchanged ==
  ASSUME NEW t \in TreeType, NEW h \in Hashes, NEW accepted,
         NEW u, u = finalize_with_descendent_if(t, h, accepted), Roots(u) = Roots(t)
  PROVE  FinalizedRoot(t, h, accepted) = {} /\ u.nodes = t.nodes
<1>0. PICK o : o = Opened(t, h, accepted)  OBVIOUS
<1>1. /\ u = [nodes |-> Subtrees(o, Retained(o, h)), best |-> Number[h]]
      /\ u.nodes \subseteq o.nodes
      /\ o.nodes = IF FinalizedRoot(t, h, accepted) = {} THEN t.nodes
                   ELSE Subtrees(t, FinalizedRoot(t, h, accepted)) \ FinalizedRoot(t, h, accepted)
      /\ FinalizedRoot(t, h, accepted) = {} => o = t
  BY Zenon, <1>0, FinalizeIs DEF Finalization
<1>2. FinalizedRoot(t, h, accepted) = {}
  <2> SUFFICES ASSUME NEW r \in FinalizedRoot(t, h, accepted) PROVE FALSE  OBVIOUS
  <2>1. r \in Roots(u)  BY DEF FinalizedRoot
  <2>2. r \in u.nodes  BY <2>1 DEF Roots
  <2> QED  BY <2>2, <1>1
<1>3. u.nodes = Subtrees(t, Retained(t, h))  BY <1>1, <1>2
<1>4. ASSUME NEW n \in t.nodes PROVE n \in u.nodes
  <2>0. t.nodes \subseteq Blocks  BY DEF TreeType
  <2>1. PICK r \in Roots(t) : EqualOrDescendent(r, n)  BY RootAbove, <2>0
  <2>2. r \in u.nodes /\ r \in t.nodes /\ Above(t, r) = {}  BY <2>1 DEF Roots
  <2>3. PICK q \in Retained(t, h) : EqualOrDescendent(q, r)  BY <2>2, <1>3 DEF Subtrees
  <2>4. q = r  BY <2>2, <2>3 DEF Above, Retained, Roots, EqualOrDescendent
  <2> QED  BY <2>1, <2>3, <2>4, <1>3 DEF Subtrees
<1> QED  BY Zenon, <1>1, <1>2, <1>4

(* A node on the chain of the finalized block, or on a fork from it, that is not due     *)
(* stays in the tree, whichever root goes.                                               *)
LEMMA FinalizeKeeps ==
  ASSUME NEW t \in TreeType, NEW h \in Hashes, NEW accepted,
         NEW u, u = finalize_with_descendent_if(t, h, accepted),
         NEW n \in t.nodes, Comparable(h, n), n \notin accepted
  PROVE  n \in u.nodes
<1>0. PICK o : o = Opened(t, h, accepted)  OBVIOUS
<1>1. /\ u = [nodes |-> Subtrees(o, Retained(o, h)), best |-> Number[h]]
      /\ o \in TreeType
      /\ o.nodes = IF FinalizedRoot(t, h, accepted) = {} THEN t.nodes
                   ELSE Subtrees(t, FinalizedRoot(t, h, accepted)) \ FinalizedRoot(t, h, accepted)
  BY Zenon, <1>0, FinalizeIs DEF Finalization
<1>2. t.nodes \subseteq Hashes /\ t.nodes \subseteq Blocks /\ o.nodes \subseteq Hashes
      /\ o.nodes \subseteq Blocks /\ n \in Hashes
  BY <1>1 DEF TreeType, Hashes
<1>3. ASSUME NEW r \in Hashes, EqualOrDescendent(r, n) PROVE Comparable(r, h)
  BY <1>2, <1>3, OrderFacts DEF Comparable
<1>4. n \in o.nodes
  <2>1. CASE FinalizedRoot(t, h, accepted) = {}  BY <2>1, <1>1
  <2>2. CASE FinalizedRoot(t, h, accepted) # {}
    <3>1. PICK p : p \in Roots(t) /\ p \in accepted /\ EqualOrDescendent(p, h)
                   /\ p \in FinalizedRoot(t, h, accepted)
      BY <2>2 DEF FinalizedRoot
    <3>2. PICK r \in Roots(t) : EqualOrDescendent(r, n)  BY RootAbove, <1>2
    <3>3. p \in t.nodes /\ r \in t.nodes /\ Above(t, p) = {} /\ Above(t, r) = {}
      BY <3>1, <3>2 DEF Roots
    <3>4. p \in Hashes /\ r \in Hashes  BY <3>3, <1>2
    <3>5. Comparable(p, r)
      <4>1. CASE EqualOrDescendent(r, h)  BY <4>1, <3>1, <3>4, OrderFacts
      <4>2. CASE EqualOrDescendent(h, r)  BY <4>2, <3>1, <3>4, OrderFacts DEF Comparable
      <4> QED  BY <4>1, <4>2, <1>3, <3>2, <3>4 DEF Comparable
    <3>6. p = r  BY <3>3, <3>5 DEF Comparable, EqualOrDescendent, Above
    <3>7. n \in Subtrees(t, FinalizedRoot(t, h, accepted))  BY <3>1, <3>2, <3>6 DEF Subtrees
    <3>8. n \notin FinalizedRoot(t, h, accepted)  BY DEF FinalizedRoot
    <3> QED  BY <3>7, <3>8, <2>2, <1>1
  <2> QED  BY <2>1, <2>2
<1>5. PICK r \in Roots(o) : EqualOrDescendent(r, n)  BY RootAbove, <1>2, <1>4
<1>6. r \in Hashes  BY <1>5, <1>2 DEF Roots
<1>7. r \in Retained(o, h)
  BY <1>3, <1>5, <1>6 DEF Retained, Comparable, EqualOrDescendent
<1> QED  BY <1>1, <1>4, <1>5, <1>7 DEF Subtrees

-----------------------------------------------------------------------------
(* Lists. *)

(* Min is what its name says. *)
LEMMA MinIs ==
  ASSUME NEW S \in SUBSET Nat, S # {}
  PROVE  Min(S) \in S
BY Zenon, MinInSet DEF Min

(* Induction up to a number. *)
LEMMA UpTo ==
  ASSUME NEW N \in Nat, NEW S, 0 \in S, \A n \in 1..N : n - 1 \in S => n \in S
  PROVE  0..N \subseteq S
<1> DEFINE B == (0..N) \ S
<1> SUFFICES ASSUME B # {} PROVE FALSE  OBVIOUS
<1>1. B \in SUBSET Nat  OBVIOUS
<1> HIDE DEF B
<1>2. PICK n \in B : \A m \in B : n <= m  BY <1>1, MinInSet
<1>3. n \in 0..N /\ n \notin S  BY <1>2 DEF B
<1>4. n - 1 \in B /\ n - 1 < n  BY <1>3 DEF B
<1>5. n <= n - 1  BY <1>2, <1>4
<1> QED  BY <1>3, <1>4, <1>5

(* Filtering a list keeps it a list over the same set. *)
LEMMA KeptIs ==
  ASSUME NEW X, NEW s \in Seq(X), NEW S
  PROVE  Kept(s, S) \in Seq(X)
<1>0. PICK N \in Nat : N = Len(s)  OBVIOUS
<1> DEFINE Step(q, n) == IF s[n] \in S THEN Append(q, s[n]) ELSE q
           Run(g, n) == /\ g \in [0..n -> Seq(X)] /\ g[0] = << >>
                        /\ \A i \in 1..n : g[i] = Step(g[i - 1], i)
           P(g) == g = [n \in 0..N |-> IF n = 0 THEN << >> ELSE Step(g[n - 1], n)]
<1>1. ASSUME NEW q \in Seq(X), NEW n \in 1..N PROVE Step(q, n) \in Seq(X)
  BY <1>0, <1>1
<1>2. PICK f : f = CHOOSE k : P(k)  OBVIOUS
<1>3. Kept(s, S) = f[N]  BY <1>0, <1>2 DEF Kept
<1> HIDE DEF Step
<1>4. \E g : Run(g, N)
  <2> DEFINE B == {n \in 0..N : \E g : Run(g, n)}
  <2>1. 0 \in B
    <3>1. Run([i \in 0..0 |-> << >>], 0)  OBVIOUS
    <3>2. \E g : Run(g, 0)  BY ONLY Zenon, <3>1
    <3> HIDE DEF Run
    <3> QED  BY <3>2
  <2>2. ASSUME NEW n \in 1..N, n - 1 \in B PROVE n \in B
    <3>1. PICK g : Run(g, n - 1)  BY Zenon, <2>2
    <3>2. PICK k : k = [i \in 0..n |-> IF i < n THEN g[i] ELSE Step(g[n - 1], n)]  BY Zenon
    <3>3. g[n - 1] \in Seq(X)  BY <3>1
    <3>4. Step(g[n - 1], n) \in Seq(X)  BY <3>3, <1>1
    <3>5. k \in [0..n -> Seq(X)]  BY <3>1, <3>2, <3>4
    <3>6. k[0] = << >> /\ \A i \in 1..n : k[i] = Step(k[i - 1], i)
      <4>1. k[0] = << >>  BY <3>1, <3>2
      <4>2. ASSUME NEW i \in 1..n PROVE k[i] = Step(k[i - 1], i)
        <5>1. k[i - 1] = g[i - 1]  BY <3>2
        <5>2. CASE i = n  BY <5>1, <5>2, <3>2
        <5>3. CASE i # n  BY <5>1, <5>3, <3>2, <3>1
        <5> QED  BY <5>2, <5>3
      <4> QED  BY <4>1, <4>2
    <3>7. Run(k, n)  BY <3>5, <3>6
    <3> HIDE DEF Run
    <3>8. \E m : Run(m, n)  BY ONLY <3>7
    <3> QED  BY <3>8
  <2> HIDE DEF B
  <2>3. \A n \in 1..N : n - 1 \in B => n \in B  BY <2>2
  <2>4. 0..N \subseteq B  BY <2>1, <2>3, UpTo
  <2>5. N \in B  BY <2>4
  <2> HIDE DEF Run
  <2> QED  BY <2>5 DEF B
<1>5. PICK g : Run(g, N)  BY Zenon, <1>4
<1>6. P(g)
  <2>1. \A n \in 0..N : g[n] = IF n = 0 THEN << >> ELSE Step(g[n - 1], n)  BY <1>5
  <2> QED  BY <1>5, <2>1
<1>7. P(f)  BY Zenon, <1>6, <1>2
<1>8. N \in {n \in 0..N : f[n] \in Seq(X)}
  <2> DEFINE B == {n \in 0..N : f[n] \in Seq(X)}
  <2>1. 0 \in B  BY <1>7
  <2>2. ASSUME NEW n \in 1..N, n - 1 \in B PROVE n \in B
    <3>1. f[n] = Step(f[n - 1], n)  BY <1>7
    <3> QED  BY <3>1, <2>2, <1>1
  <2> HIDE DEF B
  <2>3. \A n \in 1..N : n - 1 \in B => n \in B  BY <2>2
  <2>4. 0..N \subseteq B  BY <2>1, <2>3, UpTo
  <2> QED  BY <2>4 DEF B
<1> QED  BY <1>3, <1>8

(* So does inserting an element of it. *)
LEMMA InsertIs ==
  ASSUME NEW X, NEW s \in Seq(X), NEW i \in 1..Len(s) + 1, NEW x \in X
  PROVE  InsertAt(s, i, x) \in Seq(X)
<1>1. SubSeq(s, 1, i - 1) \in Seq(X)  OBVIOUS
<1>2. SubSeq(s, i, Len(s)) \in Seq(X)  OBVIOUS
<1>3. <<x>> \in Seq(X)  OBVIOUS
<1> QED  BY <1>1, <1>2, <1>3 DEF InsertAt

-----------------------------------------------------------------------------
(* The types of the operations. *)

Kinds == {"none", "standard", "forced"}

RuntimeType ==
    [pending : [scheduled_at : Nat \cup {-1}, delay : Nat, kind : Kinds, median : Nat,
                next : Hashes],
     next_forced : Nat, stalled : {<< >>} \cup (Nat \X Nat), set_id : Nat, authorities : Hashes]

DigestType == [Blocks -> [kind : Kinds, delay : Nat, median : Nat]]

(* The blocks that signal forced changes, and authority sets that wait for such only. *)
Forcers(d) == {b \in Blocks : d[b].kind = "forced"}

SetType(d) ==
    [authorities : Hashes, set_id : Nat, forced : Seq(Forcers(d)), changes : Seq(Nat \X Nat),
     standard : TreeType]

(* Two sets that differ at most in the best finalized number of the tree. *)
Same(a, b) ==
    /\ a.authorities = b.authorities /\ a.set_id = b.set_id /\ a.forced = b.forced
    /\ a.changes = b.changes /\ a.standard.nodes = b.standard.nodes

CallType == [name : STRING, delay : Nat, median : Nat]

(* The runtime of a block keeps its type: schedule_change. *)
LEMMA ScheduleType ==
  ASSUME NEW r \in RuntimeType, NEW b \in Blocks, NEW delay \in Nat, NEW kind \in Kinds,
         NEW median \in Nat
  PROVE  schedule_change(r, b, delay, kind, median) \in RuntimeType
<1>1. b \in Hashes /\ Number[b] \in Nat /\ Number[b] + 2 * delay \in Nat
  BY NumberIs DEF Hashes
<1> QED  BY Zenon, <1>1 DEF schedule_change, RuntimeType

(* The same for the calls of a block. *)
LEMMA ExecuteType ==
  ASSUME NEW r \in RuntimeType, NEW b \in Blocks, NEW call \in CallType
  PROVE  Execute(r, b, call) \in RuntimeType
<1>1. on_new_session(r, b) \in RuntimeType
  <2>1. PICK kind \in Kinds : kind = IF r.stalled = << >> THEN "standard" ELSE "forced"
    BY DEF Kinds
  <2>2. PICK delay \in Nat : delay = IF r.stalled = << >> THEN 0 ELSE r.stalled[1]
    BY DEF RuntimeType
  <2>3. PICK median \in Nat : median = IF r.stalled = << >> THEN 0 ELSE r.stalled[2]
    BY DEF RuntimeType
  <2>4. PICK q \in RuntimeType : q = schedule_change(r, b, delay, kind, median)
    BY ScheduleType
  <2>5. [q EXCEPT !.stalled = << >>, !.set_id = @ + 1] \in RuntimeType
    <3>1. q.set_id + 1 \in Nat /\ << >> \in {<< >>} \cup (Nat \X Nat)  BY DEF RuntimeType
    <3>2. [q EXCEPT !.stalled = << >>] \in RuntimeType  BY Zenon, <3>1 DEF RuntimeType
    <3> QED  BY Zenon, <3>1, <3>2 DEF RuntimeType
  <2>6. on_new_session(r, b) = IF CanSchedule(r, b, kind)
                               THEN [q EXCEPT !.stalled = << >>, !.set_id = @ + 1] ELSE r
    BY <2>1, <2>2, <2>3, <2>4 DEF on_new_session
  <2> QED  BY <2>5, <2>6
<1>2. schedule_change(r, b, call.delay, "standard", 0) \in RuntimeType
  BY ScheduleType DEF CallType, Kinds
<1>3. [r EXCEPT !.stalled = <<call.delay, call.median>>] \in RuntimeType
  BY DEF RuntimeType, CallType
<1> QED  BY <1>1, <1>2, <1>3 DEF Execute

(* The same for the end of a block, and the log it deposits. *)
LEMMA FinalizeType ==
  ASSUME NEW r \in RuntimeType, NEW b \in Blocks
  PROVE  /\ on_finalize(r, b) \in RuntimeType
         /\ deposit_log(r, b) \in [kind : Kinds, delay : Nat, median : Nat]
<1>1. NoPending \in [scheduled_at : Nat \cup {-1}, delay : Nat, kind : Kinds, median : Nat,
                     next : Hashes]
  BY DEF NoPending, Kinds, Hashes
<1>2. on_finalize(r, b) \in RuntimeType  BY Zenon, <1>1 DEF on_finalize, RuntimeType
<1>3. deposit_log(r, b) \in [kind : Kinds, delay : Nat, median : Nat]
  BY DEF deposit_log, RuntimeType, NoDigest, Kinds
<1> QED  BY <1>2, <1>3

(* The set before the first change has its type. *)
LEMMA FirstSet ==
  ASSUME NEW d
  PROVE  genesis \in SetType(d)
<1>1. NewTree \in TreeType  BY DEF NewTree, TreeType
<1> QED  BY <1>1 DEF genesis, SetType, Hashes

(* Adding a change touches the list of forced changes or the tree, never both. *)
LEMMA AddIs ==
  ASSUME NEW d \in DigestType, NEW a \in SetType(d), NEW b \in Blocks, d[b].kind # "none",
         NEW c, c = add_pending_change(a, d, b)
  PROVE  /\ c \in SetType(d)
         /\ a.standard.nodes \subseteq c.standard.nodes
         /\ d[b].kind = "standard" => b \in c.standard.nodes
<1>1. CASE d[b].kind = "forced"
  <2>0. PICK S : S = {i \in DOMAIN a.forced : ~OrderedBefore(d, a.forced[i], b)}
                       \cup {Len(a.forced) + 1}
    BY Zenon
  <2>1. PICK at : at = Min(S)  OBVIOUS
  <2>2. a.forced \in Seq(Forcers(d)) /\ Len(a.forced) \in Nat
        /\ DOMAIN a.forced = 1..Len(a.forced)
    BY DEF SetType
  <2>3. S \subseteq 1..Len(a.forced) + 1 /\ S # {}  BY <2>0, <2>2
  <2>4. at \in 1..Len(a.forced) + 1
    <3>1. S \in SUBSET Nat  BY <2>2, <2>3
    <3>2. at \in S  BY <3>1, <2>1, <2>3, MinIs
    <3> QED  BY <3>2, <2>3
  <2>5. b \in Forcers(d)  BY <1>1 DEF Forcers
  <2>6. InsertAt(a.forced, at, b) \in Seq(Forcers(d))  BY <2>2, <2>4, <2>5, InsertIs
  <2>7. c = [a EXCEPT !.forced = InsertAt(a.forced, at, b)]
    BY <1>1, <2>0, <2>1 DEF add_pending_change, add_forced_change, SetType
  <2> QED  BY <2>6, <2>7, <1>1 DEF SetType
<1>2. CASE d[b].kind # "forced"
  <2>1. c = [a EXCEPT !.standard = Import(a.standard, b)]
    BY <1>2 DEF add_pending_change, SetType
  <2>2. a.standard \in TreeType  BY DEF SetType
  <2>3. Import(a.standard, b) \in TreeType
        /\ Import(a.standard, b).nodes = a.standard.nodes \cup {b}
    BY <2>2 DEF Import, TreeType
  <2> QED  BY <2>1, <2>3 DEF SetType
<1> QED  BY <1>1, <1>2

(* A forced change is one of the list, and its block is where it is enacted. *)
LEMMA ForcedIs ==
  ASSUME NEW d \in DigestType, NEW a \in SetType(d), NEW b \in Blocks, Forcing(a, d, b) # {},
         NEW c, c = apply_forced_changes(a, d, b)
  PROVE  /\ c \in SetType(d)
         /\ \E s \in Forcers(d) : EqualOrDescendent(s, b) /\ effective_number(d, s) = Number[b]
<1>1. a.forced \in Seq(Forcers(d)) /\ DOMAIN a.forced = 1..Len(a.forced)  BY DEF SetType
<1>2. Forcing(a, d, b) \in SUBSET Nat  BY <1>1 DEF Forcing
<1>3. PICK i \in Forcing(a, d, b) : i = Min(Forcing(a, d, b))  BY <1>2, MinIs
<1>4. PICK s \in Forcers(d) : s = a.forced[i]
  <2>1. i \in 1..Len(a.forced)  BY <1>1, <1>3 DEF Forcing
  <2> QED  BY <1>1, <2>1
<1>5. EqualOrDescendent(s, b) /\ effective_number(d, s) = Number[b]
  BY <1>3, <1>4 DEF Forcing
<1>6. s \in Hashes /\ d[s].median \in Nat  BY <1>4 DEF Forcers, DigestType, Hashes
<1>7. Append(a.changes, <<a.set_id, d[s].median>>) \in Seq(Nat \X Nat)
  BY <1>6 DEF SetType
<1>8. c = [genesis EXCEPT !.authorities = s, !.set_id = a.set_id + 1,
                          !.changes = Append(a.changes, <<a.set_id, d[s].median>>)]
  BY <1>3, <1>4 DEF apply_forced_changes, Forced
<1>9. a.set_id + 1 \in Nat  BY DEF SetType
<1>10. c \in SetType(d)
  BY Zenon, <1>6, <1>7, <1>8, <1>9, FirstSet DEF SetType
<1> QED  BY <1>4, <1>5, <1>10

(* What finalizing a block does to the set: when nothing of the tree's roots changed,    *)
(* which is when nothing is written, the set is the one it was.                          *)
LEMMA StandardIs ==
  ASSUME NEW d \in DigestType, NEW a \in SetType(d), NEW b \in Hashes,
         NEW c, c = apply_standard_changes(a, d, b)
  PROVE  /\ c \in SetType(d)
         /\ ~StandardChanged(a, c) => Same(a, c)
         /\ \A n \in a.standard.nodes :
               Comparable(b, n) /\ effective_number(d, n) > Number[b] => n \in c.standard.nodes
<1> DEFINE later == {x \in Blocks : effective_number(d, x) > Number[b] /\ is_descendent_of(b, x)}
<1>0. PICK acc, enacted, tree, forced :
         /\ acc = Effective(a, d, b)
         /\ enacted = FinalizedRoot(a.standard, b, acc)
         /\ tree = finalize_with_descendent_if(a.standard, b, acc)
         /\ forced = IF Roots(a.standard) # Roots(tree) THEN Kept(a.forced, later) ELSE a.forced
  OBVIOUS
<1>1. PICK kept : kept = [a EXCEPT !.standard = tree, !.forced = forced]  OBVIOUS
<1>2. c = IF enacted = {} THEN kept
          ELSE [kept EXCEPT !.authorities = CHOOSE s \in enacted : TRUE, !.set_id = kept.set_id + 1,
                            !.changes = Append(kept.changes, <<a.set_id, Number[b]>>)]
  BY <1>0, <1>1 DEF apply_standard_changes, SetType
<1>3. a.standard \in TreeType /\ a.forced \in Seq(Forcers(d))  BY DEF SetType
<1>4. tree \in TreeType  BY Zenon, <1>0, <1>3, FinalizeIs DEF Finalization
<1>5. forced \in Seq(Forcers(d))  BY <1>0, <1>3, KeptIs
<1>6. /\ kept \in SetType(d) /\ kept.standard = tree /\ kept.forced = forced
      /\ kept.authorities = a.authorities /\ kept.set_id = a.set_id /\ kept.changes = a.changes
  BY Zenon, <1>1, <1>4, <1>5 DEF SetType
<1>7. enacted \subseteq Hashes  BY <1>0, <1>3 DEF FinalizedRoot, Roots, TreeType, Hashes
<1>8. c \in SetType(d) /\ c.standard = tree
  <2>1. CASE enacted = {}  BY <2>1, <1>2, <1>6
  <2>2. CASE enacted # {}
    <3>1. PICK s \in Hashes : s = CHOOSE x \in enacted : TRUE  BY <2>2, <1>7
    <3>2. kept.set_id + 1 \in Nat  BY <1>6 DEF SetType
    <3>3. PICK hist : hist = Append(kept.changes, <<a.set_id, Number[b]>>)  BY Zenon
    <3>4. hist \in Seq(Nat \X Nat)
      <4>1. a.set_id \in Nat /\ Number[b] \in Nat  BY NumberIs DEF SetType
      <4>2. kept.changes \in Seq(Nat \X Nat)  BY <1>6 DEF SetType
      <4> QED  BY <3>3, <4>1, <4>2
    <3>5. c = [kept EXCEPT !.authorities = s, !.set_id = kept.set_id + 1, !.changes = hist]
      BY <1>2, <2>2, <3>1, <3>3
    <3> QED  BY Zenon, <3>2, <3>4, <3>5, <1>6 DEF SetType
  <2> QED  BY <2>1, <2>2
<1>9. ~StandardChanged(a, c) => Same(a, c)
  <2> SUFFICES ASSUME Roots(a.standard) = Roots(tree) PROVE Same(a, c)
    BY <1>8 DEF StandardChanged
  <2>1. enacted = {} /\ tree.nodes = a.standard.nodes  BY <1>0, <1>3, FinalizeUnchanged
  <2>2. c = kept /\ forced = a.forced  BY <2>1, <1>2, <1>0
  <2> QED  BY <2>1, <2>2, <1>6 DEF Same
<1>10. ASSUME NEW n \in a.standard.nodes, Comparable(b, n), effective_number(d, n) > Number[b]
       PROVE  n \in c.standard.nodes
  <2>1. n \in Blocks /\ n \in Hashes /\ d[n].delay \in Nat
    BY <1>3 DEF TreeType, Hashes, DigestType
  <2>2. effective_number(d, n) \in Nat /\ Number[b] \in Nat  BY <2>1, NumberIs DEF effective_number
  <2>3. n \notin acc  BY <1>0, <1>10, <2>2 DEF Effective
  <2> QED  BY <2>3, <1>0, <1>3, <1>8, <1>10, FinalizeKeeps
<1> QED  BY <1>8, <1>9, <1>10

(* The history stays a list of set ids and block numbers. *)
LEMMA HistoryIs ==
  ASSUME NEW d, NEW a \in SetType(d), NEW b \in Hashes,
         NEW c, c = [a EXCEPT !.changes = insert(@, Number[b])]
  PROVE  c \in SetType(d) /\ c.standard = a.standard
<1>1. a.changes \in Seq(Nat \X Nat) /\ Len(a.changes) \in Nat /\ DOMAIN a.changes = 1..Len(a.changes)
  BY DEF SetType
<1>2. PICK S, i : /\ S = {j \in DOMAIN a.changes : Number[b] <= a.changes[j][2]}
                          \cup {Len(a.changes) + 1}
                  /\ i = Min(S)
  BY Zenon
<1>3. S \in SUBSET Nat /\ S \subseteq 1..Len(a.changes) + 1 /\ S # {}  BY <1>1, <1>2
<1>4. i \in 1..Len(a.changes) + 1  BY <1>2, <1>3, MinIs
<1>5. i = InsertIndex(a.changes, Number[b])  BY <1>2 DEF InsertIndex
<1>6. InsertedId(a.changes, Number[b]) \in Nat
  <2>1. CASE i = 1  BY <2>1, <1>5 DEF InsertedId
  <2>2. CASE i # 1
    <3>1. i - 1 \in 1..Len(a.changes)  BY <2>2, <1>4, <1>1
    <3>2. a.changes[i - 1] \in Nat \X Nat  BY <3>1, <1>1
    <3>3. a.changes[i - 1][1] + 1 \in Nat  BY <3>2
    <3> QED  BY <3>3, <2>2, <1>5 DEF InsertedId
  <2> QED  BY <2>1, <2>2
<1>7. <<InsertedId(a.changes, Number[b]), Number[b]>> \in Nat \X Nat  BY <1>6, NumberIs
<1>8. insert(a.changes, Number[b]) \in Seq(Nat \X Nat)
  BY <1>1, <1>4, <1>5, <1>7, InsertIs DEF insert
<1> QED  BY Zenon, <1>8 DEF SetType

-----------------------------------------------------------------------------
(* The inductive invariant. *)

NetType == [sets : Seq(Hashes), hist : Seq(Int \X Int), fin : Hashes, from : Nat,
            anchor : Hashes, offline : BOOLEAN]

JustType == [block : Hashes, id : Int, authorities : Hashes]

VoterType == [id : Nat, authorities : Hashes, paused : BOOLEAN]

OpType(d) ==
    [stage : {"idle", "import", "verify", "finalize"}, block : Hashes, old : SetType(d),
     changed : BOOLEAN, applied : {"none", "root", "inner", "forced", "old"}, pause : BOOLEAN,
     just : JustType]

NetInv ==
    /\ Authored \subseteq Hashes /\ Genesis \in Authored
    /\ \A h \in Authored : runtime[h] \in RuntimeType
    /\ runtime = [h \in Authored |-> runtime[h]]
    /\ digest \in DigestType
    /\ net \in NetType /\ net.sets # << >>
    /\ justs \subseteq JustType

ClientInv ==
    /\ auth \in SetType(digest)
    /\ disk \in [auth : SetType(digest), paused : BOOLEAN]
    /\ op \in OpType(digest)
    /\ imported \subseteq Authored /\ finalized \in imported /\ requests \subseteq imported
    /\ voter \in VoterType /\ commands \in Seq(VoterType)
    /\ faults \in 0..MaxFaults

(* How far the client is: before it starts, and until it has read the set of an          *)
(* imported state, nothing is under way.                                                 *)
StartInv ==
    /\ bootstrap \in {"off", "full", "state", "read", "gap"}
    /\ bootstrap # "off" => Authored = Hashes
    /\ bootstrap \in {"off", "state"} => /\ imported = {Genesis} /\ finalized = Genesis
                                         /\ requests = {} /\ op = Idle
    /\ bootstrap = "off" => auth = genesis /\ disk.auth = genesis
    /\ bootstrap = "read" => /\ imported = {Genesis, finalized} /\ finalized \in Blocks
                             /\ digest[finalized].delay = 0
                             /\ requests = {} /\ op = Idle

(* The set to which the client returns when the import under way fails. *)
DiskInv == /\ ~Locked => Same(disk.auth, auth)
           /\ Locked => Same(disk.auth, op.old)

(* What is known of the block under import. *)
NewImport(b) ==
    /\ Parent[b] \in imported /\ b \notin imported
    /\ op.applied = "forced" => op.changed /\ ForcedEnacted(b)
    /\ ~op.changed => digest[b].kind = "none"
    /\ op.changed /\ op.applied # "forced" =>
          /\ op.old.standard.nodes \subseteq auth.standard.nodes
          /\ digest[b].kind = "standard" => b \in auth.standard.nodes

OldImport(b) ==
    /\ Number[b] < Number[finalized] /\ digest[b].delay = 0
    /\ op.changed => auth.standard.nodes = op.old.standard.nodes

OpInv ==
    /\ op.stage \in {"verify", "finalize"} => op.block \in imported
    /\ op.stage = "import" =>
          /\ op.block \in Blocks
          /\ op.applied # "old" => NewImport(op.block)
          /\ op.applied = "old" => OldImport(op.block)

(* Above the finalized block no import left a hole, and what the gap misses enacts its   *)
(* changes at once.                                                                      *)
NoHoles == \A x \in imported \cap Blocks : Number[x] <= Number[finalized] \/ Parent[x] \in imported

GapInv == bootstrap \in {"read", "gap"} => \A x \in Gap : digest[x].delay = 0

GrandpaInv == /\ NetInv /\ ClientInv /\ StartInv /\ DiskInv /\ OpInv /\ NoHoles /\ GapInv
              /\ NoChangeForgotten

-----------------------------------------------------------------------------
(* The types of the operations. *)

(* Among blocks there is one with the lowest number. *)
LEMMA HighestIs ==
  ASSUME NEW S \in SUBSET Hashes, S # {}
  PROVE  Highest(S) \in S
<1>0. PICK N : N = {Number[x] : x \in S}  BY Zenon
<1>1. N \in SUBSET Nat /\ N # {}  BY Zenon, <1>0, NumberIs
<1>2. PICK n \in N : \A m \in N : n <= m  BY Zenon, <1>1, MinInSet
<1>3. PICK x \in S : n = Number[x]  BY Zenon, <1>0, <1>2
<1>4. \A m \in S : Number[x] <= Number[m]  BY Zenon, <1>0, <1>2, <1>3
<1> QED  BY Zenon, <1>3, <1>4 DEF Highest

(* The values of the initial state have their types. *)
LEMMA GenesisType ==
  ASSUME NEW d
  PROVE  /\ genesis \in SetType(d) /\ Idle \in OpType(d) /\ VoterOf(genesis) \in VoterType
         /\ NoJust \in JustType
<1>2. genesis \in SetType(d)  BY Zenon, FirstSet
<1>3. NoJust \in JustType  BY DEF NoJust, JustType, Hashes
<1>4. Idle \in OpType(d)  BY Zenon, <1>2, <1>3 DEF Idle, OpType, Hashes
<1>5. VoterOf(genesis) \in VoterType  BY Zenon DEF VoterOf, genesis, VoterType, Hashes
<1> QED  BY Zenon, <1>2, <1>3, <1>4, <1>5

-----------------------------------------------------------------------------
(* The initial state and the network. *)

(* The invariant holds initially. *)
LEMMA InitInv == Init => GrandpaInv
<1> SUFFICES ASSUME Init PROVE GrandpaInv  BY Zenon
<1> USE DEF Init
<1>1. GenesisRuntime \in RuntimeType
  BY Zenon DEF GenesisRuntime, NoPending, RuntimeType, Kinds, Hashes
<1>2. digest \in DigestType  BY Zenon DEF DigestType, NoDigest, Kinds
<1>3. net \in NetType /\ net.sets # << >>  BY DEF NetType, Hashes
<1>4. NetInv  BY Zenon, <1>1, <1>2, <1>3 DEF NetInv, Authored, Hashes
<1>5. ClientInv
  BY GenesisType, GrandpaAssumption DEF ClientInv, Authored
<1>6. StartInv  BY Zenon DEF StartInv
<1>7. op.stage = "idle" /\ ~Locked  BY Zenon DEF Idle, Locked
<1>8. DiskInv  BY Zenon, <1>7 DEF DiskInv, Same
<1>9. OpInv  BY Zenon, <1>7 DEF OpInv
<1>10. NoHoles /\ GapInv /\ NoChangeForgotten
  BY Zenon, BlockTreeAssumption DEF NoHoles, GapInv, NoChangeForgotten
<1> QED  BY Zenon, <1>4, <1>5, <1>6, <1>8, <1>9, <1>10 DEF GrandpaInv

(* What holds before the client starts. *)
LEMMA OffInv ==
  ASSUME StartInv, bootstrap = "off", ClientInv,
         UNCHANGED <<bootstrap, imported, finalized, auth, disk, op, requests, voter, commands,
                     faults>>,
         Authored \subseteq Authored'
  PROVE  ClientInv' /\ StartInv' /\ DiskInv' /\ OpInv' /\ NoHoles' /\ GapInv' /\ NoChangeForgotten'
<1>1. /\ imported = {Genesis} /\ finalized = Genesis /\ requests = {} /\ op = Idle
      /\ auth = genesis /\ disk.auth = genesis
  BY Zenon DEF StartInv
<1>2. disk.paused \in BOOLEAN /\ disk = [auth |-> genesis, paused |-> disk.paused]
  BY Zenon, <1>1 DEF ClientInv
<1>3. genesis \in SetType(digest') /\ Idle \in OpType(digest')  BY Zenon, GenesisType
<1>4. disk \in [auth : SetType(digest'), paused : BOOLEAN]  BY <1>2, <1>3
<1>5. ClientInv'  BY Zenon, <1>1, <1>3, <1>4 DEF ClientInv
<1>6. StartInv'  BY Zenon, <1>1 DEF StartInv
<1>7. op.stage = "idle" /\ op'.stage = "idle" /\ ~Locked'  BY Zenon, <1>1 DEF Idle, Locked
<1>8. DiskInv'  BY Zenon, <1>1, <1>7 DEF DiskInv, Same
<1>9. OpInv'  BY Zenon, <1>7 DEF OpInv
<1>10. NoHoles' /\ GapInv' /\ NoChangeForgotten'
  BY Zenon, <1>1, BlockTreeAssumption DEF NoHoles, GapInv, NoChangeForgotten
<1> QED  BY Zenon, <1>5, <1>6, <1>8, <1>9, <1>10

(* A new block, before the client starts. *)
LEMMA AuthorInv ==
  ASSUME GrandpaInv, NEW b \in Blocks, NEW call \in Calls[b], Author(b, call)
  PROVE  GrandpaInv'
<1> /\ NetInv /\ ClientInv /\ StartInv /\ DiskInv /\ OpInv /\ NoHoles /\ GapInv
    /\ NoChangeForgotten
  BY Zenon DEF GrandpaInv
<1>1. call \in CallType  BY Zenon, GrandpaAssumption DEF CallType
<1>2. PICK r \in RuntimeType : r = Execute(runtime[Parent[b]], b, call)
  BY Zenon, <1>1, ExecuteType DEF Author, NetInv
<1>3. /\ bootstrap = "off" /\ b \notin Authored
      /\ runtime' = [h \in Authored \cup {b} |-> IF h = b THEN on_finalize(r, b) ELSE runtime[h]]
      /\ digest' = [digest EXCEPT ![b] = deposit_log(r, b)]
      /\ net' = IF ForcedAt(r, b)
                THEN [net EXCEPT !.sets = Append(@, r.pending.next),
                                 !.hist = Append(@, <<NetId, r.pending.median>>),
                                 !.from = Number[b], !.anchor = b, !.offline = FALSE]
                ELSE [net EXCEPT !.offline = @ \/ call.name = "note_stalled"]
      /\ UNCHANGED <<justs, bootstrap, imported, finalized, auth, disk, op, requests, voter,
                     commands, faults>>
  BY Zenon, <1>2 DEF Author
<1>4. Authored' = Authored \cup {b}  BY Zenon, <1>3 DEF Authored
<1>5. \A h \in Authored' : runtime'[h] \in RuntimeType
  BY Zenon, <1>2, <1>3, <1>4, FinalizeType DEF NetInv
<1>6. runtime' = [h \in Authored' |-> runtime'[h]]  BY Zenon, <1>3, <1>4
<1>7. digest' \in DigestType  BY Zenon, <1>2, <1>3, FinalizeType DEF NetInv, DigestType
<1>8. net' \in NetType /\ net'.sets # << >>
  <2> DEFINE sets == Append(net.sets, r.pending.next)
             hist == Append(net.hist, <<NetId, r.pending.median>>)
  <2>0. net \in NetType /\ net.sets # << >>  BY Zenon DEF NetInv
  <2>1. r.pending.next \in Hashes /\ r.pending.median \in Nat  BY Zenon DEF RuntimeType
  <2>2. sets \in Seq(Hashes) /\ sets # << >>
    <3>1. net.sets \in Seq(Hashes)  BY Zenon, <2>0 DEF NetType
    <3> QED  BY <3>1, <2>1
  <2>3. NetId \in Int  BY <2>0 DEF NetId, NetType
  <2>4. hist \in Seq(Int \X Int)  BY <2>0, <2>1, <2>3 DEF NetType
  <2>5. b \in Hashes /\ Number[b] \in Nat  BY Zenon, NumberIs DEF Hashes
  <2> HIDE DEF sets, hist
  <2>6. CASE ForcedAt(r, b)
    <3>1. net' = [net EXCEPT !.sets = sets, !.hist = hist, !.from = Number[b], !.anchor = b,
                             !.offline = FALSE]
      BY Zenon, <1>3, <2>6, <2>0 DEF sets, hist, NetType
    <3> QED  BY Zenon, <3>1, <2>0, <2>2, <2>4, <2>5 DEF NetType
  <2>7. CASE ~ForcedAt(r, b)
    BY Zenon, <1>3, <2>0, <2>7 DEF NetType
  <2> QED  BY Zenon, <2>6, <2>7
<1>9. NetInv'
  BY Zenon, <1>3, <1>4, <1>5, <1>6, <1>7, <1>8 DEF NetInv, Hashes
<1> QED  BY Zenon, <1>3, <1>4, <1>9, OffInv DEF GrandpaInv

(* The voters of the network finalize a block. *)
LEMMA NetFinalizeInv ==
  ASSUME GrandpaInv, NEW b \in Blocks, NetFinalize(b)
  PROVE  GrandpaInv'
<1> /\ NetInv /\ ClientInv /\ StartInv /\ DiskInv /\ OpInv /\ NoHoles /\ GapInv
    /\ NoChangeForgotten
  BY Zenon DEF GrandpaInv
<1>1. /\ bootstrap = "off"
      /\ justs' = justs \cup {[block |-> b, id |-> NetId,
                               authorities |-> net.sets[Len(net.sets)]]}
      /\ net' = IF Upcoming(b) # {} /\ effective_number(digest, Highest(Upcoming(b))) = Number[b]
                THEN [net EXCEPT !.fin = b, !.from = Number[b],
                                 !.sets = Append(@, Highest(Upcoming(b))),
                                 !.hist = Append(@, <<NetId, Number[b]>>)]
                ELSE [net EXCEPT !.fin = b]
      /\ UNCHANGED <<runtime, digest, bootstrap, imported, finalized, auth, disk, op, requests,
                     voter, commands, faults>>
  BY Zenon DEF NetFinalize
<1>2. Authored' = Authored  BY Zenon, <1>1 DEF Authored
<1>3. net \in NetType /\ net.sets # << >>  BY Zenon DEF NetInv
<1>4. NetId \in Int /\ net.sets[Len(net.sets)] \in Hashes
  BY <1>3 DEF NetId, NetType
<1>5. b \in Hashes /\ Number[b] \in Nat  BY Zenon, NumberIs DEF Hashes
<1>6. justs' \subseteq JustType  BY <1>1, <1>4, <1>5 DEF NetInv, JustType
<1>7. net' \in NetType /\ net'.sets # << >>
  <2>1. CASE Upcoming(b) # {} /\ effective_number(digest, Highest(Upcoming(b))) = Number[b]
    <3>1. Upcoming(b) \in SUBSET Hashes  BY Zenon DEF Upcoming, Hashes
    <3>2. PICK s \in Hashes : s = Highest(Upcoming(b))  BY Zenon, <3>1, <2>1, HighestIs
    <3>3. PICK sets, hist : sets = Append(net.sets, s) /\ hist = Append(net.hist, <<NetId, Number[b]>>)
      BY Zenon
    <3>4. sets \in Seq(Hashes) /\ sets # << >>  BY <3>3, <1>3 DEF NetType
    <3>5. hist \in Seq(Int \X Int)  BY <3>3, <1>3, <1>4, <1>5 DEF NetType
    <3>6. net' = [net EXCEPT !.fin = b, !.from = Number[b], !.sets = sets, !.hist = hist]
      BY Zenon, <1>1, <2>1, <3>2, <3>3, <1>3 DEF NetType
    <3> QED  BY Zenon, <3>4, <3>5, <3>6, <1>3, <1>5 DEF NetType
  <2>2. CASE ~(Upcoming(b) # {} /\ effective_number(digest, Highest(Upcoming(b))) = Number[b])
    BY Zenon, <2>2, <1>1, <1>3, <1>5 DEF NetType
  <2> QED  BY Zenon, <2>1, <2>2
<1>8. NetInv'  BY Zenon, <1>1, <1>2, <1>6, <1>7 DEF NetInv
<1> QED  BY Zenon, <1>1, <1>2, <1>8, OffInv DEF GrandpaInv

-----------------------------------------------------------------------------
(* Beginning an import. *)

(* The client leaves the network as it is. *)
LEMMA NetFrame ==
  ASSUME NetInv, UNCHANGED netVars
  PROVE  /\ NetInv' /\ digest' = digest /\ runtime' = runtime /\ Authored' = Authored
         /\ net' = net /\ justs' = justs
BY Zenon DEF NetInv, netVars, Authored

(* What is pending stays pending while none of what it depends on moves. *)
LEMMA PendingFrame ==
  ASSUME NoChangeForgotten, NoHoles, GapInv, digest' = digest,
         UNCHANGED <<imported, finalized, bootstrap>>,
         disk'.auth.standard.nodes = disk.auth.standard.nodes
  PROVE  NoChangeForgotten' /\ NoHoles' /\ GapInv'
<1>1. NoChangeForgotten'  BY Zenon DEF NoChangeForgotten, ForcedEnacted
<1>2. NoHoles' /\ GapInv'  BY Zenon DEF NoHoles, GapInv, Gap
<1> QED  BY Zenon, <1>1, <1>2

(* The client starts. *)
LEMMA LaunchInv ==
  ASSUME GrandpaInv, Launch
  PROVE  GrandpaInv'
<1> /\ NetInv /\ ClientInv /\ StartInv /\ DiskInv /\ OpInv /\ NoHoles /\ GapInv
    /\ NoChangeForgotten
  BY Zenon DEF GrandpaInv
<1>1. /\ Authored = Hashes /\ bootstrap = "off" /\ bootstrap' \in {"full", "state"}
      /\ UNCHANGED <<netVars, imported, finalized, auth, disk, op, requests, voter, commands,
                     faults>>
  BY Zenon, GrandpaAssumption DEF Launch
<1>2. NetInv' /\ digest' = digest /\ Authored' = Authored  BY Zenon, <1>1, NetFrame
<1>3. ClientInv'  BY Zenon, <1>1, <1>2 DEF ClientInv
<1>4. StartInv'  BY Zenon, <1>1, <1>2 DEF StartInv
<1>5. DiskInv'  BY Zenon, <1>1 DEF DiskInv, Locked
<1>6. op.stage = "idle" /\ imported = {Genesis}  BY <1>1 DEF StartInv, Idle
<1>7. OpInv'  BY Zenon, <1>1, <1>6 DEF OpInv
<1>8. NoHoles' /\ GapInv' /\ NoChangeForgotten'
  BY Zenon, <1>1, <1>6, BlockTreeAssumption DEF NoHoles, GapInv, NoChangeForgotten
<1> QED  BY Zenon, <1>2, <1>3, <1>4, <1>5, <1>7, <1>8 DEF GrandpaInv

(* What make_authorities_changes does to the set: it only adds, unless a forced change   *)
(* takes effect at the block.                                                            *)
LEMMA MadeIs ==
  ASSUME NetInv, ClientInv, NEW b \in Blocks, CanMakeChanges(b),
         NEW c, c = MadeChanges(b)
  PROVE  /\ c \in SetType(digest)
         /\ AppliedChanges(b) \in {"none", "root", "inner", "forced"}
         /\ AppliedChanges(b) = "forced" => ForcedEnacted(b)
         /\ AppliedChanges(b) # "forced" =>
               /\ auth.standard.nodes \subseteq c.standard.nodes
               /\ digest[b].kind = "standard" => b \in c.standard.nodes
         /\ ~Signals(b) /\ AppliedChanges(b) # "forced" => c = auth
<1>1. digest \in DigestType /\ auth \in SetType(digest)  BY Zenon DEF NetInv, ClientInv
<1>2. PICK a : a = Added(b)  BY Zenon
<1>3. /\ a \in SetType(digest) /\ auth.standard.nodes \subseteq a.standard.nodes
      /\ digest[b].kind = "standard" => b \in a.standard.nodes
      /\ ~Signals(b) => a = auth
  <2>1. CASE Signals(b)
    <3>1. digest[b].kind # "none" /\ a = add_pending_change(auth, digest, b)
      BY Zenon, <2>1, <1>2 DEF Signals, Added
    <3> QED  BY Zenon, <3>1, <2>1, <1>1, AddIs
  <2>2. CASE ~Signals(b)
    BY Zenon, <2>2, <1>1, <1>2 DEF Signals, Added
  <2> QED  BY Zenon, <2>1, <2>2
<1>4. CASE Forcing(a, digest, b) # {}
  <2>1. AppliedChanges(b) = "forced"  BY Zenon, <1>2, <1>4 DEF AppliedChanges
  <2>2. c = apply_forced_changes(a, digest, b)  BY Zenon, <1>2, <2>1 DEF MadeChanges
  <2>3. /\ c \in SetType(digest)
        /\ \E s \in Forcers(digest) : /\ EqualOrDescendent(s, b)
                                      /\ effective_number(digest, s) = Number[b]
    BY Zenon, <1>1, <1>3, <1>4, <2>2, ForcedIs
  <2>4. ForcedEnacted(b)  BY Zenon, <2>3 DEF ForcedEnacted, Forcers
  <2> QED  BY Zenon, <2>1, <2>3, <2>4
<1>5. CASE Forcing(a, digest, b) = {}
  <2>1. /\ AppliedChanges(b) = enacts_standard_change(a, digest, b)
        /\ enacts_standard_change(a, digest, b) # "error"
    BY Zenon, <1>2, <1>5 DEF AppliedChanges, CanMakeChanges
  <2>2. enacts_standard_change(a, digest, b) \in {"error", "none", "root", "inner"}
    BY Zenon DEF enacts_standard_change, finalizes_any_with_descendent_if
  <2>3. AppliedChanges(b) \in {"none", "root", "inner"}  BY Zenon, <2>1, <2>2
  <2>4. c = a  BY Zenon, <1>2, <2>3 DEF MadeChanges
  <2> QED  BY Zenon, <1>3, <2>3, <2>4
<1> QED  BY Zenon, <1>4, <1>5

(* The justifications that may come with a block are justifications. *)
LEMMA CarriedType ==
  ASSUME NetInv, NEW b
  PROVE  Carried(b) \subseteq JustType
BY Zenon, GenesisType DEF NetInv, Carried

(* A block is taken up: what the set was is kept for the case of failure. *)
LEMMA ImportBlockInv ==
  ASSUME GrandpaInv, NEW b \in Blocks, NEW j \in Carried(b), ImportBlock(b, j)
  PROVE  GrandpaInv'
<1> /\ NetInv /\ ClientInv /\ StartInv /\ DiskInv /\ OpInv /\ NoHoles /\ GapInv
    /\ NoChangeForgotten
  BY Zenon DEF GrandpaInv
<1>1. /\ op = Idle /\ b \in Authored \ imported /\ Parent[b] \in imported
      /\ bootstrap \in {"full", "gap"} /\ CanMakeChanges(b)
      /\ auth' = MadeChanges(b)
      /\ op' = [stage |-> "import", block |-> b, old |-> auth,
                changed |-> Signals(b) \/ AppliedChanges(b) = "forced",
                applied |-> AppliedChanges(b), pause |-> digest[b].kind = "forced", just |-> j]
      /\ UNCHANGED <<netVars, bootstrap, imported, finalized, disk, requests, voter, commands,
                     faults>>
  BY Zenon DEF ImportBlock
<1>2. NetInv' /\ digest' = digest /\ Authored' = Authored  BY Zenon, <1>1, NetFrame
<1>3. /\ auth' \in SetType(digest)
      /\ AppliedChanges(b) \in {"none", "root", "inner", "forced"}
      /\ AppliedChanges(b) = "forced" => ForcedEnacted(b)
      /\ AppliedChanges(b) # "forced" =>
            /\ auth.standard.nodes \subseteq auth'.standard.nodes
            /\ digest[b].kind = "standard" => b \in auth'.standard.nodes
      /\ ~Signals(b) /\ AppliedChanges(b) # "forced" => auth' = auth
  BY Zenon, <1>1, MadeIs
<1>4. op' \in OpType(digest)
  <2>1. j \in JustType /\ b \in Hashes  BY Zenon, CarriedType DEF Hashes
  <2>2. auth \in SetType(digest)  BY Zenon DEF ClientInv
  <2>3. /\ (Signals(b) \/ AppliedChanges(b) = "forced") \in BOOLEAN
        /\ (digest[b].kind = "forced") \in BOOLEAN
    BY Zenon DEF Signals
  <2> QED  BY Zenon, <1>1, <1>3, <2>1, <2>2, <2>3 DEF OpType
<1>5. ClientInv'  BY Zenon, <1>1, <1>2, <1>3, <1>4 DEF ClientInv
<1>6. StartInv'  BY Zenon, <1>1, <1>2 DEF StartInv
<1>7. /\ op'.stage = "import" /\ op'.block = b /\ op'.old = auth /\ op'.applied = AppliedChanges(b)
      /\ op'.changed = (Signals(b) \/ AppliedChanges(b) = "forced")
  BY Zenon, <1>1
<1>8. ~Locked /\ Same(disk.auth, auth)  BY Zenon, <1>1 DEF Locked, Idle, DiskInv
<1>9. DiskInv'
  <2>1. CASE op'.changed  BY Zenon, <2>1, <1>1, <1>7, <1>8 DEF DiskInv, Locked
  <2>2. CASE ~op'.changed
    <3>1. auth' = auth  BY Zenon, <2>2, <1>3, <1>7
    <3> QED  BY Zenon, <3>1, <2>2, <1>1, <1>8 DEF DiskInv, Locked
  <2> QED  BY Zenon, <2>1, <2>2
<1>10. OpInv'
  <2>1. ForcedEnacted(b)' <=> ForcedEnacted(b)  BY Zenon, <1>2 DEF ForcedEnacted
  <2>2. NewImport(b)'
    BY Zenon, <1>1, <1>2, <1>3, <1>7, <2>1 DEF NewImport, Signals
  <2> QED  BY Zenon, <1>3, <1>7, <2>2 DEF OpInv
<1>11. NoChangeForgotten' /\ NoHoles' /\ GapInv'  BY Zenon, <1>1, <1>2, PendingFrame
<1> QED  BY Zenon, <1>2, <1>5, <1>6, <1>9, <1>10, <1>11 DEF GrandpaInv

(* A block of the gap is taken up. *)
LEMMA ImportOldBlockInv ==
  ASSUME GrandpaInv, NEW b \in Blocks, NEW j \in Carried(b), ImportOldBlock(b, j)
  PROVE  GrandpaInv'
<1> /\ NetInv /\ ClientInv /\ StartInv /\ DiskInv /\ OpInv /\ NoHoles /\ GapInv
    /\ NoChangeForgotten
  BY Zenon DEF GrandpaInv
<1>1. /\ bootstrap = "gap" /\ op = Idle /\ b \in Gap
      /\ auth' = IF Signals(b) THEN [auth EXCEPT !.changes = insert(@, Number[b])] ELSE auth
      /\ op' = [Idle EXCEPT !.stage = "import", !.block = b, !.old = auth,
                            !.changed = Signals(b), !.applied = "old"]
      /\ UNCHANGED <<netVars, bootstrap, imported, finalized, disk, requests, voter, commands,
                     faults>>
  BY Zenon DEF ImportOldBlock
<1>2. NetInv' /\ digest' = digest /\ Authored' = Authored  BY Zenon, <1>1, NetFrame
<1>3. auth \in SetType(digest) /\ b \in Hashes  BY Zenon DEF ClientInv, Hashes
<1>4. auth' \in SetType(digest) /\ auth'.standard = auth.standard
  BY Zenon, <1>1, <1>3, HistoryIs
<1>5. /\ op' \in OpType(digest)
      /\ op'.stage = "import" /\ op'.block = b /\ op'.old = auth /\ op'.applied = "old"
      /\ op'.changed = Signals(b)
  <2>1. Idle \in OpType(digest)  BY Zenon, GenesisType
  <2>2. Signals(b) \in BOOLEAN  BY Zenon DEF Signals
  <2> QED  BY Zenon, <1>1, <1>3, <2>1, <2>2 DEF OpType
<1>6. ClientInv'  BY Zenon, <1>1, <1>2, <1>4, <1>5 DEF ClientInv
<1>7. StartInv'  BY Zenon, <1>1, <1>2 DEF StartInv
<1>8. ~Locked /\ Same(disk.auth, auth)  BY Zenon, <1>1 DEF Locked, Idle, DiskInv
<1>9. DiskInv'  BY Zenon, <1>1, <1>5, <1>8 DEF DiskInv, Locked
<1>10. OpInv'
  <2>1. b \in Ancestors[finalized] /\ finalized \in Hashes /\ digest[b].delay = 0
    BY Zenon, <1>1 DEF Gap, GapInv, ClientInv, NetInv
  <2>2. Number[b] < Number[finalized]  BY Zenon, <2>1, AncestorsBelow
  <2>3. OldImport(b)'  BY Zenon, <1>1, <1>2, <1>4, <1>5, <2>1, <2>2 DEF OldImport
  <2> QED  BY Zenon, <1>5, <2>3 DEF OpInv
<1>11. NoChangeForgotten' /\ NoHoles' /\ GapInv'  BY Zenon, <1>1, <1>2, PendingFrame
<1> QED  BY Zenon, <1>2, <1>6, <1>7, <1>9, <1>10, <1>11 DEF GrandpaInv

(* A block is imported with its state. *)
LEMMA ImportStateInv ==
  ASSUME GrandpaInv, NEW b \in Blocks, ImportState(b)
  PROVE  GrandpaInv'
<1> /\ NetInv /\ ClientInv /\ StartInv /\ DiskInv /\ OpInv /\ NoHoles /\ GapInv
    /\ NoChangeForgotten
  BY Zenon DEF GrandpaInv
<1>1. /\ bootstrap = "state" /\ op = Idle /\ SessionsOnly(b)
      /\ imported' = {Genesis, b} /\ finalized' = b /\ bootstrap' = "read"
      /\ UNCHANGED <<netVars, auth, disk, op, requests, voter, commands, faults>>
  BY Zenon DEF ImportState
<1>2. NetInv' /\ digest' = digest /\ Authored' = Authored  BY Zenon, <1>1, NetFrame
<1>3. Authored = Hashes /\ requests = {}  BY Zenon, <1>1 DEF StartInv
<1>4. ClientInv'  BY Zenon, <1>1, <1>2, <1>3 DEF ClientInv, Hashes
<1>5. digest[b].delay = 0 /\ \A x \in Ancestors[b] \cap Blocks : digest[x].delay = 0
  BY Zenon, <1>1 DEF SessionsOnly
<1>6. StartInv'  BY Zenon, <1>1, <1>2, <1>3, <1>5 DEF StartInv
<1>7. DiskInv'  BY Zenon, <1>1 DEF DiskInv, Locked
<1>8. OpInv'  BY Zenon, <1>1 DEF OpInv, Idle
<1>9. Number[b] \in Nat  BY Zenon, NumberIs DEF Hashes
<1>10. NoHoles'  BY <1>1, <1>9, BlockTreeAssumption DEF NoHoles
<1>11. GapInv'  BY Zenon, <1>1, <1>2, <1>5 DEF GapInv, Gap
<1>12. NoChangeForgotten'
  <2>1. effective_number(digest', b) = Number[b]  BY <1>2, <1>5, <1>9 DEF effective_number
  <2>2. ~(effective_number(digest', b) > Number[finalized'])  BY <2>1, <1>1, <1>9
  <2>3. imported' \cap Blocks = {b}  BY Zenon, <1>1, BlockTreeAssumption
  <2> QED  BY Zenon, <2>2, <2>3 DEF NoChangeForgotten
<1> QED  BY Zenon, <1>2, <1>4, <1>6, <1>7, <1>8, <1>10, <1>11, <1>12 DEF GrandpaInv

(* A justification is taken up. *)
LEMMA ImportJustificationInv ==
  ASSUME GrandpaInv, NEW b \in Blocks, NEW j \in Carried(b), ImportJustification(b, j)
  PROVE  GrandpaInv'
<1> /\ NetInv /\ ClientInv /\ StartInv /\ DiskInv /\ OpInv /\ NoHoles /\ GapInv
    /\ NoChangeForgotten
  BY Zenon DEF GrandpaInv
<1>1. /\ op = Idle /\ b \in requests
      /\ op' = [Idle EXCEPT !.stage = "verify", !.block = b, !.just = j]
      /\ UNCHANGED <<netVars, bootstrap, imported, finalized, auth, disk, requests, voter,
                     commands, faults>>
  BY Zenon DEF ImportJustification
<1>2. NetInv' /\ digest' = digest /\ Authored' = Authored  BY Zenon, <1>1, NetFrame
<1>3. /\ op' \in OpType(digest) /\ op'.stage = "verify" /\ op'.block = b
  <2>1. Idle \in OpType(digest) /\ j \in JustType /\ b \in Hashes
    BY Zenon, GenesisType, CarriedType DEF Hashes
  <2> QED  BY Zenon, <1>1, <2>1 DEF OpType
<1>4. ClientInv'  BY Zenon, <1>1, <1>2, <1>3 DEF ClientInv
<1>5. StartInv'  BY Zenon, <1>1, <1>2 DEF StartInv
<1>6. DiskInv'  BY Zenon, <1>1, <1>3 DEF DiskInv, Locked, Idle
<1>7. OpInv'  BY Zenon, <1>1, <1>3 DEF OpInv, ClientInv
<1>8. NoChangeForgotten' /\ NoHoles' /\ GapInv'  BY Zenon, <1>1, <1>2, PendingFrame
<1> QED  BY Zenon, <1>2, <1>4, <1>5, <1>6, <1>7, <1>8 DEF GrandpaInv

-----------------------------------------------------------------------------
(* The import returns. *)

(* Above the finalized block, what is below an imported block is imported. *)
LEMMA HolesClosed ==
  ASSUME NetInv, ClientInv, NoHoles, NEW x \in imported, NEW y \in Ancestors[x],
         Number[y] > Number[finalized]
  PROVE  y \in imported
<1> DEFINE Full(h) == h \in imported =>
                        \A z \in Ancestors[h] : Number[z] > Number[finalized] => z \in imported
           S == {h \in Hashes : Full(h)}
<1>1. imported \subseteq Hashes /\ finalized \in Hashes  BY Zenon DEF NetInv, ClientInv
<1>2. Genesis \in S  BY Zenon, AncestorsIs DEF Hashes
<1>3. ASSUME NEW b \in Blocks, Parent[b] \in S PROVE b \in S
  <2>1. b \in Hashes  BY Zenon DEF Hashes
  <2> SUFFICES ASSUME b \in imported, NEW z \in Ancestors[b], Number[z] > Number[finalized]
               PROVE  z \in imported
    BY Zenon, <2>1
  <2>2. z \in Hashes /\ Number[z] < Number[b]  BY Zenon, <2>1, AncestorsBelow
  <2>3. Number[z] \in Nat /\ Number[b] \in Nat /\ Number[finalized] \in Nat
    BY Zenon, <2>1, <2>2, <1>1, NumberIs
  <2>4. Parent[b] \in imported  BY <2>2, <2>3 DEF NoHoles
  <2> QED  BY Zenon, <2>4, <1>3, AncestorsIs
<1> HIDE DEF S
<1>4. Hashes \subseteq S  BY Zenon, <1>2, <1>3, Induct
<1>5. Full(x)  BY Zenon, <1>4, <1>1 DEF S
<1> QED  BY Zenon, <1>5

(* What is written is the set. *)
LEMMA WrittenIs ==
  ASSUME ClientInv, NEW a \in SetType(digest), NEW handoff \in BOOLEAN
  PROVE  /\ Written(a, handoff) \in [auth : SetType(digest), paused : BOOLEAN]
         /\ Written(a, handoff).auth = a
<1>1. (disk.paused /\ ~handoff) \in BOOLEAN  BY Zenon DEF ClientInv
<1> QED  BY Zenon, <1>1 DEF Written

(* What the voter is told has its type. *)
LEMMA ChangeType ==
  ASSUME NEW d, NEW a \in SetType(d)
  PROVE  VoterOf(a) \in VoterType /\ ChangeAuthorities(a) \in Seq(VoterType)
<1>1. VoterOf(a) \in VoterType  BY Zenon DEF VoterOf, VoterType, SetType
<1>2. [VoterOf(a) EXCEPT !.paused = FALSE] \in VoterType  BY Zenon, <1>1 DEF VoterType
<1>3. <<[VoterOf(a) EXCEPT !.paused = FALSE]>> \in Seq(VoterType)  BY ONLY <1>2
<1> QED  BY Zenon, <1>1, <1>3 DEF ChangeAuthorities

(* The block is in the database: its change is written with it, and a forced change      *)
(* that empties the tree is not above any imported block.                                *)
LEMMA BlockImportedInv ==
  ASSUME GrandpaInv, BlockImported
  PROVE  GrandpaInv'
<1> /\ NetInv /\ ClientInv /\ StartInv /\ DiskInv /\ OpInv /\ NoHoles /\ GapInv
    /\ NoChangeForgotten
  BY Zenon DEF GrandpaInv
<1>0. PICK b : b = op.block  BY Zenon
<1>1. /\ op.stage = "import" /\ op.applied # "old" /\ Number[b] > Number[finalized]
      /\ imported' = imported \cup {b}
      /\ disk' = IF op.changed THEN Written(auth, op.applied = "forced") ELSE disk
      /\ commands' = commands \o (IF op.pause THEN PauseCommand ELSE << >>)
                              \o (IF op.applied = "forced" THEN ChangeAuthorities(auth) ELSE << >>)
      /\ requests' \subseteq requests \cup {b}
      /\ op' \in {[op EXCEPT !.stage = "verify", !.old = genesis, !.changed = FALSE], Idle}
      /\ UNCHANGED <<netVars, bootstrap, finalized, auth, voter, faults>>
  BY Zenon, <1>0 DEF BlockImported
<1>2. NetInv' /\ digest' = digest /\ Authored' = Authored  BY Zenon, <1>1, NetFrame
<1>3. b \in Blocks /\ NewImport(b)  BY Zenon, <1>0, <1>1 DEF OpInv
<1>4. bootstrap \in {"full", "gap"} /\ Authored = Hashes
  BY <1>1 DEF StartInv, Idle
<1>5. op \in OpType(digest) /\ auth \in SetType(digest)  BY Zenon DEF ClientInv
<1>6. /\ op' \in OpType(digest) /\ op'.stage \in {"verify", "idle"} /\ (op'.stage = "verify" => op'.block = b)
  <2>1. genesis \in SetType(digest) /\ Idle \in OpType(digest)  BY Zenon, GenesisType
  <2>2. CASE op' = Idle  BY Zenon, <2>1, <2>2 DEF Idle
  <2>3. CASE op' = [op EXCEPT !.stage = "verify", !.old = genesis, !.changed = FALSE]
    BY Zenon, <2>1, <2>3, <1>5, <1>0 DEF OpType
  <2> QED  BY Zenon, <2>2, <2>3, <1>1
<1>7. disk' \in [auth : SetType(digest), paused : BOOLEAN] /\ (op.changed => disk'.auth = auth)
  <2>1. (op.applied = "forced") \in BOOLEAN  BY Zenon
  <2>2. CASE op.changed
    BY Zenon, <1>1, <1>5, <2>1, <2>2, WrittenIs
  <2>3. CASE ~op.changed  BY Zenon, <1>1, <2>3 DEF ClientInv
  <2> QED  BY Zenon, <2>2, <2>3
<1>8. commands' \in Seq(VoterType)
  <2>1. PauseCommand \in Seq(VoterType)  BY DEF PauseCommand, VoterType, Hashes
  <2>3. ChangeAuthorities(auth) \in Seq(VoterType)  BY Zenon, <1>5, ChangeType
  <2>4. PICK p, q \in Seq(VoterType) : commands' = commands \o p \o q
    <3>1. << >> \in Seq(VoterType)  OBVIOUS
    <3> QED  BY Zenon, <3>1, <2>1, <2>3, <1>1
  <2>5. commands \in Seq(VoterType)  BY Zenon DEF ClientInv
  <2>6. commands \o p \in Seq(VoterType)  BY ONLY <2>5, p \in Seq(VoterType)
  <2>7. (commands \o p) \o q \in Seq(VoterType)  BY ONLY <2>6, q \in Seq(VoterType)
  <2> QED  BY Zenon, <2>4, <2>7
<1>9. ClientInv'
  BY Zenon, <1>1, <1>2, <1>3, <1>4, <1>5, <1>6, <1>7, <1>8 DEF ClientInv, Hashes
<1>10. StartInv'  BY Zenon, <1>1, <1>2, <1>4 DEF StartInv
<1>11. ~Locked' /\ (Locked <=> op.changed)  BY Zenon, <1>1, <1>6 DEF Locked
<1>12. DiskInv'
  <2>1. CASE op.changed  BY Zenon, <2>1, <1>7, <1>1, <1>11 DEF DiskInv, Same
  <2>2. CASE ~op.changed  BY Zenon, <2>2, <1>1, <1>11 DEF DiskInv
  <2> QED  BY Zenon, <2>1, <2>2
<1>13. OpInv'  BY Zenon, <1>1, <1>6 DEF OpInv
<1>14. NoHoles'  BY Zenon, <1>1, <1>3 DEF NoHoles, NewImport
<1>15. GapInv'  BY Zenon, <1>1, <1>2 DEF GapInv, Gap
<1>16. NoChangeForgotten'
  <2> SUFFICES ASSUME NEW x \in imported' \cap Blocks, digest[x].kind = "standard",
                      Comparable(finalized, x), effective_number(digest, x) > Number[finalized],
                      \A t \in imported' \cap Blocks : ForcedEnacted(t) => is_descendent_of(t, x)
               PROVE  x \in disk'.auth.standard.nodes
    BY Zenon, <1>1, <1>2 DEF NoChangeForgotten, ForcedEnacted
  <2>1. x \in Hashes /\ b \in Hashes  BY Zenon, <1>3 DEF Hashes
  <2>2. op.applied # "forced"
    <3> SUFFICES ASSUME op.applied = "forced" PROVE FALSE  BY Zenon
    <3>1. is_descendent_of(b, x)  BY Zenon, <1>1, <1>3 DEF NewImport
    <3>2. x # b  BY <3>1, <2>1, AncestorsBelow, NumberIs DEF is_descendent_of
    <3>3. b \in imported  BY Zenon, <1>1, <3>1, <3>2, HolesClosed DEF is_descendent_of
    <3> QED  BY Zenon, <3>3, <1>3 DEF NewImport
  <2>3. CASE x = b
    <3>1. op.changed  BY Zenon, <2>3, <1>3 DEF NewImport
    <3>2. b \in auth.standard.nodes  BY Zenon, <3>1, <2>2, <2>3, <1>3 DEF NewImport
    <3> QED  BY Zenon, <3>1, <3>2, <2>3, <1>7
  <2>4. CASE x # b
    <3>1. x \in disk.auth.standard.nodes  BY Zenon, <2>4, <1>1 DEF NoChangeForgotten
    <3>2. CASE op.changed
      <4>1. disk.auth.standard.nodes \subseteq auth.standard.nodes
        BY Zenon, <3>2, <2>2, <1>3, <1>11 DEF DiskInv, Same, NewImport
      <4> QED  BY Zenon, <4>1, <3>1, <3>2, <1>7
    <3>3. CASE ~op.changed  BY Zenon, <3>1, <3>3, <1>1
    <3> QED  BY Zenon, <3>2, <3>3
  <2> QED  BY Zenon, <2>3, <2>4
<1> QED  BY Zenon, <1>2, <1>9, <1>10, <1>12, <1>13, <1>14, <1>15, <1>16 DEF GrandpaInv

(* A block of the gap is in the database: its change is of the past. *)
LEMMA OldBlockImportedInv ==
  ASSUME GrandpaInv, OldBlockImported
  PROVE  GrandpaInv'
<1> /\ NetInv /\ ClientInv /\ StartInv /\ DiskInv /\ OpInv /\ NoHoles /\ GapInv
    /\ NoChangeForgotten
  BY Zenon DEF GrandpaInv
<1>0. PICK b : b = op.block  BY Zenon
<1>1. /\ op.stage = "import" /\ op.applied = "old"
      /\ imported' = imported \cup {b}
      /\ disk' = IF op.changed THEN Written(auth, FALSE) ELSE disk
      /\ op' = Idle
      /\ UNCHANGED <<netVars, bootstrap, finalized, auth, requests, voter, commands, faults>>
  BY Zenon, <1>0 DEF OldBlockImported
<1>2. NetInv' /\ digest' = digest /\ Authored' = Authored  BY Zenon, <1>1, NetFrame
<1>3. b \in Blocks /\ OldImport(b)  BY Zenon, <1>0, <1>1 DEF OpInv
<1>4. bootstrap \in {"full", "gap"} /\ Authored = Hashes  BY <1>1 DEF StartInv, Idle
<1>5. auth \in SetType(digest) /\ finalized \in Hashes /\ b \in Hashes
  BY Zenon, <1>3 DEF ClientInv, NetInv, Hashes
<1>6. op' \in OpType(digest) /\ op'.stage = "idle"  BY Zenon, <1>1, GenesisType DEF Idle
<1>7. /\ disk' \in [auth : SetType(digest), paused : BOOLEAN]
      /\ op.changed => disk'.auth = auth
      /\ ~op.changed => disk' = disk
  BY Zenon, <1>1, <1>5, WrittenIs DEF ClientInv
<1>8. ClientInv'  BY Zenon, <1>1, <1>2, <1>4, <1>5, <1>6, <1>7 DEF ClientInv
<1>9. StartInv'  BY Zenon, <1>1, <1>2, <1>4 DEF StartInv
<1>10. ~Locked' /\ (Locked <=> op.changed)  BY Zenon, <1>1, <1>6 DEF Locked
<1>11. DiskInv'
  <2>1. CASE op.changed  BY Zenon, <2>1, <1>7, <1>1, <1>10 DEF DiskInv, Same
  <2>2. CASE ~op.changed  BY Zenon, <2>2, <1>7, <1>1, <1>10 DEF DiskInv
  <2> QED  BY Zenon, <2>1, <2>2
<1>12. OpInv'  BY Zenon, <1>6 DEF OpInv
<1>13. Number[b] < Number[finalized] /\ Number[b] \in Nat /\ Number[finalized] \in Nat
  BY Zenon, <1>3, <1>5, NumberIs DEF OldImport
<1>14. NoHoles'  BY <1>1, <1>13 DEF NoHoles
<1>15. GapInv'  BY Zenon, <1>1, <1>2 DEF GapInv, Gap
<1>16. disk'.auth.standard.nodes = disk.auth.standard.nodes
  BY Zenon, <1>3, <1>7, <1>10 DEF DiskInv, Same, OldImport
<1>17. NoChangeForgotten'
  <2> SUFFICES ASSUME NEW x \in imported' \cap Blocks, digest[x].kind = "standard",
                      Comparable(finalized, x), effective_number(digest, x) > Number[finalized],
                      \A t \in imported' \cap Blocks : ForcedEnacted(t) => is_descendent_of(t, x)
               PROVE  x \in disk.auth.standard.nodes
    BY Zenon, <1>1, <1>2, <1>16 DEF NoChangeForgotten, ForcedEnacted
  <2>1. effective_number(digest, b) = Number[b]
    BY <1>3, <1>13 DEF OldImport, effective_number
  <2>2. x # b  BY <2>1, <1>13
  <2> QED  BY Zenon, <2>2, <1>1 DEF NoChangeForgotten
<1> QED  BY Zenon, <1>2, <1>8, <1>9, <1>11, <1>12, <1>14, <1>15, <1>17 DEF GrandpaInv

(* PendingSetChanges dropped: the set is the one it was before the import. *)
LEMMA RevertedInv ==
  ASSUME GrandpaInv, op.stage = "import", Reverted, faults' \in 0..MaxFaults,
         UNCHANGED <<netVars, bootstrap, imported, finalized, disk, requests, voter, commands>>
  PROVE  GrandpaInv'
<1> /\ NetInv /\ ClientInv /\ StartInv /\ DiskInv /\ OpInv /\ NoHoles /\ GapInv
    /\ NoChangeForgotten
  BY Zenon DEF GrandpaInv
<1>1. auth' = (IF op.changed THEN op.old ELSE auth) /\ op' = Idle  BY Zenon DEF Reverted
<1>2. NetInv' /\ digest' = digest /\ Authored' = Authored  BY Zenon, NetFrame
<1>3. op' \in OpType(digest) /\ op'.stage = "idle"  BY Zenon, <1>1, GenesisType DEF Idle
<1>4. auth' \in SetType(digest)  BY Zenon, <1>1 DEF ClientInv, OpType
<1>5. ClientInv'  BY Zenon, <1>2, <1>3, <1>4 DEF ClientInv
<1>6. StartInv'
  <2>1. bootstrap \in {"full", "gap"}  BY DEF StartInv, Idle
  <2> QED  BY Zenon, <2>1, <1>2 DEF StartInv
<1>7. ~Locked' /\ (Locked <=> op.changed)  BY Zenon, <1>3 DEF Locked
<1>8. DiskInv'  BY Zenon, <1>1, <1>7 DEF DiskInv
<1>9. OpInv'  BY Zenon, <1>3 DEF OpInv
<1>10. NoChangeForgotten' /\ NoHoles' /\ GapInv'  BY Zenon, <1>2, PendingFrame
<1> QED  BY Zenon, <1>2, <1>5, <1>6, <1>8, <1>9, <1>10 DEF GrandpaInv

-----------------------------------------------------------------------------
(* Finalizing, restarting, and what leaves the set alone. *)

(* finalize_block, whoever calls it. *)
LEMMA FinalityInv ==
  ASSUME GrandpaInv, NEW b \in imported, ~Locked, CanFinalizeBlock(b), FinalizeBlock(b),
         UNCHANGED <<netVars, bootstrap, imported>>
  PROVE  /\ NetInv' /\ digest' = digest /\ Authored' = Authored
         /\ auth' \in SetType(digest) /\ disk' \in [auth : SetType(digest), paused : BOOLEAN]
         /\ finalized' \in imported /\ Number[finalized] < Number[finalized']
         /\ bootstrap \in {"full", "gap"}
         /\ Same(disk'.auth, auth')
         /\ NoHoles' /\ GapInv' /\ NoChangeForgotten'
<1> /\ NetInv /\ ClientInv /\ StartInv /\ DiskInv /\ OpInv /\ NoHoles /\ GapInv
    /\ NoChangeForgotten
  BY Zenon DEF GrandpaInv
<1>1. NetInv' /\ digest' = digest /\ Authored' = Authored  BY Zenon, NetFrame
<1>2. PICK a : a = AfterFinality(b)  BY Zenon
<1>3. /\ finalized' = b /\ auth' = a /\ is_descendent_of(finalized, b)
      /\ disk' = IF StandardChanged(auth, a) THEN Written(a, NewSet(b)) ELSE disk
  BY Zenon, <1>2 DEF FinalizeBlock, CanFinalizeBlock
<1>4. /\ digest \in DigestType /\ auth \in SetType(digest) /\ b \in Hashes /\ finalized \in Hashes
      /\ imported \subseteq Hashes
  BY Zenon DEF ClientInv, NetInv
<1>5. /\ a \in SetType(digest)
      /\ ~StandardChanged(auth, a) => Same(auth, a)
      /\ \A n \in auth.standard.nodes :
            Comparable(b, n) /\ effective_number(digest, n) > Number[b] => n \in a.standard.nodes
  BY Zenon, <1>2, <1>4, StandardIs DEF AfterFinality
<1>6. /\ disk' \in [auth : SetType(digest), paused : BOOLEAN]
      /\ StandardChanged(auth, a) => disk'.auth = a
      /\ ~StandardChanged(auth, a) => disk' = disk
  <2>1. NewSet(b) \in BOOLEAN  BY Zenon DEF NewSet
  <2> QED  BY Zenon, <2>1, <1>3, <1>5, WrittenIs DEF ClientInv
<1>7. Number[finalized] < Number[b] /\ Number[b] \in Nat /\ Number[finalized] \in Nat
  BY Zenon, <1>3, <1>4, AncestorsBelow, NumberIs DEF is_descendent_of
<1>8. bootstrap \in {"full", "gap"}
  <2>1. b # Genesis  BY Zenon, <1>3, AncestorsIs DEF is_descendent_of
  <2>2. b # finalized  BY <1>7
  <2> QED  BY <2>1, <2>2 DEF StartInv
<1>9. Same(disk.auth, auth)  BY Zenon DEF DiskInv
<1>10. Same(disk'.auth, auth')  BY Zenon, <1>3, <1>5, <1>6, <1>9 DEF Same
<1>11. NoHoles'
  <2> SUFFICES ASSUME NEW x \in imported \cap Blocks
               PROVE  Number[x] <= Number[b] \/ Parent[x] \in imported
    BY Zenon, <1>3 DEF NoHoles
  <2>1. Number[x] \in Nat  BY Zenon, <1>4, NumberIs
  <2> QED  BY <2>1, <1>7 DEF NoHoles
<1>12. GapInv'
  <2> SUFFICES ASSUME bootstrap = "gap", NEW x \in Ancestors[b] \cap Blocks, x \notin imported
               PROVE  digest[x].delay = 0
    BY Zenon, <1>1, <1>3, <1>8 DEF GapInv, Gap
  <2>1. x \in Hashes /\ Number[x] \in Nat  BY Zenon, NumberIs DEF Hashes
  <2>2. ~(Number[x] > Number[finalized])  BY Zenon, HolesClosed
  <2>3. x # finalized  BY Zenon DEF ClientInv
  <2>4. x = finalized \/ x \in Ancestors[finalized] \/ finalized \in Ancestors[x]
    BY Zenon, <1>3, <1>4, AncestorsLinear DEF is_descendent_of
  <2>5. finalized \notin Ancestors[x]  BY Zenon, <2>1, <2>2, <1>7, AncestorsBelow
  <2>6. x \in Gap  BY Zenon, <2>3, <2>4, <2>5 DEF Gap
  <2> QED  BY Zenon, <2>6 DEF GapInv
<1>13. NoChangeForgotten'
  <2> SUFFICES ASSUME NEW x \in imported \cap Blocks, digest[x].kind = "standard",
                      Comparable(b, x), effective_number(digest, x) > Number[b],
                      \A t \in imported \cap Blocks : ForcedEnacted(t) => is_descendent_of(t, x)
               PROVE  x \in disk'.auth.standard.nodes
    BY Zenon, <1>1, <1>3 DEF NoChangeForgotten, ForcedEnacted
  <2>1. x \in Hashes /\ digest[x].delay \in Nat  BY Zenon, <1>4 DEF Hashes, DigestType
  <2>2. effective_number(digest, x) \in Nat  BY <2>1, NumberIs DEF effective_number
  <2>3. EqualOrDescendent(finalized, b)  BY Zenon, <1>3 DEF EqualOrDescendent
  <2>4. Comparable(finalized, x)
    <3>1. CASE EqualOrDescendent(b, x)
      BY Zenon, <3>1, <2>1, <2>3, <1>4, OrderFacts DEF Comparable
    <3>2. CASE EqualOrDescendent(x, b)
      BY Zenon, <3>2, <2>1, <2>3, <1>4, OrderFacts
    <3> QED  BY Zenon, <3>1, <3>2 DEF Comparable
  <2>5. effective_number(digest, x) > Number[finalized]  BY <2>2, <1>7
  <2>6. x \in disk.auth.standard.nodes  BY Zenon, <2>4, <2>5 DEF NoChangeForgotten
  <2>7. x \in auth.standard.nodes  BY Zenon, <2>6, <1>9 DEF Same
  <2>8. x \in a.standard.nodes  BY Zenon, <2>7, <1>5
  <2> QED  BY Zenon, <2>6, <2>8, <1>6
<1> QED  BY Zenon, <1>1, <1>3, <1>5, <1>6, <1>7, <1>8, <1>10, <1>11, <1>12, <1>13

(* A justification finalizes its block. *)
LEMMA FinalizeJustifiedInv ==
  ASSUME GrandpaInv, FinalizeJustified
  PROVE  GrandpaInv'
<1> /\ NetInv /\ ClientInv /\ StartInv /\ DiskInv /\ OpInv /\ NoHoles /\ GapInv
    /\ NoChangeForgotten
  BY Zenon DEF GrandpaInv
<1>0. PICK b : b = op.block  BY Zenon
<1>1. /\ op.stage = "finalize" /\ CanFinalizeBlock(b) /\ FinalizeBlock(b)
      /\ commands' = IF NewSet(b) THEN commands \o ChangeAuthorities(auth') ELSE commands
      /\ requests' = requests \ {b} /\ op' = Idle
      /\ UNCHANGED <<netVars, bootstrap, imported, voter, faults>>
  BY Zenon, <1>0 DEF FinalizeJustified
<1>2. b \in imported /\ ~Locked  BY Zenon, <1>0, <1>1 DEF OpInv, Locked
<1>3. /\ NetInv' /\ digest' = digest /\ Authored' = Authored
      /\ auth' \in SetType(digest) /\ disk' \in [auth : SetType(digest), paused : BOOLEAN]
      /\ finalized' \in imported /\ bootstrap \in {"full", "gap"}
      /\ Same(disk'.auth, auth')
      /\ NoHoles' /\ GapInv' /\ NoChangeForgotten'
  BY Zenon, <1>1, <1>2, FinalityInv
<1>4. op' \in OpType(digest) /\ op'.stage = "idle"  BY Zenon, <1>1, GenesisType DEF Idle
<1>5. commands' \in Seq(VoterType)
  <2>1. commands \in Seq(VoterType)  BY Zenon DEF ClientInv
  <2>2. ChangeAuthorities(auth') \in Seq(VoterType)  BY Zenon, <1>3, ChangeType
  <2>3. commands \o ChangeAuthorities(auth') \in Seq(VoterType)  BY ONLY <2>1, <2>2
  <2> QED  BY Zenon, <1>1, <2>1, <2>3
<1>6. ClientInv'  BY Zenon, <1>1, <1>3, <1>4, <1>5 DEF ClientInv
<1>7. StartInv'  BY Zenon, <1>1, <1>3 DEF StartInv
<1>8. DiskInv'  BY Zenon, <1>3, <1>4 DEF DiskInv, Locked
<1>9. OpInv'  BY Zenon, <1>4 DEF OpInv
<1> QED  BY Zenon, <1>3, <1>6, <1>7, <1>8, <1>9 DEF GrandpaInv

(* The voter finalizes a block, possibly while one is imported that changes nothing. *)
LEMMA VoterFinalizeInv ==
  ASSUME GrandpaInv, NEW j \in justs, VoterFinalize(j)
  PROVE  GrandpaInv'
<1> /\ NetInv /\ ClientInv /\ StartInv /\ DiskInv /\ OpInv /\ NoHoles /\ GapInv
    /\ NoChangeForgotten
  BY Zenon DEF GrandpaInv
<1>0. PICK b : b = j.block  BY Zenon
<1>1. /\ ~Locked /\ b \in imported /\ CanFinalizeBlock(b) /\ FinalizeBlock(b)
      /\ voter' = IF NewSet(b) THEN VoterOf(auth') ELSE voter
      /\ requests' = requests \ {b}
      /\ UNCHANGED <<netVars, bootstrap, imported, op, commands, faults>>
  BY Zenon, <1>0 DEF VoterFinalize
<1>2. /\ NetInv' /\ digest' = digest /\ Authored' = Authored
      /\ auth' \in SetType(digest) /\ disk' \in [auth : SetType(digest), paused : BOOLEAN]
      /\ finalized' \in imported /\ Number[finalized] < Number[finalized']
      /\ bootstrap \in {"full", "gap"}
      /\ Same(disk'.auth, auth')
      /\ NoHoles' /\ GapInv' /\ NoChangeForgotten'
  BY Zenon, <1>1, FinalityInv
<1>3. voter' \in VoterType  BY Zenon, <1>1, <1>2, ChangeType DEF ClientInv
<1>4. ClientInv'  BY Zenon, <1>1, <1>2, <1>3 DEF ClientInv
<1>5. StartInv'  BY Zenon, <1>1, <1>2 DEF StartInv
<1>6. DiskInv'  BY Zenon, <1>1, <1>2 DEF DiskInv, Locked
<1>7. OpInv'
  <2>1. CASE op.stage = "import"
    <3>1. op.block \in Blocks /\ op.block \in Hashes /\ ~op.changed
      BY Zenon, <2>1, <1>1 DEF OpInv, Locked, Hashes
    <3>2. CASE op.applied # "old"
      <4>1. NewImport(op.block)  BY Zenon, <2>1, <3>2 DEF OpInv
      <4>2. NewImport(op.block)'
        BY Zenon, <4>1, <3>1, <1>1, <1>2 DEF NewImport
      <4> QED  BY Zenon, <4>2, <2>1, <3>1, <3>2, <1>1 DEF OpInv
    <3>3. CASE op.applied = "old"
      <4>1. OldImport(op.block)  BY Zenon, <2>1, <3>3 DEF OpInv
      <4>2. /\ Number[op.block] \in Nat /\ Number[finalized] \in Nat /\ Number[finalized'] \in Nat
        BY Zenon, <3>1, <1>2, NumberIs DEF ClientInv, NetInv
      <4>3. Number[op.block] < Number[finalized]  BY Zenon, <4>1 DEF OldImport
      <4>4. Number[op.block] < Number[finalized']  BY ONLY <4>2, <4>3, <1>2
      <4>5. OldImport(op.block)'
        BY Zenon, <4>1, <4>4, <3>1, <1>1, <1>2 DEF OldImport
      <4> QED  BY Zenon, <4>5, <2>1, <3>1, <3>3, <1>1 DEF OpInv
    <3> QED  BY Zenon, <3>2, <3>3
  <2>2. CASE op.stage # "import"  BY Zenon, <2>2, <1>1 DEF OpInv
  <2> QED  BY Zenon, <2>1, <2>2
<1> QED  BY Zenon, <1>2, <1>4, <1>5, <1>6, <1>7 DEF GrandpaInv

(* Steps of the import queue that leave the set and the blocks alone. *)
LEMMA QueueInv ==
  ASSUME GrandpaInv, op.stage \in {"verify", "finalize"}, requests' \subseteq requests \cup {op.block},
         op' \in {Idle, [op EXCEPT !.stage = "finalize"]},
         UNCHANGED <<netVars, bootstrap, imported, finalized, auth, disk, voter, commands, faults>>
  PROVE  GrandpaInv'
<1> /\ NetInv /\ ClientInv /\ StartInv /\ DiskInv /\ OpInv /\ NoHoles /\ GapInv
    /\ NoChangeForgotten
  BY Zenon DEF GrandpaInv
<1>1. NetInv' /\ digest' = digest /\ Authored' = Authored  BY Zenon, NetFrame
<1>2. op \in OpType(digest) /\ op.block \in imported  BY Zenon DEF ClientInv, OpInv
<1>3. /\ op' \in OpType(digest) /\ op'.stage \in {"idle", "finalize"}
      /\ op'.stage = "finalize" => op'.block \in imported
  <2>1. CASE op' = Idle  BY Zenon, <2>1, GenesisType DEF Idle
  <2>2. CASE op' = [op EXCEPT !.stage = "finalize"]  BY Zenon, <2>2, <1>2 DEF OpType
  <2> QED  BY Zenon, <2>1, <2>2
<1>4. ClientInv'  BY Zenon, <1>1, <1>2, <1>3 DEF ClientInv
<1>5. StartInv'
  <2>1. bootstrap \in {"full", "gap"}  BY DEF StartInv, Idle
  <2> QED  BY Zenon, <2>1, <1>1 DEF StartInv
<1>6. DiskInv'  BY Zenon, <1>3 DEF DiskInv, Locked
<1>7. OpInv'  BY Zenon, <1>3 DEF OpInv
<1>8. NoChangeForgotten' /\ NoHoles' /\ GapInv'  BY Zenon, <1>1, PendingFrame
<1> QED  BY Zenon, <1>1, <1>4, <1>5, <1>6, <1>7, <1>8 DEF GrandpaInv

(* The voter reads a command. *)
LEMMA CommandInv ==
  ASSUME GrandpaInv, handle_voter_command
  PROVE  GrandpaInv'
<1> /\ NetInv /\ ClientInv /\ StartInv /\ DiskInv /\ OpInv /\ NoHoles /\ GapInv
    /\ NoChangeForgotten
  BY Zenon DEF GrandpaInv
<1>1. /\ commands # << >> /\ commands' = Tail(commands)
      /\ voter' = IF Head(commands).paused THEN [voter EXCEPT !.paused = TRUE] ELSE Head(commands)
      /\ disk' = [disk EXCEPT !.paused = Head(commands).paused]
      /\ UNCHANGED <<netVars, bootstrap, imported, finalized, auth, op, requests, faults>>
  BY Zenon DEF handle_voter_command
<1>2. NetInv' /\ digest' = digest /\ Authored' = Authored  BY Zenon, <1>1, NetFrame
<1>3. commands \in Seq(VoterType)  BY Zenon DEF ClientInv
<1>4. Head(commands) \in VoterType /\ Tail(commands) \in Seq(VoterType)  BY <1>1, <1>3
<1>5. voter' \in VoterType  BY Zenon, <1>1, <1>4 DEF ClientInv, VoterType
<1>6. disk' \in [auth : SetType(digest), paused : BOOLEAN] /\ disk'.auth = disk.auth
  BY Zenon, <1>1, <1>4 DEF ClientInv, VoterType
<1>7. ClientInv'  BY Zenon, <1>1, <1>2, <1>4, <1>5, <1>6 DEF ClientInv
<1>8. StartInv'  BY Zenon, <1>1, <1>2, <1>6 DEF StartInv
<1>9. DiskInv'  BY Zenon, <1>1, <1>6 DEF DiskInv, Locked
<1>10. OpInv'
  <2>1. NewImport(op.block) => NewImport(op.block)'
    BY Zenon, <1>1, <1>2 DEF NewImport, ForcedEnacted
  <2>2. OldImport(op.block) => OldImport(op.block)'  BY Zenon, <1>1, <1>2 DEF OldImport
  <2> QED  BY Zenon, <1>1, <2>1, <2>2 DEF OpInv
<1>11. NoChangeForgotten' /\ NoHoles' /\ GapInv'  BY Zenon, <1>1, <1>2, <1>6, PendingFrame
<1> QED  BY Zenon, <1>2, <1>7, <1>8, <1>9, <1>10, <1>11 DEF GrandpaInv

(* The process starts from what is on disk. *)
LEMMA StartedInv ==
  ASSUME GrandpaInv, bootstrap \notin {"off", "read"}, NEW best, Started(best),
         faults' \in 0..MaxFaults,
         UNCHANGED <<netVars, bootstrap, imported, finalized, disk>>
  PROVE  GrandpaInv'
<1> /\ NetInv /\ ClientInv /\ StartInv /\ DiskInv /\ OpInv /\ NoHoles /\ GapInv
    /\ NoChangeForgotten
  BY Zenon DEF GrandpaInv
<1>1. /\ auth' = disk.auth /\ op' = Idle /\ commands' = << >>
      /\ requests' = on_start(disk.auth, best)
      /\ voter' = [VoterOf(disk.auth) EXCEPT !.paused = disk.paused]
  BY Zenon DEF Started
<1>2. NetInv' /\ digest' = digest /\ Authored' = Authored  BY Zenon, NetFrame
<1>3. op' \in OpType(digest) /\ op'.stage = "idle"  BY Zenon, <1>1, GenesisType DEF Idle
<1>4. auth' \in SetType(digest) /\ disk.paused \in BOOLEAN  BY Zenon, <1>1 DEF ClientInv
<1>5. VoterOf(disk.auth) \in VoterType  BY Zenon, <1>1, <1>4, ChangeType
<1>6. voter' \in VoterType  BY Zenon, <1>1, <1>4, <1>5 DEF VoterType
<1>7. requests' \subseteq imported /\ \A x \in requests' : Number[finalized] < Number[x]
  BY Zenon, <1>1 DEF on_start
<1>8. << >> \in Seq(VoterType)  OBVIOUS
<1>9. ClientInv'  BY Zenon, <1>1, <1>2, <1>3, <1>4, <1>6, <1>7, <1>8 DEF ClientInv
<1>10. StartInv'
  <2>1. bootstrap = "state" => requests' = {}
    BY <1>7, NumberIs DEF StartInv
  <2> QED  BY Zenon, <2>1, <1>1, <1>2 DEF StartInv
<1>11. DiskInv'  BY Zenon, <1>1, <1>3 DEF DiskInv, Locked, Same
<1>12. OpInv'  BY Zenon, <1>3 DEF OpInv
<1>13. NoChangeForgotten' /\ NoHoles' /\ GapInv'  BY Zenon, <1>2, PendingFrame
<1> QED  BY Zenon, <1>2, <1>9, <1>10, <1>11, <1>12, <1>13 DEF GrandpaInv

(* The set of an imported state: no change can be pending for the block it came with. *)
LEMMA ReadStateInv ==
  ASSUME GrandpaInv, ReadState
  PROVE  GrandpaInv'
<1> /\ NetInv /\ ClientInv /\ StartInv /\ DiskInv /\ OpInv /\ NoHoles /\ GapInv
    /\ NoChangeForgotten
  BY Zenon DEF GrandpaInv
<1>0. PICK r : r = runtime[finalized]  BY Zenon
<1>1. PICK read : read = [genesis EXCEPT !.authorities = r.authorities, !.set_id = r.set_id]
  BY Zenon
<1>2. /\ bootstrap = "read" /\ bootstrap' = "gap" /\ auth' = read
      /\ disk' = [disk EXCEPT !.auth = read]
      /\ commands' = commands \o ChangeAuthorities(read)
      /\ UNCHANGED <<netVars, imported, finalized, op, requests, voter, faults>>
  BY Zenon, <1>0, <1>1 DEF ReadState
<1>3. NetInv' /\ digest' = digest /\ Authored' = Authored  BY Zenon, <1>2, NetFrame
<1>4. r \in RuntimeType  BY Zenon, <1>0 DEF NetInv, ClientInv
<1>5. read \in SetType(digest)
  BY Zenon, <1>1, <1>4, GenesisType DEF RuntimeType, SetType
<1>6. disk' \in [auth : SetType(digest), paused : BOOLEAN] /\ disk'.auth = read
  BY Zenon, <1>2, <1>5 DEF ClientInv
<1>7. commands' \in Seq(VoterType)
  <2>1. commands \in Seq(VoterType)  BY Zenon DEF ClientInv
  <2>2. ChangeAuthorities(read) \in Seq(VoterType)  BY Zenon, <1>5, ChangeType
  <2>3. commands \o ChangeAuthorities(read) \in Seq(VoterType)  BY ONLY <2>1, <2>2
  <2> QED  BY Zenon, <1>2, <2>3
<1>8. ClientInv'  BY Zenon, <1>2, <1>3, <1>5, <1>6, <1>7 DEF ClientInv
<1>9. StartInv'  BY Zenon, <1>2, <1>3 DEF StartInv
<1>10. op = Idle /\ imported = {Genesis, finalized} /\ finalized \in Blocks
       /\ digest[finalized].delay = 0
  BY Zenon, <1>2 DEF StartInv
<1>11. op'.stage = "idle"  BY Zenon, <1>2, <1>10 DEF Idle
<1>12. DiskInv'  BY Zenon, <1>2, <1>6, <1>11 DEF DiskInv, Locked, Same
<1>13. OpInv'  BY Zenon, <1>11 DEF OpInv
<1>14. NoHoles' /\ GapInv'  BY Zenon, <1>2, <1>3 DEF NoHoles, GapInv, Gap
<1>15. NoChangeForgotten'
  <2>1. Number[finalized] \in Nat  BY Zenon, <1>10, NumberIs DEF Hashes
  <2>2. ~(effective_number(digest, finalized) > Number[finalized])
    BY <2>1, <1>10 DEF effective_number
  <2>3. imported \cap Blocks = {finalized}  BY Zenon, <1>10, BlockTreeAssumption
  <2> QED  BY Zenon, <1>2, <1>3, <2>2, <2>3 DEF NoChangeForgotten
<1> QED  BY Zenon, <1>3, <1>8, <1>9, <1>12, <1>13, <1>14, <1>15 DEF GrandpaInv

-----------------------------------------------------------------------------
(* Every step, and what follows. *)

(* The import queue. *)
LEMMA ProceedInv == GrandpaInv /\ Proceed => GrandpaInv'
<1> SUFFICES ASSUME GrandpaInv, Proceed PROVE GrandpaInv'  BY Zenon
<1>0. faults \in 0..MaxFaults  BY Zenon DEF GrandpaInv, ClientInv
<1>1. CASE BlockImported  BY Zenon, <1>1, BlockImportedInv
<1>2. CASE ImportRefused  BY Zenon, <1>0, <1>2, RevertedInv DEF ImportRefused
<1>3. CASE OldBlockImported  BY Zenon, <1>3, OldBlockImportedInv
<1>4. CASE VerifyJustification  BY Zenon, <1>4, QueueInv DEF VerifyJustification
<1>5. CASE JustificationFailed
  <2>1. /\ op.stage \in {"verify", "finalize"} /\ op' = Idle
        /\ requests' \subseteq requests \cup {op.block}
        /\ UNCHANGED <<netVars, bootstrap, imported, finalized, auth, disk, voter, commands, faults>>
    BY Zenon, <1>5 DEF JustificationFailed
  <2> QED  BY Zenon, <2>1, QueueInv
<1>6. CASE FinalizeJustified  BY Zenon, <1>6, FinalizeJustifiedInv
<1>7. CASE RefinalizeJustified
  <2>1. requests' \subseteq requests \cup {op.block}  BY Zenon, <1>7 DEF RefinalizeJustified
  <2> QED  BY Zenon, <1>7, <2>1, QueueInv DEF RefinalizeJustified
<1>8. CASE AssertionFails
  <2>1. /\ op.stage = "finalize"
        /\ UNCHANGED <<netVars, bootstrap, imported, finalized, disk, faults>>
    BY Zenon, <1>8 DEF AssertionFails
  <2>2. PICK best : Started(best)  BY Zenon, <1>8 DEF AssertionFails
  <2>3. bootstrap \notin {"off", "read"}  BY <2>1 DEF GrandpaInv, StartInv, Idle
  <2> QED  BY Zenon, <1>0, <2>1, <2>2, <2>3, StartedInv
<1>9. CASE ReadState  BY Zenon, <1>9, ReadStateInv
<1> QED  BY Zenon, <1>1, <1>2, <1>3, <1>4, <1>5, <1>6, <1>7, <1>8, <1>9 DEF Proceed

(* Every step keeps the invariant. *)
LEMMA NextInv == GrandpaInv /\ [Next]_vars => GrandpaInv'
<1> SUFFICES ASSUME GrandpaInv, [Next]_vars PROVE GrandpaInv'  BY Zenon
<1>0. faults \in 0..MaxFaults /\ MaxFaults \in Nat
  BY Zenon, GrandpaAssumption DEF GrandpaInv, ClientInv
<1>1. CASE Launch  BY Zenon, <1>1, LaunchInv
<1>2. CASE \E b \in Blocks : \E call \in Calls[b] : Author(b, call)  BY Zenon, <1>2, AuthorInv
<1>3. CASE \E b \in Blocks : NetFinalize(b)  BY Zenon, <1>3, NetFinalizeInv
<1>4. CASE \E b \in Blocks : Begin(b) \/ BeginOld(b) \/ Take(b) \/ ImportState(b)
  <2>1. PICK b \in Blocks : Begin(b) \/ BeginOld(b) \/ Take(b) \/ ImportState(b)  BY Zenon, <1>4
  <2>2. CASE Begin(b)  BY Zenon, <2>2, ImportBlockInv DEF Begin
  <2>3. CASE BeginOld(b)  BY Zenon, <2>3, ImportOldBlockInv DEF BeginOld
  <2>4. CASE Take(b)  BY Zenon, <2>4, ImportJustificationInv DEF Take
  <2>5. CASE ImportState(b)  BY Zenon, <2>5, ImportStateInv
  <2> QED  BY Zenon, <2>1, <2>2, <2>3, <2>4, <2>5
<1>5. CASE Proceed  BY Zenon, <1>5, ProceedInv
<1>6. CASE ImportFailed
  <2>1. faults' \in 0..MaxFaults  BY <1>0, <1>6 DEF ImportFailed
  <2> QED  BY Zenon, <1>6, <2>1, RevertedInv DEF ImportFailed
<1>7. CASE \E j \in justs : VoterFinalize(j)  BY Zenon, <1>7, VoterFinalizeInv
<1>8. CASE handle_voter_command  BY Zenon, <1>8, CommandInv
<1>9. CASE Restart
  <2>1. faults' \in 0..MaxFaults /\ bootstrap \notin {"off", "read"}
        /\ UNCHANGED <<netVars, bootstrap, imported, finalized, disk>>
    BY <1>0, <1>9 DEF Restart
  <2>2. PICK best : Started(best)  BY Zenon, <1>9 DEF Restart
  <2> QED  BY Zenon, <2>1, <2>2, StartedInv
<1>10. CASE UNCHANGED vars
  <2>1. NetInv' /\ ClientInv' /\ StartInv'
    BY Zenon, <1>10 DEF vars, GrandpaInv, NetInv, ClientInv, StartInv, Authored
  <2>2. DiskInv'  BY Zenon, <1>10 DEF vars, GrandpaInv, DiskInv, Locked
  <2>3. OpInv'  BY Zenon, <1>10 DEF vars, GrandpaInv, OpInv, NewImport, OldImport, ForcedEnacted
  <2>4. NoHoles' /\ GapInv'  BY Zenon, <1>10 DEF vars, GrandpaInv, NoHoles, GapInv, Gap
  <2>5. NoChangeForgotten'  BY Zenon, <1>10 DEF vars, GrandpaInv, NoChangeForgotten, ForcedEnacted
  <2> QED  BY Zenon, <2>1, <2>2, <2>3, <2>4, <2>5 DEF GrandpaInv
<1> QED  BY Zenon, <1>1, <1>2, <1>3, <1>4, <1>5, <1>6, <1>7, <1>8, <1>9, <1>10 DEF Next

(* The invariant holds in every state of every behaviour. *)
LEMMA AlwaysInv == Spec => []GrandpaInv
BY InitInv, NextInv, PTL DEF Spec

(* The invariant says what DiskInStep says, the types included. *)
LEMMA InvInStep == GrandpaInv => DiskInStep
<1> SUFFICES ASSUME GrandpaInv PROVE DiskInStep  BY Zenon
<1> /\ NetInv /\ ClientInv /\ StartInv /\ DiskInv /\ OpInv /\ NoHoles /\ GapInv
    /\ NoChangeForgotten
  BY Zenon DEF GrandpaInv
<1>1. ASSUME NEW a \in SetType(digest) PROVE a \in AuthorityType
  <2>1. Forcers(digest) \subseteq Blocks  BY Zenon DEF Forcers
  <2>2. a.forced \in Seq(Blocks)  BY <2>1 DEF SetType
  <2> QED  BY Zenon, <2>2 DEF SetType, AuthorityType, TreeType
<1>2. auth \in SetType(digest) /\ disk.auth \in SetType(digest) /\ op.old \in SetType(digest)
  BY Zenon DEF ClientInv, OpType
<1>3. GrandpaTypeOK
  BY Zenon, <1>1, <1>2 DEF GrandpaTypeOK, ClientInv, OpType, VoterType
<1>4. ASSUME ~Locked PROVE [disk.auth EXCEPT !.standard.best = auth.standard.best] = auth
  BY Zenon, <1>2, <1>4 DEF DiskInv, Same, SetType, TreeType
<1> QED  BY Zenon, <1>3, <1>4 DEF DiskInStep

(* Whatever is imported, finalized, refused or interrupted, and wherever the process     *)
(* stops, the authority set on disk is the one in memory while no import holds the lock, *)
(* although finalize_block writes it only when apply_standard_changes reports a change. *)
THEOREM StoredInStep == Spec => []DiskInStep
BY AlwaysInv, InvInStep, PTL

(* No standard change that an imported block signals and that finality has still to      *)
(* enact is lost from the database, for any tree of blocks, any delays and any faults.   *)
THEOREM NothingForgotten == Spec => []NoChangeForgotten
<1>1. GrandpaInv => NoChangeForgotten  BY Zenon DEF GrandpaInv
<1> QED  BY <1>1, AlwaysInv, PTL
=============================================================================
