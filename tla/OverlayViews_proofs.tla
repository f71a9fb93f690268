------------------------- MODULE OverlayViews_proofs -------------------------
(***************************************************************************)
(* The overlay shows the views of NestedStorage: the inductive invariant   *)
(* of OverlayViews, action by action, and what follows from it.  All that  *)
(* these lemmas use of the change sets is in the laws stated first.        *)
(***************************************************************************)
EXTENDS OverlayViews, ChangeSetViews, TLAPS

-----------------------------------------------------------------------------
(* The laws: what the operations of a change set do.  OverlayedChangeSet_proofs has the    *)
(* lemmas that say so.                                                                     *)

\* The fields of a change set
FieldsLaw == \A K : \A cs \in ChangeSets(K) :
  /\ DOMAIN cs.changes \in SUBSET K /\ cs.changes \in [DOMAIN cs.changes -> Seq(Entries)]
  /\ cs.dirty \in Seq(SUBSET K) /\ Len(cs.dirty) \in Nat /\ cs.client \in Nat
  /\ cs.mode \in {"client", "runtime"}
  /\ cs = [changes |-> cs.changes, dirty |-> cs.dirty, client |-> cs.client, mode |-> cs.mode]

UpdateLaw == \A K : \A cs \in ChangeSets(K) : \A g, D, m :
  /\ [cs EXCEPT !.changes = g, !.dirty = D]
       = [changes |-> g, dirty |-> D, client |-> cs.client, mode |-> cs.mode]
  /\ [cs EXCEPT !.dirty = D, !.changes = g]
       = [changes |-> g, dirty |-> D, client |-> cs.client, mode |-> cs.mode]
  /\ [cs EXCEPT !.changes = g]
       = [changes |-> g, dirty |-> cs.dirty, client |-> cs.client, mode |-> cs.mode]
  /\ [cs EXCEPT !.dirty = D]
       = [changes |-> cs.changes, dirty |-> D, client |-> cs.client, mode |-> cs.mode]
  /\ [cs EXCEPT !.mode = m]
       = [changes |-> cs.changes, dirty |-> cs.dirty, client |-> cs.client, mode |-> m]

\* The versions of a key, and what they show
VersionsLaw == \A K, cs : Sound(cs, K) => \A k \in K :
  /\ KeySound(Versions(cs, k), cs.dirty, k) /\ Chain(Versions(cs, k))
  /\ k \in DOMAIN cs.changes <=> Versions(cs, k) # <<>>
  /\ Versions(cs, k) \in Seq(Entries)

LengthLaw == \A V : Chain(V) => Len(V) \in Nat /\ (V = <<>> <=> Len(V) = 0)

TopLaw == \A K : \A D \in Seq(SUBSET K) : \A k, V, b : ValueOf(V, D, k, b, Len(D)) = Seen(V, b)

OptionLaw == \A K, cs : Sound(cs, K) => \A k \in K : \A b :
  IsOption(b) => IsOption(ValueIn(cs, k, b, Len(cs.dirty)))

PlainLaw == \A u \in Entries : u.tag # "append" =>
  /\ WellCoded(IF u.tag = "set" THEN u.data ELSE <<>>)
  /\ Plain(u) = IF u.tag = "set" THEN u.data ELSE <<>>
  /\ Shown(u) = IF u.tag = "set" THEN <<u.data>> ELSE <<>>

RemovedLaw == RemoveEntry \in Entries /\ RemoveEntry.tag # "append" /\ Shown(RemoveEntry) = <<>>

\* Reads and writes
SetLaw == \A K, cs : Sound(cs, K) => \A k \in K : \A v \in Entries :
  v.tag # "append" => Puts(cs, set(cs, k, v), k, Shown(v), K)

AppendLaw == \A K, cs : Sound(cs, K) => \A k \in K : \A e \in Bytes : \A init : WellCoded(init) =>
  Puts(cs, append_storage(cs, k, e, init), k,
       <<More(IF Versions(cs, k) = <<>> THEN init ELSE Plain(Last(Versions(cs, k))), e)>>, K)

RemovesLaw == \A K, cs : Sound(cs, K) => \A S \in SUBSET K : Removes(cs, RemovedAll(cs, S), S, K)

ReadsLaw == \A K, cs, S : Sound(cs, K) => Reads(cs, ReadIn(cs, S), K)

\* Transactions
StartLaw == \A K, cs : Sound(cs, K) => Starts(cs, start_transaction(cs), K)

CommitLaw == \A K, cs : Sound(cs, K) /\ cs.dirty # <<>> => Commits(cs, commit_transaction(cs), K)

RollbackLaw == \A K, cs : Sound(cs, K) /\ cs.dirty # <<>> => RollsBack(cs, rollback_transaction(cs), K)

EnterLaw == \A K, cs : Sound(cs, K) => Enters(cs, enter_runtime(cs), K)

ExitLaw == \A K, cs : Sound(cs, K) /\ cs.client <= Len(cs.dirty) => Exits(cs, exit_runtime(cs), K)

\* Change sets without changes, new, spawned or forgotten
EmptyLaw == \A K : Fresh(EmptySet, K, 0, 0, "client")

SpawnLaw == \A L : \A cs \in ChangeSets(L) : \A K :
  Fresh(spawn_child(cs), K, Len(cs.dirty), cs.client, cs.mode)

SpawnSameLaw == \A L : \A cs, ds \in ChangeSets(L) : Alongside(ds, cs) => spawn_child(ds) = spawn_child(cs)

FreshStartLaw == \A K : \A n \in Nat : \A c, m, cs, ds :
  Fresh(cs, K, n, c, m) /\ Fresh(ds, K, n + 1, c, m) => Starts(cs, ds, K)

FreshCommitLaw == \A K : \A n \in Nat : \A c, m, cs, ds :
  n > 0 /\ Fresh(cs, K, n, c, m) /\ Fresh(ds, K, n - 1, c, m) => Commits(cs, ds, K)

FreshRollbackLaw == \A K : \A n \in Nat : \A c, m, cs, ds :
  n > 0 /\ Fresh(cs, K, n, c, m) /\ Fresh(ds, K, n - 1, c, m) => RollsBack(cs, ds, K)

FreshEnterLaw == \A K : \A n \in Nat : \A c, m, cs, ds :
  Fresh(cs, K, n, c, m) /\ Fresh(ds, K, n, n, "runtime") => Enters(cs, ds, K)

FreshExitLaw == \A K : \A n \in Nat : \A c \in 0..n : \A m, cs, ds :
  Fresh(cs, K, n, c, m) /\ Fresh(ds, K, c, c, "client") => Exits(cs, ds, K)

ForgetLaw == \A K, cs, ds, es :
  /\ RollsBack(cs, ds, K) /\ DOMAIN ds.changes = {}
  /\ Fresh(es, K, Len(cs.dirty) - 1, cs.client, cs.mode)
  => RollsBack(cs, es, K)

\* Numbers; for finite sets, see CountLaw
LeastLaw == \A S \in SUBSET Nat : S # {} => \E n \in S : \A m \in S : n <= m

InductionLaw == \A S : 0 \in S /\ (\A n \in Nat : n \in S => n + 1 \in S) => Nat \subseteq S

Laws ==
  /\ FieldsLaw /\ UpdateLaw /\ VersionsLaw /\ LengthLaw /\ TopLaw /\ OptionLaw /\ PlainLaw /\ RemovedLaw
  /\ SetLaw /\ AppendLaw /\ RemovesLaw /\ ReadsLaw
  /\ StartLaw /\ CommitLaw /\ RollbackLaw /\ EnterLaw /\ ExitLaw
  /\ EmptyLaw /\ SpawnLaw /\ SpawnSameLaw
  /\ FreshStartLaw /\ FreshCommitLaw /\ FreshRollbackLaw /\ FreshEnterLaw /\ FreshExitLaw /\ ForgetLaw
  /\ LeastLaw /\ InductionLaw /\ CountLaw

-----------------------------------------------------------------------------
(* The three change sets as one. *)

Depth == Len(top.dirty)

\* What a key shows at a depth
Val(k, d) == ValueIn(SetOf(k), k, backend[k], d)
View(i) == [k \in Keys |-> Val(k, i - 1)]

Aligned ==
  /\ Sound(top, TopKeys) /\ Sound(offchain, OffKeys) /\ Alongside(offchain, top)
  /\ child # <<>> => child = <<child[1]>> /\ Sound(child[1], ChildKeys) /\ Alongside(child[1], top)

Backed == backend = [k \in Keys |-> backend[k]] /\ \A k \in Keys : IsOption(backend[k])

(* The keys of the tries and of the offchain database are different. *)
LEMMA SetOfIs ==
  /\ \A k \in TopKeys : k \in Keys /\ SetOf(k) = top
  /\ \A k \in ChildKeys : k \in Keys /\ SetOf(k) = ChildSet /\ k \notin TopKeys
  /\ \A k \in OffKeys : k \in Keys /\ SetOf(k) = offchain /\ k \notin TopKeys /\ k \notin ChildKeys
  /\ \A k \in Keys : k \in TopKeys \/ k \in ChildKeys \/ k \in OffKeys
<1>1. TopKeys \cap ChildKeys = {} /\ TopKeys \cap OffKeys = {} /\ ChildKeys \cap OffKeys = {}
  BY Zenon, OverlayAssumption
<1> DEFINE X == ChildSet
<1> HIDE DEF X
<1> QED  BY <1>1 DEF SetOf, Keys, X

(* What the views are made of. *)
LEMMA ValueAtIs ==
  ASSUME NEW cs, NEW k, NEW d
  PROVE  ValueAt(cs, k, d) = ValueIn(cs, k, backend[k], d)
BY Zenon DEF ValueAt, ValueIn, ValueOf, Count, Seen, Shown, transaction_depth

(* A read of a key sees the view on top. *)
LEMMA StorageIs ==
  ASSUME Laws, NEW K, NEW cs, Sound(cs, K), NEW k \in K
  PROVE  storage(cs, k) = ValueIn(cs, k, backend[k], Len(cs.dirty))
<1> DEFINE V == Versions(cs, k)
           b == backend[k]
<1>1. cs \in ChangeSets(K)  BY Zenon DEF Sound
<1>2. cs.dirty \in Seq(SUBSET K)  BY Zenon, <1>1 DEF Laws, FieldsLaw
<1> HIDE DEF b
<1>3. ValueIn(cs, k, b, Len(cs.dirty)) = Seen(V, b)  BY Zenon, <1>2 DEF Laws, TopLaw, ValueIn
<1>4. k \in DOMAIN cs.changes <=> V # <<>>  BY Zenon DEF Laws, VersionsLaw
<1>5. storage(cs, k) = Seen(V, b)  BY Zenon, <1>4 DEF storage, Seen, Shown, Versions, b
<1> QED  BY Zenon, <1>3, <1>5 DEF b

(* The change set of the child trie, also when there is none yet. *)
LEMMA ChildSetIs ==
  ASSUME Laws, Aligned
  PROVE  /\ Sound(ChildSet, ChildKeys) /\ Alongside(ChildSet, top)
         /\ child = <<>> => Fresh(ChildSet, ChildKeys, Depth, top.client, top.mode)
<1>1. CASE child = <<>>
  <2>1. ChildSet = spawn_child(top)  BY Zenon, <1>1 DEF ChildSet
  <2>2. top \in ChangeSets(TopKeys)  BY Zenon DEF Aligned, Sound
  <2>3. Fresh(spawn_child(top), ChildKeys, Len(top.dirty), top.client, top.mode)
    BY Zenon, <2>2 DEF Laws, SpawnLaw
  <2> QED  BY Zenon, <2>1, <2>3 DEF Fresh, Alongside, Depth
<1>2. CASE child # <<>>
  BY Zenon, <1>2 DEF ChildSet, Aligned
<1> QED  BY Zenon, <1>1, <1>2

\* A key with the change set it is in
Belongs(k, K) == k \in K /\ Sound(SetOf(k), K) /\ Alongside(SetOf(k), top)

(* Every key has a sound change set, at the depth of the main trie. *)
LEMMA BelongsIs ==
  ASSUME Laws, Aligned
  PROVE  /\ Depth \in Nat /\ top.client \in Nat /\ top.mode \in {"client", "runtime"}
         /\ \A k \in Keys : \E K : Belongs(k, K)
<1>1. top \in ChangeSets(TopKeys)  BY Zenon DEF Aligned, Sound
<1>2. Depth \in Nat /\ top.client \in Nat /\ top.mode \in {"client", "runtime"}
  BY Zenon, <1>1 DEF Laws, FieldsLaw, Depth
<1>3. ASSUME NEW k \in Keys PROVE \E K : Belongs(k, K)
  <2>1. CASE k \in TopKeys
    <3>1. Belongs(k, TopKeys)  BY Zenon, <2>1, SetOfIs DEF Belongs, Aligned, Alongside
    <3> QED  BY Zenon, <3>1
  <2>2. CASE k \in ChildKeys
    <3>1. Belongs(k, ChildKeys)  BY Zenon, <2>2, SetOfIs, ChildSetIs DEF Belongs
    <3> QED  BY Zenon, <3>1
  <2>3. CASE k \in OffKeys
    <3>1. Belongs(k, OffKeys)  BY Zenon, <2>3, SetOfIs DEF Belongs, Aligned
    <3> QED  BY Zenon, <3>1
  <2> QED  BY Zenon, <2>1, <2>2, <2>3, SetOfIs
<1> QED  BY Zenon, <1>2, <1>3

(* The views, with these names. *)
LEMMA ViewsIs == Views = [i \in 1..(Depth + 1) |-> View(i)]
<1>1. ASSUME NEW i \in 1..(Depth + 1)
      PROVE  [k \in Keys |-> ValueAt(SetOf(k), k, i - 1)] = View(i)
  BY Zenon, ValueAtIs DEF View, Val
<1> QED  BY Zenon, <1>1 DEF Views, Depth, transaction_depth

(* The same after a step. *)
LEMMA SetOfIsNext ==
  /\ \A k \in TopKeys : k \in Keys /\ SetOf(k)' = top'
  /\ \A k \in ChildKeys : k \in Keys /\ SetOf(k)' = ChildSet' /\ k \notin TopKeys
  /\ \A k \in OffKeys : k \in Keys /\ SetOf(k)' = offchain' /\ k \notin TopKeys /\ k \notin ChildKeys
  /\ \A k \in Keys : k \in TopKeys \/ k \in ChildKeys \/ k \in OffKeys
<1>1. (/\ \A k \in TopKeys : k \in Keys /\ SetOf(k) = top
       /\ \A k \in ChildKeys : k \in Keys /\ SetOf(k) = ChildSet /\ k \notin TopKeys
       /\ \A k \in OffKeys : k \in Keys /\ SetOf(k) = offchain /\ k \notin TopKeys /\ k \notin ChildKeys
       /\ \A k \in Keys : k \in TopKeys \/ k \in ChildKeys \/ k \in OffKeys)'
  BY SetOfIs, PTL
<1> QED  BY Zenon, <1>1

(* The child's change set after a step. *)
LEMMA ChildSetIsNext ==
  ASSUME Laws
  PROVE  Aligned' => /\ Sound(ChildSet', ChildKeys) /\ Alongside(ChildSet', top')
                     /\ child' = <<>> => Fresh(ChildSet', ChildKeys, Depth', top'.client, top'.mode)
<1>1. Aligned => /\ Sound(ChildSet, ChildKeys) /\ Alongside(ChildSet, top)
                 /\ child = <<>> => Fresh(ChildSet, ChildKeys, Depth, top.client, top.mode)
  BY Zenon, ChildSetIs
<1>2. (Aligned => /\ Sound(ChildSet, ChildKeys) /\ Alongside(ChildSet, top)
                  /\ child = <<>> => Fresh(ChildSet, ChildKeys, Depth, top.client, top.mode))'
  BY <1>1, PTL
<1> QED  BY Zenon, <1>2

(* The depth after a step. *)
LEMMA DepthNext ==
  ASSUME Laws
  PROVE  Aligned' => Depth' \in Nat
<1>1. Aligned => Depth \in Nat  BY Zenon, BelongsIs
<1>2. (Aligned => Depth \in Nat)'  BY <1>1, PTL
<1> QED  BY Zenon, <1>2

(* The views after a step. *)
LEMMA ViewsNext == Views' = [i \in 1..(Depth' + 1) |-> View(i)']
<1>1. (Views = [i \in 1..(Depth + 1) |-> View(i)])'  BY ViewsIs, PTL
<1> QED  BY Zenon, <1>1

-----------------------------------------------------------------------------
(* The stack of views. *)

\* What a stack of n + 1 views is after the operations of NestedStorage
Stacked(s, n) ==
  /\ Len(s) = n + 1
  /\ \A x : Append(s, x) = [i \in 1..(n + 2) |-> IF i = n + 2 THEN x ELSE s[i]]
  /\ \A x : [s EXCEPT ![n + 1] = x] = [i \in 1..(n + 1) |-> IF i = n + 1 THEN x ELSE s[i]]
  /\ \A m \in 0..(n + 1) : SubSeq(s, 1, m) = [i \in 1..m |-> s[i]]

(* Sequences as functions. *)
LEMMA StackedIs ==
  ASSUME NEW n \in Nat, NEW s, s = [i \in 1..(n + 1) |-> s[i]]
  PROVE  Stacked(s, n)
<1> DEFINE S == {s[i] : i \in 1..(n + 1)}
<1>1. s \in [1..(n + 1) -> S]  BY SMT
<1>2. s \in Seq(S)  BY ONLY <1>1, n \in Nat
<1>3. Len(s) = n + 1  BY ONLY <1>1, n \in Nat
<1>4. ASSUME NEW x PROVE Append(s, x) = [i \in 1..(n + 2) |-> IF i = n + 2 THEN x ELSE s[i]]
  <2> DEFINE T == S \cup {x}
             t == Append(s, x)
  <2> HIDE DEF S
  <2>1. s \in Seq(T) /\ x \in T  BY <1>2
  <2> HIDE DEF T
  <2>2. t \in Seq(T) /\ Len(t) = n + 2 /\ \A i \in 1..(n + 2) : t[i] = IF i = n + 2 THEN x ELSE s[i]
    BY ONLY <2>1, <1>3, n \in Nat
  <2> HIDE DEF t
  <2>3. t = [i \in 1..(n + 2) |-> t[i]]  BY ONLY <2>2
  <2> QED  BY Zenon, <2>2, <2>3 DEF t
<1>5. ASSUME NEW x PROVE [s EXCEPT ![n + 1] = x] = [i \in 1..(n + 1) |-> IF i = n + 1 THEN x ELSE s[i]]
  OBVIOUS
<1>6. ASSUME NEW m \in 0..(n + 1) PROVE SubSeq(s, 1, m) = [i \in 1..m |-> s[i]]
  <2> DEFINE t == SubSeq(s, 1, m)
  <2> HIDE DEF S
  <2>2. t \in Seq(S) /\ Len(t) = m /\ \A i \in 1..m : t[i] = s[i]
    BY ONLY <1>2, <1>3, n \in Nat, m \in 0..(n + 1)
  <2> HIDE DEF t
  <2>3. t = [i \in 1..m |-> t[i]]  BY ONLY <2>2
  <2> QED  BY Zenon, <2>2, <2>3 DEF t
<1> QED  BY Zenon, <1>3, <1>4, <1>5, <1>6 DEF Stacked

Modes ==
  /\ top.mode = mode
  /\ mode = "runtime" => top.client = client /\ top.client <= Depth
  /\ mode = "client" => client = 0

\* A cached root is that of values of the tries.
Cached ==
  cache # <<>> =>
    DOMAIN cache[1] = TopKeys \cup ChildKeys /\ \A k \in TopKeys \cup ChildKeys : IsOption(cache[1][k])

(* The inductive invariant: the change sets are sound and at the same depth, the backend   *)
(* and the tries of a cached root hold values, and the views are the stack.                *)
ViewsInv == Aligned /\ Backed /\ Views = stack /\ Modes /\ Cached

\* A cached root does not go out of date.
Stays == RootFresh => RootFresh'

(* The stack holds what is seen at each depth. *)
LEMMA StackOf ==
  ASSUME Laws, Aligned, Views = stack
  PROVE  /\ Depth \in Nat /\ stack = [i \in 1..(Depth + 1) |-> View(i)] /\ Stacked(stack, Depth)
         /\ Len(stack) = Depth + 1 /\ Nested!Depth = Depth /\ Nested!Top = View(Depth + 1)
<1>1. Depth \in Nat  BY Zenon, BelongsIs
<1>2. stack = [i \in 1..(Depth + 1) |-> View(i)]  BY Zenon, ViewsIs
<1>3. stack = [i \in 1..(Depth + 1) |-> stack[i]]  BY Zenon, <1>2
<1>4. Stacked(stack, Depth)  BY Zenon, <1>1, <1>3, StackedIs
<1>5. Len(stack) = Depth + 1  BY Zenon, <1>4 DEF Stacked
<1>6. (Depth + 1) - 1 = Depth /\ Depth + 1 \in 1..(Depth + 1)  BY <1>1
<1>7. stack[Depth + 1] = View(Depth + 1)  BY Zenon, <1>2, <1>6
<1>8. Nested!Depth = Depth  BY Zenon, <1>5, <1>6 DEF Nested!Depth
<1>9. Nested!Top = View(Depth + 1)  BY Zenon, <1>5, <1>7 DEF Nested!Top
<1> QED  BY Zenon, <1>1, <1>2, <1>4, <1>5, <1>8, <1>9

(* The same transactions can be closed. *)
LEMMA MayCloseIs ==
  ASSUME Laws, Aligned, Views = stack, Modes
  PROVE  /\ MayClose(top) <=> Nested!MayClose
         /\ MayClose(top) => Depth > 0 /\ (mode = "runtime" => top.client <= Depth - 1)
<1>1. Depth \in Nat /\ Nested!Depth = Depth  BY Zenon, StackOf
<1>2. top.client \in Nat /\ top.mode \in {"client", "runtime"}  BY Zenon, BelongsIs
<1>3. top.dirty # <<>> <=> Depth # 0
  <2>1. top \in ChangeSets(TopKeys)  BY Zenon DEF Aligned, Sound
  <2>2. top.dirty \in Seq(SUBSET TopKeys)  BY Zenon, <2>1 DEF Laws, FieldsLaw
  <2> DEFINE D == top.dirty
  <2>3. D \in Seq(SUBSET TopKeys)  BY <2>2
  <2> HIDE DEF D
  <2>4. D # <<>> <=> Len(D) # 0  BY ONLY <2>3
  <2> QED  BY Zenon, <2>4 DEF D, Depth
<1>4. Nested!MayClose <=> Depth > client  BY <1>1 DEF Nested!MayClose
<1>5. MayClose(top) <=> Depth # 0 /\ (top.mode = "runtime" => Depth > top.client)
  BY <1>3 DEF MayClose, has_open_runtime_transactions, transaction_depth, Depth
<1>6. top.mode = mode /\ (mode = "runtime" => top.client = client) /\ (mode = "client" => client = 0)
  BY Zenon DEF Modes
<1>7. CASE mode = "runtime"  BY ONLY <1>1, <1>2, <1>4, <1>5, <1>6, <1>7
<1>8. CASE mode = "client"  BY ONLY <1>1, <1>2, <1>4, <1>5, <1>6, <1>8
<1> QED  BY Zenon, <1>2, <1>6, <1>7, <1>8

(* What the invariant is for. *)
LEMMA SeesIs ==
  ASSUME Laws, ViewsInv
  PROVE  SeesNested
BY Zenon, MayCloseIs DEF ViewsInv, SeesNested, Modes

(* A key shows a value, or none. *)
LEMMA ValIsOption ==
  ASSUME Laws, Aligned, Backed
  PROVE  \A k \in Keys : IsOption(Val(k, Depth))
<1> SUFFICES ASSUME NEW k \in Keys PROVE IsOption(Val(k, Depth))  BY Zenon
<1>1. PICK K : Belongs(k, K)  BY Zenon, BelongsIs
<1>2. k \in K /\ Sound(SetOf(k), K) /\ Len(SetOf(k).dirty) = Depth
  BY Zenon, <1>1 DEF Belongs, Alongside, Depth
<1>3. IsOption(backend[k])  BY Zenon DEF Backed
<1>4. IsOption(ValueIn(SetOf(k), k, backend[k], Len(SetOf(k).dirty)))
  BY Zenon, <1>2, <1>3 DEF Laws, OptionLaw
<1> QED  BY Zenon, <1>2, <1>4 DEF Val

(* A root stands for what is seen of the tries. *)
LEMMA RootIs ==
  ASSUME Laws
  PROVE  Aligned => Root = [k \in TopKeys \cup ChildKeys |-> Val(k, Depth)]
<1> SUFFICES ASSUME Aligned PROVE Root = [k \in TopKeys \cup ChildKeys |-> Val(k, Depth)]
  OBVIOUS
<1>1. ASSUME NEW k \in TopKeys \cup ChildKeys PROVE storage(SetOf(k), k) = Val(k, Depth)
  <2>1. k \in Keys  BY Zenon, SetOfIs
  <2>2. PICK K : Belongs(k, K)  BY Zenon, <2>1, BelongsIs
  <2>3. k \in K /\ Sound(SetOf(k), K) /\ Len(SetOf(k).dirty) = Depth
    BY Zenon, <2>2 DEF Belongs, Alongside, Depth
  <2>4. storage(SetOf(k), k) = ValueIn(SetOf(k), k, backend[k], Len(SetOf(k).dirty))
    BY Zenon, <2>3, StorageIs
  <2> QED  BY Zenon, <2>3, <2>4 DEF Val
<1> QED  BY Zenon, <1>1 DEF Root

(* A root is that of values of the tries. *)
LEMMA RootValues ==
  ASSUME Laws, Aligned, Backed
  PROVE  /\ DOMAIN Root = TopKeys \cup ChildKeys
         /\ \A k \in TopKeys \cup ChildKeys : IsOption(Root[k])
<1>1. Root = [k \in TopKeys \cup ChildKeys |-> Val(k, Depth)]  BY Zenon, RootIs
<1>2. ASSUME NEW k \in TopKeys \cup ChildKeys PROVE IsOption(Val(k, Depth))  BY Zenon, SetOfIs, ValIsOption
<1> QED  BY Zenon, <1>1, <1>2

(* After a step, too. *)
LEMMA RootNext ==
  ASSUME Laws
  PROVE  Aligned' => Root' = [k \in TopKeys \cup ChildKeys |-> Val(k, Depth)']
<1>1. Aligned => Root = [k \in TopKeys \cup ChildKeys |-> Val(k, Depth)]  BY Zenon, RootIs
<1>2. (Aligned => Root = [k \in TopKeys \cup ChildKeys |-> Val(k, Depth)])'  BY <1>1, PTL
<1> QED  BY Zenon, <1>2

-----------------------------------------------------------------------------
(* What the steps do to the views, from what they do to each key. *)

(* Views that are all as they were, and the root with them. *)
LEMMA SameViews ==
  ASSUME Laws, Aligned, Aligned', Views = stack, Depth' = Depth, stack' = stack,
         \A k \in Keys : \A d \in 0..Depth : Val(k, d)' = Val(k, d)
  PROVE  Views' = stack' /\ Root' = Root
<1>1. Depth \in Nat /\ stack = [i \in 1..(Depth + 1) |-> View(i)]  BY Zenon, StackOf
<1>2. ASSUME NEW i \in 1..(Depth + 1) PROVE View(i)' = View(i)
  <2>1. i - 1 \in 0..Depth  BY <1>1
  <2>2. \A k \in Keys : Val(k, i - 1)' = Val(k, i - 1)  BY Zenon, <2>1
  <2> QED  BY Zenon, <2>2 DEF View
<1>3. Views' = stack'  BY Zenon, <1>1, <1>2, ViewsNext
<1>4. Depth \in 0..Depth  BY <1>1
<1>5. ASSUME NEW k \in TopKeys \cup ChildKeys PROVE (Val(k, Depth))' = Val(k, Depth)
  <2>1. k \in Keys  BY Zenon, SetOfIs
  <2> DEFINE n == Depth
  <2>2. ValueIn(SetOf(k)', k, backend'[k], n) = ValueIn(SetOf(k), k, backend[k], n)
    BY Zenon, <1>4, <2>1 DEF Val
  <2> QED  BY Zenon, <2>2 DEF Val
<1> QED  BY Zenon, <1>3, <1>5, RootIs, RootNext

(* A step that changes what is seen now. *)
LEMMA TopViews ==
  ASSUME Laws, Aligned, Aligned', Views = stack, Depth' = Depth, NEW g,
         \A k \in Keys : \A d \in 0..Depth : d # Depth => Val(k, d)' = Val(k, d),
         g = [k \in Keys |-> Val(k, Depth)'], stack' = [stack EXCEPT ![Len(stack)] = g]
  PROVE  Views' = stack'
<1> DEFINE n == Depth
<1>1. n \in Nat /\ stack = [i \in 1..(n + 1) |-> View(i)] /\ Stacked(stack, n) /\ Len(stack) = n + 1
  BY Zenon, StackOf
<1>2. stack' = [i \in 1..(n + 1) |-> IF i = n + 1 THEN g ELSE stack[i]]
  BY Zenon, <1>1 DEF Stacked
<1>3. ASSUME NEW i \in 1..(n + 1) PROVE View(i)' = IF i = n + 1 THEN g ELSE stack[i]
  <2>1. CASE i = n + 1
    <3>1. i - 1 = Depth  BY <1>1, <2>1
    <3>2. ASSUME NEW k \in Keys PROVE Val(k, i - 1)' = (Val(k, Depth))'
      <4>1. i - 1 = Depth'  BY Zenon, <3>1
      <4> QED  BY Zenon, <4>1 DEF Val
    <3> QED  BY Zenon, <2>1, <3>2 DEF View
  <2>2. CASE i # n + 1
    <3>1. i - 1 \in 0..Depth /\ i - 1 # Depth  BY <1>1, <2>2
    <3>2. \A k \in Keys : Val(k, i - 1)' = Val(k, i - 1)  BY Zenon, <3>1
    <3>3. View(i)' = View(i)  BY Zenon, <3>2 DEF View
    <3> QED  BY Zenon, <1>1, <2>2, <3>3
  <2> QED  BY Zenon, <2>1, <2>2
<1> QED  BY Zenon, <1>2, <1>3, ViewsNext

(* A step that leaves the views up to a depth, and no others. *)
LEMMA LowerViews ==
  ASSUME Laws, Aligned, Aligned', Views = stack, NEW m \in Nat, m <= Depth, Depth' = m,
         stack' = SubSeq(stack, 1, m + 1),
         \A k \in Keys : \A d \in 0..m : Val(k, d)' = Val(k, d)
  PROVE  Views' = stack'
<1> DEFINE n == Depth
<1>1. n \in Nat /\ stack = [i \in 1..(n + 1) |-> View(i)] /\ Stacked(stack, n) /\ Len(stack) = n + 1
  BY Zenon, StackOf
<1>2. m + 1 \in 0..(n + 1) /\ \A i \in 1..(m + 1) : i \in 1..(n + 1) /\ i - 1 \in 0..m  BY <1>1
<1>3. stack' = [i \in 1..(m + 1) |-> stack[i]]  BY Zenon, <1>1, <1>2 DEF Stacked
<1>4. ASSUME NEW i \in 1..(m + 1) PROVE View(i)' = stack[i]
  <2>1. i \in 1..(n + 1) /\ i - 1 \in 0..m  BY Zenon, <1>2
  <2>2. \A k \in Keys : Val(k, i - 1)' = Val(k, i - 1)  BY Zenon, <2>1
  <2>3. View(i)' = View(i)  BY Zenon, <2>2 DEF View
  <2> QED  BY Zenon, <1>1, <2>1, <2>3
<1> QED  BY Zenon, <1>3, <1>4, ViewsNext

(* A transaction that starts. *)
LEMMA StartedViews ==
  ASSUME Laws, Aligned, Aligned', Views = stack, Depth' = Depth + 1, stack' = Append(stack, Nested!Top),
         \A k \in Keys : \A d \in 0..Depth : Val(k, d)' = Val(k, d),
         \A k \in Keys : Val(k, Depth)' = Val(k, Depth)
  PROVE  Views' = stack' /\ Root' = Root
<1> DEFINE n == Depth
<1>1. /\ n \in Nat /\ stack = [i \in 1..(n + 1) |-> View(i)] /\ Stacked(stack, n) /\ Len(stack) = n + 1
      /\ Nested!Top = View(n + 1)
  BY Zenon, StackOf
<1>2. stack' = [i \in 1..(n + 2) |-> IF i = n + 2 THEN View(n + 1) ELSE stack[i]]
  <2>1. \A x : Append(stack, x) = [i \in 1..(n + 2) |-> IF i = n + 2 THEN x ELSE stack[i]]
    BY Zenon, <1>1 DEF Stacked
  <2>2. stack' = Append(stack, View(n + 1))  BY Zenon, <1>1
  <2> QED  BY ONLY Zenon, <2>1, <2>2
<1>3. ASSUME NEW i \in 1..(n + 2) PROVE View(i)' = IF i = n + 2 THEN View(n + 1) ELSE stack[i]
  <2>1. CASE i = n + 2
    <3>1. i - 1 = Depth + 1 /\ (n + 1) - 1 = Depth  BY <1>1, <2>1
    <3>2. ASSUME NEW k \in Keys PROVE Val(k, i - 1)' = Val(k, (n + 1) - 1)
      <4>1. i - 1 = Depth'  BY Zenon, <3>1
      <4>2. Val(k, Depth)' = Val(k, Depth)  BY Zenon
      <4>3. Val(k, i - 1)' = Val(k, Depth)'  BY Zenon, <4>1 DEF Val
      <4> QED  BY Zenon, <3>1, <4>2, <4>3
    <3>3. View(i)' = View(n + 1)  BY Zenon, <3>2 DEF View
    <3> QED  BY Zenon, <2>1, <3>3
  <2>2. CASE i # n + 2
    <3>1. i - 1 \in 0..Depth /\ i \in 1..(n + 1)  BY <1>1, <2>2
    <3>2. \A k \in Keys : Val(k, i - 1)' = Val(k, i - 1)  BY Zenon, <3>1
    <3>3. View(i)' = View(i)  BY Zenon, <3>2 DEF View
    <3> QED  BY Zenon, <1>1, <2>2, <3>1, <3>3
  <2> QED  BY Zenon, <2>1, <2>2
<1>4. Depth' + 1 = n + 2  BY <1>1
<1>5. Views' = stack'  BY Zenon, <1>2, <1>3, <1>4, ViewsNext
<1>6. \A k \in TopKeys \cup ChildKeys : k \in Keys  BY Zenon, SetOfIs
<1> QED  BY Zenon, <1>5, <1>6, RootIs, RootNext

(* A transaction that is committed. *)
LEMMA CommittedViews ==
  ASSUME Laws, Aligned, Aligned', Views = stack, Depth > 0, Depth' = Depth - 1,
         stack' = Append(SubSeq(stack, 1, Depth - 1), Nested!Top),
         \A k \in Keys : \A d \in 0..(Depth - 1) : d # Depth - 1 => Val(k, d)' = Val(k, d),
         \A k \in Keys : Val(k, Depth)' = Val(k, Depth)
  PROVE  Views' = stack' /\ Root' = Root
<1> DEFINE n == Depth
           s == SubSeq(stack, 1, n - 1)
<1>1. /\ n \in Nat /\ stack = [i \in 1..(n + 1) |-> View(i)] /\ Stacked(stack, n) /\ Len(stack) = n + 1
      /\ Nested!Top = View(n + 1)
  BY Zenon, StackOf
<1>2. /\ n - 1 \in 0..(n + 1) /\ n - 1 \in Nat /\ (n + 1) - 1 = n
      /\ \A i \in 1..(n - 1) : i \in 1..(n + 1) /\ i - 1 \in 0..(n - 1) /\ i - 1 # n - 1
  BY <1>1
<1>3. s = [i \in 1..(n - 1) |-> stack[i]]  BY Zenon, <1>1, <1>2 DEF Stacked
<1>4. stack' = [i \in 1..n |-> IF i = n THEN View(n + 1) ELSE stack[i]]
  <2> DEFINE x == View(n + 1)
             S == {stack[i] : i \in 1..(n + 1)} \cup {x}
             t == Append(s, x)
  <2>0. n \in Nat  BY Zenon, <1>1
  <2>1. \A i \in 1..(n + 1) : stack[i] \in S  BY Zenon
  <2>2. x \in S  BY Zenon
  <2>3. stack' = t  BY Zenon, <1>1
  <2> HIDE DEF S, x, s, n
  <2>4. s \in Seq(S) /\ Len(s) = n - 1 /\ \A i \in 1..(n - 1) : s[i] = stack[i]
    BY ONLY <1>2, <1>3, <2>1
  <2>5. t \in Seq(S) /\ Len(t) = n /\ \A i \in 1..n : t[i] = IF i = n THEN x ELSE stack[i]
    BY ONLY <1>2, <2>0, <2>2, <2>4
  <2> HIDE DEF t
  <2>6. t = [i \in 1..n |-> t[i]]  BY ONLY <2>5
  <2> QED  BY Zenon, <2>3, <2>5, <2>6 DEF x
<1>5. ASSUME NEW i \in 1..n PROVE View(i)' = IF i = n THEN View(n + 1) ELSE stack[i]
  <2>1. CASE i = n
    <3>2. ASSUME NEW k \in Keys PROVE Val(k, i - 1)' = Val(k, (n + 1) - 1)
      <4>1. i - 1 = Depth'  BY Zenon, <2>1
      <4>2. Val(k, Depth)' = Val(k, Depth)  BY Zenon
      <4>3. Val(k, i - 1)' = Val(k, Depth)'  BY Zenon, <4>1 DEF Val
      <4> QED  BY Zenon, <1>2, <4>2, <4>3
    <3>3. View(i)' = View(n + 1)  BY Zenon, <3>2 DEF View
    <3> QED  BY Zenon, <2>1, <3>3
  <2>2. CASE i # n
    <3>1. i \in 1..(n + 1) /\ i - 1 \in 0..(Depth - 1) /\ i - 1 # Depth - 1  BY <1>1, <2>2
    <3>2. \A k \in Keys : Val(k, i - 1)' = Val(k, i - 1)  BY Zenon, <3>1
    <3>3. View(i)' = View(i)  BY Zenon, <3>2 DEF View
    <3> QED  BY Zenon, <1>1, <2>2, <3>1, <3>3
  <2> QED  BY Zenon, <2>1, <2>2
<1>6. Depth' + 1 = n  BY <1>1
<1>7. Views' = stack'  BY Zenon, <1>4, <1>5, <1>6, ViewsNext
<1>8. \A k \in TopKeys \cup ChildKeys : k \in Keys  BY Zenon, SetOfIs
<1> QED  BY Zenon, <1>7, <1>8, RootIs, RootNext

-----------------------------------------------------------------------------
(* The transactions. *)

(* What is done to each child trie is done to the one there is. *)
LEMMA OneOf ==
  ASSUME NEW s, s = <<s[1]>>, NEW g, g = [i \in DOMAIN s |-> g[i]]
  PROVE  g = <<g[1]>> /\ 1 \in DOMAIN s /\ g # <<>>
<1>1. DOMAIN <<s[1]>> = {1}  OBVIOUS
<1>2. DOMAIN s = {1}  BY Zenon, <1>1
<1> DEFINE x == g[1]
<1>3. g = [i \in {1} |-> x]  BY Zenon, <1>2
<1> HIDE DEF x
<1>4. <<x>> = [i \in {1} |-> x] /\ <<x>> # <<>>  OBVIOUS
<1> QED  BY Zenon, <1>2, <1>3, <1>4 DEF x

(* Or to none. *)
LEMMA NoneOf ==
  ASSUME NEW s, s = <<>>, NEW g, g = [i \in DOMAIN s |-> g[i]]
  PROVE  g = <<>>
<1>1. DOMAIN <<>> = {} /\ <<>> = [i \in {} |-> g[i]]  OBVIOUS
<1> QED  BY Zenon, <1>1

\* Where a key is, before and after a step
Within(k, K) ==
  \/ K = TopKeys /\ SetOf(k) = top /\ SetOf(k)' = top'
  \/ K = ChildKeys /\ SetOf(k) = ChildSet /\ SetOf(k)' = ChildSet'
  \/ K = OffKeys /\ SetOf(k) = offchain /\ SetOf(k)' = offchain'

(* A key stays in its change set. *)
LEMMA WithinIs ==
  ASSUME Laws, Aligned
  PROVE  \A k \in Keys : \E K : /\ k \in K /\ Within(k, K)
                                /\ Len(SetOf(k).dirty) = Depth /\ SetOf(k).client = top.client
<1> TAKE k \in Keys
<1>1. \A cs \in {top, ChildSet, offchain} : Len(cs.dirty) = Depth /\ cs.client = top.client
  BY Zenon, ChildSetIs DEF Aligned, Alongside, Depth
<1>2. CASE k \in TopKeys
  <2>1. SetOf(k) = top /\ SetOf(k)' = top'  BY Zenon, <1>2, SetOfIs, SetOfIsNext
  <2> QED  BY Zenon, <1>1, <1>2, <2>1 DEF Within
<1>3. CASE k \in ChildKeys
  <2>1. SetOf(k) = ChildSet /\ SetOf(k)' = ChildSet'  BY Zenon, <1>3, SetOfIs, SetOfIsNext
  <2> QED  BY Zenon, <1>1, <1>3, <2>1 DEF Within
<1>4. CASE k \in OffKeys
  <2>1. SetOf(k) = offchain /\ SetOf(k)' = offchain'  BY Zenon, <1>4, SetOfIs, SetOfIsNext
  <2> QED  BY Zenon, <1>1, <1>4, <2>1 DEF Within
<1> QED  BY Zenon, <1>2, <1>3, <1>4, SetOfIs

(* The change sets start a transaction together. *)
LEMMA StartsAll ==
  ASSUME Laws, Aligned, StartTransaction
  PROVE  /\ Aligned' /\ Starts(top, top', TopKeys) /\ Starts(ChildSet, ChildSet', ChildKeys)
         /\ Starts(offchain, offchain', OffKeys)
<1>1. Starts(top, top', TopKeys) /\ Starts(offchain, offchain', OffKeys)
  BY Zenon DEF Laws, StartLaw, Aligned, StartTransaction
<1>2. child' = [i \in DOMAIN child |-> start_transaction(child[i])]  BY Zenon DEF StartTransaction
<1>3. child' = [i \in DOMAIN child |-> child'[i]]  BY Zenon, <1>2
<1>4. child # <<>> => child' = <<child'[1]>> /\ child' # <<>> /\ Starts(child[1], child'[1], ChildKeys)
  <2> SUFFICES ASSUME child # <<>>
               PROVE  child' = <<child'[1]>> /\ child' # <<>> /\ Starts(child[1], child'[1], ChildKeys)
    BY Zenon
  <2>1. child = <<child[1]>> /\ Sound(child[1], ChildKeys)  BY Zenon DEF Aligned
  <2>2. child' = <<child'[1]>> /\ 1 \in DOMAIN child /\ child' # <<>>  BY Zenon, <1>3, <2>1, OneOf
  <2>3. child'[1] = start_transaction(child[1])  BY Zenon, <1>2, <2>2
  <2> QED  BY Zenon, <2>1, <2>2, <2>3 DEF Laws, StartLaw
<1>5. child = <<>> => child' = <<>>  BY Zenon, <1>3, NoneOf
<1>6. Aligned'
  <2>1. Sound(top', TopKeys) /\ Sound(offchain', OffKeys) /\ Alongside(offchain', top')
    BY Zenon, <1>1 DEF Starts, Aligned, Alongside
  <2>2. child' # <<>> =>
          child' = <<child'[1]>> /\ Sound(child'[1], ChildKeys) /\ Alongside(child'[1], top')
    BY Zenon, <1>1, <1>4, <1>5 DEF Starts, Aligned, Alongside
  <2> QED  BY Zenon, <2>1, <2>2 DEF Aligned
<1>7. Starts(ChildSet, ChildSet', ChildKeys)
  <2>1. CASE child = <<>>
    <3>1. Fresh(ChildSet, ChildKeys, Depth, top.client, top.mode)  BY Zenon, <2>1, ChildSetIs
    <3>2. Fresh(ChildSet', ChildKeys, Depth', top'.client, top'.mode)
      BY Zenon, <1>5, <1>6, <2>1, ChildSetIsNext
    <3>3. Depth' = Depth + 1 /\ top'.client = top.client /\ top'.mode = top.mode
      BY Zenon, <1>1 DEF Starts, Depth
    <3>4. Fresh(ChildSet', ChildKeys, Depth + 1, top.client, top.mode)  BY Zenon, <3>2, <3>3
    <3>5. Depth \in Nat  BY Zenon, BelongsIs
    <3> QED  BY ONLY Zenon, Laws, <3>1, <3>4, <3>5 DEF Laws, FreshStartLaw
  <2>2. CASE child # <<>>
    <3>1. ChildSet = child[1] /\ ChildSet' = child'[1]  BY Zenon, <1>4, <2>2 DEF ChildSet
    <3> QED  BY Zenon, <1>4, <2>2, <3>1
  <2> QED  BY Zenon, <2>1, <2>2
<1> QED  BY Zenon, <1>1, <1>6, <1>7

(* OverlayedChanges::start_transaction *)
LEMMA StartStep ==
  ASSUME Laws, ViewsInv, StartTransaction, Nested!Start
  PROVE  ViewsInv' /\ Stays
<1>1. Aligned /\ Backed /\ Views = stack /\ Modes /\ Cached  BY Zenon DEF ViewsInv
<1>2. /\ Aligned' /\ Starts(top, top', TopKeys) /\ Starts(ChildSet, ChildSet', ChildKeys)
      /\ Starts(offchain, offchain', OffKeys)
  BY Zenon, <1>1, StartsAll
<1>3. Depth' = Depth + 1 /\ top'.client = top.client /\ top'.mode = top.mode
  BY Zenon, <1>2 DEF Starts, Depth
<1>4. cache' = cache /\ backend' = backend  BY Zenon DEF StartTransaction
<1>5. stack' = Append(stack, Nested!Top) /\ mode' = mode /\ client' = client  BY Zenon DEF Nested!Start
<1>7. ASSUME NEW k \in Keys
      PROVE  /\ \A d \in 0..Depth : Val(k, d)' = Val(k, d)
             /\ Val(k, Depth)' = Val(k, Depth)
  <2>0. PICK K : k \in K /\ Within(k, K) /\ Len(SetOf(k).dirty) = Depth  BY Zenon, <1>1, WithinIs
  <2>1. Starts(SetOf(k), SetOf(k)', K)  BY Zenon, <1>2, <2>0 DEF Within
  <2>2. \A b : ValueIn(SetOf(k)', k, b, Depth + 1) = ValueIn(SetOf(k), k, b, Depth)
    BY Zenon, <2>0, <2>1 DEF Starts
  <2>3. \A b : \A d \in 0..Depth : ValueIn(SetOf(k)', k, b, d) = ValueIn(SetOf(k), k, b, d)
    BY Zenon, <2>0, <2>1 DEF Starts
  <2> QED  BY Zenon, <1>3, <1>4, <2>2, <2>3 DEF Val
<1>8. Views' = stack' /\ Root' = Root
  BY Zenon, <1>1, <1>2, <1>3, <1>5, <1>7, StartedViews
<1>9. Modes'
  <2>1. Depth \in Nat /\ top.client \in Nat  BY Zenon, <1>1, BelongsIs
  <2>2. top.client <= Depth => top.client <= Depth + 1  BY <2>1
  <2> QED  BY Zenon, <1>1, <1>3, <1>5, <2>2 DEF Modes
<1> QED  BY Zenon, <1>1, <1>2, <1>4, <1>8, <1>9 DEF ViewsInv, Backed, Cached, Stays, RootFresh

(* The change sets have transactions open together. *)
LEMMA OpenTogether ==
  ASSUME Laws, Aligned, Depth > 0
  PROVE  top.dirty # <<>> /\ offchain.dirty # <<>> /\ (child # <<>> => child[1].dirty # <<>>)
<1>1. Depth \in Nat  BY Zenon, BelongsIs
<1>2. Depth # 0 /\ Len(<<>>) = 0  BY <1>1
<1> QED  BY Zenon, <1>2 DEF Aligned, Alongside, Depth

(* The change sets commit together. *)
LEMMA CommitsAll ==
  ASSUME Laws, Aligned, Depth > 0, CommitTransaction
  PROVE  /\ Aligned' /\ Commits(top, top', TopKeys) /\ Commits(ChildSet, ChildSet', ChildKeys)
         /\ Commits(offchain, offchain', OffKeys)
<1>1. Commits(top, top', TopKeys) /\ Commits(offchain, offchain', OffKeys)
  BY Zenon, OpenTogether DEF Laws, CommitLaw, Aligned, CommitTransaction
<1>2. child' = [i \in DOMAIN child |-> commit_transaction(child[i])]  BY Zenon DEF CommitTransaction
<1>3. child' = [i \in DOMAIN child |-> child'[i]]  BY Zenon, <1>2
<1>4. child # <<>> => child' = <<child'[1]>> /\ child' # <<>> /\ Commits(child[1], child'[1], ChildKeys)
  <2> SUFFICES ASSUME child # <<>>
               PROVE  child' = <<child'[1]>> /\ child' # <<>> /\ Commits(child[1], child'[1], ChildKeys)
    BY Zenon
  <2>1. child = <<child[1]>> /\ Sound(child[1], ChildKeys)  BY Zenon DEF Aligned
  <2>2. child' = <<child'[1]>> /\ 1 \in DOMAIN child /\ child' # <<>>  BY Zenon, <1>3, <2>1, OneOf
  <2>3. child'[1] = commit_transaction(child[1])  BY Zenon, <1>2, <2>2
  <2>4. child[1].dirty # <<>>  BY Zenon, OpenTogether
  <2> QED  BY Zenon, <2>1, <2>2, <2>3, <2>4 DEF Laws, CommitLaw
<1>5. child = <<>> => child' = <<>>  BY Zenon, <1>3, NoneOf
<1>6. Aligned'
  <2>1. Sound(top', TopKeys) /\ Sound(offchain', OffKeys) /\ Alongside(offchain', top')
    BY Zenon, <1>1 DEF Commits, Aligned, Alongside
  <2>2. child' # <<>> =>
          child' = <<child'[1]>> /\ Sound(child'[1], ChildKeys) /\ Alongside(child'[1], top')
    BY Zenon, <1>1, <1>4, <1>5 DEF Commits, Aligned, Alongside
  <2> QED  BY Zenon, <2>1, <2>2 DEF Aligned
<1>7. Commits(ChildSet, ChildSet', ChildKeys)
  <2>1. CASE child = <<>>
    <3>1. Fresh(ChildSet, ChildKeys, Depth, top.client, top.mode)  BY Zenon, <2>1, ChildSetIs
    <3>2. Fresh(ChildSet', ChildKeys, Depth', top'.client, top'.mode)
      BY Zenon, <1>5, <1>6, <2>1, ChildSetIsNext
    <3>3. Depth' = Depth - 1 /\ top'.client = top.client /\ top'.mode = top.mode
      BY Zenon, <1>1 DEF Commits, Depth
    <3>4. Fresh(ChildSet', ChildKeys, Depth - 1, top.client, top.mode)  BY Zenon, <3>2, <3>3
    <3>5. Depth \in Nat  BY Zenon, BelongsIs
    <3>6. Depth > 0  OBVIOUS
    <3> QED  BY ONLY Zenon, Laws, <3>1, <3>4, <3>5, <3>6 DEF Laws, FreshCommitLaw
  <2>2. CASE child # <<>>
    <3>1. ChildSet = child[1] /\ ChildSet' = child'[1]  BY Zenon, <1>4, <2>2 DEF ChildSet
    <3> QED  BY Zenon, <1>4, <2>2, <3>1
  <2> QED  BY Zenon, <2>1, <2>2
<1> QED  BY Zenon, <1>1, <1>6, <1>7

(* The change sets enter the runtime together. *)
LEMMA EntersAll ==
  ASSUME Laws, Aligned, EnterRuntime
  PROVE  /\ Aligned' /\ Enters(top, top', TopKeys) /\ Enters(ChildSet, ChildSet', ChildKeys)
         /\ Enters(offchain, offchain', OffKeys)
<1>1. Enters(top, top', TopKeys) /\ Enters(offchain, offchain', OffKeys)
  BY Zenon DEF Laws, EnterLaw, Aligned, EnterRuntime
<1>2. child' = [i \in DOMAIN child |-> enter_runtime(child[i])]  BY Zenon DEF EnterRuntime
<1>3. child' = [i \in DOMAIN child |-> child'[i]]  BY Zenon, <1>2
<1>4. child # <<>> => child' = <<child'[1]>> /\ child' # <<>> /\ Enters(child[1], child'[1], ChildKeys)
  <2> SUFFICES ASSUME child # <<>>
               PROVE  child' = <<child'[1]>> /\ child' # <<>> /\ Enters(child[1], child'[1], ChildKeys)
    BY Zenon
  <2>1. child = <<child[1]>> /\ Sound(child[1], ChildKeys)  BY Zenon DEF Aligned
  <2>2. child' = <<child'[1]>> /\ 1 \in DOMAIN child /\ child' # <<>>  BY Zenon, <1>3, <2>1, OneOf
  <2>3. child'[1] = enter_runtime(child[1])  BY Zenon, <1>2, <2>2
  <2> QED  BY Zenon, <2>1, <2>2, <2>3 DEF Laws, EnterLaw
<1>5. child = <<>> => child' = <<>>  BY Zenon, <1>3, NoneOf
<1>6. Aligned'
  <2>1. Sound(top', TopKeys) /\ Sound(offchain', OffKeys) /\ Alongside(offchain', top')
    BY Zenon, <1>1 DEF Enters, Aligned, Alongside
  <2>2. child' # <<>> =>
          child' = <<child'[1]>> /\ Sound(child'[1], ChildKeys) /\ Alongside(child'[1], top')
    BY Zenon, <1>1, <1>4, <1>5 DEF Enters, Aligned, Alongside
  <2> QED  BY Zenon, <2>1, <2>2 DEF Aligned
<1>7. Enters(ChildSet, ChildSet', ChildKeys)
  <2>1. CASE child = <<>>
    <3>1. Fresh(ChildSet, ChildKeys, Depth, top.client, top.mode)  BY Zenon, <2>1, ChildSetIs
    <3>2. Fresh(ChildSet', ChildKeys, Depth', top'.client, top'.mode)
      BY Zenon, <1>5, <1>6, <2>1, ChildSetIsNext
    <3>3. Depth' = Depth /\ top'.client = Depth /\ top'.mode = "runtime"
      BY Zenon, <1>1 DEF Enters, Depth
    <3>4. Fresh(ChildSet', ChildKeys, Depth, Depth, "runtime")  BY Zenon, <3>2, <3>3
    <3>5. Depth \in Nat  BY Zenon, BelongsIs
    <3> QED  BY ONLY Zenon, Laws, <3>1, <3>4, <3>5 DEF Laws, FreshEnterLaw
  <2>2. CASE child # <<>>
    <3>1. ChildSet = child[1] /\ ChildSet' = child'[1]  BY Zenon, <1>4, <2>2 DEF ChildSet
    <3> QED  BY Zenon, <1>4, <2>2, <3>1
  <2> QED  BY Zenon, <2>1, <2>2
<1> QED  BY Zenon, <1>1, <1>6, <1>7

(* The change sets leave the runtime together. *)
LEMMA ExitsAll ==
  ASSUME Laws, Aligned, top.client <= Depth, ExitRuntime
  PROVE  /\ Aligned' /\ Exits(top, top', TopKeys) /\ Exits(ChildSet, ChildSet', ChildKeys)
         /\ Exits(offchain, offchain', OffKeys)
<1>1. Exits(top, top', TopKeys) /\ Exits(offchain, offchain', OffKeys)
  <2>1. Sound(top, TopKeys) /\ top.client <= Len(top.dirty)  BY Zenon DEF Aligned, Depth
  <2>2. Sound(offchain, OffKeys) /\ offchain.client <= Len(offchain.dirty)
    BY Zenon DEF Aligned, Alongside, Depth
  <2> QED  BY Zenon, <2>1, <2>2 DEF Laws, ExitLaw, ExitRuntime
<1>2. child' = [i \in DOMAIN child |-> exit_runtime(child[i])]  BY Zenon DEF ExitRuntime
<1>3. child' = [i \in DOMAIN child |-> child'[i]]  BY Zenon, <1>2
<1>4. child # <<>> => child' = <<child'[1]>> /\ child' # <<>> /\ Exits(child[1], child'[1], ChildKeys)
  <2> SUFFICES ASSUME child # <<>>
               PROVE  child' = <<child'[1]>> /\ child' # <<>> /\ Exits(child[1], child'[1], ChildKeys)
    BY Zenon
  <2>1. child = <<child[1]>> /\ Sound(child[1], ChildKeys)  BY Zenon DEF Aligned
  <2>2. child' = <<child'[1]>> /\ 1 \in DOMAIN child /\ child' # <<>>  BY Zenon, <1>3, <2>1, OneOf
  <2>3. child'[1] = exit_runtime(child[1])  BY Zenon, <1>2, <2>2
  <2>4. child[1].client <= Len(child[1].dirty)  BY Zenon DEF Aligned, Alongside, Depth
  <2> QED  BY Zenon, <2>1, <2>2, <2>3, <2>4 DEF Laws, ExitLaw
<1>5. child = <<>> => child' = <<>>  BY Zenon, <1>3, NoneOf
<1>6. Aligned'
  <2>1. Sound(top', TopKeys) /\ Sound(offchain', OffKeys) /\ Alongside(offchain', top')
    BY Zenon, <1>1 DEF Exits, Aligned, Alongside
  <2>2. child' # <<>> =>
          child' = <<child'[1]>> /\ Sound(child'[1], ChildKeys) /\ Alongside(child'[1], top')
    BY Zenon, <1>1, <1>4, <1>5 DEF Exits, Aligned, Alongside
  <2> QED  BY Zenon, <2>1, <2>2 DEF Aligned
<1>7. Exits(ChildSet, ChildSet', ChildKeys)
  <2>1. CASE child = <<>>
    <3>1. Fresh(ChildSet, ChildKeys, Depth, top.client, top.mode)  BY Zenon, <2>1, ChildSetIs
    <3>2. Fresh(ChildSet', ChildKeys, Depth', top'.client, top'.mode)
      BY Zenon, <1>5, <1>6, <2>1, ChildSetIsNext
    <3>3. Depth' = top.client /\ top'.client = top.client /\ top'.mode = "client"
      BY Zenon, <1>1 DEF Exits, Depth
    <3>4. Fresh(ChildSet', ChildKeys, top.client, top.client, "client")  BY Zenon, <3>2, <3>3
    <3>5. Depth \in Nat /\ top.client \in Nat  BY Zenon, BelongsIs
    <3>6. top.client \in 0..Depth  BY <3>5
    <3> QED  BY ONLY Zenon, Laws, <3>1, <3>4, <3>5, <3>6 DEF Laws, FreshExitLaw
  <2>2. CASE child # <<>>
    <3>1. ChildSet = child[1] /\ ChildSet' = child'[1]  BY Zenon, <1>4, <2>2 DEF ChildSet
    <3> QED  BY Zenon, <1>4, <2>2, <3>1
  <2> QED  BY Zenon, <2>1, <2>2
<1> QED  BY Zenon, <1>1, <1>6, <1>7

(* The change sets are rolled back together, and a child without changes is forgotten. *)
LEMMA RollsBackAll ==
  ASSUME Laws, Aligned, Depth > 0, top' = rollback_transaction(top), offchain' = rollback_transaction(offchain),
         child' = ChildRolledBack
  PROVE  /\ Aligned' /\ RollsBack(top, top', TopKeys) /\ RollsBack(ChildSet, ChildSet', ChildKeys)
         /\ RollsBack(offchain, offchain', OffKeys)
<1> DEFINE c == child[1]
           e == rollback_transaction(c)
<1>1. RollsBack(top, top', TopKeys) /\ RollsBack(offchain, offchain', OffKeys)
  BY Zenon, OpenTogether DEF Laws, RollbackLaw, Aligned
<1>2. child # <<>> => RollsBack(c, e, ChildKeys)
  BY Zenon, OpenTogether DEF Laws, RollbackLaw, Aligned
<1>3. child' = IF child = <<>> \/ DOMAIN e.changes = {} THEN <<>> ELSE <<e>>
  BY Zenon DEF ChildRolledBack
<1> HIDE DEF e
<1>4. <<e>>[1] = e /\ <<e>> # <<>>  OBVIOUS
<1>5. child' # <<>> => child # <<>> /\ child' = <<child'[1]>> /\ child'[1] = e
  BY Zenon, <1>3, <1>4
<1>6. Aligned'
  <2>1. Sound(top', TopKeys) /\ Sound(offchain', OffKeys) /\ Alongside(offchain', top')
    BY Zenon, <1>1 DEF RollsBack, Aligned, Alongside
  <2>2. child' # <<>> =>
          child' = <<child'[1]>> /\ Sound(child'[1], ChildKeys) /\ Alongside(child'[1], top')
    BY Zenon, <1>1, <1>2, <1>5 DEF RollsBack, Aligned, Alongside
  <2> QED  BY Zenon, <2>1, <2>2 DEF Aligned
<1>7. Depth \in Nat /\ Depth > 0  BY Zenon, BelongsIs
<1>8. Depth' = Depth - 1 /\ top'.client = top.client /\ top'.mode = top.mode
  BY Zenon, <1>1 DEF RollsBack, Depth
<1>9. child' = <<>> => Fresh(ChildSet', ChildKeys, Depth - 1, top.client, top.mode)
  BY Zenon, <1>6, <1>8, ChildSetIsNext
<1>10. RollsBack(ChildSet, ChildSet', ChildKeys)
  <2>1. CASE child = <<>>
    <3>1. Fresh(ChildSet, ChildKeys, Depth, top.client, top.mode)  BY Zenon, <2>1, ChildSetIs
    <3>2. Fresh(ChildSet', ChildKeys, Depth - 1, top.client, top.mode)  BY Zenon, <1>3, <1>9, <2>1
    <3> QED  BY ONLY Zenon, Laws, <1>7, <3>1, <3>2 DEF Laws, FreshRollbackLaw
  <2>2. CASE child # <<>> /\ child' = <<>>
    <3>1. ChildSet = c /\ Len(c.dirty) = Depth /\ c.client = top.client /\ c.mode = top.mode
      BY Zenon, <2>2 DEF ChildSet, Aligned, Alongside, Depth
    <3>2. Fresh(ChildSet', ChildKeys, Len(c.dirty) - 1, c.client, c.mode)  BY Zenon, <1>9, <2>2, <3>1
    <3>3. RollsBack(c, e, ChildKeys) /\ DOMAIN e.changes = {}  BY Zenon, <1>2, <1>3, <1>4, <2>2
    <3> HIDE DEF c
    <3>4. RollsBack(c, ChildSet', ChildKeys)  BY ONLY Zenon, Laws, <3>2, <3>3 DEF Laws, ForgetLaw
    <3> QED  BY Zenon, <3>1, <3>4
  <2>3. CASE child' # <<>>
    <3>1. ChildSet = c /\ ChildSet' = e  BY Zenon, <1>5, <2>3 DEF ChildSet
    <3> QED  BY Zenon, <1>2, <1>5, <2>3, <3>1
  <2> QED  BY Zenon, <2>1, <2>2, <2>3
<1> QED  BY Zenon, <1>1, <1>6, <1>10

(* OverlayedChanges::commit_transaction *)
LEMMA CommitStep ==
  ASSUME Laws, ViewsInv, CommitTransaction, Nested!Commit
  PROVE  ViewsInv' /\ Stays
<1>1. Aligned /\ Backed /\ Views = stack /\ Modes /\ Cached  BY Zenon DEF ViewsInv
<1>2. Depth > 0 /\ (mode = "runtime" => top.client <= Depth - 1)
  BY Zenon, <1>1, MayCloseIs DEF CommitTransaction
<1>3. /\ Aligned' /\ Commits(top, top', TopKeys) /\ Commits(ChildSet, ChildSet', ChildKeys)
      /\ Commits(offchain, offchain', OffKeys)
  BY Zenon, <1>1, <1>2, CommitsAll
<1>4. Depth' = Depth - 1 /\ top'.client = top.client /\ top'.mode = top.mode
  BY Zenon, <1>3 DEF Commits, Depth
<1>5. cache' = cache /\ backend' = backend  BY Zenon DEF CommitTransaction
<1>6. stack' = Append(SubSeq(stack, 1, Depth - 1), Nested!Top) /\ mode' = mode /\ client' = client
  BY Zenon, <1>1, StackOf DEF Nested!Commit
<1>7. ASSUME NEW k \in Keys
      PROVE  /\ \A d \in 0..(Depth - 1) : d # Depth - 1 => Val(k, d)' = Val(k, d)
             /\ Val(k, Depth)' = Val(k, Depth)
  <2>0. PICK K : k \in K /\ Within(k, K) /\ Len(SetOf(k).dirty) = Depth  BY Zenon, <1>1, WithinIs
  <2>1. Commits(SetOf(k), SetOf(k)', K)  BY Zenon, <1>3, <2>0 DEF Within
  <2>2. \A b : ValueIn(SetOf(k)', k, b, Depth - 1) = ValueIn(SetOf(k), k, b, Depth)
    BY Zenon, <2>0, <2>1 DEF Commits
  <2>3. \A b : \A d \in 0..(Depth - 1) :
           d # Depth - 1 => ValueIn(SetOf(k)', k, b, d) = ValueIn(SetOf(k), k, b, d)
    BY Zenon, <2>0, <2>1 DEF Commits
  <2> QED  BY Zenon, <1>4, <1>5, <2>2, <2>3 DEF Val
<1>8. Views' = stack' /\ Root' = Root
  BY Zenon, <1>1, <1>2, <1>3, <1>4, <1>6, <1>7, CommittedViews
<1>9. Modes'  BY Zenon, <1>1, <1>2, <1>4, <1>6 DEF Modes
<1> QED  BY Zenon, <1>1, <1>3, <1>5, <1>8, <1>9 DEF ViewsInv, Backed, Cached, Stays, RootFresh

(* OverlayedChanges::rollback_transaction, of a transaction that may be closed. *)
LEMMA RollbackStep ==
  ASSUME Laws, ViewsInv, RollbackTransaction, MayClose(top), Nested!Rollback
  PROVE  ViewsInv' /\ Stays
<1>1. Aligned /\ Backed /\ Views = stack /\ Modes /\ Cached  BY Zenon DEF ViewsInv
<1>2. Depth > 0 /\ (mode = "runtime" => top.client <= Depth - 1)  BY Zenon, <1>1, MayCloseIs
<1>3. /\ Aligned' /\ RollsBack(top, top', TopKeys) /\ RollsBack(ChildSet, ChildSet', ChildKeys)
      /\ RollsBack(offchain, offchain', OffKeys)
  BY Zenon, <1>1, <1>2, RollsBackAll DEF RollbackTransaction
<1>4. Depth' = Depth - 1 /\ top'.client = top.client /\ top'.mode = top.mode
  BY Zenon, <1>3 DEF RollsBack, Depth
<1>5. cache' = <<>> /\ backend' = backend  BY Zenon DEF RollbackTransaction
<1>6. stack' = SubSeq(stack, 1, Depth) /\ mode' = mode /\ client' = client
  BY Zenon, <1>1, StackOf DEF Nested!Rollback
<1>7. ASSUME NEW k \in Keys PROVE \A d \in 0..(Depth - 1) : Val(k, d)' = Val(k, d)
  <2>0. PICK K : k \in K /\ Within(k, K) /\ Len(SetOf(k).dirty) = Depth  BY Zenon, <1>1, WithinIs
  <2>1. RollsBack(SetOf(k), SetOf(k)', K)  BY Zenon, <1>3, <2>0 DEF Within
  <2>3. \A b : \A d \in 0..(Depth - 1) : ValueIn(SetOf(k)', k, b, d) = ValueIn(SetOf(k), k, b, d)
    BY Zenon, <2>0, <2>1 DEF RollsBack
  <2> QED  BY Zenon, <1>5, <2>3 DEF Val
<1>8. Views' = stack'
  <2>1. Depth \in Nat  BY Zenon, <1>1, BelongsIs
  <2>2. Depth - 1 \in Nat /\ Depth - 1 <= Depth /\ (Depth - 1) + 1 = Depth  BY <1>2, <2>1
  <2>3. stack' = SubSeq(stack, 1, (Depth - 1) + 1)  BY Zenon, <1>6, <2>2
  <2> QED  BY Zenon, <1>1, <1>3, <1>4, <1>7, <2>2, <2>3, LowerViews
<1>9. Modes'  BY Zenon, <1>1, <1>2, <1>4, <1>6 DEF Modes
<1> QED  BY Zenon, <1>1, <1>3, <1>5, <1>8, <1>9 DEF ViewsInv, Backed, Cached, Stays, RootFresh

(* OverlayedChanges::enter_runtime *)
LEMMA EnterStep ==
  ASSUME Laws, ViewsInv, EnterRuntime, Nested!Enter
  PROVE  ViewsInv' /\ Stays
<1>1. Aligned /\ Backed /\ Views = stack /\ Modes /\ Cached  BY Zenon DEF ViewsInv
<1>2. /\ Aligned' /\ Enters(top, top', TopKeys) /\ Enters(ChildSet, ChildSet', ChildKeys)
      /\ Enters(offchain, offchain', OffKeys)
  BY Zenon, <1>1, EntersAll
<1>3. Depth' = Depth /\ top'.client = Depth /\ top'.mode = "runtime"
  BY Zenon, <1>2 DEF Enters, Depth
<1>4. cache' = cache /\ backend' = backend  BY Zenon DEF EnterRuntime
<1>5. stack' = stack /\ mode' = "runtime" /\ client' = Depth  BY Zenon, <1>1, StackOf DEF Nested!Enter
<1>6. ASSUME NEW k \in Keys PROVE \A d \in 0..Depth : Val(k, d)' = Val(k, d)
  <2>0. PICK K : k \in K /\ Within(k, K) /\ Len(SetOf(k).dirty) = Depth  BY Zenon, <1>1, WithinIs
  <2>1. Enters(SetOf(k), SetOf(k)', K)  BY Zenon, <1>2, <2>0 DEF Within
  <2>3. \A b : \A d \in 0..Depth : ValueIn(SetOf(k)', k, b, d) = ValueIn(SetOf(k), k, b, d)
    BY Zenon, <2>0, <2>1 DEF Enters
  <2> QED  BY Zenon, <1>4, <2>3 DEF Val
<1>7. Views' = stack' /\ Root' = Root  BY Zenon, <1>1, <1>2, <1>3, <1>5, <1>6, SameViews
<1>8. Modes'
  <2>1. Depth \in Nat  BY Zenon, <1>1, BelongsIs
  <2>2. Depth <= Depth  BY <2>1
  <2>3. "runtime" # "client"  OBVIOUS
  <2> QED  BY Zenon, <1>3, <1>5, <2>2, <2>3 DEF Modes
<1> QED  BY Zenon, <1>1, <1>2, <1>4, <1>7, <1>8 DEF ViewsInv, Backed, Cached, Stays, RootFresh

(* OverlayedChanges::exit_runtime *)
LEMMA ExitStep ==
  ASSUME Laws, ViewsInv, ExitRuntime, Nested!Exit
  PROVE  ViewsInv' /\ (has_open_runtime_transactions(top) \/ Stays)
<1>1. Aligned /\ Backed /\ Views = stack /\ Modes /\ Cached  BY Zenon DEF ViewsInv
<1>2. mode = "runtime" /\ top.client = client /\ top.client <= Depth
  BY Zenon, <1>1 DEF Modes, ExitRuntime
<1>3. /\ Aligned' /\ Exits(top, top', TopKeys) /\ Exits(ChildSet, ChildSet', ChildKeys)
      /\ Exits(offchain, offchain', OffKeys)
  BY Zenon, <1>1, <1>2, ExitsAll
<1>4. Depth' = top.client /\ top'.client = top.client /\ top'.mode = "client"
  BY Zenon, <1>3 DEF Exits, Depth
<1>5. cache' = cache /\ backend' = backend  BY Zenon DEF ExitRuntime
<1>6. stack' = SubSeq(stack, 1, top.client + 1) /\ mode' = "client" /\ client' = 0
  BY Zenon, <1>2 DEF Nested!Exit
<1>7. ASSUME NEW k \in Keys PROVE \A d \in 0..top.client : Val(k, d)' = Val(k, d)
  <2>0. PICK K : k \in K /\ Within(k, K) /\ SetOf(k).client = top.client  BY Zenon, <1>1, WithinIs
  <2>1. Exits(SetOf(k), SetOf(k)', K)  BY Zenon, <1>3, <2>0 DEF Within
  <2>3. \A b : \A d \in 0..top.client : ValueIn(SetOf(k)', k, b, d) = ValueIn(SetOf(k), k, b, d)
    BY Zenon, <2>0, <2>1 DEF Exits
  <2> QED  BY Zenon, <1>5, <2>3 DEF Val
<1>8. Depth \in Nat /\ top.client \in Nat  BY Zenon, <1>1, BelongsIs
<1>9. Views' = stack'  BY Zenon, <1>1, <1>2, <1>3, <1>4, <1>6, <1>7, <1>8, LowerViews
<1>10. Modes'
  <2>1. "client" # "runtime"  OBVIOUS
  <2> QED  BY Zenon, <1>4, <1>6, <2>1 DEF Modes
<1>11. ASSUME ~ has_open_runtime_transactions(top) PROVE Stays
  <2>1. top.client = Depth
    BY <1>2, <1>8, <1>11 DEF has_open_runtime_transactions, transaction_depth, Depth
  <2>2. ASSUME NEW k \in TopKeys \cup ChildKeys PROVE (Val(k, Depth))' = Val(k, Depth)
    <3>1. k \in Keys  BY Zenon, SetOfIs
    <3>2. top.client \in 0..top.client  BY <1>8
    <3>3. Val(k, top.client)' = Val(k, top.client)
      <4> DEFINE n == top.client
      <4> QED  BY Zenon, <1>4, <1>7, <3>1, <3>2 DEF Val
    <3>4. Depth' = top'.client  BY Zenon, <1>4
    <3>5. Val(k, Depth)' = Val(k, top.client)'  BY Zenon, <3>4 DEF Val
    <3> QED  BY Zenon, <2>1, <3>3, <3>5
  <2>3. Root' = Root  BY Zenon, <1>1, <1>3, <2>2, RootIs, RootNext
  <2> QED  BY Zenon, <1>5, <2>3 DEF Stays, RootFresh
<1> QED  BY Zenon, <1>1, <1>3, <1>5, <1>9, <1>10, <1>11 DEF ViewsInv, Backed, Cached

-----------------------------------------------------------------------------
(* The writes. *)

\* The three change sets, in these terms
AltersAll(S) ==
  /\ Aligned' /\ Alters(top, top', S, TopKeys) /\ Alters(ChildSet, ChildSet', S, ChildKeys)
  /\ Alters(offchain, offchain', S, OffKeys)

(* A change set that is left alone. *)
LEMMA AltersSelf ==
  ASSUME NEW K, NEW cs, Sound(cs, K), NEW S
  PROVE  Alters(cs, cs, S, K)
BY Zenon DEF Alters, Alongside

(* A step that changes the main trie alone. *)
LEMMA OnlyTop ==
  ASSUME Laws, Aligned, NEW S, Alters(top, top', S, TopKeys), child' = child, offchain' = offchain
  PROVE  AltersAll(S)
<1>1. Sound(top', TopKeys) /\ Alongside(top', top)  BY Zenon DEF Alters
<1>2. Aligned'  BY Zenon, <1>1 DEF Aligned, Alongside
<1>3. top \in ChangeSets(TopKeys) /\ top' \in ChangeSets(TopKeys)  BY Zenon, <1>1 DEF Sound, Aligned
<1>4. spawn_child(top') = spawn_child(top)  BY Zenon, <1>1, <1>3 DEF Laws, SpawnSameLaw
<1>5. ChildSet' = ChildSet  BY Zenon, <1>4 DEF ChildSet
<1>6. Alters(ChildSet, ChildSet', S, ChildKeys)  BY Zenon, <1>5, ChildSetIs, AltersSelf
<1>7. Alters(offchain, offchain', S, OffKeys)  BY Zenon, AltersSelf DEF Aligned
<1> QED  BY Zenon, <1>2, <1>6, <1>7 DEF AltersAll

(* A step that changes the child trie alone. *)
LEMMA OnlyChild ==
  ASSUME Laws, Aligned, NEW S, NEW x, Alters(ChildSet, x, S, ChildKeys), child' = <<x>>, top' = top,
         offchain' = offchain
  PROVE  AltersAll(S) /\ ChildSet' = x
<1>1. Sound(x, ChildKeys) /\ Alongside(x, ChildSet)  BY Zenon DEF Alters
<1>2. <<x>>[1] = x /\ <<x>> # <<>>  OBVIOUS
<1>3. Alongside(ChildSet, top)  BY Zenon, ChildSetIs
<1>4. Aligned'  BY Zenon, <1>1, <1>2, <1>3 DEF Aligned, Alongside
<1>5. ChildSet' = x  BY Zenon, <1>2 DEF ChildSet
<1>6. Alters(top, top', S, TopKeys) /\ Alters(offchain, offchain', S, OffKeys)
  BY Zenon, AltersSelf DEF Aligned
<1> QED  BY Zenon, <1>4, <1>5, <1>6 DEF AltersAll

(* A step that changes the offchain database alone. *)
LEMMA OnlyOffchain ==
  ASSUME Laws, Aligned, NEW S, Alters(offchain, offchain', S, OffKeys), child' = child, top' = top
  PROVE  AltersAll(S)
<1>1. Sound(offchain', OffKeys) /\ Alongside(offchain', offchain)  BY Zenon DEF Alters
<1>2. Aligned'  BY Zenon, <1>1 DEF Aligned, Alongside
<1>3. ChildSet' = ChildSet  BY Zenon DEF ChildSet
<1>4. Alters(ChildSet, ChildSet', S, ChildKeys)  BY Zenon, <1>3, ChildSetIs, AltersSelf
<1>5. Alters(top, top', S, TopKeys)  BY Zenon, AltersSelf DEF Aligned
<1> QED  BY Zenon, <1>2, <1>4, <1>5 DEF AltersAll

(* What is left of every view. *)
LEMMA Altered ==
  ASSUME Laws, Aligned, NEW S, AltersAll(S), backend' = backend
  PROVE  /\ Depth' = Depth /\ top'.client = top.client /\ top'.mode = top.mode
         /\ \A k \in Keys : \A d \in 0..Depth : k \notin S \/ d # Depth => Val(k, d)' = Val(k, d)
<1>1. Depth' = Depth /\ top'.client = top.client /\ top'.mode = top.mode
  BY Zenon DEF AltersAll, Alters, Alongside, Depth
<1>2. ASSUME NEW k \in Keys, NEW d \in 0..Depth, k \notin S \/ d # Depth PROVE Val(k, d)' = Val(k, d)
  <2>1. PICK K : k \in K /\ Within(k, K) /\ Len(SetOf(k).dirty) = Depth  BY Zenon, WithinIs
  <2>2. Alters(SetOf(k), SetOf(k)', S, K)  BY Zenon, <2>1 DEF Within, AltersAll
  <2>3. \A b : ValueIn(SetOf(k)', k, b, d) = ValueIn(SetOf(k), k, b, d)
    BY Zenon, <1>2, <2>1, <2>2 DEF Alters
  <2> QED  BY Zenon, <2>3 DEF Val
<1> QED  BY Zenon, <1>1, <1>2

(* A write of one key is that of NestedStorage. *)
LEMMA PutStep ==
  ASSUME Laws, ViewsInv, NEW k \in Keys, NEW v, AltersAll({k}), backend' = backend, Nested!Put(k, v),
         ValueIn(SetOf(k)', k, backend[k], Depth) = v,
         cache' = <<>> \/ cache' = cache
  PROVE  ViewsInv' /\ (cache' = <<>> \/ k \in OffKeys => Stays)
<1> DEFINE n == Depth
           f == View(n + 1)
           g == [f EXCEPT ![k] = v]
<1>1. Aligned /\ Backed /\ Views = stack /\ Modes /\ Cached  BY Zenon DEF ViewsInv
<1>2. Aligned'  BY Zenon DEF AltersAll
<1>3. /\ Depth' = Depth /\ top'.client = top.client /\ top'.mode = top.mode
      /\ \A l \in Keys : \A d \in 0..Depth : l \notin {k} \/ d # Depth => Val(l, d)' = Val(l, d)
  BY Zenon, <1>1, Altered
<1>4. n \in Nat /\ stack = [i \in 1..(n + 1) |-> View(i)] /\ Len(stack) = n + 1  BY Zenon, <1>1, StackOf
<1>5. (n + 1) - 1 = n /\ n \in 0..n /\ n + 1 \in 1..(n + 1)  BY <1>4
<1>6. stack' = [stack EXCEPT ![Len(stack)] = g]
  <2>1. stack[n + 1] = f  BY Zenon, <1>4, <1>5
  <2>2. stack' = [stack EXCEPT ![n + 1] = [stack[n + 1] EXCEPT ![k] = v]]
    BY Zenon, <1>4 DEF Nested!Put
  <2> QED  BY Zenon, <1>4, <2>1, <2>2
<1>7. g = [l \in Keys |-> Val(l, Depth)']
  <2>1. f = [l \in Keys |-> Val(l, n)]  BY Zenon, <1>5 DEF View
  <2>2. g = [l \in Keys |-> IF l = k THEN v ELSE Val(l, n)]  BY Zenon, <2>1
  <2>3. ASSUME NEW l \in Keys PROVE Val(l, Depth)' = IF l = k THEN v ELSE Val(l, n)
    <3>1. CASE l = k  BY Zenon, <1>3, <3>1 DEF Val
    <3>2. CASE l # k
      <4>1. ValueIn(SetOf(l)', l, backend'[l], n) = Val(l, n)  BY Zenon, <1>3, <1>5, <3>2 DEF Val
      <4> QED  BY Zenon, <1>3, <3>2, <4>1 DEF Val
    <3> QED  BY Zenon, <3>1, <3>2
  <2> QED  BY Zenon, <2>2, <2>3
<1> HIDE DEF g
<1>8. Views' = stack'  BY Zenon, <1>1, <1>2, <1>3, <1>6, <1>7, TopViews
<1>9. mode' = mode /\ client' = client  BY Zenon DEF Nested!Put
<1>10. Modes'  BY Zenon, <1>1, <1>3, <1>9 DEF Modes
<1>11. ASSUME cache' = <<>> \/ k \in OffKeys PROVE Stays
  <2>1. CASE cache' = <<>>  BY Zenon, <2>1 DEF Stays, RootFresh
  <2>2. CASE cache' = cache /\ k \in OffKeys
    <3>1. ASSUME NEW l \in TopKeys \cup ChildKeys PROVE (Val(l, Depth))' = Val(l, Depth)
      <4>1. l \in Keys /\ l # k  BY Zenon, <2>2, SetOfIs
      <4>2. ValueIn(SetOf(l)', l, backend'[l], n) = Val(l, n)  BY Zenon, <1>3, <1>5, <4>1 DEF Val
      <4> QED  BY Zenon, <1>3, <4>2 DEF Val
    <3>2. Root' = Root  BY Zenon, <1>1, <1>2, <3>1, RootIs, RootNext
    <3> QED  BY Zenon, <2>2, <3>2 DEF Stays, RootFresh
  <2> QED  BY Zenon, <1>11, <2>1, <2>2
<1> QED  BY Zenon, <1>1, <1>2, <1>8, <1>10, <1>11 DEF ViewsInv, Backed, Cached

(* So is a removal of many. *)
LEMMA ClearStep ==
  ASSUME Laws, ViewsInv, NEW S, NEW T, AltersAll(T), T \subseteq S, backend' = backend, Nested!Clear(S),
         \A k \in Keys : k \in S => ValueIn(SetOf(k)', k, backend[k], Depth) = <<>>,
         cache' = <<>>
  PROVE  ViewsInv' /\ Stays
<1> DEFINE n == Depth
           f == View(n + 1)
           g == [l \in Keys |-> IF l \in S THEN <<>> ELSE f[l]]
<1>1. Aligned /\ Backed /\ Views = stack /\ Modes /\ Cached  BY Zenon DEF ViewsInv
<1>2. Aligned'  BY Zenon DEF AltersAll
<1>3. /\ Depth' = Depth /\ top'.client = top.client /\ top'.mode = top.mode
      /\ \A l \in Keys : \A d \in 0..Depth : l \notin T \/ d # Depth => Val(l, d)' = Val(l, d)
  BY Zenon, <1>1, Altered
<1>4. n \in Nat /\ stack = [i \in 1..(n + 1) |-> View(i)] /\ Len(stack) = n + 1  BY Zenon, <1>1, StackOf
<1>5. (n + 1) - 1 = n /\ n \in 0..n /\ n + 1 \in 1..(n + 1)  BY <1>4
<1>6. stack' = [stack EXCEPT ![Len(stack)] = g]
  <2>1. stack[n + 1] = f  BY Zenon, <1>4, <1>5
  <2>2. stack' = [stack EXCEPT ![n + 1] = [l \in Keys |-> IF l \in S THEN <<>> ELSE stack[n + 1][l]]]
    BY Zenon, <1>4 DEF Nested!Clear
  <2> QED  BY Zenon, <1>4, <2>1, <2>2
<1>7. g = [l \in Keys |-> Val(l, Depth)']
  <2>1. \A l \in Keys : f[l] = Val(l, n)  BY Zenon, <1>5 DEF View
  <2>2. ASSUME NEW l \in Keys PROVE Val(l, Depth)' = IF l \in S THEN <<>> ELSE f[l]
    <3>1. CASE l \in S  BY Zenon, <1>3, <3>1 DEF Val
    <3>2. CASE l \notin S
      <4>1. l \notin T  BY Zenon, <3>2
      <4>2. ValueIn(SetOf(l)', l, backend'[l], n) = Val(l, n)  BY Zenon, <1>3, <1>5, <4>1 DEF Val
      <4> QED  BY Zenon, <1>3, <2>1, <3>2, <4>2 DEF Val
    <3> QED  BY Zenon, <3>1, <3>2
  <2> QED  BY Zenon, <2>2
<1> HIDE DEF g
<1>8. Views' = stack'  BY Zenon, <1>1, <1>2, <1>3, <1>6, <1>7, TopViews
<1>9. mode' = mode /\ client' = client  BY Zenon DEF Nested!Clear
<1>10. Modes'  BY Zenon, <1>1, <1>3, <1>9 DEF Modes
<1> QED  BY Zenon, <1>1, <1>2, <1>8, <1>10 DEF ViewsInv, Backed, Cached, Stays, RootFresh

(* A step that shows nothing new. *)
LEMMA SameStep ==
  ASSUME Laws, ViewsInv, AltersAll({}), backend' = backend, same,
         cache' = <<>> \/ cache' = cache \/ cache' = <<Root>>
  PROVE  ViewsInv' /\ Stays
<1>1. Aligned /\ Backed /\ Views = stack /\ Modes /\ Cached  BY Zenon DEF ViewsInv
<1>2. Aligned'  BY Zenon DEF AltersAll
<1>3. /\ Depth' = Depth /\ top'.client = top.client /\ top'.mode = top.mode
      /\ \A l \in Keys : \A d \in 0..Depth : l \notin {} \/ d # Depth => Val(l, d)' = Val(l, d)
  <2> DEFINE E == {}
  <2>1. AltersAll(E)  OBVIOUS
  <2> HIDE DEF E
  <2>2. /\ Depth' = Depth /\ top'.client = top.client /\ top'.mode = top.mode
        /\ \A l \in Keys : \A d \in 0..Depth : l \notin E \/ d # Depth => Val(l, d)' = Val(l, d)
    BY Zenon, <1>1, <2>1, Altered
  <2> QED  BY <2>2 DEF E
<1>4. stack' = stack /\ mode' = mode /\ client' = client  BY Zenon DEF same
<1>5. \A l \in Keys : \A d \in 0..Depth : Val(l, d)' = Val(l, d)
  <2>1. \A l \in Keys : l \notin {}  OBVIOUS
  <2> QED  BY Zenon, <1>3, <2>1
<1>6. Views' = stack' /\ Root' = Root  BY Zenon, <1>1, <1>2, <1>3, <1>4, <1>5, SameViews
<1>7. Modes'  BY Zenon, <1>1, <1>3, <1>4 DEF Modes
<1>8. <<Root>>[1] = Root  OBVIOUS
<1>9. Cached' /\ Stays
  <2>1. CASE cache' = <<>>  BY Zenon, <2>1 DEF Cached, Stays, RootFresh
  <2>2. CASE cache' = cache  BY Zenon, <1>1, <1>6, <2>2 DEF Cached, Stays, RootFresh
  <2>3. CASE cache' = <<Root>>
    <3>1. cache'[1] = Root /\ Root' = Root  BY Zenon, <1>6, <1>8, <2>3
    <3> QED  BY Zenon, <1>1, <3>1, RootValues DEF Cached, Stays, RootFresh
  <2> QED  BY Zenon, <2>1, <2>2, <2>3
<1> QED  BY Zenon, <1>1, <1>2, <1>6, <1>7, <1>9 DEF ViewsInv, Backed

(* An optional value as an entry. *)
LEMMA AsEntryIs ==
  ASSUME Laws, NEW v, IsOption(v)
  PROVE  AsEntry(v) \in Entries /\ AsEntry(v).tag # "append" /\ Shown(AsEntry(v)) = v
<1>1. CASE v = <<>>  BY Zenon, <1>1 DEF Laws, RemovedLaw, AsEntry
<1>2. CASE v # <<>>
  <2> DEFINE d == v[1]
             e == SetEntry(d)
  <2>1. v \in Seq(Seq(Bytes)) /\ Len(v) = 1 /\ WellCoded(d)  BY Zenon, <1>2 DEF IsOption
  <2>2. d \in Seq(Bytes)  BY Zenon, <2>1 DEF WellCoded
  <2>3. v = <<d>>  BY ONLY <2>1
  <2>4. AsEntry(v) = e  BY Zenon, <1>2 DEF AsEntry
  <2> HIDE DEF d
  <2>5. e \in Sets /\ e.tag = "set" /\ e.data = d  BY <2>1, <2>2 DEF SetEntry, Sets, Data
  <2> HIDE DEF e
  <2>6. e \in Entries /\ e.tag # "append"  BY Zenon, <2>5 DEF Entries
  <2>7. Shown(e) = IF e.tag = "set" THEN <<e.data>> ELSE <<>>  BY Zenon, <2>6 DEF Laws, PlainLaw
  <2>8. Shown(e) = v  BY Zenon, <2>3, <2>5, <2>7
  <2> QED  BY Zenon, <2>4, <2>6, <2>8
<1> QED  BY Zenon, <1>1, <1>2

(* Setting a key to an optional value. *)
LEMMA SetPuts ==
  ASSUME Laws, NEW K, NEW cs, Sound(cs, K), NEW k \in K, NEW v, IsOption(v)
  PROVE  Puts(cs, set(cs, k, AsEntry(v)), k, v, K)
<1> DEFINE e == AsEntry(v)
<1>1. e \in Entries /\ e.tag # "append" /\ Shown(e) = v  BY Zenon, AsEntryIs
<1> HIDE DEF e
<1>2. Puts(cs, set(cs, k, e), k, Shown(e), K)  BY Zenon, <1>1 DEF Laws, SetLaw
<1> QED  BY Zenon, <1>1, <1>2 DEF e

(* The values that are written. *)
LEMMA WritesAre == \A v \in Writes \cup {<<>>} : IsOption(v)
BY Zenon, OverlayAssumption DEF IsOption

(* OverlayedChanges::set_storage *)
LEMMA PlaceStorageStep ==
  ASSUME Laws, ViewsInv, NEW k \in TopKeys, NEW v \in Writes \cup {<<>>}, place_storage(k, v), Nested!Put(k, v)
  PROVE  ViewsInv' /\ Stays
<1>1. Aligned  BY Zenon DEF ViewsInv
<1>2. Sound(top, TopKeys)  BY Zenon, <1>1 DEF Aligned
<1>3. IsOption(v)  BY Zenon, WritesAre
<1>4. top' = set(top, k, AsEntry(v)) /\ child' = child /\ offchain' = offchain /\ cache' = <<>>
        /\ backend' = backend
  BY Zenon DEF place_storage
<1>5. Puts(top, top', k, v, TopKeys)  BY Zenon, <1>2, <1>3, <1>4, SetPuts
<1>6. AltersAll({k})  BY Zenon, <1>1, <1>4, <1>5, OnlyTop DEF Puts
<1>7. k \in Keys /\ SetOf(k)' = top'  BY Zenon, SetOfIs, SetOfIsNext
<1>8. ValueIn(SetOf(k)', k, backend[k], Depth) = v
  BY Zenon, <1>5, <1>7 DEF Puts, Depth
<1> QED  BY Zenon, <1>4, <1>6, <1>7, <1>8, PutStep

(* OverlayedChanges::set_child_storage *)
LEMMA PlaceChildStep ==
  ASSUME Laws, ViewsInv, NEW k \in ChildKeys, NEW v \in Writes \cup {<<>>}, place_child_storage(k, v),
         Nested!Put(k, v)
  PROVE  ViewsInv' /\ Stays
<1> DEFINE x == set(ChildSet, k, AsEntry(v))
<1>1. Aligned  BY Zenon DEF ViewsInv
<1>2. Sound(ChildSet, ChildKeys) /\ Len(ChildSet.dirty) = Depth
  BY Zenon, <1>1, ChildSetIs DEF Alongside, Depth
<1>3. IsOption(v)  BY Zenon, WritesAre
<1>4. child' = <<x>> /\ top' = top /\ offchain' = offchain /\ cache' = <<>> /\ backend' = backend
  BY Zenon DEF place_child_storage
<1>5. Puts(ChildSet, x, k, v, ChildKeys)  BY Zenon, <1>2, <1>3, SetPuts
<1> HIDE DEF x
<1>6. AltersAll({k}) /\ ChildSet' = x  BY Zenon, <1>1, <1>4, <1>5, OnlyChild DEF Puts
<1>7. k \in Keys /\ SetOf(k)' = ChildSet'  BY Zenon, SetOfIs, SetOfIsNext
<1>8. ValueIn(SetOf(k)', k, backend[k], Depth) = v  BY Zenon, <1>2, <1>5, <1>6, <1>7 DEF Puts
<1> QED  BY Zenon, <1>4, <1>6, <1>7, <1>8, PutStep

(* OverlayedChanges::set_offchain_storage *)
LEMMA SetOffchainStep ==
  ASSUME Laws, ViewsInv, NEW k \in OffKeys, NEW v \in Writes, set_offchain_storage(k, v), Nested!Put(k, v)
  PROVE  ViewsInv' /\ Stays
<1>1. Aligned  BY Zenon DEF ViewsInv
<1>2. Sound(offchain, OffKeys) /\ Len(offchain.dirty) = Depth  BY Zenon, <1>1 DEF Aligned, Alongside, Depth
<1>3. IsOption(v)  BY Zenon, WritesAre
<1>4. offchain' = set(offchain, k, AsEntry(v)) /\ child' = child /\ top' = top /\ cache' = cache
        /\ backend' = backend
  BY Zenon DEF set_offchain_storage
<1>5. Puts(offchain, offchain', k, v, OffKeys)  BY Zenon, <1>2, <1>3, <1>4, SetPuts
<1>6. AltersAll({k})  BY Zenon, <1>1, <1>4, <1>5, OnlyOffchain DEF Puts
<1>7. k \in Keys /\ SetOf(k)' = offchain'  BY Zenon, SetOfIs, SetOfIsNext
<1>8. ValueIn(SetOf(k)', k, backend[k], Depth) = v
  BY Zenon, <1>2, <1>5, <1>7 DEF Puts
<1> QED  BY Zenon, <1>4, <1>6, <1>7, <1>8, PutStep

(* OverlayedChanges::append_storage *)
LEMMA AppendStep ==
  ASSUME Laws, ViewsInv, NEW k \in Lists, storage_append(k), Nested!Put(k, Longer(Nested!Top[k], Elem(1)))
  PROVE  ViewsInv'
<1> DEFINE e == Elem(1)
           b == backend[k]
           init == IF b = <<>> THEN <<>> ELSE b[1]
           V == Versions(top, k)
           w == Nested!Top[k]
           ds == append_storage(top, k, e, init)
           n == Len(top.dirty)
<1>1. Aligned /\ Backed /\ Views = stack  BY Zenon DEF ViewsInv
<1>2. Sound(top, TopKeys)  BY Zenon, <1>1 DEF Aligned
<1>3. k \in TopKeys /\ k \in Keys /\ SetOf(k) = top /\ SetOf(k)' = top'
  BY Zenon, SetOfIs, SetOfIsNext, OverlayAssumption
<1>4. e \in Bytes  BY DEF Elem, Byte, Bytes
<1>5. top' = ds /\ child' = child /\ offchain' = offchain /\ cache' = cache /\ backend' = backend
  BY Zenon DEF storage_append
<1>6. WellCoded(init)
  <2>1. IsOption(b)  BY Zenon, <1>1, <1>3 DEF Backed
  <2>2. WellCoded(<<>>)  BY DEF WellCoded, extract_length, NoLength
  <2> QED  BY Zenon, <2>1, <2>2 DEF IsOption
<1> HIDE DEF e
<1>7. w = Seen(V, b)
  <2>1. Depth \in Nat /\ Nested!Top = View(Depth + 1)  BY Zenon, <1>1, StackOf
  <2>2. (Depth + 1) - 1 = Depth  BY <2>1
  <2>3. w = Val(k, Depth)  BY Zenon, <1>3, <2>1, <2>2 DEF View
  <2>4. w = ValueIn(top, k, b, Len(top.dirty))  BY Zenon, <1>3, <2>3 DEF Val, Depth
  <2>5. top \in ChangeSets(TopKeys)  BY Zenon, <1>2 DEF Sound
  <2>6. top.dirty \in Seq(SUBSET TopKeys)  BY Zenon, <2>5 DEF Laws, FieldsLaw
  <2>7. ValueOf(V, top.dirty, k, b, Len(top.dirty)) = Seen(V, b)  BY Zenon, <2>6 DEF Laws, TopLaw
  <2> QED  BY Zenon, <2>4, <2>7 DEF ValueIn
<1> DEFINE x == IF V = <<>> THEN init ELSE Plain(Last(V))
<1>8. x = IF w = <<>> THEN <<>> ELSE w[1]  BY Zenon, <1>7 DEF Seen, Plain
<1>9. Puts(top, ds, k, <<More(x, e)>>, TopKeys)
  <2> HIDE DEF init
  <2> QED  BY Zenon, <1>2, <1>3, <1>4, <1>6 DEF Laws, AppendLaw
<1> HIDE DEF ds, x, w
<1>11. Longer(w, e) = <<More(x, e)>>
  <2>1. CASE w = <<>>
    <3>1. x = <<>>  BY Zenon, <1>8, <2>1
    <3>2. extract_length(x) = NoLength  BY <3>1 DEF extract_length
    <3> QED  BY Zenon, <2>1, <3>2 DEF Longer, More
  <2>2. CASE w # <<>>
    <3>1. x = w[1]  BY Zenon, <1>8, <2>2
    <3> QED  BY Zenon, <2>2, <3>1 DEF Longer, More
  <2> QED  BY Zenon, <2>1, <2>2
<1>12. Alters(top, top', {k}, TopKeys)  BY Zenon, <1>5, <1>9 DEF Puts
<1>13. AltersAll({k})  BY Zenon, <1>1, <1>5, <1>12, OnlyTop
<1>14. ValueIn(SetOf(k)', k, backend[k], Depth) = Longer(w, e)
  BY Zenon, <1>3, <1>5, <1>9, <1>11 DEF Depth, Puts
<1>15. Nested!Put(k, Longer(w, e))  BY Zenon DEF w, e
<1> QED  BY Zenon, <1>3, <1>5, <1>13, <1>14, <1>15, PutStep

(* Reads, of one key or of all, show nothing new. *)
LEMMA ReadAlters ==
  ASSUME Laws, NEW K, NEW cs, Sound(cs, K), NEW S
  PROVE  Alters(cs, ReadIn(cs, S), {}, K)
<1> DEFINE ds == ReadIn(cs, S)
<1>1. Reads(cs, ds, K)  BY Zenon DEF Laws, ReadsLaw
<1> HIDE DEF ds
<1>2. Alters(cs, ds, {}, K)  BY Zenon, <1>1 DEF Reads, Alters
<1> QED  BY Zenon, <1>2 DEF ds

(* The read of a list. *)
LEMMA ReadStep ==
  ASSUME Laws, ViewsInv, NEW k \in Lists, ReadStorage(k), same
  PROVE  ViewsInv' /\ Stays
<1> DEFINE f == top.changes
           g == [f EXCEPT ![k] = Read(f[k])]
           h == [l \in DOMAIN f |-> IF l \in {k} THEN Read(f[l]) ELSE f[l]]
<1>1. Aligned  BY Zenon DEF ViewsInv
<1>2. Sound(top, TopKeys) /\ top \in ChangeSets(TopKeys)  BY Zenon, <1>1 DEF Aligned, Sound
<1>3. top' = [top EXCEPT !.changes = g] /\ k \in DOMAIN f
  BY DEF ReadStorage
<1>4. child' = child /\ offchain' = offchain /\ cache' = cache /\ backend' = backend
  BY Zenon DEF ReadStorage
<1>5. f = [l \in DOMAIN f |-> f[l]]  BY Zenon, <1>2 DEF Laws, FieldsLaw
<1>6. g = h
  <2> HIDE DEF f
  <2> QED  BY Zenon, <1>5
<1> HIDE DEF g
<1>7. top' = [changes |-> g, dirty |-> top.dirty, client |-> top.client, mode |-> top.mode]
  BY Zenon, <1>2, <1>3 DEF Laws, UpdateLaw
<1>8. top' = ReadIn(top, {k})  BY Zenon, <1>6, <1>7 DEF ReadIn
<1>9. Alters(top, top', {}, TopKeys)  BY Zenon, <1>2, <1>8, ReadAlters
<1>10. AltersAll({})  BY Zenon, <1>1, <1>4, <1>9, OnlyTop
<1> QED  BY Zenon, <1>4, <1>10, SameStep

(* The reads that a storage root takes. *)
LEMMA ReadAllAlters ==
  ASSUME Laws, NEW K, NEW cs, Sound(cs, K)
  PROVE  Alters(cs, ReadAll(cs), {}, K)
<1> DEFINE f == cs.changes
           S == DOMAIN f
           g == [k \in DOMAIN f |-> Read(f[k])]
<1>1. cs \in ChangeSets(K)  BY Zenon DEF Sound
<1>2. ReadAll(cs) = [cs EXCEPT !.changes = g]  BY DEF ReadAll
<1>3. g = [k \in DOMAIN f |-> IF k \in S THEN Read(f[k]) ELSE f[k]]  BY Zenon
<1> HIDE DEF g, S
<1>4. ReadAll(cs) = [changes |-> g, dirty |-> cs.dirty, client |-> cs.client, mode |-> cs.mode]
  BY Zenon, <1>1, <1>2 DEF Laws, UpdateLaw
<1>5. ReadAll(cs) = ReadIn(cs, S)  BY Zenon, <1>3, <1>4 DEF ReadIn
<1> QED  BY Zenon, <1>5, ReadAlters

(* OverlayedChanges::storage_root *)
LEMMA StorageRootStep ==
  ASSUME Laws, ViewsInv, storage_root, same
  PROVE  ViewsInv' /\ Stays
<1>1. Aligned  BY Zenon DEF ViewsInv
<1>2. offchain' = offchain /\ backend' = backend  BY Zenon DEF storage_root
<1>3. Sound(top, TopKeys) /\ Sound(offchain, OffKeys)  BY Zenon, <1>1 DEF Aligned
<1>4. CASE cache # <<>>
  <2>1. top' = top /\ child' = child /\ cache' = cache  BY Zenon, <1>4 DEF storage_root
  <2>2. Alters(top, top', {}, TopKeys)  BY Zenon, <1>3, <2>1, AltersSelf
  <2>3. AltersAll({})  BY Zenon, <1>1, <1>2, <2>1, <2>2, OnlyTop
  <2> QED  BY Zenon, <1>2, <2>1, <2>3, SameStep
<1>5. CASE cache = <<>>
  <2>1. cache' = <<Root>> /\ top' = ReadAll(top) /\ child' = [i \in DOMAIN child |-> ReadAll(child[i])]
    BY Zenon, <1>5 DEF storage_root
  <2>2. Alters(top, top', {}, TopKeys)  BY Zenon, <1>3, <2>1, ReadAllAlters
  <2>3. child' = [i \in DOMAIN child |-> child'[i]]  BY Zenon, <2>1
  <2>4. CASE child = <<>>
    <3>1. child' = child  BY Zenon, <2>3, <2>4, NoneOf
    <3>2. AltersAll({})  BY Zenon, <1>1, <1>2, <2>2, <3>1, OnlyTop
    <3> QED  BY Zenon, <1>2, <2>1, <3>2, SameStep
  <2>5. CASE child # <<>>
    <3>1. child = <<child[1]>> /\ Sound(child[1], ChildKeys) /\ Alongside(child[1], top)
      BY Zenon, <1>1, <2>5 DEF Aligned
    <3>2. child' = <<child'[1]>> /\ 1 \in DOMAIN child /\ child' # <<>>  BY Zenon, <2>3, <3>1, OneOf
    <3>3. child'[1] = ReadAll(child[1])  BY Zenon, <2>1, <3>2
    <3>4. ChildSet = child[1] /\ ChildSet' = child'[1]  BY Zenon, <2>5, <3>2 DEF ChildSet
    <3>5. Alters(child[1], child'[1], {}, ChildKeys)  BY Zenon, <3>1, <3>3, ReadAllAlters
    <3>6. Alters(ChildSet, ChildSet', {}, ChildKeys)  BY Zenon, <3>4, <3>5
    <3>7. /\ Sound(top', TopKeys) /\ Alongside(top', top)
          /\ Sound(child'[1], ChildKeys) /\ Alongside(child'[1], child[1])
      BY Zenon, <2>2, <3>5 DEF Alters
    <3>8. Aligned'  BY Zenon, <1>1, <1>2, <3>1, <3>2, <3>7 DEF Aligned, Alongside
    <3>9. Alters(offchain, offchain', {}, OffKeys)  BY Zenon, <1>2, <1>3, AltersSelf
    <3>10. AltersAll({})  BY Zenon, <2>2, <3>6, <3>8, <3>9 DEF AltersAll
    <3> QED  BY Zenon, <1>2, <2>1, <3>10, SameStep
  <2> QED  BY Zenon, <2>4, <2>5
<1> QED  BY Zenon, <1>4, <1>5

(* A roll back without a transaction that may be closed. *)
LEMMA NoRollbackStep ==
  ASSUME Laws, ViewsInv, RollbackTransaction, ~ MayClose(top), same
  PROVE  ViewsInv' /\ Stays
<1>1. Aligned  BY Zenon DEF ViewsInv
<1>2. top' = top /\ child' = child /\ offchain' = offchain /\ cache' = <<>> /\ backend' = backend
  BY Zenon DEF RollbackTransaction
<1>3. Sound(top, TopKeys)  BY Zenon, <1>1 DEF Aligned
<1>4. Alters(top, top', {}, TopKeys)  BY Zenon, <1>2, <1>3, AltersSelf
<1>5. AltersAll({})  BY Zenon, <1>1, <1>2, <1>4, OnlyTop
<1> QED  BY Zenon, <1>2, <1>5, SameStep

\* The keys of T show no value now, and no others are changed.
Clears(cs, ds, T, K) ==
  Alters(cs, ds, T, K) /\ \A k \in T : ValueIn(ds, k, backend[k], Len(cs.dirty)) = <<>>

(* Removing keys of a change set, then those of the backend it still shows. *)
LEMMA ClearAlters ==
  ASSUME Laws, NEW K, NEW cs, Sound(cs, K), NEW S \in SUBSET K, NEW F \in SUBSET K
  PROVE  Clears(cs, limit_remove_from_backend(clear_where(cs, S), F), (S \cap DOMAIN cs.changes) \cup F, K)
<1> DEFINE D == S \cap DOMAIN cs.changes
           es == RemovedAll(cs, D)
           E == {k \in F : storage(es, k) # <<>>}
           ds == RemovedAll(es, E)
           T == D \cup F
           n == Len(cs.dirty)
<1>1. clear_where(cs, S) = es  BY Zenon DEF clear_where
<1>2. limit_remove_from_backend(clear_where(cs, S), F) = ds  BY Zenon, <1>1 DEF limit_remove_from_backend
<1>3. D \in SUBSET K /\ E \in SUBSET K  BY Zenon
<1> HIDE DEF D
<1>4. Removes(cs, es, D, K)  BY Zenon, <1>3 DEF Laws, RemovesLaw
<1> HIDE DEF es
<1>5. Sound(es, K) /\ Alongside(es, cs) /\ Len(es.dirty) = n  BY Zenon, <1>4 DEF Removes, Alongside
<1>6. ASSUME NEW k \in F, k \notin E PROVE ValueIn(es, k, backend[k], n) = <<>>
  <2>1. k \in K  BY Zenon
  <2>2. storage(es, k) = ValueIn(es, k, backend[k], Len(es.dirty))  BY Zenon, <1>5, <2>1, StorageIs
  <2>3. storage(es, k) = <<>>  BY Zenon, <1>6
  <2> QED  BY Zenon, <1>5, <2>2, <2>3
<1>7. \A k \in E : k \in F  BY Zenon
<1> HIDE DEF E
<1>8. Removes(es, ds, E, K)  BY Zenon, <1>3, <1>5 DEF Laws, RemovesLaw
<1> HIDE DEF ds
<1>9. /\ Sound(ds, K) /\ Alongside(ds, es)
      /\ \A k \in E : \A b : ValueIn(ds, k, b, n) = <<>>
      /\ \A k \in K : \A b : \A d \in 0..n :
            k \notin E \/ d # n => ValueIn(ds, k, b, d) = ValueIn(es, k, b, d)
  BY Zenon, <1>5, <1>8 DEF Removes
<1>10. /\ \A k \in D : \A b : ValueIn(es, k, b, n) = <<>>
       /\ \A k \in K : \A b : \A d \in 0..n :
             k \notin D \/ d # n => ValueIn(es, k, b, d) = ValueIn(cs, k, b, d)
  BY Zenon, <1>4 DEF Removes
<1>11. \A k \in K : \A b : \A d \in 0..n :
          k \notin T \/ d # n => ValueIn(ds, k, b, d) = ValueIn(cs, k, b, d)
  <2> SUFFICES ASSUME NEW k \in K, NEW b, NEW d \in 0..n, k \notin T \/ d # n
               PROVE  ValueIn(ds, k, b, d) = ValueIn(cs, k, b, d)
    BY Zenon
  <2>1. k \notin D \/ d # n  BY Zenon
  <2>2. k \notin E \/ d # n  BY Zenon, <1>7
  <2>3. ValueIn(ds, k, b, d) = ValueIn(es, k, b, d)  BY Zenon, <1>9, <2>2
  <2>4. ValueIn(es, k, b, d) = ValueIn(cs, k, b, d)  BY Zenon, <1>10, <2>1
  <2> QED  BY Zenon, <2>3, <2>4
<1>12. ASSUME NEW k \in T PROVE ValueIn(ds, k, backend[k], n) = <<>>
  <2>1. CASE k \in E  BY Zenon, <1>9, <2>1
  <2>2. CASE k \notin E
    <3>1. n \in 0..n /\ k \in K
      <4>1. cs \in ChangeSets(K)  BY Zenon DEF Sound
      <4>2. n \in Nat  BY Zenon, <4>1 DEF Laws, FieldsLaw
      <4>3. n \in 0..n  BY <4>2
      <4> QED  BY Zenon, <1>3, <4>3
    <3>2. ValueIn(ds, k, backend[k], n) = ValueIn(es, k, backend[k], n)  BY Zenon, <1>9, <2>2, <3>1
    <3>3. CASE k \in F  BY Zenon, <1>6, <2>2, <3>2, <3>3
    <3>4. CASE k \in D  BY Zenon, <1>10, <3>2, <3>4
    <3> QED  BY Zenon, <3>3, <3>4
  <2> QED  BY Zenon, <2>1, <2>2
<1>13. Alters(cs, ds, T, K)  BY Zenon, <1>5, <1>9, <1>11 DEF Alters, Alongside
<1>14. Clears(cs, ds, T, K)  BY Zenon, <1>12, <1>13 DEF Clears
<1> QED  BY Zenon, <1>2, <1>14 DEF D

(* OverlayedChanges::clear_prefix and Ext::limit_remove_from_backend *)
LEMMA ClearPrefixStep ==
  ASSUME Laws, ViewsInv, NEW S \in {TopKeys, Lists}, NEW limit, NEW cursor,
         clear_prefix(S, limit, cursor), Nested!Clear(Cleared(top, S, limit, cursor))
  PROVE  ViewsInv' /\ Stays
<1> DEFINE F == FirstInBackend(S, limit, cursor)
           T == (S \cap DOMAIN top.changes) \cup F
<1>1. Aligned  BY Zenon DEF ViewsInv
<1>2. Sound(top, TopKeys)  BY Zenon, <1>1 DEF Aligned
<1>3. S \in SUBSET TopKeys /\ F \in SUBSET TopKeys
  <2>1. Lists \subseteq TopKeys  BY Zenon, OverlayAssumption
  <2> QED  BY Zenon, <2>1 DEF FirstInBackend
<1>4. /\ top' = limit_remove_from_backend(clear_where(top, S), F) /\ cache' = <<>>
      /\ child' = child /\ offchain' = offchain /\ backend' = backend
  BY Zenon DEF clear_prefix
<1>5. Nested!Clear(T)  BY Zenon DEF Cleared
<1> HIDE DEF F
<1>6. Clears(top, top', T, TopKeys)  BY Zenon, <1>2, <1>3, <1>4, ClearAlters
<1>7. T \subseteq TopKeys /\ T \subseteq T  BY Zenon, <1>3
<1> HIDE DEF T
<1>8. AltersAll(T)  BY Zenon, <1>1, <1>4, <1>6, OnlyTop DEF Clears
<1>9. \A k \in Keys : k \in T => ValueIn(SetOf(k)', k, backend[k], Depth) = <<>>
  BY Zenon, <1>6, <1>7, SetOfIsNext DEF Clears, Depth
<1> QED  BY Zenon, <1>4, <1>5, <1>7, <1>8, <1>9, ClearStep

(* OverlayedChanges::clear_child_storage and Ext::limit_remove_from_backend *)
LEMMA KillChildStep ==
  ASSUME Laws, ViewsInv, NEW limit, NEW cursor, kill_child_storage(limit, cursor),
         Nested!Clear(Cleared(ChildSet, ChildKeys, limit, cursor))
  PROVE  ViewsInv' /\ Stays
<1> DEFINE cs == ChildSet
           F == FirstInBackend(ChildKeys, limit, cursor)
           x == limit_remove_from_backend(clear_where(cs, ChildKeys), F)
           T == (ChildKeys \cap DOMAIN cs.changes) \cup F
<1>1. Aligned  BY Zenon DEF ViewsInv
<1>2. Sound(cs, ChildKeys) /\ Len(cs.dirty) = Depth
  BY Zenon, <1>1, ChildSetIs DEF Alongside, Depth
<1>3. ChildKeys \in SUBSET ChildKeys /\ F \in SUBSET ChildKeys  BY Zenon DEF FirstInBackend
<1>4. child' = <<x>> /\ cache' = <<>> /\ top' = top /\ offchain' = offchain /\ backend' = backend
  BY Zenon DEF kill_child_storage
<1>5. Nested!Clear(T)  BY Zenon DEF Cleared
<1> HIDE DEF F, cs
<1>6. Clears(cs, x, T, ChildKeys)  BY Zenon, <1>2, <1>3, ClearAlters
<1>7. T \subseteq ChildKeys /\ T \subseteq T  BY Zenon, <1>3
<1> HIDE DEF T, x
<1>8. Alters(ChildSet, x, T, ChildKeys)  BY Zenon, <1>6 DEF Clears, cs
<1>9. AltersAll(T) /\ ChildSet' = x  BY Zenon, <1>1, <1>4, <1>8, OnlyChild
<1>10. ASSUME NEW k \in Keys, k \in T PROVE ValueIn(SetOf(k)', k, backend[k], Depth) = <<>>
  <2>1. SetOf(k)' = x  BY Zenon, <1>7, <1>9, <1>10, SetOfIsNext
  <2> QED  BY Zenon, <1>2, <1>6, <1>10, <2>1 DEF Clears
<1> QED  BY Zenon, <1>4, <1>5, <1>7, <1>9, <1>10, ClearStep

Begins ==
  /\ Aligned /\ Depth = 0 /\ top.client = 0 /\ top.mode = "client"
  /\ \A k \in Keys : Val(k, 0) = backend[k]

(* The state at the start, and of every block that begins. *)
LEMMA BeginsIs ==
  ASSUME Laws
  PROVE  top = EmptySet /\ child = <<>> /\ offchain = EmptySet => Begins
<1> SUFFICES ASSUME top = EmptySet, child = <<>>, offchain = EmptySet PROVE Begins  BY Zenon
<1>1. Fresh(top, TopKeys, 0, 0, "client") /\ Fresh(offchain, OffKeys, 0, 0, "client")
  BY Zenon DEF Laws, EmptyLaw
<1>2. Aligned  BY Zenon, <1>1 DEF Fresh, Aligned, Alongside
<1>3. Depth = 0 /\ top.client = 0 /\ top.mode = "client"  BY Zenon, <1>1 DEF Fresh, Depth
<1>4. Fresh(ChildSet, ChildKeys, Depth, top.client, top.mode)  BY Zenon, <1>2, ChildSetIs
<1>5. Fresh(ChildSet, ChildKeys, 0, 0, "client")  BY Zenon, <1>3, <1>4
<1>6. 0 \in 0..0  OBVIOUS
<1>7. ASSUME NEW k \in Keys PROVE Val(k, 0) = backend[k]
  <2>1. \E K : k \in K /\ Fresh(SetOf(k), K, 0, 0, "client")  BY Zenon, <1>1, <1>5, SetOfIs
  <2>2. ValueIn(SetOf(k), k, backend[k], 0) = backend[k]  BY Zenon, <1>6, <2>1 DEF Fresh
  <2> QED  BY Zenon, <2>2 DEF Val
<1> QED  BY Zenon, <1>2, <1>3, <1>7 DEF Begins

(* The same after a step. *)
LEMMA BeginsNext ==
  ASSUME Laws
  PROVE  top' = EmptySet /\ child' = <<>> /\ offchain' = EmptySet => Begins'
<1>1. top = EmptySet /\ child = <<>> /\ offchain = EmptySet => Begins  BY Zenon, BeginsIs
<1>2. (top = EmptySet /\ child = <<>> /\ offchain = EmptySet => Begins)'  BY <1>1, PTL
<1> QED  BY Zenon, <1>2

(* OverlayedChanges::drain_storage_changes *)
LEMMA DrainStep ==
  ASSUME Laws, ViewsInv, drain_storage_changes, Nested!Adopt(Drained)
  PROVE  ViewsInv' /\ Stays
<1> DEFINE tries == Drained
<1>1. Aligned /\ Backed /\ Views = stack /\ Modes /\ Cached  BY Zenon DEF ViewsInv
<1>2. /\ top.mode = "client" /\ Depth = 0 /\ cache' = <<>>
      /\ backend' = [k \in Keys |-> IF k \in OffKeys THEN storage(offchain, k) ELSE tries[k]]
      /\ top' = EmptySet /\ child' = <<>> /\ offchain' = EmptySet
  BY Zenon DEF drain_storage_changes, transaction_depth, Depth, Drained
<1>3. /\ DOMAIN tries = TopKeys \cup ChildKeys
      /\ \A k \in TopKeys \cup ChildKeys : IsOption(tries[k])
  BY Zenon, <1>1, RootValues DEF Cached, Drained
<1>4. /\ stack' = <<[k \in Keys |-> IF k \in DOMAIN tries THEN tries[k] ELSE Nested!Top[k]]>>
      /\ mode' = mode /\ client' = client
  BY Zenon DEF Nested!Adopt
<1> HIDE DEF tries
<1>5. ASSUME NEW k \in Keys
      PROVE  /\ backend'[k] = IF k \in DOMAIN tries THEN tries[k] ELSE Nested!Top[k]
             /\ IsOption(backend'[k])
  <2>1. CASE k \in OffKeys
    <3>1. SetOf(k) = offchain /\ Sound(offchain, OffKeys) /\ Len(offchain.dirty) = Depth
      BY Zenon, <1>1, <2>1, SetOfIs DEF Aligned, Alongside, Depth
    <3>2. storage(offchain, k) = ValueIn(offchain, k, backend[k], Len(offchain.dirty))
      BY Zenon, <2>1, <3>1, StorageIs
    <3>3. backend'[k] = Val(k, Depth)  BY Zenon, <1>2, <2>1, <3>1, <3>2 DEF Val
    <3>4. (Depth + 1) - 1 = Depth  BY <1>2
    <3>5. Nested!Top[k] = Val(k, Depth)  BY Zenon, <1>1, <3>4, StackOf DEF View
    <3>6. k \notin DOMAIN tries  BY Zenon, <1>3, <2>1, SetOfIs
    <3> QED  BY Zenon, <1>1, <3>3, <3>5, <3>6, ValIsOption
  <2>2. CASE k \notin OffKeys
    <3>1. k \in TopKeys \cup ChildKeys  BY Zenon, <2>2, SetOfIs
    <3> QED  BY Zenon, <1>2, <1>3, <2>2, <3>1
  <2> QED  BY Zenon, <2>1, <2>2
<1>6. backend' = [k \in Keys |-> backend'[k]] /\ Backed'
  <2>1. backend' = [k \in Keys |-> backend'[k]]  BY Zenon, <1>2
  <2> QED  BY Zenon, <1>5, <2>1 DEF Backed
<1>7. stack' = <<backend'>>  BY Zenon, <1>4, <1>5, <1>6
<1>8. /\ Aligned' /\ Depth' = 0 /\ top'.client = 0 /\ top'.mode = "client"
      /\ \A k \in Keys : Val(k, 0)' = backend'[k]
  BY Zenon, <1>2, BeginsNext DEF Begins
<1>9. Views' = stack'
  <2>1. Depth' + 1 = 1 /\ 1 - 1 = 0 /\ \A i \in 1..1 : i = 1  BY <1>8
  <2>2. Views' = [i \in 1..1 |-> View(i)']  BY Zenon, <2>1, ViewsNext
  <2>3. View(1)' = [k \in Keys |-> Val(k, 0)']  BY Zenon, <2>1 DEF View
  <2>4. View(1)' = backend'  BY Zenon, <1>6, <1>8, <2>3
  <2>5. \A i \in 1..1 : View(i)' = backend'
    <3> SUFFICES ASSUME NEW i \in 1..1 PROVE View(i)' = backend'  BY Zenon
    <3>1. i = 1  BY Zenon, <2>1
    <3> QED  BY Zenon, <2>4, <3>1 DEF View
  <2>6. Views' = [i \in 1..1 |-> backend']  BY Zenon, <2>2, <2>5
  <2> DEFINE b == backend'
  <2>7. <<b>> = [i \in 1..1 |-> b]
    <3> HIDE DEF b
    <3> QED  OBVIOUS
  <2> QED  BY Zenon, <1>7, <2>6, <2>7
<1>10. Modes'
  <2>1. "client" # "runtime"  OBVIOUS
  <2> QED  BY Zenon, <1>1, <1>2, <1>4, <1>8, <2>1 DEF Modes
<1> QED  BY Zenon, <1>2, <1>6, <1>8, <1>9, <1>10 DEF ViewsInv, Cached, Stays, RootFresh

-----------------------------------------------------------------------------
(* The theorems. *)

(* The invariant holds at the start. *)
LEMMA InitViewsInv ==
  ASSUME Laws, InitViews
  PROVE  ViewsInv
<1>1. /\ top = EmptySet /\ child = <<>> /\ offchain = EmptySet /\ cache = <<>> /\ backend = Stored
      /\ stack = <<Stored>> /\ mode = "client" /\ client = 0
  BY Zenon DEF InitViews, Init, Nested!Init
<1>2. /\ Aligned /\ Depth = 0 /\ top.client = 0 /\ top.mode = "client"
      /\ \A k \in Keys : Val(k, 0) = backend[k]
  BY Zenon, <1>1, BeginsIs DEF Begins
<1>3. backend = [k \in Keys |-> backend[k]] /\ \A k \in Keys : IsOption(backend[k])
  BY Zenon, <1>1, OverlayAssumption DEF Keys
<1>4. Backed  BY Zenon, <1>3 DEF Backed
<1>5. Views = stack
  <2>1. Depth + 1 = 1 /\ 1 - 1 = 0 /\ \A i \in 1..1 : i = 1  BY <1>2
  <2>2. Views = [i \in 1..1 |-> View(i)]  BY Zenon, <2>1, ViewsIs
  <2>3. View(1) = [k \in Keys |-> Val(k, 0)]  BY Zenon, <2>1 DEF View
  <2>4. View(1) = Stored  BY Zenon, <1>1, <1>2, <1>3, <2>3
  <2>5. \A i \in 1..1 : View(i) = Stored  BY Zenon, <2>1, <2>4
  <2>6. Views = [i \in 1..1 |-> Stored]  BY Zenon, <2>2, <2>5
  <2>7. <<Stored>> = [i \in 1..1 |-> Stored]  OBVIOUS
  <2> QED  BY Zenon, <1>1, <2>6, <2>7
<1>6. Modes
  <2>1. "client" # "runtime"  OBVIOUS
  <2> QED  BY Zenon, <1>1, <1>2, <2>1 DEF Modes
<1>7. Cached  BY Zenon, <1>1 DEF Cached
<1> QED  BY Zenon, <1>2, <1>4, <1>5, <1>6, <1>7 DEF ViewsInv

(* No step changes anything. *)
LEMMA StutterStep ==
  ASSUME Laws, ViewsInv, UNCHANGED <<vars, stack, mode, client>>
  PROVE  ViewsInv' /\ Stays
<1>1. Aligned  BY Zenon DEF ViewsInv
<1>2. /\ top' = top /\ child' = child /\ offchain' = offchain /\ cache' = cache /\ backend' = backend
      /\ stack' = stack /\ mode' = mode /\ client' = client
  BY DEF vars
<1>3. Sound(top, TopKeys)  BY Zenon, <1>1 DEF Aligned
<1>4. Alters(top, top', {}, TopKeys)  BY Zenon, <1>2, <1>3, AltersSelf
<1>5. AltersAll({})  BY Zenon, <1>1, <1>2, <1>4, OnlyTop
<1>6. same  BY Zenon, <1>2 DEF same
<1> QED  BY Zenon, <1>2, <1>5, <1>6, SameStep

\* The steps that leave a cached root behind
Staling ==
  (\E k \in Lists : storage_append(k)) \/ (ExitRuntime /\ has_open_runtime_transactions(top))

(* Every step keeps the invariant, and all but two kinds of step a cached root up to date. *)
LEMMA NextViewsInv ==
  ASSUME Laws, ViewsInv, [NextViews]_<<vars, stack, mode, client>>
  PROVE  ViewsInv' /\ (Stays \/ Staling)
<1>1. ASSUME NEW k \in TopKeys, NEW v \in Writes \cup {<<>>}, place_storage(k, v), Nested!Put(k, v)
      PROVE  ViewsInv' /\ Stays
  BY Zenon, <1>1, PlaceStorageStep
<1>2. ASSUME NEW k \in Lists, storage_append(k), Nested!Put(k, Longer(Nested!Top[k], Elem(1)))
      PROVE  ViewsInv' /\ Staling
  BY Zenon, <1>2, AppendStep DEF Staling
<1>3. ASSUME NEW k \in Lists, ReadStorage(k), same PROVE ViewsInv' /\ Stays
  BY Zenon, <1>3, ReadStep
<1>4. ASSUME NEW S \in {TopKeys, Lists}, NEW limit \in 0..Cardinality(TopKeys), NEW cursor \in {0} \cup TopKeys,
             clear_prefix(S, limit, cursor), Nested!Clear(Cleared(top, S, limit, cursor))
      PROVE  ViewsInv' /\ Stays
  BY Zenon, <1>4, ClearPrefixStep
<1>5. ASSUME NEW k \in ChildKeys, NEW v \in Writes \cup {<<>>}, place_child_storage(k, v), Nested!Put(k, v)
      PROVE  ViewsInv' /\ Stays
  BY Zenon, <1>5, PlaceChildStep
<1>6. ASSUME NEW limit \in 0..Cardinality(ChildKeys), NEW cursor \in {0} \cup ChildKeys,
             kill_child_storage(limit, cursor), Nested!Clear(Cleared(ChildSet, ChildKeys, limit, cursor))
      PROVE  ViewsInv' /\ Stays
  BY Zenon, <1>6, KillChildStep
<1>7. ASSUME NEW k \in OffKeys, NEW v \in Writes, set_offchain_storage(k, v), Nested!Put(k, v)
      PROVE  ViewsInv' /\ Stays
  BY Zenon, <1>7, SetOffchainStep
<1>8. ASSUME StartTransaction, Nested!Start PROVE ViewsInv' /\ Stays  BY Zenon, <1>8, StartStep
<1>9. ASSUME RollbackTransaction, IF MayClose(top) THEN Nested!Rollback ELSE same PROVE ViewsInv' /\ Stays
  BY Zenon, <1>9, RollbackStep, NoRollbackStep
<1>10. ASSUME CommitTransaction, Nested!Commit PROVE ViewsInv' /\ Stays  BY Zenon, <1>10, CommitStep
<1>11. ASSUME EnterRuntime, Nested!Enter PROVE ViewsInv' /\ Stays  BY Zenon, <1>11, EnterStep
<1>12. ASSUME ExitRuntime, Nested!Exit PROVE ViewsInv' /\ (Stays \/ Staling)
  BY Zenon, <1>12, ExitStep DEF Staling
<1>13. ASSUME storage_root, same PROVE ViewsInv' /\ Stays  BY Zenon, <1>13, StorageRootStep
<1>14. ASSUME drain_storage_changes, Nested!Adopt(Drained) PROVE ViewsInv' /\ Stays  BY Zenon, <1>14, DrainStep
<1>15. ASSUME UNCHANGED <<vars, stack, mode, client>> PROVE ViewsInv' /\ Stays  BY Zenon, <1>15, StutterStep
<1> QED
  BY Zenon, <1>1, <1>2, <1>3, <1>4, <1>5, <1>6, <1>7, <1>8, <1>9, <1>10, <1>11, <1>12, <1>13, <1>14,
     <1>15 DEF NextViews

-----------------------------------------------------------------------------
(* The change sets keep in step. *)

(* A key of a list gives its data back to a list. *)
LEMMA LinkedToList ==
  ASSUME NEW V, Chain(V), NEW i \in DOMAIN V, V[i].tag = "append", V[i].parent # NoParent
  PROVE  i > 1 /\ V[i - 1].tag = "append"
<1>1. V \in Seq(Entries)  BY Zenon DEF Chain
<1>2. DOMAIN V = 1..Len(V) /\ V # <<>>
  <2>1. DOMAIN V = 1..Len(V)  BY ONLY <1>1
  <2>2. DOMAIN <<>> = {}  OBVIOUS
  <2> QED  BY <2>1, <2>2
<1>3. \E c : Links(V, c)  BY Zenon, <1>2 DEF Chain
<1>4. i \in 1..Len(V)  BY Zenon, <1>2
<1>5. \E c : Link(V, c, i)  BY Zenon, <1>3, <1>4 DEF Links
<1> QED  BY Zenon, <1>5 DEF Link, Linked

\* What LockStep says of one change set
Steps(cs) ==
  /\ UNION Range(cs.dirty) \subseteq DOMAIN cs.changes
  /\ \A k \in DOMAIN cs.changes :
        LET n == Cardinality({d \in DOMAIN cs.dirty : k \in cs.dirty[d]})
            versions == cs.changes[k]
        IN  /\ Len(versions) \in {n, n + 1} /\ Len(versions) > 0
            /\ \A i \in DOMAIN versions :
                  (versions[i].tag = "append" /\ versions[i].parent # NoParent)
                    => i > 1 /\ versions[i - 1].tag = "append"

(* A sound change set has a version for each transaction that wrote a key. *)
LEMMA StepsIs ==
  ASSUME Laws, NEW K, NEW cs, Sound(cs, K)
  PROVE  Steps(cs)
<1> DEFINE D == cs.dirty
           A(k) == {d \in DOMAIN D : k \in D[d]}
<1>1. cs \in ChangeSets(K)  BY Zenon DEF Sound
<1>2. D \in Seq(SUBSET K) /\ DOMAIN cs.changes \in SUBSET K  BY Zenon, <1>1 DEF Laws, FieldsLaw
<1> HIDE DEF D
<1>3. DOMAIN D = 1..Len(D) /\ Len(D) \in Nat  BY ONLY <1>2
<1>4. 0 + 1 = 1  OBVIOUS
<1>5. ASSUME NEW k PROVE Count(D, k, 0) = Cardinality(A(k)) /\ IsFiniteSet(A(k))
  <2>1. Count(D, k, 0) = Cardinality(A(k))  BY Zenon, <1>3, <1>4 DEF Count
  <2>2. IsFiniteSet(1..Len(D))  BY <1>3 DEF Laws, CountLaw
  <2>3. A(k) \in SUBSET (1..Len(D))  BY Zenon, <1>3
  <2>4. IsFiniteSet(A(k))  BY Zenon, <2>2, <2>3 DEF Laws, CountLaw
  <2> QED  BY Zenon, <2>1, <2>4
<1>6. ASSUME NEW k \in K
      PROVE  LET V == Versions(cs, k)
                 n == Cardinality(A(k))
             IN  /\ Chain(V) /\ Len(V) \in Nat /\ n \in Nat /\ (Len(V) = n \/ Len(V) = n + 1)
                 /\ (V = <<>> <=> Len(V) = 0) /\ (k \in DOMAIN cs.changes <=> V # <<>>)
  <2> DEFINE V == Versions(cs, k)
  <2>1. KeySound(V, D, k) /\ Chain(V) /\ (k \in DOMAIN cs.changes <=> V # <<>>)
    BY Zenon DEF Laws, VersionsLaw, D
  <2>2. Len(V) \in Nat /\ (V = <<>> <=> Len(V) = 0)  BY Zenon, <2>1 DEF Laws, LengthLaw
  <2>3. Cardinality(A(k)) \in Nat  BY Zenon, <1>5 DEF Laws, CountLaw
  <2>4. Len(V) = Cardinality(A(k)) \/ Len(V) = Cardinality(A(k)) + 1  BY Zenon, <1>5, <2>1 DEF KeySound
  <2> QED  BY Zenon, <2>1, <2>2, <2>3, <2>4
<1>7. UNION Range(D) \subseteq DOMAIN cs.changes
  <2> SUFFICES ASSUME NEW k, k \in UNION Range(D) PROVE k \in DOMAIN cs.changes  BY Zenon
  <2>1. PICK d \in DOMAIN D : k \in D[d]  BY Zenon DEF Range
  <2>2. k \in K  BY <1>2, <2>1
  <2>3. A(k) # {}  BY Zenon, <2>1
  <2>4. Cardinality(A(k)) # 0  BY Zenon, <1>5, <2>3 DEF Laws, CountLaw
  <2> DEFINE V == Versions(cs, k)
             n == Cardinality(A(k))
  <2>5. Len(V) \in Nat /\ n \in Nat /\ (Len(V) = n \/ Len(V) = n + 1)  BY Zenon, <1>6, <2>2
  <2>6. n # 0  BY Zenon, <2>4
  <2>7. (V = <<>> <=> Len(V) = 0) /\ (k \in DOMAIN cs.changes <=> V # <<>>)  BY Zenon, <1>6, <2>2
  <2> HIDE DEF n, V
  <2>8. Len(V) # 0  BY ONLY <2>5, <2>6
  <2> QED  BY Zenon, <2>7, <2>8
<1>8. ASSUME NEW k \in DOMAIN cs.changes
      PROVE  LET n == Cardinality(A(k))
                 V == cs.changes[k]
             IN  /\ Len(V) \in {n, n + 1} /\ Len(V) > 0
                 /\ \A i \in DOMAIN V : (V[i].tag = "append" /\ V[i].parent # NoParent)
                                          => i > 1 /\ V[i - 1].tag = "append"
  <2> DEFINE V == cs.changes[k]
             n == Cardinality(A(k))
  <2>1. k \in K /\ Versions(cs, k) = V  BY Zenon, <1>2 DEF Versions
  <2>2. /\ Chain(V) /\ Len(V) \in Nat /\ n \in Nat /\ (Len(V) = n \/ Len(V) = n + 1)
        /\ (V = <<>> <=> Len(V) = 0) /\ (k \in DOMAIN cs.changes <=> V # <<>>)
    BY Zenon, <1>6, <2>1
  <2>3. Len(V) # 0  BY Zenon, <2>2
  <2>4. \A i \in DOMAIN V : (V[i].tag = "append" /\ V[i].parent # NoParent)
                              => i > 1 /\ V[i - 1].tag = "append"
    BY Zenon, <2>2, LinkedToList
  <2> HIDE DEF n, V
  <2>5. Len(V) \in {n, n + 1} /\ Len(V) > 0  BY <2>2, <2>3
  <2> QED  BY Zenon, <2>4, <2>5 DEF n, V
<1> QED  BY Zenon, <1>7, <1>8 DEF Steps, D

(* The invariant implies LockStep. *)
LEMMA LockStepIs ==
  ASSUME Laws, Aligned
  PROVE  LockStep
<1>1. ASSUME NEW cs \in {top, offchain} \cup Range(child)
      PROVE  Alongside(cs, top) /\ \E K : Sound(cs, K)
  <2>1. CASE cs = top  BY Zenon, <2>1 DEF Aligned, Alongside
  <2>2. CASE cs = offchain  BY Zenon, <2>2 DEF Aligned
  <2>3. CASE cs \in Range(child)
    <3>1. PICK i \in DOMAIN child : cs = child[i]  BY Zenon, <2>3 DEF Range
    <3>2. DOMAIN <<>> = {}  OBVIOUS
    <3>3. child # <<>>  BY <3>1, <3>2
    <3>4. child = <<child[1]>> /\ Sound(child[1], ChildKeys) /\ Alongside(child[1], top)
      BY Zenon, <3>3 DEF Aligned
    <3>5. DOMAIN <<child[1]>> = {1}  OBVIOUS
    <3>6. i = 1  BY Zenon, <3>1, <3>4, <3>5
    <3> QED  BY Zenon, <3>1, <3>4, <3>6
  <2> QED  BY Zenon, <2>1, <2>2, <2>3
<1>2. ASSUME NEW cs \in {top, offchain} \cup Range(child) PROVE Steps(cs)  BY Zenon, <1>1, StepsIs
<1> QED  BY Zenon, <1>1, <1>2 DEF LockStep, Steps, Alongside, transaction_depth

-----------------------------------------------------------------------------
(* The next key.  What the walk finds, in closed form: the first of the keys of the        *)
(* backend B from next on and of the keys of the overlay in rest, without those that the   *)
(* overlay removed (H has the keys that the overlay shows).                                *)

Least(S) == IF S = {} THEN 0 ELSE Min(S)
Found(B, H, rest, next) ==
  {b \in B \cup {next} : next # 0 /\ b >= next /\ (b \in rest => b \in H)} \cup (rest \cap H)
Walked(B, H, rest, next) == Least(Found(B, H, rest, next))
\* The first of the overlay's keys is not after the backend's.
Reached(rest, next) == rest # {} /\ ~(next # 0 /\ next < Min(rest))
Advanced(B, next, l) == IF next = l THEN Least({m \in B : m > l}) ELSE next

Passes(B, H, rest, next) ==
  Walked(B, H, rest, next) = Walked(B, H, rest \ {Min(rest)}, Advanced(B, next, Min(rest)))

(* The first of a set of keys. *)
LEMMA MinIs ==
  ASSUME Laws, NEW S \in SUBSET Nat, S # {}
  PROVE  Min(S) \in S /\ \A y \in S : Min(S) <= y
<1>1. \E n \in S : \A m \in S : n <= m  BY Zenon DEF Laws, LeastLaw
<1> QED  BY Zenon, <1>1 DEF Min

(* There is only one first key. *)
LEMMA LeastIs ==
  ASSUME Laws, NEW S \in SUBSET Nat, NEW x \in S, \A y \in S : x <= y
  PROVE  Least(S) = x
<1>1. S # {}  OBVIOUS
<1> DEFINE m == Min(S)
<1>2. m \in S /\ \A y \in S : m <= y  BY Zenon, <1>1, MinIs
<1>3. Least(S) = m  BY Zenon, <1>1 DEF Least
<1> HIDE DEF m
<1>4. m \in Nat /\ x \in Nat /\ m <= x /\ x <= m  BY <1>2
<1>5. m = x  BY ONLY <1>4
<1> QED  BY Zenon, <1>3, <1>5

(* The next key of the backend is one of its keys, or there is none. *)
LEMMA LeastAfter ==
  ASSUME Laws, NEW B \in SUBSET (Nat \ {0}), NEW l \in Nat
  PROVE  LET n == Least({m \in B : m > l})
         IN  /\ n \in B \cup {0} /\ n \in Nat
             /\ n = 0 => \A b \in B : ~(b > l)
             /\ n # 0 => n \in B /\ \A b \in B : b >= n <=> b > l
<1> DEFINE S == {m \in B : m > l}
           n == Least(S)
<1>1. S \in SUBSET Nat /\ S \in SUBSET B  BY Zenon
<1>2. CASE S = {}
  <2>1. n = 0  BY Zenon, <1>2 DEF Least
  <2>2. \A b \in B : ~(b > l)  BY Zenon, <1>2
  <2>3. 0 \in Nat  OBVIOUS
  <2> QED  BY Zenon, <2>1, <2>2, <2>3
<1>3. CASE S # {}
  <2>1. n = Min(S)  BY Zenon, <1>3 DEF Least
  <2> HIDE DEF n
  <2>2. n \in S /\ \A y \in S : n <= y  BY Zenon, <1>1, <1>3, <2>1, MinIs
  <2>3. n \in B /\ n > l /\ n \in Nat \ {0}  BY <2>2
  <2>4. ASSUME NEW b \in B PROVE b >= n <=> b > l  BY <2>2, <2>3
  <2>5. n \in Nat /\ n # 0  BY Zenon, <2>3
  <2> QED  BY Zenon, <2>3, <2>4, <2>5 DEF n
<1> QED  BY Zenon, <1>2, <1>3

(* Before the first key of the overlay, the backend's key is the one. *)
LEMMA WalkEnds ==
  ASSUME Laws, NEW B \in SUBSET (Nat \ {0}), NEW H, NEW rest \in SUBSET (Nat \ {0}), NEW next \in Nat,
         rest = {} \/ (next # 0 /\ next < Min(rest))
  PROVE  Walked(B, H, rest, next) = next
<1> DEFINE F == Found(B, H, rest, next)
<1>1. F \in SUBSET Nat  BY Zenon DEF Found
<1>2. CASE next = 0
  <2>1. rest = {}  BY <1>2
  <2>2. F = {}  BY <1>2, <2>1 DEF Found
  <2> QED  BY Zenon, <1>2, <2>2 DEF Walked, Least
<1>3. CASE next # 0
  <2>1. \A y \in rest : next < y
    <3>1. CASE rest = {}  BY <3>1
    <3>2. CASE rest # {}
      <4>1. rest \in SUBSET Nat  OBVIOUS
      <4> DEFINE m == Min(rest)
      <4>2. m \in rest /\ \A y \in rest : m <= y  BY Zenon, <3>2, <4>1, MinIs
      <4>3. next < m  BY Zenon, <3>2
      <4> HIDE DEF m
      <4> QED  BY <4>2, <4>3
    <3> QED  BY Zenon, <3>1, <3>2
  <2>2. next \notin rest  BY <2>1
  <2>3. next \in F  BY <1>3, <2>2 DEF Found
  <2>4. \A y \in F : next <= y  BY <2>1 DEF Found
  <2> HIDE DEF F
  <2>5. Least(F) = next  BY Zenon, <1>1, <2>3, <2>4, LeastIs
  <2> QED  BY Zenon, <2>5 DEF Walked, F
<1> QED  BY Zenon, <1>2, <1>3

(* A key of the overlay with a value, at or before the backend's key, is the one. *)
LEMMA WalkFinds ==
  ASSUME Laws, NEW B \in SUBSET (Nat \ {0}), NEW H, NEW rest \in SUBSET (Nat \ {0}), NEW next \in Nat,
         Reached(rest, next), Min(rest) \in H
  PROVE  Walked(B, H, rest, next) = Min(rest)
<1> DEFINE F == Found(B, H, rest, next)
           m == Min(rest)
<1>1. F \in SUBSET Nat  BY Zenon DEF Found
<1>2. rest \in SUBSET Nat  OBVIOUS
<1>3. m \in rest /\ \A y \in rest : m <= y  BY Zenon, <1>2, MinIs DEF Reached
<1>4. ~(next # 0 /\ next < m) /\ m \in H  BY Zenon DEF Reached
<1> HIDE DEF m
<1>5. m \in F  BY <1>3, <1>4 DEF Found
<1>6. \A y \in F : m <= y  BY <1>2, <1>3, <1>4 DEF Found
<1> HIDE DEF F
<1>7. Least(F) = m  BY Zenon, <1>1, <1>5, <1>6, LeastIs
<1> QED  BY Zenon, <1>7 DEF Walked, F, m

(* A key that the overlay removed is passed, and so is the backend's when it is the same. *)
LEMMA WalkPasses ==
  ASSUME Laws, NEW B \in SUBSET (Nat \ {0}), NEW H, NEW rest \in SUBSET (Nat \ {0}), NEW next \in Nat,
         Reached(rest, next), Min(rest) \notin H
  PROVE  Passes(B, H, rest, next)
<1> DEFINE l == Min(rest)
           n == Advanced(B, next, l)
<1>1. rest \in SUBSET Nat  OBVIOUS
<1>2. l \in rest /\ \A y \in rest : l <= y  BY Zenon, <1>1, MinIs DEF Reached
<1>3. ~(next # 0 /\ next < l) /\ l \notin H  BY Zenon DEF Reached
<1> HIDE DEF l
<1>4. l \in Nat /\ l # 0  BY <1>2
<1>5. Found(B, H, rest, next) = Found(B, H, rest \ {l}, n)
  <2>1. CASE next = l
    <3> DEFINE a == Least({m \in B : m > l})
    <3>1. n = a  BY Zenon, <2>1 DEF Advanced
    <3>2. /\ a \in B \cup {0} /\ a \in Nat
          /\ a = 0 => \A b \in B : ~(b > l)
          /\ a # 0 => a \in B /\ \A b \in B : b >= a <=> b > l
      BY Zenon, <1>4, LeastAfter
    <3> HIDE DEF a, n
    <3>3. CASE a = 0
      <4>1. \A b \in B : ~(b > l)  BY Zenon, <3>2, <3>3
      <4>2. ASSUME NEW b PROVE b \in Found(B, H, rest, next) <=> b \in Found(B, H, rest \ {l}, n)
        <5>1. b \in B => b \in Nat /\ (b >= l /\ b # l <=> b > l)  BY <1>4
        <5> QED  BY <4>1, <5>1, <3>3, <3>1, <2>1, <1>4, <1>3, <1>2 DEF Found
      <4> QED  BY Zenon, <4>2
    <3>4. CASE a # 0
      <4>1. a \in B /\ \A b \in B : b >= a <=> b > l  BY Zenon, <3>2, <3>4
      <4>2. ASSUME NEW b PROVE b \in Found(B, H, rest, next) <=> b \in Found(B, H, rest \ {l}, n)
        <5>1. b \in B => b \in Nat /\ (b >= l /\ b # l <=> b > l)  BY <1>4
        <5> QED  BY <4>1, <5>1, <3>4, <3>1, <2>1, <1>4, <1>3, <1>2 DEF Found
      <4> QED  BY Zenon, <4>2
    <3> QED  BY Zenon, <3>3, <3>4
  <2>2. CASE next # l
    <3>1. n = next  BY Zenon, <2>2 DEF Advanced
    <3> HIDE DEF n
    <3> QED  BY <3>1, <2>2, <1>4, <1>3, <1>2 DEF Found
  <2> QED  BY Zenon, <2>1, <2>2
<1> QED  BY Zenon, <1>5 DEF Walked, Passes, l

\* The keys B of the backend, among the numbers D of keys (0 is no key)
Numbered(B, D) == B \in SUBSET (Nat \ {0}) /\ D \in SUBSET Nat /\ B \in SUBSET D /\ 0 \in D

\* One round of the walk, where w is the rest of it, and the walks
Round(B, H, w, rest, next) ==
  LET l == Min(rest)
  IN  IF rest = {} \/ (next # 0 /\ next < l) THEN next
      ELSE IF l \in H THEN l
      ELSE w[rest \ {l}][Advanced(B, next, l)]
IsWalk(B, H, keys, D, w) == w = [rest \in SUBSET keys |-> [next \in D |-> Round(B, H, w, rest, next)]]

\* A walk has the closed form for these keys of the overlay, and for those after the first
Closed(B, H, D, w, rest) == \A n \in D : w[rest][n] = Walked(B, H, rest, n)
Follows(B, H, D, w, rest) == rest # {} => Closed(B, H, D, w, rest \ {Min(rest)})
Rounds(B, H, w, rest, next) == Round(B, H, w, rest, next) = Walked(B, H, rest, next)

(* The closed form goes round as the walk does, when the rest of the walk has it. *)
LEMMA RoundIs ==
  ASSUME Laws, NEW B, NEW D, Numbered(B, D), NEW H, NEW rest \in SUBSET (Nat \ {0}), NEW next \in D, NEW w,
         Follows(B, H, D, w, rest)
  PROVE  Rounds(B, H, w, rest, next)
<1> DEFINE l == Min(rest)
           n == Advanced(B, next, l)
<1>1. B \in SUBSET (Nat \ {0}) /\ next \in Nat /\ 0 \in D /\ B \in SUBSET D  BY Zenon DEF Numbered
<1>2. CASE rest = {} \/ (next # 0 /\ next < l)
  BY Zenon, <1>1, <1>2, WalkEnds DEF Round, Rounds
<1>3. CASE Reached(rest, next) /\ l \in H
  <2>1. Walked(B, H, rest, next) = l  BY Zenon, <1>1, <1>3, WalkFinds
  <2> QED  BY Zenon, <1>3, <2>1 DEF Round, Reached, Rounds
<1>4. CASE Reached(rest, next) /\ l \notin H
  <2>1. rest \in SUBSET Nat  OBVIOUS
  <2>2. l \in rest  BY Zenon, <1>4, <2>1, MinIs DEF Reached
  <2>6. Passes(B, H, rest, next)  BY Zenon, <1>1, <1>4, WalkPasses
  <2> HIDE DEF l
  <2>3. l \in Nat  BY Zenon, <2>1, <2>2
  <2>4. Least({m \in B : m > l}) \in B \cup {0}  BY Zenon, <1>1, <2>3, LeastAfter
  <2>5. n \in D  BY Zenon, <1>1, <2>4 DEF Advanced
  <2>7. w[rest \ {l}][n] = Walked(B, H, rest \ {l}, n)
    BY Zenon, <1>4, <2>5 DEF l, Follows, Reached, Closed
  <2>8. Round(B, H, w, rest, next) = w[rest \ {l}][n]  BY Zenon, <1>4 DEF Round, l, Reached
  <2> QED  BY Zenon, <2>6, <2>7, <2>8 DEF l, Passes, Rounds
<1> QED  BY Zenon, <1>2, <1>3, <1>4 DEF Reached

(* There is a walk. *)
LEMMA WalkExists ==
  ASSUME Laws, NEW B, NEW D, Numbered(B, D), NEW H, NEW keys \in SUBSET (Nat \ {0})
  PROVE  \E w : IsWalk(B, H, keys, D, w)
<1> DEFINE w == [rest \in SUBSET keys |-> [next \in D |-> Walked(B, H, rest, next)]]
<1>1. ASSUME NEW rest \in SUBSET keys, NEW next \in D
      PROVE  Round(B, H, w, rest, next) = Walked(B, H, rest, next)
  <2>1. rest \ {Min(rest)} \in SUBSET keys /\ rest \in SUBSET (Nat \ {0})  BY Zenon
  <2>2. \A n \in D : w[rest \ {Min(rest)}][n] = Walked(B, H, rest \ {Min(rest)}, n)  BY Zenon, <2>1
  <2> HIDE DEF w
  <2>3. Follows(B, H, D, w, rest)  BY Zenon, <2>2 DEF Follows, Closed
  <2>4. Rounds(B, H, w, rest, next)  BY Zenon, <2>1, <2>3, RoundIs
  <2> QED  BY Zenon, <2>4 DEF Rounds
<1>2. [rest \in SUBSET keys |-> [next \in D |-> Round(B, H, w, rest, next)]] = w
  <2>1. ASSUME NEW rest \in SUBSET keys
        PROVE  [next \in D |-> Round(B, H, w, rest, next)] = [next \in D |-> Walked(B, H, rest, next)]
    <3>1. \A next \in D : Round(B, H, w, rest, next) = Walked(B, H, rest, next)  BY Zenon, <1>1
    <3> HIDE DEF w
    <3> QED  BY Zenon, <3>1
  <2>2. \A rest \in SUBSET keys :
          [next \in D |-> Round(B, H, w, rest, next)] = [next \in D |-> Walked(B, H, rest, next)]
    BY Zenon, <2>1
  <2> QED  BY Zenon, <2>2
<1> HIDE DEF w
<1>3. IsWalk(B, H, keys, D, w)  BY Zenon, <1>2 DEF IsWalk
<1> QED  BY Zenon, <1>3

(* Every walk finds the closed form. *)
LEMMA WalkIs ==
  ASSUME Laws, NEW B, NEW D, Numbered(B, D), NEW H, NEW keys \in SUBSET (Nat \ {0}), IsFiniteSet(keys),
         NEW w, IsWalk(B, H, keys, D, w)
  PROVE  \A rest \in SUBSET keys : Closed(B, H, D, w, rest)
<1> DEFINE G(rest) == Closed(B, H, D, w, rest)
           S == {i \in Nat : \A rest \in SUBSET keys : Cardinality(rest) = i => G(rest)}
<1>1. ASSUME NEW rest \in SUBSET keys, rest # {} => G(rest \ {Min(rest)})
      PROVE  G(rest)
  <2> SUFFICES ASSUME NEW next \in D PROVE w[rest][next] = Walked(B, H, rest, next)  BY Zenon DEF Closed
  <2>1. w[rest][next] = Round(B, H, w, rest, next)
    <3> DEFINE R(r) == [n \in D |-> Round(B, H, w, r, n)]
    <3>1. w = [r \in SUBSET keys |-> R(r)]  BY Zenon DEF IsWalk
    <3> HIDE DEF R
    <3>2. w[rest] = R(rest)  BY ONLY <3>1, rest \in SUBSET keys
    <3> QED  BY Zenon, <3>2 DEF R
  <2>2. rest \in SUBSET (Nat \ {0})  BY Zenon
  <2>3. Follows(B, H, D, w, rest)  BY Zenon, <1>1 DEF Follows
  <2>4. Rounds(B, H, w, rest, next)  BY Zenon, <2>2, <2>3, RoundIs
  <2> QED  BY Zenon, <2>1, <2>4 DEF Rounds
<1> HIDE DEF G
<1>2. 0 \in S
  <2>1. ASSUME NEW rest \in SUBSET keys, Cardinality(rest) = 0 PROVE G(rest)
    <3>1. rest = {}  BY Zenon, <2>1 DEF Laws, CountLaw
    <3> QED  BY Zenon, <1>1, <3>1
  <2>2. 0 \in Nat  OBVIOUS
  <2> QED  BY Zenon, <2>1, <2>2
<1>3. ASSUME NEW i \in Nat, i \in S PROVE i + 1 \in S
  <2>1. i + 1 \in Nat /\ i + 1 # 0 /\ (i + 1) - 1 = i  OBVIOUS
  <2>2. ASSUME NEW rest \in SUBSET keys, Cardinality(rest) = i + 1 PROVE G(rest)
    <3>1. IsFiniteSet(rest)  BY Zenon DEF Laws, CountLaw
    <3>2. rest # {}  BY Zenon, <2>1, <2>2, <3>1 DEF Laws, CountLaw
    <3>3. rest \in SUBSET Nat  BY Zenon
    <3> DEFINE l == Min(rest)
    <3>4. l \in rest  BY Zenon, <3>2, <3>3, MinIs
    <3> HIDE DEF l
    <3>5. Cardinality(rest \ {l}) = Cardinality(rest) - 1  BY Zenon, <3>1, <3>4 DEF Laws, CountLaw
    <3>6. rest \ {l} \in SUBSET keys  BY Zenon
    <3>a. Cardinality(rest \ {l}) = i  BY <2>1, <2>2, <3>5
    <3>7. G(rest \ {l})  BY Zenon, <1>3, <3>a, <3>6
    <3> QED  BY Zenon, <1>1, <3>7 DEF l
  <2> QED  BY Zenon, <2>1, <2>2
<1> HIDE DEF S
<1>4. Nat \subseteq S  BY Zenon, <1>2, <1>3 DEF Laws, InductionLaw
<1>5. ASSUME NEW rest \in SUBSET keys PROVE G(rest)
  <2>1. Cardinality(rest) \in Nat  BY Zenon DEF Laws, CountLaw
  <2>2. Cardinality(rest) \in S  BY Zenon, <1>4, <2>1
  <2> QED  BY Zenon, <2>2 DEF S
<1> QED  BY Zenon, <1>5 DEF G

\* The keys with a value in the backend, and with the changes of the overlay
Held == {l \in TopKeys : backend[l] # <<>>}
Shows == {l \in TopKeys : storage(top, l) # <<>>}
\* The keys after k in the overlay, in the backend and with the changes of the overlay
KeysAfter(k) == {l \in DOMAIN top.changes : l > k}
NextHeld(k) == Least({m \in Held : m > k})
ShowsAfter(k) == {l \in TopKeys : l > k /\ storage(top, l) # <<>>}

(* Backend::next_storage_key *)
LEMMA BackendNextIs ==
  ASSUME NEW k
  PROVE  backend_next(k) = NextHeld(k)
<1>1. {l \in TopKeys : l > k /\ backend[l] # <<>>} = {m \in Held : m > k}  BY Zenon DEF Held
<1> QED  BY Zenon, <1>1 DEF backend_next, Least, NextHeld

(* The keys of the overlay and of the backend. *)
LEMMA KeysAre ==
  ASSUME Laws, Sound(top, TopKeys), NEW k \in {0} \cup TopKeys
  PROVE  /\ KeysAfter(k) \in SUBSET TopKeys /\ KeysAfter(k) \in SUBSET (Nat \ {0})
         /\ IsFiniteSet(KeysAfter(k)) /\ Numbered(Held, {0} \cup TopKeys)
         /\ k \in Nat /\ NextHeld(k) \in {0} \cup TopKeys
<1>1. top \in ChangeSets(TopKeys)  BY Zenon DEF Sound
<1>2. DOMAIN top.changes \in SUBSET TopKeys  BY Zenon, <1>1 DEF Laws, FieldsLaw
<1>3. TopKeys \in SUBSET (Nat \ {0}) /\ IsFiniteSet(TopKeys)  BY Zenon, OverlayAssumption
<1>4. KeysAfter(k) \in SUBSET TopKeys  BY Zenon, <1>2 DEF KeysAfter
<1>5. KeysAfter(k) \in SUBSET (Nat \ {0})  BY Zenon, <1>3, <1>4
<1>6. IsFiniteSet(KeysAfter(k))  BY Zenon, <1>3, <1>4 DEF Laws, CountLaw
<1>7. Held \in SUBSET TopKeys  BY Zenon DEF Held
<1>8. 0 \in Nat  OBVIOUS
<1>9. k \in Nat  BY Zenon, <1>3, <1>8
<1>10. Held \in SUBSET (Nat \ {0})  BY Zenon, <1>3, <1>7
<1>11. {0} \cup TopKeys \in SUBSET Nat /\ Held \in SUBSET ({0} \cup TopKeys) /\ 0 \in {0} \cup TopKeys
  BY Zenon, <1>3, <1>7, <1>8
<1>12. Numbered(Held, {0} \cup TopKeys)  BY Zenon, <1>10, <1>11 DEF Numbered
<1>13. NextHeld(k) \in Held \cup {0}  BY Zenon, <1>9, <1>10, LeastAfter DEF NextHeld
<1>14. NextHeld(k) \in {0} \cup TopKeys  BY Zenon, <1>7, <1>13
<1> QED  BY Zenon, <1>4, <1>5, <1>6, <1>9, <1>12, <1>14

(* Ext::next_storage_key finds what a walk finds. *)
LEMMA NextKeyIs ==
  ASSUME Laws, Sound(top, TopKeys), NEW k \in {0} \cup TopKeys
  PROVE  next_storage_key(k) = Walked(Held, Shows, KeysAfter(k), NextHeld(k))
<1> DEFINE D == {0} \cup TopKeys
           keys == KeysAfter(k)
           R(w, rest, next) ==
             LET l == Min(rest)
             IN  IF rest = {} \/ (next # 0 /\ next < l) THEN next
                 ELSE IF storage(top, l) # <<>> THEN l
                 ELSE w[rest \ {l}][IF next = l THEN backend_next(l) ELSE next]
           P(w) == w = [rest \in SUBSET keys |-> [next \in D |-> R(w, rest, next)]]
           walk == CHOOSE w : P(w)
<1>1. /\ keys \in SUBSET TopKeys /\ keys \in SUBSET (Nat \ {0}) /\ IsFiniteSet(keys)
      /\ Numbered(Held, D) /\ NextHeld(k) \in D
  BY Zenon, KeysAre
<1>2. next_storage_key(k) = walk[keys][backend_next(k)]  BY DEF next_storage_key, KeysAfter
<1>3. ASSUME NEW w, NEW rest \in SUBSET keys, NEW next \in D
      PROVE  R(w, rest, next) = Round(Held, Shows, w, rest, next)
  <2> DEFINE l == Min(rest)
  <2>1. CASE rest = {}  BY Zenon, <2>1 DEF Round
  <2>2. CASE rest # {}
    <3>1. rest \in SUBSET Nat  BY Zenon, <1>1
    <3>2. l \in rest  BY Zenon, <2>2, <3>1, MinIs
    <3>3. l \in TopKeys  BY Zenon, <1>1, <3>2
    <3>4. l \in Shows <=> storage(top, l) # <<>>  BY Zenon, <3>3 DEF Shows
    <3>5. Advanced(Held, next, l) = IF next = l THEN backend_next(l) ELSE next
      BY Zenon, BackendNextIs DEF Advanced, NextHeld
    <3> QED  BY Zenon, <3>4, <3>5 DEF Round
  <2> QED  BY Zenon, <2>1, <2>2
<1> HIDE DEF R, D, keys
<1>4. ASSUME NEW w PROVE P(w) <=> IsWalk(Held, Shows, keys, D, w)
  <2>1. ASSUME NEW rest \in SUBSET keys
        PROVE  [next \in D |-> R(w, rest, next)] = [next \in D |-> Round(Held, Shows, w, rest, next)]
    <3>1. \A next \in D : R(w, rest, next) = Round(Held, Shows, w, rest, next)  BY Zenon, <1>3
    <3> QED  BY Zenon, <3>1
  <2>2. [rest \in SUBSET keys |-> [next \in D |-> R(w, rest, next)]]
          = [rest \in SUBSET keys |-> [next \in D |-> Round(Held, Shows, w, rest, next)]]
    BY Zenon, <2>1
  <2> QED  BY Zenon, <2>2 DEF IsWalk
<1>5. \E w : IsWalk(Held, Shows, keys, D, w)  BY Zenon, <1>1, WalkExists
<1> HIDE DEF P
<1>6. \E w : P(w)  BY Zenon, <1>4, <1>5
<1>7. P(walk)  BY Zenon, <1>6
<1> HIDE DEF walk
<1>8. IsWalk(Held, Shows, keys, D, walk)  BY Zenon, <1>4, <1>7
<1>9. \A rest \in SUBSET keys : Closed(Held, Shows, D, walk, rest)  BY Zenon, <1>1, <1>8, WalkIs
<1>10. Closed(Held, Shows, D, walk, keys)  BY Zenon, <1>9
<1>11. walk[keys][NextHeld(k)] = Walked(Held, Shows, keys, NextHeld(k))  BY Zenon, <1>1, <1>10 DEF Closed
<1>12. backend_next(k) = NextHeld(k)  BY Zenon, BackendNextIs
<1> QED  BY Zenon, <1>2, <1>11, <1>12 DEF keys

(* A key that the overlay did not change shows what the backend has. *)
LEMMA FoundIs ==
  ASSUME Laws, Sound(top, TopKeys), NEW k \in {0} \cup TopKeys
  PROVE  Found(Held, Shows, KeysAfter(k), NextHeld(k)) = ShowsAfter(k)
<1> DEFINE F == Found(Held, Shows, KeysAfter(k), NextHeld(k))
           n == NextHeld(k)
<1>1. /\ KeysAfter(k) \in SUBSET TopKeys /\ k \in Nat /\ Numbered(Held, {0} \cup TopKeys)
  BY Zenon, KeysAre
<1>2. Held \in SUBSET (Nat \ {0}) /\ TopKeys \in SUBSET (Nat \ {0})  BY Zenon, <1>1, OverlayAssumption DEF Numbered
<1>3. /\ n = 0 => \A b \in Held : ~(b > k)
      /\ n # 0 => n \in Held /\ \A b \in Held : b >= n <=> b > k
  BY Zenon, <1>1, <1>2, LeastAfter DEF NextHeld
<1>4. ASSUME NEW b \in TopKeys
      PROVE  /\ b \in KeysAfter(k) <=> b \in DOMAIN top.changes /\ b > k
             /\ b \in Shows <=> storage(top, b) # <<>>
             /\ b \in Held <=> backend[b] # <<>>
             /\ b \notin DOMAIN top.changes => storage(top, b) = backend[b]
  <2>1. b \in KeysAfter(k) <=> b \in DOMAIN top.changes /\ b > k  BY Zenon DEF KeysAfter
  <2> QED  BY Zenon, <2>1 DEF Shows, Held, storage
<1> HIDE DEF n
<1>5. ASSUME NEW b PROVE b \in F <=> b \in ShowsAfter(k)
  <2>1. b \in F => b \in TopKeys  BY Zenon, <1>1, <1>3 DEF Found, Held, Shows, n
  <2>2. b \in ShowsAfter(k) => b \in TopKeys  BY Zenon DEF ShowsAfter
  <2>3. ASSUME b \in TopKeys PROVE b \in F <=> b \in ShowsAfter(k)
    <3>1. b \in F <=> \/ (b \in Held \/ b = n) /\ n # 0 /\ b >= n /\ (b \in KeysAfter(k) => b \in Shows)
                      \/ b \in KeysAfter(k) /\ b \in Shows
      BY Zenon DEF Found, n
    <3>2. b \in ShowsAfter(k) <=> b > k /\ b \in Shows  BY Zenon, <2>3, <1>4 DEF ShowsAfter
    <3>3. b \in Held /\ n # 0 /\ b >= n <=> b \in Held /\ b > k  BY Zenon, <1>3
    <3>4. n # 0 => n \in Held  BY Zenon, <1>3
    <3>5. b \notin KeysAfter(k) /\ b > k => (b \in Shows <=> b \in Held)  BY Zenon, <2>3, <1>4
    <3>6. b \in KeysAfter(k) => b > k  BY Zenon, <2>3, <1>4
    <3> HIDE DEF F
    <3> QED  BY Zenon, <3>1, <3>2, <3>3, <3>4, <3>5, <3>6
  <2> QED  BY Zenon, <2>1, <2>2, <2>3
<1> QED  BY Zenon, <1>5

(* The invariant implies NextKeyRight. *)
LEMMA NextKeyRightIs ==
  ASSUME Laws, Sound(top, TopKeys)
  PROVE  NextKeyRight
<1> SUFFICES ASSUME NEW k \in {0} \cup TopKeys
             PROVE  next_storage_key(k) = IF ShowsAfter(k) = {} THEN 0 ELSE Min(ShowsAfter(k))
  BY Zenon DEF NextKeyRight, ShowsAfter
<1>1. next_storage_key(k) = Least(ShowsAfter(k))  BY Zenon, NextKeyIs, FoundIs DEF Walked
<1> QED  BY Zenon, <1>1 DEF Least

=============================================================================
