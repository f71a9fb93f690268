------------------------------ MODULE Overlay ------------------------------
(***************************************************************************)
(* OverlayedChanges and the storage functions of Ext over it: the changes  *)
(* of the main trie, of a child trie and of the offchain database, which   *)
(* open and close their transactions together, and the cached storage      *)
(* root.  The client drains the changes at the end of a block and writes   *)
(* them to the backend.                                                    *)
(***************************************************************************)
EXTENDS OverlayedChangeSet, FiniteSetsExt

CONSTANTS TopKeys,        \* keys of the main trie, numbers in their order
          ChildKeys,      \* keys of the child trie, too
          OffKeys,        \* keys of the offchain database
          Lists,          \* keys of the main trie that are appended to
          Stored,         \* [keys -> optional value]: the backend at the start
          Writes,         \* values that can be written, besides removal
          MaxDepth,       \* bound: open transactions
          MaxElements,    \* bound: elements of a list
          MaxWrites,      \* bound: writes other than appending
          MaxRoots        \* bound: storage roots asked for, before one drain at most

ASSUME OverlayAssumption ==
    /\ TopKeys \subseteq Nat \ {0} /\ IsFiniteSet(TopKeys) /\ Lists \subseteq TopKeys
    /\ ChildKeys \subseteq Nat \ {0} /\ IsFiniteSet(ChildKeys)
    /\ TopKeys \cap ChildKeys = {} /\ TopKeys \cap OffKeys = {} /\ ChildKeys \cap OffKeys = {}
    /\ \A v \in Writes : v # <<>> /\ IsOption(v)
    /\ Stored = [k \in TopKeys \cup ChildKeys \cup OffKeys |-> Stored[k]]
    /\ \A k \in TopKeys \cup ChildKeys \cup OffKeys : IsOption(Stored[k])

VARIABLES top,        \* OverlayedChanges::top
          child,      \* OverlayedChanges::children, with the one child: <<>> or <<changeset>>
          offchain,   \* OverlayedChanges::offchain
          cache,      \* storage_transaction_cache: <<>> or <<root>>
          backend,
          writes, roots

vars == <<top, child, offchain, cache, backend, writes, roots>>
Keys == TopKeys \cup ChildKeys \cup OffKeys

Init ==
    /\ top = EmptySet /\ child = <<>> /\ offchain = EmptySet /\ cache = <<>>
    /\ backend = Stored /\ writes = 0 /\ roots = 0

-----------------------------------------------------------------------------
(* What is seen of the storage *)

\* Value of a key: that of the overlay, or else that of the backend
storage(cs, k) ==
    IF k \in DOMAIN cs.changes THEN as_option(materialize_in_place(Last(cs.changes[k])))
    ELSE backend[k]

ChildSet == IF child = <<>> THEN spawn_child(top) ELSE child[1]
SetOf(k) == IF k \in TopKeys THEN top ELSE IF k \in ChildKeys THEN ChildSet ELSE offchain

\* A storage root stands for what it is the root of: the two tries.
Root == [k \in TopKeys \cup ChildKeys |-> storage(SetOf(k), k)]

\* The first key after "k" of the backend
backend_next(k) ==
    LET after == {l \in TopKeys : l > k /\ backend[l] # <<>>}
    IN  IF after = {} THEN 0 ELSE Min(after)

(* Mutant: the backend's key is not advanced past a key that the overlay   *)
(* removed.                                                                *)
next_storage_keyNoAdvance(k) ==
    LET keys == {l \in DOMAIN top.changes : l > k}
        walk[rest \in SUBSET keys] == [next \in {0} \cup TopKeys |->
            LET l == Min(rest)
            IN  IF rest = {} \/ (next # 0 /\ next < l) THEN next
                ELSE IF storage(top, l) # <<>> THEN l
                ELSE walk[rest \ {l}][next]]
    IN  walk[keys][backend_next(k)]

(* Ext::next_storage_key: the keys of the overlay are walked in order with *)
(* the next key of the backend beside them.  0 is no key.                  *)
next_storage_key(k) ==
    LET keys == {l \in DOMAIN top.changes : l > k}
        walk[rest \in SUBSET keys] == [next \in {0} \cup TopKeys |->
            LET l == Min(rest)
            IN  IF rest = {} \/ (next # 0 /\ next < l) THEN next
                ELSE IF storage(top, l) # <<>> THEN l
                ELSE walk[rest \ {l}][IF next = l THEN backend_next(l) ELSE next]]
    IN  walk[keys][backend_next(k)]

-----------------------------------------------------------------------------
(* Writes *)

Counted == writes < MaxWrites /\ writes' = writes + 1

AsEntry(v) == IF v = <<>> THEN RemoveEntry ELSE SetEntry(v[1])

place_storage(k, v) ==
    /\ Counted
    /\ top' = set(top, k, AsEntry(v)) /\ cache' = <<>>
    /\ UNCHANGED <<child, offchain, backend, roots>>

\* append_storage does not reset the cached root.
storage_append(k) ==
    LET init == IF backend[k] = <<>> THEN <<>> ELSE backend[k][1]
        now  == storage(top, k)
    IN  /\ now # <<>> => extract_length(now[1]) < MaxElements
        /\ top' = append_storage(top, k, Elem(1), init)
        /\ UNCHANGED <<child, offchain, cache, backend, writes, roots>>

\* The first "limit" keys of a set that the backend has, from the cursor on
FirstInBackend(S, limit, cursor) ==
    LET keys == {k \in S : k >= cursor /\ backend[k] # <<>>}
    IN  {k \in keys : Cardinality({l \in keys : l < k}) < limit}

\* Keys of the backend are removed, unless the overlay has removed them.
limit_remove_from_backend(cs, keys) == RemovedAll(cs, {k \in keys : storage(cs, k) # <<>>})

(* clear_prefix of the keys of a set: first those in the overlay, then the *)
(* first "limit" keys of the backend from the cursor on.                   *)
clear_prefix(S, limit, cursor) ==
    /\ Counted
    /\ top' = limit_remove_from_backend(clear_where(top, S), FirstInBackend(S, limit, cursor))
    /\ cache' = <<>>
    /\ UNCHANGED <<child, offchain, backend, roots>>

place_child_storage(k, v) ==
    /\ Counted
    /\ child' = <<set(ChildSet, k, AsEntry(v))>> /\ cache' = <<>>
    /\ UNCHANGED <<top, offchain, backend, roots>>

kill_child_storage(limit, cursor) ==
    /\ Counted
    /\ child' = <<limit_remove_from_backend(clear_where(ChildSet, ChildKeys),
                                            FirstInBackend(ChildKeys, limit, cursor))>>
    /\ cache' = <<>>
    /\ UNCHANGED <<top, offchain, backend, roots>>

set_offchain_storage(k, v) ==
    /\ Counted
    /\ offchain' = set(offchain, k, AsEntry(v))
    /\ UNCHANGED <<top, child, cache, backend, roots>>

\* A read, which leaves the length in front of an appended list.
ReadStorage(k) ==
    /\ k \in DOMAIN top.changes
    /\ top' = [top EXCEPT !.changes[k] = Read(@)]
    /\ UNCHANGED <<child, offchain, cache, backend, writes, roots>>

-----------------------------------------------------------------------------
(* Transactions *)

StartTransaction ==
    /\ transaction_depth(top) < MaxDepth
    /\ top' = start_transaction(top) /\ offchain' = start_transaction(offchain)
    /\ child' = [i \in DOMAIN child |-> start_transaction(child[i])]
    /\ UNCHANGED <<cache, backend, writes, roots>>

\* A child trie without changes is forgotten.
ChildRolledBack ==
    IF child = <<>> \/ DOMAIN rollback_transaction(child[1]).changes = {} THEN <<>>
    ELSE <<rollback_transaction(child[1])>>

(* Mutant: the cached root survives a rollback. *)
RollbackTransactionKeepsRoot ==
    /\ MayClose(top)
    /\ top' = rollback_transaction(top) /\ offchain' = rollback_transaction(offchain)
    /\ child' = ChildRolledBack
    /\ UNCHANGED <<cache, backend, writes, roots>>

(* The cached root goes even when there is no transaction to close. *)
RollbackTransaction ==
    /\ IF MayClose(top)
       THEN /\ top' = rollback_transaction(top) /\ offchain' = rollback_transaction(offchain)
            /\ child' = ChildRolledBack
       ELSE UNCHANGED <<top, child, offchain>>
    /\ cache' = <<>>
    /\ UNCHANGED <<backend, writes, roots>>

CommitTransaction ==
    /\ MayClose(top)
    /\ top' = commit_transaction(top) /\ offchain' = commit_transaction(offchain)
    /\ child' = [i \in DOMAIN child |-> commit_transaction(child[i])]
    /\ UNCHANGED <<cache, backend, writes, roots>>

EnterRuntime ==
    /\ top.mode = "client"
    /\ top' = enter_runtime(top) /\ offchain' = enter_runtime(offchain)
    /\ child' = [i \in DOMAIN child |-> enter_runtime(child[i])]
    /\ UNCHANGED <<cache, backend, writes, roots>>

\* exit_runtime does not reset the cached root, nor forget a child.
ExitRuntime ==
    /\ top.mode = "runtime"
    /\ top' = exit_runtime(top) /\ offchain' = exit_runtime(offchain)
    /\ child' = [i \in DOMAIN child |-> exit_runtime(child[i])]
    /\ UNCHANGED <<cache, backend, writes, roots>>

-----------------------------------------------------------------------------
(* The root and the end of the block *)

ReadAll(cs) == [cs EXCEPT !.changes = [k \in DOMAIN @ |-> Read(@[k])]]

\* storage_root: computed of what the current transaction sees, unless cached
storage_root ==
    /\ roots < MaxRoots /\ roots' = roots + 1
    /\ IF cache # <<>> THEN UNCHANGED <<top, child, cache>>
       ELSE /\ cache' = <<Root>> /\ top' = ReadAll(top)
            /\ child' = [i \in DOMAIN child |-> ReadAll(child[i])]
    /\ UNCHANGED <<offchain, backend, writes>>

(* drain_storage_changes, and the client's import of what it returns: the  *)
(* tries become what the cached root is the root of.                       *)
drain_storage_changes ==
    LET tries == IF cache = <<>> THEN Root ELSE cache[1]
    IN  /\ top.mode = "client" /\ transaction_depth(top) = 0
        /\ roots <= MaxRoots /\ roots' = MaxRoots + 1
        /\ backend' = [k \in Keys |-> IF k \in OffKeys THEN storage(offchain, k) ELSE tries[k]]
        /\ top' = EmptySet /\ child' = <<>> /\ offchain' = EmptySet /\ cache' = <<>>
        /\ UNCHANGED writes

-----------------------------------------------------------------------------
(* Properties *)

(* The value that a key has again when the transactions above depth "d"    *)
(* are rolled back: a version goes for each of them that wrote the key.    *)
ValueAt(cs, k, d) ==
    LET above == {i \in (d + 1)..transaction_depth(cs) : k \in cs.dirty[i]}
        left  == Undone(Versions(cs, k), Cardinality(above))
    IN  IF left = <<>> THEN backend[k] ELSE as_option(materialize_in_place(Last(left)))

\* The views of the storage, the committed one first, the current one last.
Views == [d \in 1..(transaction_depth(top) + 1) |-> [k \in Keys |-> ValueAt(SetOf(k), k, d - 1)]]

(* The change sets keep in step, and no expect() of them can fail: the     *)
(* three are at the same depth and in the same mode, a key has a version   *)
(* for each open transaction that wrote it and at most one more, and a     *)
(* key of a list gives its data back to a list.                            *)
LockStep ==
    \A cs \in {top, offchain} \cup Range(child) :
        /\ transaction_depth(cs) = transaction_depth(top)
        /\ cs.mode = top.mode /\ cs.client = top.client
        /\ UNION Range(cs.dirty) \subseteq DOMAIN cs.changes
        /\ \A k \in DOMAIN cs.changes :
              LET n == Cardinality({d \in DOMAIN cs.dirty : k \in cs.dirty[d]})
                  versions == cs.changes[k]
              IN  /\ Len(versions) \in {n, n + 1} /\ Len(versions) > 0
                  /\ \A i \in DOMAIN versions :
                        (versions[i].tag = "append" /\ versions[i].parent # NoParent)
                          => i > 1 /\ versions[i - 1].tag = "append"

(* Walking the keys finds those that have a value, in order, whether they  *)
(* are in the overlay, in the backend, in both or removed again.           *)
NextKeyRight ==
    \A k \in {0} \cup TopKeys :
        LET after == {l \in TopKeys : l > k /\ storage(top, l) # <<>>}
        IN  next_storage_key(k) = IF after = {} THEN 0 ELSE Min(after)

(* The cached root, if there is one, is that of what is stored now. *)
RootFresh == cache # <<>> => cache[1] = Root

(* The root that storage_root returns, and that drain_storage_changes      *)
(* hands to the client with the tries it is the root of, goes out of date  *)
(* in two ways only: append_storage changes a value and exit_runtime rolls *)
(* back the transactions that the runtime left open, neither of which      *)
(* calls mark_dirty.  After every other write, clearing, commit, roll back *)
(* or read a cached root is still that of what is stored, or is gone.      *)
RootStaysFresh ==
    [][RootFresh => \/ RootFresh'
                    \/ \E k \in Lists : storage_append(k)
                    \/ ExitRuntime /\ has_open_runtime_transactions(top)]_vars
=============================================================================
