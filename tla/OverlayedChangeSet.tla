------------------------- MODULE OverlayedChangeSet -------------------------
(***************************************************************************)
(* OverlayedMap: the versions of every written key, one per transaction    *)
(* that wrote it, and the sets of keys that each open transaction wrote.   *)
(* An appended list is moved, not copied, from one version to the next; a  *)
(* version below holds no data until it is given back.                     *)
(*                                                                         *)
(*   changes   [written keys -> Seq(StorageEntry)]   dirty  dirty_keys     *)
(*   client    num_client_transactions               mode   execution_mode *)
(*                                                                         *)
(* Data is a sequence of bytes.  A byte is a record: a part of a compact   *)
(* length or an element of a list; an element is one byte long.  Lengths   *)
(* below CompactLimit take one byte, others two.  Which extrinsic changed  *)
(* a key is left out.                                                      *)
(***************************************************************************)
EXTENDS Integers, Sequences, FiniteSets

CONSTANT CompactLimit   \* 64 in the codec

ASSUME CompactAssumption == CompactLimit \in Nat

\* As in SequencesExt, which is not extended to keep the proofs' context small
Front(s) == SubSeq(s, 1, Len(s) - 1)
Last(s) == s[Len(s)]

NoLength == -1

Byte(kind, n) == [kind |-> kind, n |-> n]
Elem(e) == Byte("elem", e)

Compact(n) == IF n = NoLength THEN <<>>
              ELSE IF n < CompactLimit THEN <<Byte("len", n)>>
              ELSE <<Byte("len", n), Byte("more", n)>>
compact_len(n) == Len(Compact(n))

\* StorageAppend
extract_length(d) == IF d # <<>> /\ d[1].kind = "len" THEN d[1].n ELSE NoLength
replace_length(d, old, new) == Compact(new) \o SubSeq(d, compact_len(old) + 1, Len(d))

\* A length in front of a value is there with all of its bytes.
Bytes == [kind : {"len", "more", "elem"}, n : Int]
WellCoded(d) ==
    LET n == extract_length(d)
    IN  /\ d \in Seq(Bytes)
        /\ n # NoLength => /\ n \in Nat /\ compact_len(n) <= Len(d)
                          /\ SubSeq(d, 1, compact_len(n)) = Compact(n)

\* An optional value
IsOption(v) == v = <<>> \/ (v \in Seq(Seq(Bytes)) /\ Len(v) = 1 /\ WellCoded(v[1]))

\* StorageEntry
RemoveEntry == [tag |-> "remove"]
SetEntry(d) == [tag |-> "set", data |-> d]
Appended(d, len, mat, parent) ==
    [tag |-> "append", data |-> d, current |-> len, materialized |-> mat, parent |-> parent]
NoParent == -1

materialize_in_place(v) ==
    IF v.tag = "append" /\ v.materialized # v.current
    THEN [v EXCEPT !.data = replace_length(@, v.materialized, v.current),
                   !.materialized = v.current]
    ELSE v

\* StorageEntry::to_option, of a materialized entry
as_option(v) == IF v.tag = "remove" THEN <<>> ELSE <<v.data>>

-----------------------------------------------------------------------------
(* OverlayedEntry: the versions of a key, the current one last *)

Replaced(versions, v) == Append(Front(versions), v)

\* Mutant: the length in front of the data is taken to be as long as the parent's.
restore_append_to_parentSameLength(parent, data, mat, size) ==
    IF parent.tag # "append" THEN parent
    ELSE [parent EXCEPT !.materialized = mat,
                        !.data = SubSeq(data, 1, IF size < Len(data) THEN size ELSE Len(data))]

(* The data goes back to the parent, cut to what it held, and with the     *)
(* length that is in front of it now.                                      *)
restore_append_to_parent(parent, data, mat, size) ==
    LET target == (size + compact_len(mat)) - compact_len(parent.materialized)
    IN  IF parent.tag # "append" THEN parent
        ELSE [parent EXCEPT !.materialized = mat,
                            !.data = SubSeq(data, 1, IF target < Len(data) THEN target
                                                     ELSE Len(data))]

\* The version below the current one gets back the data that "v" took from it.
GivenBack(versions, v) ==
    IF v.tag # "append" \/ v.parent = NoParent THEN versions
    ELSE [versions EXCEPT ![Len(versions)] =
            restore_append_to_parent(@, v.data, v.materialized, v.parent)]

\* OverlayedEntry::set
entry_set(versions, v, first) ==
    IF first \/ versions = <<>> THEN Append(versions, v)
    ELSE Append(GivenBack(Front(versions), Last(versions)), v)

\* The entry that appending "e" to the bytes "d" gives.
AppendedTo(d, e) ==
    IF extract_length(d) = NoLength THEN Appended(<<e>>, 1, NoLength, NoParent)
    ELSE Appended(Append(d, e), extract_length(d) + 1, extract_length(d), NoParent)

\* OverlayedEntry::append; "init" is the value in the backend
entry_append(versions, e, first, init) ==
    LET old == Last(versions)
    IN  IF versions = <<>> THEN <<AppendedTo(init, e)>>
        ELSE IF old.tag # "append"
        THEN LET v == AppendedTo(IF old.tag = "set" THEN old.data ELSE <<>>, e)
             IN  IF first THEN Append(versions, v) ELSE Replaced(versions, v)
        ELSE IF first
        THEN Append(Replaced(versions, [old EXCEPT !.data = <<>>]),
                    Appended(Append(old.data, e), old.current + 1, old.materialized,
                             Len(old.data)))
        ELSE Replaced(versions, [old EXCEPT !.data = Append(@, e), !.current = @ + 1])

\* OverlayedEntry::value, which caches what it materializes
Read(versions) == Replaced(versions, materialize_in_place(Last(versions)))

-----------------------------------------------------------------------------
(* OverlayedMap *)

EmptySet == [changes |-> <<>>, dirty |-> <<>>, client |-> 0, mode |-> "client"]

Versions(cs, k) == IF k \in DOMAIN cs.changes THEN cs.changes[k] ELSE <<>>
With(f, x, v) == [y \in DOMAIN f \cup {x} |-> IF y = x THEN v ELSE f[y]]

transaction_depth(cs) == Len(cs.dirty)

insert_dirty(cs, k) == cs.dirty # <<>> /\ k \notin Last(cs.dirty)
Dirtied(dirty, k) == IF dirty = <<>> THEN dirty ELSE Replaced(dirty, Last(dirty) \cup {k})

Written(cs, k, versions) ==
    [cs EXCEPT !.changes = With(@, k, versions), !.dirty = Dirtied(@, k)]

set(cs, k, v) == Written(cs, k, entry_set(Versions(cs, k), v, insert_dirty(cs, k)))
append_storage(cs, k, e, init) ==
    Written(cs, k, entry_append(Versions(cs, k), e, insert_dirty(cs, k), init))

\* The keys of a set are set to no value, one after the other.
RemovedAll(cs, S) ==
    [cs EXCEPT !.changes = [k \in DOMAIN @ \cup S |->
                  IF k \in S THEN entry_set(Versions(cs, k), RemoveEntry, insert_dirty(cs, k))
                  ELSE @[k]],
               !.dirty = IF @ = <<>> THEN @ ELSE Replaced(@, Last(@) \cup S)]

\* clear_where, for the keys of a set
clear_where(cs, S) == RemovedAll(cs, S \cap DOMAIN cs.changes)

\* Mutant: a child that is created inside transactions does not know of them.
spawn_childShallow(cs) == [EmptySet EXCEPT !.client = cs.client, !.mode = cs.mode]

spawn_child(cs) ==
    [EmptySet EXCEPT !.dirty = [i \in DOMAIN cs.dirty |-> {}], !.client = cs.client,
                     !.mode = cs.mode]

start_transaction(cs) == [cs EXCEPT !.dirty = Append(@, {})]

has_open_runtime_transactions(cs) == transaction_depth(cs) > cs.client
MayClose(cs) == /\ cs.dirty # <<>>
                /\ cs.mode = "runtime" => has_open_runtime_transactions(cs)

RolledBack(versions) == GivenBack(Front(versions), Last(versions))

\* The versions of a key without those of the last "n" transactions that wrote it
Undone(versions, n) ==
    LET back[i \in Nat] == IF i = 0 THEN versions ELSE RolledBack(back[i - 1])
    IN  back[n]

\* The last two versions become one.
Merged(versions) ==
    LET new == Last(versions)
        old == Last(Front(versions))
    IN  IF new.tag = "append" /\ old.tag = "append" /\ new.parent # NoParent
        THEN Replaced(Front(versions), [new EXCEPT !.parent = old.parent])
        ELSE Append(GivenBack(Front(Front(versions)), old), new)

rollback_transaction(cs) ==
    LET keys == Last(cs.dirty)
        back == [k \in keys |-> RolledBack(cs.changes[k])]
    IN  [cs EXCEPT !.dirty = Front(@),
                   !.changes = [k \in DOMAIN @ \ {l \in keys : back[l] = <<>>} |->
                                  IF k \in keys THEN back[k] ELSE @[k]]]

\* Of the committed keys, those that the transaction below or the base also wrote.
has_predecessor(cs, k) ==
    IF Len(cs.dirty) > 1 THEN k \in cs.dirty[Len(cs.dirty) - 1] ELSE Len(cs.changes[k]) > 1

commit_transaction(cs) ==
    LET keys == Last(cs.dirty)
        rest == Front(cs.dirty)
    IN  [cs EXCEPT !.dirty = IF rest = <<>> THEN rest ELSE Replaced(rest, Last(rest) \cup keys),
                   !.changes = [k \in DOMAIN @ |->
                      IF k \in keys /\ has_predecessor(cs, k) THEN Merged(@[k]) ELSE @[k]]]

enter_runtime(cs) == [cs EXCEPT !.mode = "runtime", !.client = transaction_depth(cs)]

exit_runtime(cs) ==
    LET left[n \in Nat] == IF n = 0 THEN [cs EXCEPT !.mode = "client"]
                           ELSE rollback_transaction(left[n - 1])
    IN  left[transaction_depth(cs) - cs.client]
=============================================================================
