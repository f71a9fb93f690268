---------------------------- MODULE OverlayViews ----------------------------
(***************************************************************************)
(* The overlay beside what it promises: every operation of the overlay is  *)
(* taken together with the operation of NestedStorage it stands for.  The  *)
(* views that the overlay would show at every depth have to be the stack   *)
(* of views, at each step.                                                 *)
(***************************************************************************)
EXTENDS Overlay

VARIABLES stack, mode, client

\* An optional list with one more element; what is no list is replaced.
Longer(v, e) ==
    LET n == IF v = <<>> THEN NoLength ELSE extract_length(v[1])
    IN  IF n = NoLength THEN <<Compact(1) \o <<e>>>>
        ELSE <<Append(replace_length(v[1], n, n + 1), e)>>

Nested == INSTANCE NestedStorage WITH Locations <- Keys, Initial <- Stored

same == UNCHANGED <<stack, mode, client>>

\* The keys of a set that clear_prefix and kill_child_storage clear.
Cleared(cs, S, limit, cursor) == (S \cap DOMAIN cs.changes) \cup FirstInBackend(S, limit, cursor)

\* What a drain writes to the tries: what the cached root is the root of.
Drained == IF cache = <<>> THEN Root ELSE cache[1]

InitViews == Init /\ Nested!Init

NextViews ==
    \/ \E k \in TopKeys, v \in Writes \cup {<<>>} : place_storage(k, v) /\ Nested!Put(k, v)
    \/ \E k \in Lists : storage_append(k) /\ Nested!Put(k, Longer(Nested!Top[k], Elem(1)))
    \/ \E k \in Lists : ReadStorage(k) /\ same
    \/ \E S \in {TopKeys, Lists}, limit \in 0..Cardinality(TopKeys), cursor \in {0} \cup TopKeys :
          clear_prefix(S, limit, cursor) /\ Nested!Clear(Cleared(top, S, limit, cursor))
    \/ \E k \in ChildKeys, v \in Writes \cup {<<>>} :
          place_child_storage(k, v) /\ Nested!Put(k, v)
    \/ \E limit \in 0..Cardinality(ChildKeys), cursor \in {0} \cup ChildKeys :
          kill_child_storage(limit, cursor) /\ Nested!Clear(Cleared(ChildSet, ChildKeys, limit, cursor))
    \/ \E k \in OffKeys, v \in Writes :
          set_offchain_storage(k, v) /\ Nested!Put(k, v)
    \/ StartTransaction /\ Nested!Start
    \/ RollbackTransaction /\ IF MayClose(top) THEN Nested!Rollback ELSE same
    \/ CommitTransaction /\ Nested!Commit
    \/ EnterRuntime /\ Nested!Enter
    \/ ExitRuntime /\ Nested!Exit
    \/ storage_root /\ same
    \/ drain_storage_changes /\ Nested!Adopt(Drained)

SpecViews == InitViews /\ [][NextViews]_<<vars, stack, mode, client>>

-----------------------------------------------------------------------------
(* Properties *)

(* The overlay shows, at every depth, the view that complete copies would  *)
(* show, whatever is written, appended, read, cleared, committed or rolled *)
(* back, and it lets the same transactions be closed: a list that was      *)
(* moved into a transaction is given back whole.  A drain leaves what it   *)
(* wrote: the same view, or that of a cached root gone out of date (see    *)
(* RootStaysFresh).                                                        *)
SeesNested ==
    /\ Views = stack
    /\ MayClose(top) <=> Nested!MayClose
    /\ top.mode = mode /\ (mode = "runtime" => top.client = client)
=============================================================================
