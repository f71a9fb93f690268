------------------------ MODULE OverlayTheorems_proofs ------------------------
(***************************************************************************)
(* The theorems about the overlay: the laws hold, from the lemmas of       *)
(* OverlayedChangeSet_proofs and the theorems about finite sets, hence so  *)
(* does what OverlayViews_proofs shows from them.                          *)
(***************************************************************************)
EXTENDS OverlayedChangeSet_proofs, OverlayViews_proofs, FiniteSetTheorems

(* Cardinalities, from the theorems about finite sets. *)
LEMMA CountHolds == CountLaw
<1>1. IsFiniteSet({})  BY Zenon, FS_EmptySet
<1>2. ASSUME NEW n \in Nat PROVE IsFiniteSet(1..n)  BY FS_Interval
<1>3. ASSUME NEW S, IsFiniteSet(S) PROVE Cardinality(S) \in Nat /\ (Cardinality(S) = 0 <=> S = {})
  BY Zenon, <1>3, FS_CardinalityType, FS_EmptySet
<1>4. ASSUME NEW S, IsFiniteSet(S), NEW T \in SUBSET S PROVE IsFiniteSet(T) /\ Cardinality(T) <= Cardinality(S)
  BY Zenon, <1>4, FS_Subset
<1>5. ASSUME NEW S, IsFiniteSet(S), NEW x \in S PROVE Cardinality(S \ {x}) = Cardinality(S) - 1
  BY Zenon, <1>5, FS_RemoveElement
<1>6. ASSUME NEW S, IsFiniteSet(S), NEW x, x \notin S PROVE Cardinality(S \cup {x}) = Cardinality(S) + 1
  BY Zenon, <1>6, FS_AddElement
<1> QED  BY Zenon, <1>1, <1>2, <1>3, <1>4, <1>5, <1>6 DEF CountLaw

(* The operations of a change set obey the laws. *)
LEMMA LawsHold == Laws
<1>1. FieldsLaw  BY Zenon, ChangeSetIs DEF FieldsLaw
<1>2. UpdateLaw  BY Zenon, UpdatedParts DEF UpdateLaw
<1>3. VersionsLaw  BY Zenon, VersionsIs DEF VersionsLaw
<1>4. LengthLaw  BY Zenon, EmptyOrNot DEF LengthLaw
<1>5. TopLaw  BY Zenon, CountHolds, ValueOnTop DEF TopLaw
<1>6. OptionLaw  BY Zenon, CountHolds, ValueOption DEF OptionLaw
<1>7. PlainLaw  BY Zenon, PlainIs DEF PlainLaw
<1>8. RemovedLaw  BY Zenon, RemoveEntryIs DEF RemovedLaw
<1>9. SetLaw  BY Zenon, CountHolds, SetStorageIs DEF SetLaw
<1>10. AppendLaw  BY Zenon, CountHolds, AppendStorageIs DEF AppendLaw
<1>11. RemovesLaw  BY Zenon, CountHolds, RemovedAllIs DEF RemovesLaw
<1>12. ReadsLaw  BY Zenon, CountHolds, ReadInIs DEF ReadsLaw
<1>13. StartLaw  BY Zenon, CountHolds, StartIs DEF StartLaw
<1>14. CommitLaw  BY Zenon, CountHolds, CommitIs DEF CommitLaw
<1>15. RollbackLaw  BY Zenon, CountHolds, RollbackIs DEF RollbackLaw
<1>16. EnterLaw  BY Zenon, EntersIs DEF EnterLaw
<1>17. ExitLaw  BY Zenon, CountHolds, ExitIs DEF ExitLaw
<1>18. EmptyLaw  BY Zenon, CountHolds, EmptySetIs DEF EmptyLaw
<1>19. SpawnLaw  BY Zenon, CountHolds, SpawnIs DEF SpawnLaw
<1>20. SpawnSameLaw  BY Zenon, SpawnSame DEF SpawnSameLaw
<1>21. FreshStartLaw  BY Zenon, FreshStarts DEF FreshStartLaw
<1>22. FreshCommitLaw  BY Zenon, FreshCommits DEF FreshCommitLaw
<1>23. FreshRollbackLaw  BY Zenon, FreshRollsBack DEF FreshRollbackLaw
<1>24. FreshEnterLaw  BY Zenon, FreshEnters DEF FreshEnterLaw
<1>25. FreshExitLaw  BY Zenon, FreshExits DEF FreshExitLaw
<1>26. ForgetLaw  BY Zenon, CountHolds, ForgottenIs DEF ForgetLaw
<1>27. LeastLaw  BY Zenon, LeastNumber DEF LeastLaw
<1>28. InductionLaw  BY Zenon, AllNumbers DEF InductionLaw
<1> QED
  BY Zenon, <1>1, <1>2, <1>3, <1>4, <1>5, <1>6, <1>7, <1>8, <1>9, <1>10, <1>11, <1>12, <1>13, <1>14,
     <1>15, <1>16, <1>17, <1>18, <1>19, <1>20, <1>21, <1>22, <1>23, <1>24, <1>25, <1>26, <1>27,
     <1>28, CountHolds DEF Laws

(* The inductive invariant of the overlay beside NestedStorage. *)
THEOREM ViewsInvariant == SpecViews => []ViewsInv
<1>1. InitViews => ViewsInv  BY Zenon, LawsHold, InitViewsInv
<1>2. ViewsInv /\ [NextViews]_<<vars, stack, mode, client>> => ViewsInv'
  BY Zenon, LawsHold, NextViewsInv
<1> QED  BY <1>1, <1>2, PTL DEF SpecViews

(* The overlay shows at every depth the view that complete copies of the storage would     *)
(* show, and lets the same transactions be closed (SeesNested): for any keys and values,   *)
(* any depth, and any length of the lists that transactions move and give back.            *)
THEOREM OverlayShowsNested == SpecViews => []SeesNested
<1>1. ViewsInv => SeesNested  BY Zenon, LawsHold, SeesIs
<1> QED  BY <1>1, ViewsInvariant, PTL

(* A cached storage root goes out of date only by append_storage, and by exit_runtime with *)
(* transactions left open, for any keys, values and depth (RootStaysFresh).                *)
THEOREM CachedRootStaysFresh == SpecViews => RootStaysFresh
<1>1. ViewsInv /\ [NextViews]_<<vars, stack, mode, client>>
        => [RootFresh => RootFresh' \/ Staling]_vars
  <2> SUFFICES ASSUME ViewsInv, [NextViews]_<<vars, stack, mode, client>>, RootFresh
               PROVE  RootFresh' \/ Staling
    BY Zenon
  <2> QED  BY Zenon, LawsHold, NextViewsInv DEF Stays
<1>2. [RootFresh => RootFresh' \/ Staling]_vars
        => [RootFresh => \/ RootFresh'
                         \/ \E k \in Lists : storage_append(k)
                         \/ ExitRuntime /\ has_open_runtime_transactions(top)]_vars
  BY Zenon DEF Staling
<1> QED  BY <1>1, <1>2, ViewsInvariant, PTL DEF SpecViews, RootStaysFresh

(* The change sets keep in step, whatever is done (LockStep): the expect() calls of        *)
(* close_transaction and of the roll back of a list never fail.                            *)
THEOREM ChangeSetsInLockStep == SpecViews => []LockStep
<1>1. ViewsInv => LockStep  BY Zenon, LawsHold, LockStepIs DEF ViewsInv
<1> QED  BY <1>1, ViewsInvariant, PTL

(* The next key is the first key that has a value once the changes of the overlay are      *)
(* applied (NextKeyRight): Ext::next_storage_key neither skips a key that the overlay      *)
(* added nor returns one that it removed.                                                  *)
THEOREM NextKeyIsRight == SpecViews => []NextKeyRight
<1>1. ViewsInv => NextKeyRight  BY Zenon, LawsHold, NextKeyRightIs DEF ViewsInv, Aligned
<1> QED  BY <1>1, ViewsInvariant, PTL

=============================================================================
