------------------------------ MODULE MCOverlay ------------------------------
(***************************************************************************)
(* Two keys of the main trie, of which the second is a list and is in the  *)
(* backend, one key of the child trie, stored with an empty value, one of  *)
(* the offchain database.  With CompactLimit = 2 the length in front of a  *)
(* list grows when the list gets its second element.                       *)
(***************************************************************************)
EXTENDS OverlayViews

MCTopKeys == {1, 2}
MCChildKeys == {11}
MCOffKeys == {21}
MCLists == {2}
MCStored == [k \in {1, 2, 11, 21} |->
                IF k = 2 THEN <<Compact(1) \o <<Elem(9)>>>>
                ELSE IF k = 11 THEN <<<<>>>> ELSE <<>>]
MCWrites == {<<Compact(1) \o <<Elem(1)>>>>}
=============================================================================
