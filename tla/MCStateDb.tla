------------------------------ MODULE MCStateDb ------------------------------
(***************************************************************************)
(* An instance of StateDb.  p is the first block; a1 and c1 are built on   *)
(* it, a2 and b2 on a1, c2 on c1, a3 on a2.  Every block inserts its root  *)
(* and deletes its parent's.  The node x is deleted by a1 and inserted     *)
(* again by a2; y is deleted by c1 only, so that a1 and c1 disagree on     *)
(* both; z is inserted by a1 and by c1.                                    *)
(***************************************************************************)
EXTENDS StateDb

MCBlocks == {"p", "a1", "a2", "a3", "b2", "c1", "c2"}

MCParent == [b \in MCBlocks |->
    CASE b = "p" -> "none" [] b \in {"a1", "c1"} -> "p"
      [] b \in {"a2", "b2"} -> "a1" [] b = "a3" -> "a2" [] b = "c2" -> "c1"]

MCKeys == MCBlocks \cup {"x", "y", "z"}

MCRoot == [b \in MCBlocks |-> b]

MCIns == [b \in MCBlocks |-> {b} \cup
    CASE b = "p" -> {"x", "y"} [] b \in {"a1", "c1"} -> {"z"}
      [] b = "a2" -> {"x"} [] OTHER -> {}]

MCDel == [b \in MCBlocks |-> ({MCParent[b]} \cap MCBlocks) \cup
    CASE b = "a1" -> {"x"} [] b = "c1" -> {"y"} [] b = "b2" -> {"z"} [] OTHER -> {}]

Setup(m, c, n) == [mode |-> m, counting |-> c, offset |-> n]

MCSetups == {Setup("constrained", TRUE, 0), Setup("constrained", FALSE, 2),
             Setup("archive_canonical", TRUE, 0)}
=============================================================================
