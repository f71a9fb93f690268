------------------------------ MODULE MCGrandpa ------------------------------
(***************************************************************************)
(* An instance of GrandpaImport: the chain a1, a2, a3, a4 and the fork b2  *)
(* on a1.                                                                  *)
(***************************************************************************)
EXTENDS GrandpaImport

MCBlocks == {"a1", "a2", "a3", "a4", "b2"}

MCParent == [b \in MCBlocks |-> CASE b = "a1" -> "g" [] b \in {"a2", "b2"} -> "a1"
                                  [] b = "a3" -> "a2" [] b = "a4" -> "a3"]

Call(n, d, m) == [name |-> n, delay |-> d, median |-> m]

None == Call("none", 0, 0)
Session == Call("session", 0, 0)
Schedule == Call("schedule", 1, 0)
Stalled(m) == Call("note_stalled", 1, m)

MCCalls == [b \in MCBlocks |->
    CASE b = "a1" -> {None, Session, Schedule, Stalled(0)}
      [] b = "a2" -> {None, Session, Stalled(0), Stalled(1)}
      [] b = "a3" -> {Session}
      [] b = "a4" -> {None}
      [] b = "b2" -> {Session}]
=============================================================================
