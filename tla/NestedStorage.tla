--------------------------- MODULE NestedStorage ---------------------------
(***************************************************************************)
(* What the overlay of the state machine promises the runtime: a stack of  *)
(* complete views of the storage.  Writes change the view on top, a        *)
(* transaction starts with a copy of it, a commit keeps it in the place of *)
(* the one below, a rollback returns to the one below.  While the runtime  *)
(* executes, the transactions that the client opened before are out of its *)
(* reach, and those it leaves open are rolled back when it returns.        *)
(*                                                                         *)
(* Its actions are taken with those of the overlay (OverlayViews).         *)
(* A value is optional: <<>> is no value, <<d>> the value d.               *)
(***************************************************************************)
EXTENDS Naturals, Sequences

CONSTANTS Locations,      \* storage keys
          Initial         \* [Locations -> optional value]

VARIABLES stack, mode, client

Depth == Len(stack) - 1
Top == stack[Len(stack)]

Init == stack = <<Initial>> /\ mode = "client" /\ client = 0

Put(k, v) ==
    /\ stack' = [stack EXCEPT ![Len(stack)][k] = v]
    /\ UNCHANGED <<mode, client>>

Clear(S) ==
    /\ stack' = [stack EXCEPT ![Len(stack)] = [k \in Locations |-> IF k \in S THEN <<>> ELSE @[k]]]
    /\ UNCHANGED <<mode, client>>

(* What was drained is what there is: the tries as they were when their    *)
(* root was taken, the other locations as they are.                        *)
Adopt(tries) ==
    /\ stack' = <<[k \in Locations |-> IF k \in DOMAIN tries THEN tries[k] ELSE Top[k]]>>
    /\ UNCHANGED <<mode, client>>

Start == stack' = Append(stack, Top) /\ UNCHANGED <<mode, client>>

MayClose == Depth > client

Commit ==
    /\ MayClose
    /\ stack' = Append(SubSeq(stack, 1, Depth - 1), Top)
    /\ UNCHANGED <<mode, client>>

Rollback == MayClose /\ stack' = SubSeq(stack, 1, Depth) /\ UNCHANGED <<mode, client>>

Enter == mode = "client" /\ mode' = "runtime" /\ client' = Depth /\ UNCHANGED stack

Exit ==
    /\ mode = "runtime" /\ mode' = "client" /\ client' = 0
    /\ stack' = SubSeq(stack, 1, client + 1)
=============================================================================
