------------------------------ MODULE MCTxPool ------------------------------
(***************************************************************************)
(* One account whose transactions carry nonces, as CheckNonce validates    *)
(* them: a transaction provides the tag of its nonce and requires the one  *)
(* before, unless the account has reached it.  x1 and x1r are two          *)
(* transactions of one nonce, the second of the higher priority; x2 is     *)
(* valid for one block only.  The chain has a fork: g - a1 - a2 and g - b1. *)
(***************************************************************************)
EXTENDS TxPool

MCHashes == {"x0", "x1", "x1r", "x2"}
MCTags == {"X0", "X1", "X2"}

Nonce(h) == CASE h = "x0" -> 0 [] h \in {"x1", "x1r"} -> 1 [] h = "x2" -> 2
Tag(n) == CASE n = 0 -> "X0" [] n = 1 -> "X1" [] n = 2 -> "X2"

MCProvides == [h \in MCHashes |-> <<Tag(Nonce(h))>>]
MCPriority == [h \in MCHashes |-> IF h = "x1r" THEN 2 ELSE 1]

MCBlocks == {"g", "a1", "a2", "b1"}
MCParent == [b \in MCBlocks |-> IF b = "a2" THEN "a1" ELSE "g"]
MCNumber == [b \in MCBlocks |-> CASE b = "g" -> 0 [] b = "a2" -> 2 [] OTHER -> 1]
MCBody == [b \in MCBlocks |-> CASE b = "a1" -> <<"x0">> [] b = "a2" -> <<"x1">>
                                [] OTHER -> <<>>]

\* The nonce of the account in the state of each block.
AccountNonce(b) == CASE b = "a1" -> 1 [] b = "a2" -> 2 [] OTHER -> 0

MCValidity ==
    [b \in MCBlocks |-> [h \in MCHashes |->
        LET longevity == IF h = "x2" THEN 1 ELSE 9
        IN  IF Nonce(h) < AccountNonce(b) THEN Invalid
            ELSE IF Nonce(h) = AccountNonce(b) THEN Valid(<<>>, longevity)
            ELSE Valid(<<Tag(Nonce(h) - 1)>>, longevity)]]
=============================================================================
