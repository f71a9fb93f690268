--------------------------- MODULE EnactmentState ---------------------------
(***************************************************************************)
(* How the transaction pool follows the chain                              *)
(* (client/transaction-pool/src/common/enactment_state.rs): the last best  *)
(* and the last finalized block it has seen, and what an event about a new *)
(* one asks it to do.  Best and finalized blocks are announced by two      *)
(* streams, so a best block may come after the finalization of a block on  *)
(* another fork.                                                           *)
(***************************************************************************)
EXTENDS Naturals

CONSTANTS Blocks, Genesis,
          Parent,          \* [Blocks -> Blocks], Genesis to itself
          Number,          \* [Blocks -> Nat]
          SkipThreshold    \* SKIP_MAINTENANCE_THRESHOLD

ASSUME ChainAssumption ==
    /\ Genesis \in Blocks
    /\ Parent \in [Blocks -> Blocks] /\ Parent[Genesis] = Genesis
    /\ Number \in [Blocks -> Nat]
    /\ SkipThreshold \in Nat

VARIABLES best, final, \* EnactmentState
          enacted,     \* history: blocks enacted and not retracted
          skipped      \* history: a maintenance was skipped as too far ahead

enactVars == <<best, final, enacted, skipped>>

\* The blocks that are an ancestor of b, or b: what every set has that has b
\* and the parent of each of its blocks.
Ancestors ==
    [b \in Blocks |-> {a \in Blocks : \A S \in SUBSET Blocks :
        (b \in S /\ \A c \in S : Parent[c] \in S) => a \in S}]

Chain(b) == Ancestors[b]

\* sp_blockchain::TreeRoute between two blocks
Retracted(a, b) == Chain(a) \ Chain(b)
Enacted(a, b) == Chain(b) \ Chain(a)

\* Mutant: a late best block may retract the finalized one.
updateRetractsFinal(b, finalized) ==
    IF Number[b] > Number[best] + SkipThreshold
    THEN [action |-> "skip", best |-> IF finalized THEN best ELSE b,
          final |-> IF finalized THEN b ELSE final, far |-> TRUE]
    ELSE IF b = final
    THEN [action |-> "skip", best |-> best, final |-> final, far |-> FALSE]
    ELSE IF finalized /\ Enacted(best, b) = {}
    THEN [action |-> "finalization", best |-> best, final |-> b, far |-> FALSE]
    ELSE [action |-> "enactment", best |-> b, far |-> FALSE,
          final |-> IF finalized THEN b ELSE final]

(* update: what a chain event asks for.  The route is computed from the    *)
(* last best block of the pool, not taken from the event.                  *)
update(b, finalized) ==
    IF Number[b] > Number[best] + SkipThreshold
    THEN [action |-> "skip", best |-> IF finalized THEN best ELSE b,
          final |-> IF finalized THEN b ELSE final, far |-> TRUE]
    ELSE IF b = final \/ final \in Retracted(best, b)
    THEN [action |-> "skip", best |-> best, final |-> final, far |-> FALSE]
    ELSE IF finalized /\ Enacted(best, b) = {}
    THEN [action |-> "finalization", best |-> best, final |-> b, far |-> FALSE]
    ELSE [action |-> "enactment", best |-> b, far |-> FALSE,
          final |-> IF finalized THEN b ELSE final]

EnactInit ==
    /\ best = Genesis /\ final = Genesis
    /\ enacted = Chain(Genesis) /\ skipped = FALSE

\* An event about block b, and the blocks that the maintenance it starts
\* retracts and enacts.
ChainEvent(b, finalized) ==
    LET u == update(b, finalized)
    IN  /\ best' = u.best /\ final' = u.final
        /\ skipped' = (skipped \/ u.far)
        /\ enacted' = IF u.action # "enactment" THEN enacted
                      ELSE (enacted \ Retracted(best, b)) \cup Enacted(best, b)

EnactNext == \E b \in Blocks, finalized \in BOOLEAN : ChainEvent(b, finalized)

EnactSpec == EnactInit /\ [][EnactNext]_enactVars

(* The maintenance keeps to the finalized chain whatever the order of its  *)
(* events: the last finalized block is on the chain of the last best one,  *)
(* and the blocks enacted are that chain, unless a jump was too far to     *)
(* follow and was skipped.                                                 *)
EnactmentFollows ==
    ~skipped => final \in Chain(best) /\ enacted = Chain(best)
=============================================================================
