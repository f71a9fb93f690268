-------------------------- MODULE MCNotifications --------------------------
(***************************************************************************)
(* Instances of ControlledNotifications for TLC: one connection with the   *)
(* peer, or two that can be exchanged.                                     *)
(***************************************************************************)
EXTENDS ControlledNotifications, TLC

ConnSymmetry == Permutations(Conns)

NotPoisoned == peer.state # "Poisoned"

(* Bound: messages between `Notifications` and the handlers. *)
MaxInFlight == 4

FewInFlight ==
  MapThenSumSet(LAMBDA c : Len(toHandler[c]) + Len(fromHandler[c]), Conns) <= MaxInFlight
=============================================================================
