------------------------- MODULE ConnectionCommands -------------------------
(***************************************************************************)
(* What a protocol controller promises to `Notifications`, the reader of   *)
(* its messages (docs of `Message` in protocol_controller.rs): the         *)
(* messages, read together with the `Dropped` reports the controller has   *)
(* already processed, say exactly which peers it counts as connected.      *)
(* A `Connect` goes to a peer that is not connected, a `Drop` to one that  *)
(* is, `Accept` and `Reject` settle the peer either way, and one batch     *)
(* never contradicts itself.                                               *)
(***************************************************************************)
CONSTANT Peers

VARIABLES connected,   \* peers the controller counts as connected
          sent         \* messages of the last step

Init == connected = {} /\ sent = {}

PeersOf(ms, types) ==
  {p \in Peers : \E m \in ms : m.peer = p /\ m.type \in types}

Consistent(ms) ==
  /\ \A m, n \in ms : m.peer = n.peer => m = n
  /\ PeersOf(ms, {"Connect"}) \cap connected = {}
  /\ PeersOf(ms, {"Drop"}) \subseteq connected

Emit ==
  /\ Consistent(sent')
  /\ connected' = (connected \cup PeersOf(sent', {"Connect", "Accept"}))
                    \ PeersOf(sent', {"Drop", "Reject"})

Dropped ==
  /\ sent' = {}
  /\ \E p \in connected : connected' = connected \ {p}

Next == Emit \/ Dropped

Spec == Init /\ [][Next]_<<connected, sent>>
=============================================================================
