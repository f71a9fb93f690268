------------------------- MODULE ProtocolController -------------------------
(***************************************************************************)
(* The peer manager of one notifications protocol                          *)
(* (client/network/src/protocol_controller.rs).  It owns the inbound and   *)
(* outbound slots of the protocol, answers incoming connections, keeps     *)
(* reserved peers connected and fills free outbound slots from the peer    *)
(* store.                                                                  *)
(*                                                                         *)
(* The handlers run to completion on one task.  Their inputs arrive in any *)
(* order here; ControlledNotifications adds the two input channels and     *)
(* the real `Notifications` on the other side.  `sent` holds the messages  *)
(* the last step pushed into `to_notifications`: each handler sends at     *)
(* most one message per peer and the order between peers is that of a hash *)
(* map, so a set says all there is to say.                                 *)
(***************************************************************************)
EXTENDS PeerStanding, Integers, FiniteSets

CONSTANTS MaxIn,    \* config.in_peers
          MaxOut,   \* config.out_peers
          Indices   \* values of IncomingIndex

ASSUME PeersFinite == IsFiniteSet(Peers)
ASSUME SlotsNat == MaxIn \in Nat /\ MaxOut \in Nat

VARIABLES numIn, numOut,    \* occupied slots, reserved peers not counted
          nodes,            \* connected regular peers
          reservedNodes,    \* reserved peers, connected or not
          reservedOnly,
          toInsert,         \* what is left of the two loops of
          toRemove,         \*   on_set_reserved_peers
          sent              \* messages sent by the last step

ctrlVars == <<numIn, numOut, nodes, reservedNodes, reservedOnly,
              toInsert, toRemove, sent>>
vars == <<ctrlVars, standing>>

Direction == {"Inbound", "Outbound"}

Message == [type : {"Connect", "Drop"}, peer : Peers]
             \cup [type : {"Accept", "Reject"}, peer : Peers, index : Indices]

TypeOK ==
  /\ StandingTypeOK
  /\ numIn \in Nat /\ numOut \in Nat
  /\ nodes \in [Peers -> {"absent"} \cup Direction]
  /\ reservedNodes \in [Peers -> {"absent", "NotConnected"} \cup Direction]
  /\ reservedOnly \in BOOLEAN
  /\ toInsert \in SUBSET Peers /\ toRemove \in SUBSET Peers
  /\ sent \in SUBSET Message

Init ==
  /\ StandingInit
  /\ numIn = 0 /\ numOut = 0
  /\ nodes = [p \in Peers |-> "absent"]
  /\ reservedNodes \in [Peers -> {"absent", "NotConnected"}]
  /\ reservedOnly \in BOOLEAN
  /\ toInsert = {} /\ toRemove = {}
  /\ sent = {}

-----------------------------------------------------------------------------
(* Vocabulary of the handlers. *)

IsReserved(p)   == reservedNodes[p] # "absent"
IsRegular(p)    == nodes[p] # "absent"
IsConnected(p)  == IsRegular(p) \/ reservedNodes[p] \in Direction
RegularNodes(d) == {p \in Peers : nodes[p] = d}

(* How many slots of direction d a peer with entry x takes up. *)
Takes(x, d) == IF x = d THEN 1 ELSE 0

(* Removes regular peer p, if it is there, and releases its slot. *)
RemoveRegular(p) ==
  /\ nodes' = [nodes EXCEPT ![p] = "absent"]
  /\ numIn' = numIn - Takes(nodes[p], "Inbound")
  /\ numOut' = numOut - Takes(nodes[p], "Outbound")

DropConnection(p)  == [type |-> "Drop", peer |-> p]
StartConnection(p) == [type |-> "Connect", peer |-> p]
AcceptConnection(p, i) == [type |-> "Accept", peer |-> p, index |-> i]
RejectConnection(p, i) == [type |-> "Reject", peer |-> p, index |-> i]

(* No step of on_set_reserved_peers is outstanding. *)
Idle == toInsert = {} /\ toRemove = {}

(* Faulty: one candidate too few. *)
OutgoingCandidatesFewer(count, ignored) ==
  {C \in SUBSET Eligible(ignored) : Cardinality(C) = count - 1}

(* `PeerStore::outgoing_candidates`: the best `count` peers that are known, *)
(* not banned and not ignored.  Any choice of that many may be the best.    *)
OutgoingCandidates(count, ignored) ==
  LET available == Eligible(ignored)
  IN  {C \in SUBSET available :
         IF Cardinality(available) <= count THEN C = available
                                            ELSE Cardinality(C) = count}

(* alloc_slots, run when the regular peers are rs: it connects the reserved *)
(* peers that are not connected, then fills the free outbound slots.        *)
AllocSlots(rs) ==
  LET resConnect == {p \in Peers : rs[p] = "NotConnected" /\ ~IsBanned(p)}
      ignored    == {p \in Peers : rs[p] # "absent" \/ IsRegular(p)}
  IN  \E C \in IF reservedOnly' \/ numOut >= MaxOut
               THEN {{}} ELSE OutgoingCandidates(MaxOut - numOut, ignored) :
        /\ reservedNodes' = [p \in Peers |->
                               IF p \in resConnect THEN "Outbound" ELSE rs[p]]
        /\ nodes' = [p \in Peers |-> IF p \in C THEN "Outbound" ELSE nodes[p]]
        /\ numOut' = numOut + Cardinality(C)
        /\ numIn' = numIn
        /\ sent' = {StartConnection(p) : p \in resConnect \cup C}

-----------------------------------------------------------------------------
(* Handlers of actions: the outer API. *)

(* Faulty: forgets to discount the occupied slot. *)
PromoteRegularLeak(p) ==
  /\ nodes' = [nodes EXCEPT ![p] = "absent"]
  /\ reservedNodes' = [reservedNodes EXCEPT ![p] = nodes[p]]
  /\ sent' = {}
  /\ UNCHANGED <<numIn, numOut>>

(* A connected regular peer becomes reserved and gives its slot back. *)
PromoteRegular(p) ==
  /\ RemoveRegular(p)
  /\ reservedNodes' = [reservedNodes EXCEPT ![p] = nodes[p]]
  /\ sent' = {}

OnAddReservedPeer(p) ==
  /\ reservedOnly' = reservedOnly
  /\ \/ /\ IsReserved(p)
        /\ sent' = {}
        /\ UNCHANGED <<numIn, numOut, nodes, reservedNodes>>
     \/ ~IsReserved(p) /\ IsRegular(p) /\ PromoteRegular(p)
     \/ /\ ~IsReserved(p) /\ ~IsRegular(p)
        /\ AllocSlots([reservedNodes EXCEPT ![p] = "NotConnected"])

(* Faulty: off by one at the slot limit. *)
NoSlotForOffByOne(d) == \/ reservedOnly
                        \/ d = "Inbound" /\ numIn > MaxIn
                        \/ d = "Outbound" /\ numOut > MaxOut

(* At (or over) the regular limit of direction d, or no regular peer wanted. *)
NoSlotFor(d) == \/ reservedOnly
                \/ d = "Inbound" /\ numIn >= MaxIn
                \/ d = "Outbound" /\ numOut >= MaxOut

(* A connected reserved peer becomes a regular one if a slot is free for it, *)
(* and is disconnected otherwise.                                            *)
OnRemoveReservedPeer(p) ==
  LET d == reservedNodes[p]
  IN  /\ reservedNodes' = [reservedNodes EXCEPT ![p] = "absent"]
      /\ reservedOnly' = reservedOnly
      /\ \/ /\ d \notin Direction
            /\ sent' = {}
            /\ UNCHANGED <<numIn, numOut, nodes>>
         \/ /\ d \in Direction /\ NoSlotFor(d)
            /\ sent' = {DropConnection(p)}
            /\ UNCHANGED <<numIn, numOut, nodes>>
         \/ /\ d \in Direction /\ ~NoSlotFor(d)
            /\ nodes' = [nodes EXCEPT ![p] = d]
            /\ numIn' = numIn + Takes(d, "Inbound")
            /\ numOut' = numOut + Takes(d, "Outbound")
            /\ sent' = {}

(* The loops of on_set_reserved_peers are run one call at a time: the peer  *)
(* store is shared with other threads and may change between two of them.   *)
OnSetReservedPeers(new) ==
  LET current == {p \in Peers : IsReserved(p)}
  IN  /\ toInsert' = new \ current
      /\ toRemove' = current \ new
      /\ sent' = {}
      /\ UNCHANGED <<numIn, numOut, nodes, reservedNodes, reservedOnly>>

SetReservedInsert(p) ==
  /\ p \in toInsert
  /\ toInsert' = toInsert \ {p}
  /\ toRemove' = toRemove
  /\ OnAddReservedPeer(p)

SetReservedRemove(p) ==
  /\ toInsert = {} /\ p \in toRemove
  /\ toRemove' = toRemove \ {p}
  /\ toInsert' = toInsert
  /\ OnRemoveReservedPeer(p)

OnSetReservedOnly(only) ==
  /\ reservedOnly' = only
  /\ \/ /\ ~only
        /\ AllocSlots(reservedNodes)
     \/ /\ only
        /\ sent' = {DropConnection(p) : p \in {q \in Peers : IsRegular(q)}}
        /\ numIn' = numIn - Cardinality(RegularNodes("Inbound"))
        /\ numOut' = numOut - Cardinality(RegularNodes("Outbound"))
        /\ nodes' = [p \in Peers |-> "absent"]
        /\ reservedNodes' = reservedNodes

(* Faulty: drops a peer that is not connected. *)
OnDisconnectPeerUnknown(p) ==
  /\ UNCHANGED <<reservedNodes, reservedOnly>>
  /\ RemoveRegular(p)
  /\ sent' = IF IsReserved(p) THEN {} ELSE {DropConnection(p)}

OnDisconnectPeer(p) ==
  /\ UNCHANGED <<reservedNodes, reservedOnly>>
  /\ \/ /\ ~IsReserved(p) /\ IsRegular(p)
        /\ RemoveRegular(p)
        /\ sent' = {DropConnection(p)}
     \/ /\ IsReserved(p) \/ ~IsRegular(p)
        /\ sent' = {}
        /\ UNCHANGED <<numIn, numOut, nodes>>

-----------------------------------------------------------------------------
(* Handlers of events: what Notifications reports. *)

(* A peer already counted as connected is decided on again. *)
OnIncomingConnection(p, i) ==
  LET inNow == numIn - Takes(nodes[p], "Inbound")
  IN /\ reservedOnly' = reservedOnly
     /\ \/ /\ reservedOnly /\ ~IsReserved(p)
           /\ sent' = {RejectConnection(p, i)}
           /\ UNCHANGED <<numIn, numOut, nodes, reservedNodes>>
        \/ /\ IsReserved(p)
           /\ reservedNodes[p] \in Direction \/ ~IsBanned(p)
           /\ reservedNodes' = [reservedNodes EXCEPT ![p] = "Inbound"]
           /\ sent' = {AcceptConnection(p, i)}
           /\ UNCHANGED <<numIn, numOut, nodes>>
        \/ /\ reservedNodes[p] = "NotConnected" /\ IsBanned(p)
           /\ sent' = {RejectConnection(p, i)}
           /\ UNCHANGED <<numIn, numOut, nodes, reservedNodes>>
        \/ /\ ~reservedOnly /\ ~IsReserved(p)
           /\ inNow >= MaxIn \/ IsBanned(p)
           /\ RemoveRegular(p)
           /\ reservedNodes' = reservedNodes
           /\ sent' = {RejectConnection(p, i)}
        \/ /\ ~reservedOnly /\ ~IsReserved(p)
           /\ inNow < MaxIn /\ ~IsBanned(p)
           /\ nodes' = [nodes EXCEPT ![p] = "Inbound"]
           /\ numIn' = inNow + 1
           /\ numOut' = numOut - Takes(nodes[p], "Outbound")
           /\ reservedNodes' = reservedNodes
           /\ sent' = {AcceptConnection(p, i)}

(* A reserved peer that is not connected is an error that is only logged. *)
OnPeerDropped(p) ==
  /\ reservedOnly' = reservedOnly
  /\ sent' = {}
  /\ \/ /\ reservedNodes[p] \in Direction
        /\ reservedNodes' = [reservedNodes EXCEPT ![p] = "NotConnected"]
        /\ ReportDisconnect(p)
        /\ UNCHANGED <<numIn, numOut, nodes>>
     \/ /\ ~IsReserved(p) /\ IsRegular(p)
        /\ RemoveRegular(p)
        /\ ReportDisconnect(p)
        /\ reservedNodes' = reservedNodes
     \/ /\ reservedNodes[p] = "NotConnected" \/ (~IsReserved(p) /\ ~IsRegular(p))
        /\ UNCHANGED <<numIn, numOut, nodes, reservedNodes, standing>>

-----------------------------------------------------------------------------
(* Faulty: does nothing in reserved-only mode. *)
PeriodicAllocSlotsRegular ==
  /\ Idle /\ ~reservedOnly
  /\ reservedOnly' = reservedOnly
  /\ AllocSlots(reservedNodes)
  /\ UNCHANGED <<toInsert, toRemove, standing>>

(* The `next_alloc_slots` timer of next_action. *)
PeriodicAllocSlots ==
  /\ Idle
  /\ reservedOnly' = reservedOnly
  /\ AllocSlots(reservedNodes)
  /\ UNCHANGED <<toInsert, toRemove, standing>>

(* process_action; GetReservedPeers only reads. *)
ProcessAction ==
  /\ Idle
  /\ standing' = standing
  /\ \/ \E new \in SUBSET Peers : OnSetReservedPeers(new)
     \/ /\ UNCHANGED <<toInsert, toRemove>>
        /\ \/ \E p \in Peers : \/ OnAddReservedPeer(p)
                               \/ OnRemoveReservedPeer(p)
                               \/ OnDisconnectPeer(p)
           \/ \E only \in BOOLEAN : OnSetReservedOnly(only)

(* process_event. *)
ProcessEvent ==
  /\ Idle
  /\ UNCHANGED <<toInsert, toRemove>>
  /\ \/ \E p \in Peers, i \in Indices :
          OnIncomingConnection(p, i) /\ standing' = standing
     \/ \E p \in Peers : OnPeerDropped(p)

ContinueSetReserved ==
  /\ \E p \in Peers : SetReservedInsert(p) \/ SetReservedRemove(p)
  /\ standing' = standing

(* The other users of the shared peer store. *)
PeerStoreStep ==
  /\ \/ \E p \in Peers : AddKnownPeer(p) \/ ReportPeer(p)
     \/ ProgressTime
  /\ UNCHANGED ctrlVars

Next == \/ ProcessAction \/ ProcessEvent \/ ContinueSetReserved
        \/ PeriodicAllocSlots \/ PeerStoreStep

(* The controller's task keeps running: the loop of a handler ends, and the *)
(* timer is served once per second when the channels leave time for it.     *)
Fairness == WF_vars(ContinueSetReserved) /\ SF_vars(PeriodicAllocSlots)

Spec == Init /\ [][Next]_vars /\ Fairness

-----------------------------------------------------------------------------
(* Properties. *)

(* The slot counters are exactly the number of regular peers of each        *)
(* direction: every handler that moves a peer also moves the counter, so    *)
(* the unsigned `num_in -= 1` and `num_out -= 1` never wrap and a slot is   *)
(* never leaked.                                                            *)
SlotAccounting ==
  /\ numIn = Cardinality(RegularNodes("Inbound"))
  /\ numOut = Cardinality(RegularNodes("Outbound"))

(* Regular peers never exceed the configured slots, whichever way a peer    *)
(* became regular: accepted, dialled, or demoted from reserved.             *)
SlotLimits == numIn <= MaxIn /\ numOut <= MaxOut

(* A reserved peer is never also a regular one: the `assert!` of            *)
(* on_remove_reserved_peer, "Corrupted state: reserved node was also        *)
(* non-reserved.", cannot fire.                                             *)
ReservedNotRegular == \A p \in Peers : ~(IsReserved(p) /\ IsRegular(p))

(* In reserved-only mode no regular peer is connected.                      *)
ReservedOnlyRespected == reservedOnly => \A p \in Peers : ~IsRegular(p)

(* No handler takes up a connection with a peer that is banned at that time *)
(* (on_incoming_connection, alloc_slots and outgoing_candidates each test). *)
BannedNotConnected ==
  [][\A p \in Peers : ~IsConnected(p) /\ IsConnected(p)' => ~IsBanned(p)]_vars

(* The messages sent tell Notifications exactly which peers the controller  *)
(* counts as connected.                                                     *)
Commands == INSTANCE ConnectionCommands
              WITH connected <- {p \in Peers : IsConnected(p)}
CommandsSpec == Commands!Spec

(* The periodic alloc_slots never leaves a reserved peer unconnected for    *)
(* ever while the peer is not banned.                                       *)
ReservedEventuallyConnected ==
  \A p \in Peers :
    []<>~(reservedNodes[p] = "NotConnected" /\ ~IsBanned(p))

(* An outbound slot does not stay free for ever while the store knows a     *)
(* peer that could take it.                                                 *)
SlotsEventuallyFilled ==
  []<>~(/\ ~reservedOnly /\ numOut < MaxOut
        /\ Eligible({p \in Peers : IsReserved(p) \/ IsRegular(p)}) # {})
=============================================================================
