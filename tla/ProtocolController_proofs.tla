---------------------- MODULE ProtocolController_proofs ----------------------
(***************************************************************************)
(* Proofs about ProtocolController for any finite set of peers and any     *)
(* number of slots: the slot books are exact and within the limits, and    *)
(* the messages implement ConnectionCommands.                              *)
(***************************************************************************)
EXTENDS ProtocolController, FiniteSetTheorems, TLAPS

(* The inductive invariant.  No conjunct is inductive alone: the limits     *)
(* need exact counters, exact counters need reserved and regular peers to   *)
(* be disjoint, and both need the types.                                    *)
IndInv == /\ TypeOK
          /\ SlotAccounting
          /\ SlotLimits
          /\ ReservedNotRegular
          /\ ReservedOnlyRespected

NodeStates == {"absent"} \cup Direction

(* The peers a map sends to d. *)
Slots(f, d) == {q \in Peers : f[q] = d}

(* Sets of peers are finite and have a natural cardinality. *)
LEMMA SlotsFinite ==
  ASSUME NEW S \in SUBSET Peers
  PROVE  IsFiniteSet(S) /\ Cardinality(S) \in Nat
BY PeersFinite, FS_Subset, FS_CardinalityType

(* Writing v at one peer moves the count of direction d by the difference.  *)
LEMMA SlotsExcept ==
  ASSUME NEW f \in [Peers -> NodeStates], NEW p \in Peers,
         NEW v \in NodeStates, NEW d \in Direction
  PROVE  Cardinality(Slots([f EXCEPT ![p] = v], d))
           = Cardinality(Slots(f, d)) - Takes(f[p], d) + Takes(v, d)
<1> DEFINE S == Slots(f, d)
           T == Slots([f EXCEPT ![p] = v], d)
<1>1. S \in SUBSET Peers
  BY DEF Slots
<1>2. IsFiniteSet(S) /\ Cardinality(S) \in Nat
  BY <1>1, SlotsFinite
<1>3. /\ Cardinality(S \cup {p}) = IF p \in S THEN Cardinality(S) ELSE Cardinality(S) + 1
      /\ Cardinality(S \ {p}) = IF p \in S THEN Cardinality(S) - 1 ELSE Cardinality(S)
  BY <1>2, FS_AddElement, FS_RemoveElement
<1>4. Takes(f[p], d) = IF p \in S THEN 1 ELSE 0
  BY DEF Slots, Takes
<1>5. T = IF v = d THEN S \cup {p} ELSE S \ {p}
  BY DEF Slots
<1>6. Takes(v, d) = IF v = d THEN 1 ELSE 0
  BY DEF Takes
<1> HIDE DEF S, T
<1>7. Cardinality(T) = Cardinality(S) - Takes(f[p], d) + Takes(v, d)
  BY <1>2, <1>3, <1>4, <1>5, <1>6
<1> QED BY <1>7 DEF S, T

(* Once the map of regular peers is known after a step, so are the books:   *)
(* a step that writes v at p moves both counters by the difference.         *)
LEMMA BooksAfterWrite ==
  ASSUME TypeOK, SlotAccounting, NEW p \in Peers, NEW v \in NodeStates,
         nodes' = [nodes EXCEPT ![p] = v],
         numIn' = numIn - Takes(nodes[p], "Inbound") + Takes(v, "Inbound"),
         numOut' = numOut - Takes(nodes[p], "Outbound") + Takes(v, "Outbound")
  PROVE  /\ SlotAccounting'
         /\ numIn' \in Nat /\ numOut' \in Nat
         /\ nodes' \in [Peers -> NodeStates]
<1>1. nodes \in [Peers -> NodeStates]
  BY DEF TypeOK, NodeStates
<1>2. /\ numIn = Cardinality(Slots(nodes, "Inbound"))
      /\ numOut = Cardinality(Slots(nodes, "Outbound"))
  BY DEF SlotAccounting, Slots, RegularNodes
<1>3. /\ Cardinality(Slots(nodes', "Inbound")) = numIn'
      /\ Cardinality(Slots(nodes', "Outbound")) = numOut'
  BY <1>1, <1>2, SlotsExcept DEF Direction
<1>4. SlotAccounting'
  BY <1>3 DEF SlotAccounting, Slots, RegularNodes
<1>5. numIn' \in Nat /\ numOut' \in Nat
  BY <1>3, SlotsFinite DEF Slots
<1>6. nodes' \in [Peers -> NodeStates]
  BY <1>1
<1> QED BY <1>4, <1>5, <1>6

(* RemoveRegular gives back exactly the slot the peer occupied. *)
LEMMA RemoveRegularKeepsBooks ==
  ASSUME TypeOK, SlotAccounting, SlotLimits, NEW p \in Peers, RemoveRegular(p)
  PROVE  /\ SlotAccounting' /\ SlotLimits'
         /\ numIn' \in Nat /\ numOut' \in Nat
         /\ nodes' \in [Peers -> NodeStates]
<1>1. Takes("absent", "Inbound") = 0 /\ Takes("absent", "Outbound") = 0
  BY DEF Takes
<1>2. Takes(nodes[p], "Inbound") \in {0, 1} /\ Takes(nodes[p], "Outbound") \in {0, 1}
  BY DEF Takes
<1>3. "absent" \in NodeStates
  BY DEF NodeStates
<1>4. /\ numIn' = numIn - Takes(nodes[p], "Inbound") + Takes("absent", "Inbound")
      /\ numOut' = numOut - Takes(nodes[p], "Outbound") + Takes("absent", "Outbound")
  BY <1>1, <1>2 DEF RemoveRegular, TypeOK
<1>5. nodes' = [nodes EXCEPT ![p] = "absent"]
  BY DEF RemoveRegular
<1>6. /\ SlotAccounting'
      /\ numIn' \in Nat /\ numOut' \in Nat
      /\ nodes' \in [Peers -> NodeStates]
  BY <1>3, <1>4, <1>5, BooksAfterWrite
<1>7. SlotLimits'
  BY <1>2, SlotsNat DEF RemoveRegular, SlotLimits, TypeOK
<1> QED BY <1>6, <1>7
ResStates == {"absent", "NotConnected"} \cup Direction

(* What the proof of a handler establishes about the state it leaves. *)
BooksOK == /\ numIn \in Nat /\ numOut \in Nat
           /\ nodes \in [Peers -> NodeStates]
           /\ reservedNodes \in [Peers -> ResStates]
           /\ reservedOnly \in BOOLEAN
           /\ sent \in SUBSET Message
           /\ SlotAccounting /\ SlotLimits
           /\ ReservedNotRegular /\ ReservedOnlyRespected

(* The invariant is these books and the types of the loop and of the store. *)
LEMMA IndInvSplit ==
  IndInv <=> /\ BooksOK
             /\ StandingTypeOK
             /\ toInsert \in SUBSET Peers /\ toRemove \in SUBSET Peers
BY DEF IndInv, BooksOK, TypeOK, NodeStates, ResStates

(* alloc_slots takes no more outbound slots than are free, and no candidate *)
(* is a peer that is reserved or already connected.                         *)
LEMMA AllocSlotsKeepsBooks ==
  ASSUME IndInv, NEW rs \in [Peers -> ResStates],
         \A p \in Peers : rs[p] # "absent" => nodes[p] = "absent",
         reservedOnly' \in BOOLEAN,
         reservedOnly' => \A p \in Peers : nodes[p] = "absent",
         AllocSlots(rs)
  PROVE  BooksOK'
<1> DEFINE resConnect == {p \in Peers : rs[p] = "NotConnected" /\ ~IsBanned(p)}
           ignored    == {p \in Peers : rs[p] # "absent" \/ IsRegular(p)}
           choices    == IF reservedOnly' \/ numOut >= MaxOut
                         THEN {{}} ELSE OutgoingCandidates(MaxOut - numOut, ignored)
<1> USE DEF IndInv, TypeOK
<1>1. PICK C \in choices :
        /\ reservedNodes' = [p \in Peers |-> IF p \in resConnect THEN "Outbound" ELSE rs[p]]
        /\ nodes' = [p \in Peers |-> IF p \in C THEN "Outbound" ELSE nodes[p]]
        /\ numOut' = numOut + Cardinality(C)
        /\ numIn' = numIn
        /\ sent' = {StartConnection(p) : p \in resConnect \cup C}
  BY DEF AllocSlots
<1>2. /\ C \in SUBSET Peers
      /\ \A p \in C : rs[p] = "absent" /\ nodes[p] = "absent"
      /\ reservedOnly' => C = {}
  BY <1>1 DEF OutgoingCandidates, Eligible, IsRegular
<1>3. IsFiniteSet(C) /\ Cardinality(C) \in Nat
  BY <1>2, SlotsFinite
<1>4. numOut + Cardinality(C) <= MaxOut
  <2>1. CASE reservedOnly' \/ numOut >= MaxOut
    <3>1. Cardinality(C) = 0
      BY <2>1, <1>1, FS_EmptySet
    <3> QED BY <3>1, SlotsNat DEF SlotLimits
  <2>2. CASE ~(reservedOnly' \/ numOut >= MaxOut)
    <3>1. C \in OutgoingCandidates(MaxOut - numOut, ignored)
      BY <2>2
    <3>2. \/ C = Eligible(ignored) /\ Cardinality(Eligible(ignored)) <= MaxOut - numOut
          \/ Cardinality(C) = MaxOut - numOut
      BY <3>1 DEF OutgoingCandidates
    <3> QED BY <3>2, <1>3, SlotsNat
  <2> QED BY <2>1, <2>2
<1>5. /\ RegularNodes("Inbound")' = RegularNodes("Inbound")
      /\ RegularNodes("Outbound")' = RegularNodes("Outbound") \cup C
      /\ RegularNodes("Outbound") \cap C = {}
  BY <1>1, <1>2 DEF RegularNodes
<1>6. Cardinality(RegularNodes("Outbound") \cup C)
        = Cardinality(RegularNodes("Outbound")) + Cardinality(C)
  <2>1. IsFiniteSet(RegularNodes("Outbound"))
    BY SlotsFinite DEF RegularNodes
  <2>2. Cardinality(RegularNodes("Outbound")) \in Nat
    BY <2>1, FS_CardinalityType
  <2>3. Cardinality(RegularNodes("Outbound") \cup C)
          = Cardinality(RegularNodes("Outbound")) + Cardinality(C)
              - Cardinality(RegularNodes("Outbound") \cap C)
    BY <2>1, <1>3, FS_Union
  <2>4. Cardinality(RegularNodes("Outbound") \cap C) = 0
    BY <1>5, FS_EmptySet
  <2> QED BY <2>2, <2>3, <2>4, <1>3
<1>7. SlotAccounting'
  BY <1>1, <1>5, <1>6 DEF SlotAccounting
<1>8. SlotLimits' /\ numIn' \in Nat /\ numOut' \in Nat
  BY <1>1, <1>3, <1>4 DEF SlotLimits
<1>9. nodes' \in [Peers -> NodeStates] /\ reservedNodes' \in [Peers -> ResStates]
  BY <1>1 DEF NodeStates, ResStates, Direction
<1>10. sent' \in SUBSET Message
  BY <1>1, <1>2 DEF Message, StartConnection
<1>11. ReservedNotRegular'
  BY <1>1, <1>2 DEF ReservedNotRegular, IsReserved, IsRegular
<1>12. ReservedOnlyRespected'
  BY <1>1, <1>2 DEF ReservedOnlyRespected, IsRegular
<1> QED BY <1>7, <1>8, <1>9, <1>10, <1>11, <1>12 DEF BooksOK

(* A handler that changes nothing but the answer keeps the books. *)
LEMMA AnswerKeepsBooks ==
  ASSUME IndInv, sent' \in SUBSET Message,
         UNCHANGED <<numIn, numOut, nodes, reservedNodes, reservedOnly>>
  PROVE  BooksOK'
BY IndInvSplit DEF BooksOK, SlotAccounting, SlotLimits, RegularNodes,
   ReservedNotRegular, ReservedOnlyRespected, IsReserved, IsRegular

(* A regular peer that leaves the regular ones, for whatever reason.        *)
LEMMA RemovalKeepsBooks ==
  ASSUME IndInv, NEW p \in Peers, RemoveRegular(p), sent' \in SUBSET Message,
         reservedOnly' = reservedOnly,
         NEW v \in ResStates, reservedNodes' = [reservedNodes EXCEPT ![p] = v]
  PROVE  BooksOK'
<1>1. /\ SlotAccounting' /\ SlotLimits'
      /\ numIn' \in Nat /\ numOut' \in Nat
      /\ nodes' \in [Peers -> NodeStates]
  BY RemoveRegularKeepsBooks DEF IndInv
<1>2. nodes' = [nodes EXCEPT ![p] = "absent"]
  BY DEF RemoveRegular
<1>3. reservedNodes' \in [Peers -> ResStates]
  BY DEF IndInv, TypeOK, ResStates
<1>4. ReservedNotRegular' /\ ReservedOnlyRespected'
  BY <1>2 DEF IndInv, TypeOK, ReservedNotRegular, ReservedOnlyRespected, IsReserved, IsRegular
<1> QED BY <1>1, <1>3, <1>4 DEF BooksOK, IndInv, TypeOK

(* on_add_reserved_peer: a promotion gives the slot back, a new reserved    *)
(* peer takes none.                                                         *)
LEMMA OnAddReservedPeerKeepsBooks ==
  ASSUME IndInv, NEW p \in Peers, OnAddReservedPeer(p)
  PROVE  BooksOK'
<1>1. CASE IsReserved(p)
  BY <1>1, AnswerKeepsBooks DEF OnAddReservedPeer
<1>2. CASE ~IsReserved(p) /\ IsRegular(p)
  <2>1. PromoteRegular(p) /\ reservedOnly' = reservedOnly
    BY <1>2 DEF OnAddReservedPeer
  <2>2. nodes[p] \in ResStates
    BY DEF IndInv, TypeOK, ResStates
  <2> QED BY <2>1, <2>2, RemovalKeepsBooks DEF PromoteRegular
<1>3. CASE ~IsReserved(p) /\ ~IsRegular(p)
  <2> DEFINE rs == [reservedNodes EXCEPT ![p] = "NotConnected"]
  <2>1. AllocSlots(rs) /\ reservedOnly' = reservedOnly
    BY <1>3 DEF OnAddReservedPeer
  <2>2. rs \in [Peers -> ResStates]
    BY DEF IndInv, TypeOK, ResStates
  <2>3. \A q \in Peers : rs[q] # "absent" => nodes[q] = "absent"
    BY <1>3 DEF IndInv, TypeOK, ReservedNotRegular, IsReserved, IsRegular
  <2>4. /\ reservedOnly' \in BOOLEAN
        /\ reservedOnly' => \A q \in Peers : nodes[q] = "absent"
    BY <2>1 DEF IndInv, TypeOK, ReservedOnlyRespected, IsRegular
  <2> HIDE DEF rs
  <2> QED BY <2>1, <2>2, <2>3, <2>4, AllocSlotsKeepsBooks
<1> QED BY <1>1, <1>2, <1>3

(* on_remove_reserved_peer: a peer becomes regular only if a slot is free   *)
(* for it outside reserved-only mode.                                       *)
LEMMA OnRemoveReservedPeerKeepsBooks ==
  ASSUME IndInv, NEW p \in Peers, OnRemoveReservedPeer(p)
  PROVE  BooksOK'
<1> DEFINE d == reservedNodes[p]
<1>1. /\ reservedNodes' = [reservedNodes EXCEPT ![p] = "absent"]
      /\ reservedOnly' = reservedOnly
  BY DEF OnRemoveReservedPeer
<1>2. reservedNodes' \in [Peers -> ResStates]
  BY <1>1 DEF IndInv, TypeOK, ResStates
<1>3. CASE d \notin Direction \/ NoSlotFor(d)
  <2>1. UNCHANGED <<numIn, numOut, nodes>> /\ sent' \in SUBSET Message
    BY <1>3 DEF OnRemoveReservedPeer, DropConnection, Message
  <2>2. SlotAccounting' /\ SlotLimits'
    BY <2>1 DEF IndInv, SlotAccounting, SlotLimits, RegularNodes
  <2>3. ReservedNotRegular' /\ ReservedOnlyRespected'
    BY <2>1, <1>1 DEF IndInv, TypeOK, ReservedNotRegular, ReservedOnlyRespected,
       IsReserved, IsRegular
  <2> QED BY <2>1, <2>2, <2>3, <1>1, <1>2 DEF BooksOK, IndInv, TypeOK, NodeStates
<1>4. CASE d \in Direction /\ ~NoSlotFor(d)
  <2>1. /\ nodes' = [nodes EXCEPT ![p] = d]
        /\ numIn' = numIn + Takes(d, "Inbound")
        /\ numOut' = numOut + Takes(d, "Outbound")
        /\ sent' = {}
    BY <1>4 DEF OnRemoveReservedPeer
  <2>2. nodes[p] = "absent"
    BY <1>4 DEF IndInv, ReservedNotRegular, IsReserved, IsRegular, Direction
  <2>3. /\ Takes(nodes[p], "Inbound") = 0 /\ Takes(nodes[p], "Outbound") = 0
        /\ Takes(d, "Inbound") = IF d = "Inbound" THEN 1 ELSE 0
        /\ Takes(d, "Outbound") = IF d = "Outbound" THEN 1 ELSE 0
    BY <2>2 DEF Takes
  <2>4. /\ SlotAccounting'
        /\ numIn' \in Nat /\ numOut' \in Nat
        /\ nodes' \in [Peers -> NodeStates]
    <3>1. /\ numIn' = numIn - Takes(nodes[p], "Inbound") + Takes(d, "Inbound")
          /\ numOut' = numOut - Takes(nodes[p], "Outbound") + Takes(d, "Outbound")
      BY <2>1, <2>3 DEF IndInv, TypeOK
    <3>2. d \in NodeStates
      BY <1>4 DEF NodeStates
    <3> HIDE DEF d
    <3> QED BY <3>1, <3>2, <2>1, BooksAfterWrite DEF IndInv
  <2>5. SlotLimits'
    BY <2>1, <2>3, <1>4, SlotsNat DEF IndInv, TypeOK, SlotLimits, NoSlotFor, Direction
  <2>6. ReservedNotRegular' /\ ReservedOnlyRespected'
    BY <2>1, <1>1, <1>4 DEF IndInv, TypeOK, ReservedNotRegular, ReservedOnlyRespected,
       IsReserved, IsRegular, NoSlotFor
  <2> QED BY <2>1, <2>4, <2>5, <2>6, <1>1, <1>2 DEF BooksOK, IndInv, TypeOK
<1> QED BY <1>3, <1>4

(* on_set_reserved_only: dropping all regular peers frees every slot.       *)
LEMMA OnSetReservedOnlyKeepsBooks ==
  ASSUME IndInv, NEW only \in BOOLEAN, OnSetReservedOnly(only)
  PROVE  BooksOK'
<1>1. CASE ~only
  <2>1. AllocSlots(reservedNodes) /\ reservedOnly' = only
    BY <1>1 DEF OnSetReservedOnly
  <2>2. reservedNodes \in [Peers -> ResStates]
    BY DEF IndInv, TypeOK, ResStates
  <2>3. \A q \in Peers : reservedNodes[q] # "absent" => nodes[q] = "absent"
    BY DEF IndInv, ReservedNotRegular, IsReserved, IsRegular
  <2> QED BY <1>1, <2>1, <2>2, <2>3, AllocSlotsKeepsBooks
<1>2. CASE only
  <2>1. /\ reservedOnly' = TRUE
        /\ sent' = {DropConnection(p) : p \in {q \in Peers : IsRegular(q)}}
        /\ numIn' = numIn - Cardinality(RegularNodes("Inbound"))
        /\ numOut' = numOut - Cardinality(RegularNodes("Outbound"))
        /\ nodes' = [p \in Peers |-> "absent"]
        /\ reservedNodes' = reservedNodes
    BY <1>2 DEF OnSetReservedOnly
  <2>2. numIn' = 0 /\ numOut' = 0
    BY <2>1 DEF IndInv, TypeOK, SlotAccounting
  <2>3. RegularNodes("Inbound")' = {} /\ RegularNodes("Outbound")' = {}
    BY <2>1 DEF RegularNodes
  <2>4. SlotAccounting' /\ SlotLimits'
    BY <2>2, <2>3, FS_EmptySet, SlotsNat DEF SlotAccounting, SlotLimits
  <2>5. sent' \in SUBSET Message
    BY <2>1 DEF Message, DropConnection
  <2>6. ReservedNotRegular' /\ ReservedOnlyRespected'
    BY <2>1 DEF ReservedNotRegular, ReservedOnlyRespected, IsRegular
  <2>7. nodes' \in [Peers -> NodeStates] /\ reservedNodes' \in [Peers -> ResStates]
    BY <2>1 DEF IndInv, TypeOK, NodeStates, ResStates
  <2> QED BY <2>1, <2>2, <2>4, <2>5, <2>6, <2>7 DEF BooksOK
<1> QED BY <1>1, <1>2

(* on_disconnect_peer: only a regular peer gives up a slot.                 *)
LEMMA OnDisconnectPeerKeepsBooks ==
  ASSUME IndInv, NEW p \in Peers, OnDisconnectPeer(p)
  PROVE  BooksOK'
<1>1. CASE ~IsReserved(p) /\ IsRegular(p)
  <2>1. /\ RemoveRegular(p) /\ sent' \in SUBSET Message
        /\ reservedOnly' = reservedOnly
        /\ reservedNodes' = [reservedNodes EXCEPT ![p] = reservedNodes[p]]
        /\ reservedNodes[p] \in ResStates
    BY <1>1 DEF OnDisconnectPeer, DropConnection, Message, IndInv, TypeOK, ResStates
  <2> QED BY <2>1, RemovalKeepsBooks
<1>2. CASE IsReserved(p) \/ ~IsRegular(p)
  BY <1>2, AnswerKeepsBooks DEF OnDisconnectPeer
<1> QED BY <1>1, <1>2

(* on_incoming_connection: a peer counted before is taken out first, so it  *)
(* never takes two slots.                                                   *)
LEMMA OnIncomingConnectionKeepsBooks ==
  ASSUME IndInv, NEW p \in Peers, NEW i \in Indices, OnIncomingConnection(p, i)
  PROVE  BooksOK'
<1> DEFINE inNow == numIn - Takes(nodes[p], "Inbound")
<1>0. /\ {RejectConnection(p, i)} \in SUBSET Message
      /\ {AcceptConnection(p, i)} \in SUBSET Message
      /\ reservedOnly' = reservedOnly
  BY DEF RejectConnection, AcceptConnection, Message, OnIncomingConnection
<1>1. CASE reservedOnly /\ ~IsReserved(p)
  <2>1. /\ sent' = {RejectConnection(p, i)}
        /\ UNCHANGED <<numIn, numOut, nodes, reservedNodes>>
    BY <1>1 DEF OnIncomingConnection, IsReserved
  <2> QED BY <2>1, <1>0, AnswerKeepsBooks
<1>2. CASE IsReserved(p) /\ (reservedNodes[p] \in Direction \/ ~IsBanned(p))
  <2>1. /\ reservedNodes' = [reservedNodes EXCEPT ![p] = "Inbound"]
        /\ sent' = {AcceptConnection(p, i)}
        /\ UNCHANGED <<numIn, numOut, nodes>>
    BY <1>2 DEF OnIncomingConnection, IsReserved, Direction
  <2>2. SlotAccounting' /\ SlotLimits'
    BY <2>1 DEF IndInv, SlotAccounting, SlotLimits, RegularNodes
  <2>3. ReservedNotRegular' /\ ReservedOnlyRespected'
    BY <2>1, <1>0, <1>2 DEF IndInv, TypeOK, ReservedNotRegular, ReservedOnlyRespected,
       IsReserved, IsRegular
  <2>4. reservedNodes' \in [Peers -> ResStates]
    BY <2>1 DEF IndInv, TypeOK, ResStates, Direction
  <2> QED BY <2>1, <2>2, <2>3, <2>4, <1>0 DEF BooksOK, IndInv, TypeOK, NodeStates
<1>3. CASE reservedNodes[p] = "NotConnected" /\ IsBanned(p)
  <2>1. /\ sent' = {RejectConnection(p, i)}
        /\ UNCHANGED <<numIn, numOut, nodes, reservedNodes>>
    BY <1>3 DEF OnIncomingConnection, IsReserved, Direction
  <2> QED BY <2>1, <1>0, AnswerKeepsBooks
<1>4. CASE ~reservedOnly /\ ~IsReserved(p) /\ (inNow >= MaxIn \/ IsBanned(p))
  <2>1. /\ RemoveRegular(p)
        /\ reservedNodes' = [reservedNodes EXCEPT ![p] = reservedNodes[p]]
        /\ reservedNodes[p] \in ResStates
        /\ sent' = {RejectConnection(p, i)}
    BY <1>4, SlotsNat DEF OnIncomingConnection, IsReserved, IndInv, TypeOK, ResStates, Takes
  <2> QED BY <2>1, <1>0, RemovalKeepsBooks
<1>5. CASE ~reservedOnly /\ ~IsReserved(p) /\ ~(inNow >= MaxIn \/ IsBanned(p))
  <2>1. /\ nodes' = [nodes EXCEPT ![p] = "Inbound"]
        /\ numIn' = inNow + 1 /\ inNow < MaxIn
        /\ numOut' = numOut - Takes(nodes[p], "Outbound")
        /\ reservedNodes' = reservedNodes
        /\ sent' = {AcceptConnection(p, i)}
    BY <1>5 DEF OnIncomingConnection, IsReserved
  <2>2. /\ Takes("Inbound", "Inbound") = 1 /\ Takes("Inbound", "Outbound") = 0
        /\ Takes(nodes[p], "Inbound") \in {0, 1} /\ Takes(nodes[p], "Outbound") \in {0, 1}
    BY DEF Takes
  <2>3. /\ numIn' = numIn - Takes(nodes[p], "Inbound") + Takes("Inbound", "Inbound")
        /\ numOut' = numOut - Takes(nodes[p], "Outbound") + Takes("Inbound", "Outbound")
    BY <2>1, <2>2 DEF IndInv, TypeOK
  <2>4. /\ SlotAccounting'
        /\ numIn' \in Nat /\ numOut' \in Nat
        /\ nodes' \in [Peers -> NodeStates]
    BY <2>1, <2>3, BooksAfterWrite DEF IndInv, NodeStates, Direction
  <2>5. SlotLimits'
    BY <2>1, <2>2, SlotsNat DEF IndInv, TypeOK, SlotLimits
  <2>6. ReservedNotRegular' /\ ReservedOnlyRespected'
    BY <2>1, <1>0, <1>5 DEF IndInv, TypeOK, ReservedNotRegular, ReservedOnlyRespected,
       IsReserved, IsRegular
  <2> QED BY <2>1, <2>4, <2>5, <2>6, <1>0 DEF BooksOK, IndInv, TypeOK, ResStates
<1> QED BY <1>1, <1>2, <1>3, <1>4, <1>5 DEF IsReserved, IndInv, TypeOK

(* on_peer_dropped: a regular peer gives up the slot of its direction.      *)
LEMMA OnPeerDroppedKeepsBooks ==
  ASSUME IndInv, NEW p \in Peers, OnPeerDropped(p)
  PROVE  BooksOK' /\ StandingTypeOK'
<1>0. sent' = {} /\ reservedOnly' = reservedOnly
  BY DEF OnPeerDropped
<1>1. ASSUME ReportDisconnect(p) PROVE StandingTypeOK'
  BY <1>1 DEF IndInv, TypeOK, StandingTypeOK, ReportDisconnect, Standings
<1>2. CASE reservedNodes[p] \in Direction
  <2>1. /\ reservedNodes' = [reservedNodes EXCEPT ![p] = "NotConnected"]
        /\ ReportDisconnect(p)
        /\ UNCHANGED <<numIn, numOut, nodes>>
    BY <1>2 DEF OnPeerDropped, IsReserved, Direction
  <2>2. SlotAccounting' /\ SlotLimits'
    BY <2>1 DEF IndInv, SlotAccounting, SlotLimits, RegularNodes
  <2>3. ReservedNotRegular' /\ ReservedOnlyRespected'
    BY <2>1, <1>0, <1>2 DEF IndInv, TypeOK, ReservedNotRegular, ReservedOnlyRespected,
       IsReserved, IsRegular, Direction
  <2>4. reservedNodes' \in [Peers -> ResStates]
    BY <2>1 DEF IndInv, TypeOK, ResStates
  <2> QED BY <2>1, <2>2, <2>3, <2>4, <1>0, <1>1 DEF BooksOK, IndInv, TypeOK, NodeStates
<1>3. CASE ~IsReserved(p) /\ IsRegular(p)
  <2>1. /\ RemoveRegular(p) /\ ReportDisconnect(p)
        /\ reservedNodes' = [reservedNodes EXCEPT ![p] = reservedNodes[p]]
        /\ reservedNodes[p] \in ResStates
    BY <1>3 DEF OnPeerDropped, IsReserved, Direction, IndInv, TypeOK, ResStates
  <2> QED BY <2>1, <1>0, <1>1, RemovalKeepsBooks
<1>4. CASE reservedNodes[p] = "NotConnected" \/ (~IsReserved(p) /\ ~IsRegular(p))
  <2>1. UNCHANGED <<numIn, numOut, nodes, reservedNodes, standing>>
    BY <1>4 DEF OnPeerDropped, IsReserved, Direction
  <2> QED BY <2>1, <1>0, AnswerKeepsBooks DEF IndInv, TypeOK, StandingTypeOK
<1> QED BY <1>2, <1>3, <1>4 DEF IsReserved, IndInv, TypeOK

(* The initial states satisfy the invariant. *)
LEMMA InitIndInv == Init => IndInv
<1> SUFFICES ASSUME Init PROVE IndInv
  OBVIOUS
<1>1. RegularNodes("Inbound") = {} /\ RegularNodes("Outbound") = {}
  BY DEF Init, RegularNodes
<1>2. SlotAccounting /\ SlotLimits
  BY <1>1, FS_EmptySet, SlotsNat DEF Init, SlotAccounting, SlotLimits
<1>3. TypeOK
  BY DEF Init, TypeOK, StandingInit, StandingTypeOK, Standings, Direction
<1>4. ReservedNotRegular /\ ReservedOnlyRespected
  BY DEF Init, ReservedNotRegular, ReservedOnlyRespected, IsRegular
<1> QED BY <1>2, <1>3, <1>4 DEF IndInv

(* Every step keeps it. *)
LEMMA NextIndInv == IndInv /\ [Next]_vars => IndInv'
<1> SUFFICES ASSUME IndInv, [Next]_vars PROVE IndInv'
  OBVIOUS
<1> USE IndInvSplit
<1>0. toInsert \in SUBSET Peers /\ toRemove \in SUBSET Peers /\ StandingTypeOK
  BY DEF IndInv, TypeOK
<1>s. ASSUME BooksOK', StandingTypeOK', toInsert' \in SUBSET Peers, toRemove' \in SUBSET Peers
      PROVE  IndInv'
  BY <1>s DEF IndInv, BooksOK, TypeOK, NodeStates, ResStates
<1>u. standing' = standing => StandingTypeOK'
  BY <1>0 DEF StandingTypeOK
<1>1. CASE ProcessAction
  <2>0. StandingTypeOK'
    BY <1>1, <1>u DEF ProcessAction
  <2>1. ASSUME NEW new \in SUBSET Peers, OnSetReservedPeers(new) PROVE IndInv'
    <3>1. BooksOK'
      BY <2>1, AnswerKeepsBooks DEF OnSetReservedPeers
    <3>2. toInsert' \in SUBSET Peers /\ toRemove' \in SUBSET Peers
      BY <2>1 DEF OnSetReservedPeers
    <3> QED BY <3>1, <3>2, <2>0, <1>s
  <2>2. ASSUME UNCHANGED <<toInsert, toRemove>>, NEW p \in Peers,
               OnAddReservedPeer(p) \/ OnRemoveReservedPeer(p) \/ OnDisconnectPeer(p)
        PROVE  IndInv'
    BY <2>0, <2>2, <1>0, <1>s, OnAddReservedPeerKeepsBooks,
       OnRemoveReservedPeerKeepsBooks, OnDisconnectPeerKeepsBooks
  <2>3. ASSUME UNCHANGED <<toInsert, toRemove>>, NEW only \in BOOLEAN, OnSetReservedOnly(only)
        PROVE  IndInv'
    BY <2>0, <2>3, <1>0, <1>s, OnSetReservedOnlyKeepsBooks
  <2> QED BY <1>1, <2>1, <2>2, <2>3 DEF ProcessAction
<1>2. CASE ProcessEvent
  <2>1. ASSUME NEW p \in Peers, NEW i \in Indices, OnIncomingConnection(p, i), standing' = standing
        PROVE  BooksOK' /\ StandingTypeOK'
    BY <2>1, <1>u, OnIncomingConnectionKeepsBooks
  <2>2. BooksOK' /\ StandingTypeOK'
    BY <1>2, <2>1, OnPeerDroppedKeepsBooks DEF ProcessEvent
  <2> QED BY <1>2, <2>2, <1>0, <1>s DEF ProcessEvent
<1>3. CASE ContinueSetReserved
  <2>1. PICK p \in Peers : SetReservedInsert(p) \/ SetReservedRemove(p)
    BY <1>3 DEF ContinueSetReserved
  <2>2. BooksOK'
    BY <2>1, OnAddReservedPeerKeepsBooks, OnRemoveReservedPeerKeepsBooks
       DEF SetReservedInsert, SetReservedRemove
  <2>3. toInsert' \in SUBSET Peers /\ toRemove' \in SUBSET Peers
    BY <2>1, <1>0 DEF SetReservedInsert, SetReservedRemove
  <2> QED BY <1>3, <2>2, <2>3, <1>s, <1>u DEF ContinueSetReserved
<1>4. CASE PeriodicAllocSlots
  <2>1. AllocSlots(reservedNodes) /\ reservedOnly' = reservedOnly
    BY <1>4 DEF PeriodicAllocSlots
  <2>2. reservedNodes \in [Peers -> ResStates] /\ reservedOnly' \in BOOLEAN
    BY <2>1 DEF IndInv, TypeOK, ResStates
  <2>3. \A q \in Peers : reservedNodes[q] # "absent" => nodes[q] = "absent"
    BY DEF IndInv, ReservedNotRegular, IsReserved, IsRegular
  <2>4. reservedOnly' => \A q \in Peers : nodes[q] = "absent"
    BY <2>1 DEF IndInv, ReservedOnlyRespected, IsRegular
  <2>5. BooksOK'
    BY <2>1, <2>2, <2>3, <2>4, AllocSlotsKeepsBooks
  <2> QED BY <1>4, <2>5, <1>0, <1>s, <1>u DEF PeriodicAllocSlots
<1>5. CASE PeerStoreStep
  <2>1. UNCHANGED ctrlVars
    BY <1>5 DEF PeerStoreStep
  <2>2. StandingTypeOK'
    BY <1>5, <1>0 DEF PeerStoreStep, StandingTypeOK, AddKnownPeer, ReportPeer,
       ProgressTime, Standings
  <2>3. BooksOK'
    BY <2>1, AnswerKeepsBooks DEF ctrlVars, IndInv, TypeOK
  <2> QED BY <2>1, <2>2, <2>3, <1>0, <1>s DEF ctrlVars
<1>6. CASE UNCHANGED vars
  <2>1. BooksOK'
    BY <1>6, AnswerKeepsBooks DEF vars, ctrlVars, IndInv, TypeOK
  <2> QED BY <2>1, <1>6, <1>0, <1>s, <1>u DEF vars, ctrlVars
<1> QED BY <1>1, <1>2, <1>3, <1>4, <1>5, <1>6 DEF Next

(* Type correctness of the controller, including that the unsigned slot     *)
(* counters never go below zero, for any number of peers and slots.         *)
THEOREM TypeCorrect == Spec => []TypeOK
<1>1. IndInv => TypeOK
  BY DEF IndInv
<1> QED BY <1>1, InitIndInv, NextIndInv, PTL DEF Spec

(* The slot counters always equal the number of regular peers.              *)
THEOREM SlotsExact == Spec => []SlotAccounting
<1>1. IndInv => SlotAccounting
  BY DEF IndInv
<1> QED BY <1>1, InitIndInv, NextIndInv, PTL DEF Spec

(* The configured numbers of slots are never exceeded.                      *)
THEOREM SlotsBounded == Spec => []SlotLimits
<1>1. IndInv => SlotLimits
  BY DEF IndInv
<1> QED BY <1>1, InitIndInv, NextIndInv, PTL DEF Spec

(* The `assert!` of on_remove_reserved_peer never fires.                    *)
THEOREM NeverCorrupted == Spec => []ReservedNotRegular
<1>1. IndInv => ReservedNotRegular
  BY DEF IndInv
<1> QED BY <1>1, InitIndInv, NextIndInv, PTL DEF Spec

(* Reserved-only mode holds no regular peer.                                *)
THEOREM ReservedOnlyCorrect == Spec => []ReservedOnlyRespected
<1>1. IndInv => ReservedOnlyRespected
  BY DEF IndInv
<1> QED BY <1>1, InitIndInv, NextIndInv, PTL DEF Spec

-----------------------------------------------------------------------------
(* The messages implement ConnectionCommands. *)

Connected == {p \in Peers : IsConnected(p)}

(* A step whose messages each concern one peer of X, all of type t, and     *)
(* after which the connected peers are as t says.                           *)
LEMMA EmitMany ==
  ASSUME NEW X \in SUBSET Peers,
         \/ /\ sent' = {StartConnection(p) : p \in X}
            /\ X \cap Connected = {} /\ Connected' = Connected \cup X
         \/ /\ sent' = {DropConnection(p) : p \in X}
            /\ X \subseteq Connected /\ Connected' = Connected \ X
  PROVE  Commands!Next
<1>1. CASE /\ sent' = {StartConnection(p) : p \in X}
           /\ X \cap Connected = {} /\ Connected' = Connected \cup X
  <2>1. /\ Commands!PeersOf(sent', {"Connect", "Accept"}) = X
        /\ Commands!PeersOf(sent', {"Connect"}) = X
        /\ Commands!PeersOf(sent', {"Drop"}) = {}
        /\ Commands!PeersOf(sent', {"Drop", "Reject"}) = {}
    <3>1. \A m \in sent' : m.type = "Connect" /\ m.peer \in X
      BY <1>1 DEF StartConnection
    <3>2. ASSUME NEW p \in X PROVE \E m \in sent' : m.peer = p
      <4>1. StartConnection(p) \in sent' /\ StartConnection(p).peer = p
        BY <1>1 DEF StartConnection
      <4> QED BY <4>1
    <3> QED BY <3>1, <3>2 DEF Commands!PeersOf
  <2>2. \A m, n \in sent' : m.peer = n.peer => m = n
    BY <1>1 DEF StartConnection
  <2> QED BY <1>1, <2>1, <2>2 DEF Commands!Next, Commands!Emit, Commands!Consistent, Connected
<1>2. CASE /\ sent' = {DropConnection(p) : p \in X}
           /\ X \subseteq Connected /\ Connected' = Connected \ X
  <2>1. /\ Commands!PeersOf(sent', {"Connect", "Accept"}) = {}
        /\ Commands!PeersOf(sent', {"Connect"}) = {}
        /\ Commands!PeersOf(sent', {"Drop"}) = X
        /\ Commands!PeersOf(sent', {"Drop", "Reject"}) = X
    <3>1. \A m \in sent' : m.type = "Drop" /\ m.peer \in X
      BY <1>2 DEF DropConnection
    <3>2. ASSUME NEW p \in X PROVE \E m \in sent' : m.peer = p
      <4>1. DropConnection(p) \in sent' /\ DropConnection(p).peer = p
        BY <1>2 DEF DropConnection
      <4> QED BY <4>1
    <3> QED BY <3>1, <3>2 DEF Commands!PeersOf
  <2>2. \A m, n \in sent' : m.peer = n.peer => m = n
    BY <1>2 DEF DropConnection
  <2> QED BY <1>2, <2>1, <2>2 DEF Commands!Next, Commands!Emit, Commands!Consistent, Connected
<1> QED BY <1>1, <1>2

(* An answer to an incoming connection settles the peer. *)
LEMMA EmitAnswer ==
  ASSUME NEW p \in Peers, NEW i \in Indices,
         \/ sent' = {AcceptConnection(p, i)} /\ Connected' = Connected \cup {p}
         \/ sent' = {RejectConnection(p, i)} /\ Connected' = Connected \ {p}
  PROVE  Commands!Next
<1>1. CASE sent' = {AcceptConnection(p, i)} /\ Connected' = Connected \cup {p}
  <2>1. /\ Commands!PeersOf(sent', {"Connect", "Accept"}) = {p}
        /\ Commands!PeersOf(sent', {"Connect"}) = {}
        /\ Commands!PeersOf(sent', {"Drop"}) = {}
        /\ Commands!PeersOf(sent', {"Drop", "Reject"}) = {}
    <3>1. \A m \in sent' : m.type = "Accept" /\ m.peer = p
      BY <1>1 DEF AcceptConnection
    <3>2. \E m \in sent' : TRUE
      BY <1>1
    <3> QED BY <3>1, <3>2 DEF Commands!PeersOf
  <2> QED BY <1>1, <2>1 DEF Commands!Next, Commands!Emit, Commands!Consistent, Connected
<1>2. CASE sent' = {RejectConnection(p, i)} /\ Connected' = Connected \ {p}
  <2>1. /\ Commands!PeersOf(sent', {"Connect", "Accept"}) = {}
        /\ Commands!PeersOf(sent', {"Connect"}) = {}
        /\ Commands!PeersOf(sent', {"Drop"}) = {}
        /\ Commands!PeersOf(sent', {"Drop", "Reject"}) = {p}
    <3>1. \A m \in sent' : m.type = "Reject" /\ m.peer = p
      BY <1>2 DEF RejectConnection
    <3>2. \E m \in sent' : TRUE
      BY <1>2
    <3> QED BY <3>1, <3>2 DEF Commands!PeersOf
  <2> QED BY <1>2, <2>1 DEF Commands!Next, Commands!Emit, Commands!Consistent, Connected
<1> QED BY <1>1, <1>2

(* A silent step leaves the connected peers alone. *)
LEMMA EmitNothing ==
  ASSUME sent' = {}, Connected' = Connected
  PROVE  Commands!Next
<1>1. /\ Commands!PeersOf(sent', {"Connect", "Accept"}) = {}
      /\ Commands!PeersOf(sent', {"Connect"}) = {}
      /\ Commands!PeersOf(sent', {"Drop"}) = {}
      /\ Commands!PeersOf(sent', {"Drop", "Reject"}) = {}
  BY DEF Commands!PeersOf
<1> QED BY <1>1 DEF Commands!Next, Commands!Emit, Commands!Consistent, Connected

(* alloc_slots sends Connect exactly to the peers it newly counts.          *)
LEMMA AllocSlotsEmits ==
  ASSUME IndInv, NEW rs \in [Peers -> ResStates],
         \A p \in Peers : rs[p] # "absent" => nodes[p] = "absent",
         \A p \in Peers : rs[p] \in Direction <=> reservedNodes[p] \in Direction,
         AllocSlots(rs)
  PROVE  Commands!Next
<1> DEFINE resConnect == {p \in Peers : rs[p] = "NotConnected" /\ ~IsBanned(p)}
           ignored    == {p \in Peers : rs[p] # "absent" \/ IsRegular(p)}
           choices    == IF reservedOnly' \/ numOut >= MaxOut
                         THEN {{}} ELSE OutgoingCandidates(MaxOut - numOut, ignored)
<1> USE DEF IndInv, TypeOK
<1>1. PICK C \in choices :
        /\ reservedNodes' = [p \in Peers |-> IF p \in resConnect THEN "Outbound" ELSE rs[p]]
        /\ nodes' = [p \in Peers |-> IF p \in C THEN "Outbound" ELSE nodes[p]]
        /\ sent' = {StartConnection(p) : p \in resConnect \cup C}
  BY DEF AllocSlots
<1>2. /\ C \in SUBSET Peers
      /\ \A p \in C : rs[p] = "absent" /\ nodes[p] = "absent"
  BY <1>1 DEF OutgoingCandidates, Eligible, IsRegular
<1>3. (resConnect \cup C) \cap Connected = {}
  BY <1>2 DEF Connected, IsConnected, IsRegular, Direction
<1>4. Connected' = Connected \cup (resConnect \cup C)
  BY <1>1, <1>2 DEF Connected, IsConnected, IsRegular, Direction
<1>5. resConnect \cup C \in SUBSET Peers
  BY <1>2
<1> HIDE DEF resConnect
<1> QED BY <1>1, <1>3, <1>4, <1>5, EmitMany

(* on_add_reserved_peer sends nothing for a peer that is connected already. *)
LEMMA OnAddReservedPeerEmits ==
  ASSUME IndInv, NEW p \in Peers, OnAddReservedPeer(p)
  PROVE  Commands!Next
<1>1. CASE IsReserved(p) \/ IsRegular(p)
  <2>1. sent' = {} /\ Connected' = Connected
    BY <1>1 DEF OnAddReservedPeer, PromoteRegular, RemoveRegular, Connected, IsConnected,
       IsRegular, IsReserved, IndInv, TypeOK
  <2> QED BY <2>1, EmitNothing
<1>2. CASE ~IsReserved(p) /\ ~IsRegular(p)
  <2> DEFINE rs == [reservedNodes EXCEPT ![p] = "NotConnected"]
  <2>1. AllocSlots(rs)
    BY <1>2 DEF OnAddReservedPeer
  <2>2. rs \in [Peers -> ResStates]
    BY DEF IndInv, TypeOK, ResStates
  <2>3. \A q \in Peers : rs[q] # "absent" => nodes[q] = "absent"
    BY <1>2 DEF IndInv, TypeOK, ReservedNotRegular, IsReserved, IsRegular
  <2>4. \A q \in Peers : rs[q] \in Direction <=> reservedNodes[q] \in Direction
    BY <1>2 DEF IndInv, TypeOK, IsReserved, Direction
  <2> HIDE DEF rs
  <2> QED BY <2>1, <2>2, <2>3, <2>4, AllocSlotsEmits
<1> QED BY <1>1, <1>2

(* on_remove_reserved_peer sends Drop exactly if the connection is given up. *)
LEMMA OnRemoveReservedPeerEmits ==
  ASSUME IndInv, NEW p \in Peers, OnRemoveReservedPeer(p)
  PROVE  Commands!Next
<1> DEFINE d == reservedNodes[p]
<1> USE DEF IndInv, TypeOK
<1>1. CASE d \notin Direction \/ (d \in Direction /\ ~NoSlotFor(d))
  <2>1. sent' = {} /\ Connected' = Connected
    BY <1>1 DEF OnRemoveReservedPeer, Connected, IsConnected, IsRegular, Direction
  <2> QED BY <2>1, EmitNothing
<1>2. CASE d \in Direction /\ NoSlotFor(d)
  <2> DEFINE X == {p}
  <2>1. /\ sent' = {DropConnection(q) : q \in X}
        /\ UNCHANGED nodes
        /\ reservedNodes' = [reservedNodes EXCEPT ![p] = "absent"]
    BY <1>2 DEF OnRemoveReservedPeer
  <2>2. nodes[p] = "absent"
    BY <1>2 DEF ReservedNotRegular, IsReserved, IsRegular, Direction
  <2>3. X \in SUBSET Peers /\ X \subseteq Connected /\ Connected' = Connected \ X
    BY <1>2, <2>1, <2>2 DEF Connected, IsConnected, IsRegular, Direction
  <2> HIDE DEF X
  <2> QED BY <2>1, <2>3, EmitMany
<1> QED BY <1>1, <1>2

(* on_set_reserved_only sends Drop to every regular peer.                   *)
LEMMA OnSetReservedOnlyEmits ==
  ASSUME IndInv, NEW only \in BOOLEAN, OnSetReservedOnly(only)
  PROVE  Commands!Next
<1> USE DEF IndInv, TypeOK
<1>1. CASE ~only
  <2>1. AllocSlots(reservedNodes)
    BY <1>1 DEF OnSetReservedOnly
  <2>2. reservedNodes \in [Peers -> ResStates]
    BY DEF ResStates
  <2>3. \A q \in Peers : reservedNodes[q] # "absent" => nodes[q] = "absent"
    BY DEF ReservedNotRegular, IsReserved, IsRegular
  <2> QED BY <2>1, <2>2, <2>3, AllocSlotsEmits
<1>2. CASE only
  <2> DEFINE X == {q \in Peers : IsRegular(q)}
  <2>1. /\ sent' = {DropConnection(p) : p \in X}
        /\ nodes' = [p \in Peers |-> "absent"]
        /\ reservedNodes' = reservedNodes
    BY <1>2 DEF OnSetReservedOnly
  <2>2. X \subseteq Connected /\ X \in SUBSET Peers
    BY DEF Connected, IsConnected
  <2>3. Connected' = Connected \ X
    BY <2>1 DEF Connected, IsConnected, IsRegular, IsReserved, ReservedNotRegular, Direction
  <2> HIDE DEF X
  <2> QED BY <2>1, <2>2, <2>3, EmitMany
<1> QED BY <1>1, <1>2

(* on_disconnect_peer sends Drop exactly if the peer was a regular one.     *)
LEMMA OnDisconnectPeerEmits ==
  ASSUME IndInv, NEW p \in Peers, OnDisconnectPeer(p)
  PROVE  Commands!Next
<1> USE DEF IndInv, TypeOK
<1>1. CASE ~IsReserved(p) /\ IsRegular(p)
  <2> DEFINE X == {p}
  <2>1. sent' = {DropConnection(q) : q \in X}
    BY <1>1 DEF OnDisconnectPeer
  <2>2. X \in SUBSET Peers /\ X \subseteq Connected /\ Connected' = Connected \ X
    BY <1>1 DEF OnDisconnectPeer, RemoveRegular, Connected, IsConnected, IsRegular,
       IsReserved, Direction
  <2> HIDE DEF X
  <2> QED BY <2>1, <2>2, EmitMany
<1>2. CASE IsReserved(p) \/ ~IsRegular(p)
  <2>1. sent' = {} /\ Connected' = Connected
    BY <1>2 DEF OnDisconnectPeer, Connected, IsConnected, IsRegular
  <2> QED BY <2>1, EmitNothing
<1> QED BY <1>1, <1>2

(* on_incoming_connection settles the peer with Accept or Reject.           *)
LEMMA OnIncomingConnectionEmits ==
  ASSUME IndInv, NEW p \in Peers, NEW i \in Indices, OnIncomingConnection(p, i)
  PROVE  Commands!Next
<1> USE DEF IndInv, TypeOK
<1>1. \/ sent' = {AcceptConnection(p, i)} /\ Connected' = Connected \cup {p}
      \/ sent' = {RejectConnection(p, i)} /\ Connected' = Connected \ {p}
  <2>1. CASE reservedOnly /\ ~IsReserved(p)
    <3>1. nodes[p] = "absent"
      BY <2>1 DEF ReservedOnlyRespected, IsRegular
    <3> QED BY <2>1, <3>1 DEF OnIncomingConnection, Connected, IsConnected, IsRegular,
               IsReserved, Direction
  <2>2. CASE IsReserved(p) /\ (reservedNodes[p] \in Direction \/ ~IsBanned(p))
    BY <2>2 DEF OnIncomingConnection, Connected, IsConnected, IsRegular, IsReserved, Direction
  <2>3. CASE reservedNodes[p] = "NotConnected" /\ IsBanned(p)
    BY <2>3 DEF OnIncomingConnection, Connected, IsConnected, IsRegular, IsReserved,
       Direction, ReservedNotRegular
  <2>4. CASE ~reservedOnly /\ ~IsReserved(p)
    BY <2>4 DEF OnIncomingConnection, RemoveRegular, Connected, IsConnected, IsRegular,
       IsReserved, Direction
  <2> QED BY <2>1, <2>2, <2>3, <2>4 DEF IsReserved
<1> QED BY <1>1, EmitAnswer

(* on_peer_dropped sends nothing and forgets one connected peer at most.    *)
LEMMA OnPeerDroppedEmits ==
  ASSUME IndInv, NEW p \in Peers, OnPeerDropped(p)
  PROVE  Commands!Next
<1> USE DEF IndInv, TypeOK
<1>1. CASE IsConnected(p)
  <2>1. sent' = {} /\ p \in Connected /\ Connected' = Connected \ {p}
    BY <1>1 DEF OnPeerDropped, RemoveRegular, Connected, IsConnected, IsRegular, IsReserved,
       Direction, ReservedNotRegular
  <2> QED BY <2>1 DEF Commands!Next, Commands!Dropped, Connected
<1>2. CASE ~IsConnected(p)
  <2>1. sent' = {} /\ Connected' = Connected
    BY <1>2 DEF OnPeerDropped, Connected, IsConnected, IsRegular, IsReserved, Direction
  <2> QED BY <2>1, EmitNothing
<1> QED BY <1>1, <1>2

(* Every step of the controller is a step of ConnectionCommands or changes  *)
(* neither its messages nor its connected peers.                            *)
LEMMA StepEmits ==
  ASSUME IndInv, [Next]_vars
  PROVE  Commands!Next \/ UNCHANGED <<Connected, sent>>
<1>1. CASE ProcessAction
  <2>1. ASSUME NEW new \in SUBSET Peers, OnSetReservedPeers(new) PROVE Commands!Next
    <3>1. sent' = {} /\ Connected' = Connected
      BY <2>1 DEF OnSetReservedPeers, Connected, IsConnected, IsRegular
    <3> QED BY <3>1, EmitNothing
  <2> QED BY <1>1, <2>1, OnAddReservedPeerEmits, OnRemoveReservedPeerEmits,
             OnDisconnectPeerEmits, OnSetReservedOnlyEmits DEF ProcessAction
<1>2. CASE ProcessEvent
  BY <1>2, OnIncomingConnectionEmits, OnPeerDroppedEmits DEF ProcessEvent
<1>3. CASE ContinueSetReserved
  BY <1>3, OnAddReservedPeerEmits, OnRemoveReservedPeerEmits
     DEF ContinueSetReserved, SetReservedInsert, SetReservedRemove
<1>4. CASE PeriodicAllocSlots
  <2>1. AllocSlots(reservedNodes)
    BY <1>4 DEF PeriodicAllocSlots
  <2>2. reservedNodes \in [Peers -> ResStates]
    BY DEF IndInv, TypeOK, ResStates
  <2>3. \A q \in Peers : reservedNodes[q] # "absent" => nodes[q] = "absent"
    BY DEF IndInv, ReservedNotRegular, IsReserved, IsRegular
  <2> QED BY <2>1, <2>2, <2>3, AllocSlotsEmits
<1>5. CASE PeerStoreStep \/ UNCHANGED vars
  BY <1>5 DEF PeerStoreStep, vars, ctrlVars, Connected, IsConnected, IsRegular
<1> QED BY <1>1, <1>2, <1>3, <1>4, <1>5 DEF Next

(* The messages sent to Notifications always say which peers the controller *)
(* counts as connected: no Connect to a connected peer, no Drop of one that *)
(* is not, whatever the interleaving of actions, events and timer.          *)
THEOREM CommandsCorrect == Spec => CommandsSpec
<1>1. Init => Commands!Init
  BY DEF Init, Commands!Init, IsConnected, IsRegular, Direction
<1>2. IndInv /\ [Next]_vars => [Commands!Next]_<<{p \in Peers : IsConnected(p)}, sent>>
  BY StepEmits DEF Connected
<1> QED BY <1>1, <1>2, InitIndInv, NextIndInv, PTL DEF Spec, CommandsSpec, Commands!Spec

(* No step takes up a connection with a peer that is banned at that time.   *)
THEOREM BannedNeverTakenUp == Spec => BannedNotConnected
<1>1. ASSUME IndInv, [Next]_vars, NEW p \in Peers, ~IsConnected(p), IsConnected(p)'
      PROVE  ~IsBanned(p)
  <2> USE <1>1 DEF IndInv, TypeOK
  <2>0. nodes[p] = "absent" /\ reservedNodes[p] \notin Direction
    BY DEF IsConnected, IsRegular
  <2>1. ASSUME NEW rs \in [Peers -> ResStates], AllocSlots(rs),
               rs[p] \notin Direction
        PROVE  ~IsBanned(p)
    BY <2>0, <2>1 DEF AllocSlots, OutgoingCandidates, Eligible, IsBanned, IsConnected,
       IsRegular, Direction
  <2>2. reservedNodes \in [Peers -> ResStates]
    BY DEF ResStates
  <2>3. ASSUME NEW q \in Peers, OnAddReservedPeer(q) PROVE ~IsBanned(p)
    <3>1. CASE IsReserved(q) \/ IsRegular(q)
      BY <2>0, <2>3, <3>1 DEF OnAddReservedPeer, PromoteRegular, RemoveRegular, IsReserved,
         IsRegular, IsConnected
    <3>2. CASE ~IsReserved(q) /\ ~IsRegular(q)
      <4> DEFINE rs == [reservedNodes EXCEPT ![q] = "NotConnected"]
      <4>1. AllocSlots(rs)
        BY <2>3, <3>2 DEF OnAddReservedPeer
      <4>2. rs \in [Peers -> ResStates] /\ rs[p] \notin Direction
        BY <2>0 DEF ResStates, Direction
      <4> HIDE DEF rs
      <4> QED BY <4>1, <4>2, <2>1
    <3> QED BY <3>1, <3>2
  <2>4. ASSUME NEW q \in Peers, OnRemoveReservedPeer(q) PROVE FALSE
    BY <2>0, <2>4 DEF OnRemoveReservedPeer, IsConnected, IsRegular, Direction
  <2>5. CASE ProcessAction
    <3>1. ASSUME NEW only \in BOOLEAN, OnSetReservedOnly(only) PROVE ~IsBanned(p)
      BY <2>0, <2>1, <2>2, <3>1 DEF OnSetReservedOnly, IsConnected, IsRegular
    <3>2. ASSUME NEW q \in Peers, OnDisconnectPeer(q) PROVE FALSE
      BY <2>0, <3>2 DEF OnDisconnectPeer, RemoveRegular, IsConnected, IsRegular
    <3>3. ASSUME NEW new \in SUBSET Peers, OnSetReservedPeers(new) PROVE FALSE
      BY <2>0, <3>3 DEF OnSetReservedPeers, IsConnected, IsRegular
    <3> QED BY <2>3, <2>4, <2>5, <3>1, <3>2, <3>3 DEF ProcessAction
  <2>6. CASE ProcessEvent
    <3>1. ASSUME NEW q \in Peers, NEW i \in Indices, OnIncomingConnection(q, i)
          PROVE  ~IsBanned(p)
      BY <2>0, <3>1 DEF OnIncomingConnection, RemoveRegular, IsReserved, IsConnected, IsRegular
    <3>2. ASSUME NEW q \in Peers, OnPeerDropped(q) PROVE FALSE
      BY <2>0, <3>2 DEF OnPeerDropped, RemoveRegular, IsConnected, IsRegular, Direction
    <3> QED BY <2>6, <3>1, <3>2 DEF ProcessEvent
  <2>7. CASE ContinueSetReserved
    BY <2>3, <2>4, <2>7 DEF ContinueSetReserved, SetReservedInsert, SetReservedRemove
  <2>8. CASE PeriodicAllocSlots
    BY <2>0, <2>1, <2>2, <2>8 DEF PeriodicAllocSlots
  <2>9. CASE PeerStoreStep \/ UNCHANGED vars
    BY <2>0, <2>9 DEF PeerStoreStep, vars, ctrlVars, IsConnected, IsRegular
  <2> QED BY <2>5, <2>6, <2>7, <2>8, <2>9 DEF Next
<1>2. IndInv /\ [Next]_vars =>
        [\A p \in Peers : ~IsConnected(p) /\ IsConnected(p)' => ~IsBanned(p)]_vars
  BY <1>1
<1> QED BY <1>2, InitIndInv, NextIndInv, PTL DEF Spec, BannedNotConnected
=============================================================================
