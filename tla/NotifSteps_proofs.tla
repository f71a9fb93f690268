-------------------------- MODULE NotifSteps_proofs --------------------------
(***************************************************************************)
(* Proofs about ControlledNotifications for any set of connections with    *)
(* the peer, any bounds and any controller: as long as the entry of the    *)
(* peer is not poisoned, what `Notifications` has told the API and         *)
(* remembers of requests is in step with the state of the peer, it agrees  *)
(* with every handler once nothing is on its way, and no debug_assert!     *)
(* fails but the one that is known to.  With one connection at a time the  *)
(* entry is never poisoned.  There is a lemma for every step of            *)
(* `Notifications`: it keeps the invariant of NotifBooks_proofs.           *)
(***************************************************************************)
EXTENDS NotifBooks_proofs

(* report_reject *)
LEMMA RejectKeepsBooks ==
  ASSUME BooksInv, Sane, UNCHANGED <<handlerVars, fromHandler>>, NEW i, NEW tell, ReportReject(i, tell),
         validations' \in SUBSET (1..MaxIncoming), abandoned' \in SUBSET (1..MaxIncoming)
  PROVE  BooksInv' /\ Sane'
<1>1. /\ UNCHANGED <<delays, apiVars, nextIncomingIndex>>
      /\ incoming' = incoming \ {e \in incoming : e.id = i}
  BY Zenon DEF ReportReject
<1>2. /\ incoming' \in SUBSET EntryRecord
      /\ \A e \in incoming : e.id = i /\ e.alive =>
           \A p : p.state # "Incoming" => Entries(incoming', p, nextIncomingIndex)
      /\ (\A e \in incoming : e.id = i => ~e.alive) =>
           Entries(incoming', peer, nextIncomingIndex)
  BY Zenon, <1>1, EntriesAnswered
<1>3. \A e \in incoming : e.alive => peer.state = "Incoming" /\ e.id = peer.index
  BY Zenon DEF BooksInv, Entries
<1>4. CASE \E e \in incoming : e.id = i /\ e.alive
  <2>1. peer.state = "Incoming" /\ i = peer.index
    BY Zenon, <1>3, <1>4
  <2>2. /\ DenyRemote /\ order' = order
        /\ DebugAsserts(Unless(AnyIn(conn, {"OpenDesiredByRemote"}), "incoming but not desired"))
    BY Zenon, <1>4, <2>1 DEF ReportReject
  <2>3. AnyIn(conn, {"OpenDesiredByRemote"})
    BY Zenon, <2>1 DEF BooksInv, Standing, AnyIn, In
  <2>4. failed' \subseteq Excepted
    BY Zenon, <2>2, <2>3 DEF DebugAsserts, Unless, BooksInv
  <2>5. /\ conn' = [c \in Conns |-> IF conn[c] = "OpenDesiredByRemote" THEN "Closing" ELSE conn[c]]
        /\ Tell(In(conn, {"OpenDesiredByRemote"}), "Close") /\ peer' = Disabled(peer.backoff)
    BY Zenon, <2>2 DEF DenyRemote
  <2> QED BY Zenon, <1>1, <1>2, <1>4, <2>1, <2>2, <2>4, <2>5, RemoteDecided
<1>5. CASE \A e \in incoming : e.id = i => ~e.alive
  <2>1. UNCHANGED <<peerVars, toHandler, toController, failed>>
    BY Zenon, <1>5 DEF ReportReject
  <2>2. /\ RequestInv' /\ outSub' = outSub /\ Functional' /\ \A c \in Conns : LinkInStep(c)'
    BY Zenon, <2>1, LinksAlone DEF peerVars
  <2>3. RestTyped'
    BY Zenon, <1>1, <1>2, <2>1, <2>2 DEF BooksInv, RestTyped, peerVars, apiVars
  <2>4. Standing(peer.state, conn)' /\ Listed(order, conn)' /\ Told(numPeers, conn)'
    BY Zenon, <1>1, <2>1 DEF BooksInv, Standing, Listed, Told, peerVars, apiVars
  <2>5. Entries(incoming, peer, nextIncomingIndex)'
    BY Zenon, <1>1, <1>2, <1>5, <2>1 DEF peerVars
  <2> QED BY Zenon, <2>1, <2>2, <2>3, <2>4, <2>5 DEF BooksInv, peerVars, Sane
<1>6. (\E e \in incoming : e.id = i /\ e.alive) \/ (\A e \in incoming : e.id = i => ~e.alive)
  BY Zenon
<1> QED BY Zenon, <1>4, <1>5, <1>6

(* protocol_report_accept *)
LEMMA AcceptKeepsBooks ==
  ASSUME BooksInv, Sane, UNCHANGED <<handlerVars, fromHandler>>, NEW i, ProtocolReportAccept(i),
         validations' \in SUBSET (1..MaxIncoming), abandoned' \in SUBSET (1..MaxIncoming)
  PROVE  BooksInv' /\ Sane'
<1>1. CASE ReportReject(i, FALSE)
  BY Zenon, <1>1, RejectKeepsBooks
<1>2. CASE ~ReportReject(i, FALSE)
  <2>1. /\ UNCHANGED <<delays, apiVars, nextIncomingIndex>>
        /\ incoming' = incoming \ {e \in incoming : e.id = i}
    BY Zenon, <1>2 DEF ProtocolReportAccept
  <2>2. /\ incoming' \in SUBSET EntryRecord
        /\ \A e \in incoming : e.id = i /\ e.alive =>
             \A p : p.state # "Incoming" => Entries(incoming', p, nextIncomingIndex)
        /\ (\A e \in incoming : e.id = i => ~e.alive) =>
             Entries(incoming', peer, nextIncomingIndex)
    BY Zenon, <2>1, EntriesAnswered
  <2>3. /\ \A e \in incoming : e.alive => peer.state = "Incoming" /\ e.id = peer.index
        /\ \A e, f \in incoming : e.id = f.id => e = f
    BY Zenon DEF BooksInv, Entries
  <2>4. CASE \E e \in incoming : e.id = i /\ e.alive
    <3>1. peer.state = "Incoming" /\ i = peer.index
      BY Zenon, <2>3, <2>4
    <3>2. \A e \in incoming : e.id = i => e.alive
      BY Zenon, <2>3, <2>4
    <3>3. /\ conn' = [c \in Conns |-> IF conn[c] = "OpenDesiredByRemote" THEN "Opening" ELSE conn[c]]
          /\ Tell(In(conn, {"OpenDesiredByRemote"}), "Open")
          /\ peer' = Enabled /\ order' = order
          /\ DebugAsserts(Unless(AnyIn(conn, {"OpenDesiredByRemote"}), "incoming but not desired"))
      BY Zenon, <1>2, <2>4, <3>1, <3>2 DEF ProtocolReportAccept
    <3>4. AnyIn(conn, {"OpenDesiredByRemote"})
      BY Zenon, <3>1 DEF BooksInv, Standing, AnyIn, In
    <3>5. failed' \subseteq Excepted
      BY Zenon, <3>3, <3>4 DEF DebugAsserts, Unless, BooksInv
    <3> QED BY Zenon, <2>1, <2>2, <2>4, <3>1, <3>3, <3>5, RemoteDecided
  <2>5. CASE \A e \in incoming : e.id = i => ~e.alive
    <3>1. UNCHANGED <<peerVars, toHandler, failed>>
      BY Zenon, <1>2, <2>5 DEF ProtocolReportAccept
    <3>2. /\ RequestInv' /\ outSub' = outSub /\ Functional' /\ \A c \in Conns : LinkInStep(c)'
      BY Zenon, <3>1, LinksAlone DEF peerVars
    <3>3. RestTyped'
      BY Zenon, <2>1, <2>2, <3>1, <3>2 DEF BooksInv, RestTyped, peerVars, apiVars
    <3>4. Standing(peer.state, conn)' /\ Listed(order, conn)' /\ Told(numPeers, conn)'
      BY Zenon, <2>1, <3>1 DEF BooksInv, Standing, Listed, Told, peerVars, apiVars
    <3>5. Entries(incoming, peer, nextIncomingIndex)'
      BY Zenon, <2>1, <2>2, <2>5, <3>1 DEF peerVars
    <3> QED BY Zenon, <3>1, <3>2, <3>3, <3>4, <3>5 DEF BooksInv, peerVars, Sane
  <2>6. (\E e \in incoming : e.id = i /\ e.alive) \/ (\A e \in incoming : e.id = i => ~e.alive)
    BY Zenon
  <2> QED BY Zenon, <2>4, <2>5, <2>6
<1> QED BY Zenon, <1>1, <1>2

-----------------------------------------------------------------------------
(* The messages of the controller, the verdicts of the protocol, the API    *)
(* and the delays.                                                          *)

(* What the invariant says of the state of the peer. *)
LEMMA PeerFacts ==
  ASSUME BooksInv, Sane
  PROVE  /\ peer.state \in PeerStates \ {"Poisoned"} /\ peer.backoff \in BOOLEAN
         /\ AnyIn(conn, {"Open"}) => peer.state = "Enabled"
         /\ peer.state = "Enabled" <=> AnyIn(conn, Active)
         /\ peer.state = "Incoming" <=> AnyIn(conn, {"OpenDesiredByRemote"})
         /\ \A s \in PeerStates : [peer EXCEPT !.state = s] \in PeerRecord
         /\ \A b \in BOOLEAN : [peer EXCEPT !.backoff = b] \in PeerRecord
         /\ [peer EXCEPT !.rejected = TRUE] \in PeerRecord
<1>1. peer \in PeerRecord
  BY Zenon DEF BooksInv, RestTyped
<1>2. /\ AnyIn(conn, {"Open"}) => peer.state = "Enabled"
      /\ peer.state = "Enabled" <=> AnyIn(conn, Active)
      /\ peer.state = "Incoming" <=> AnyIn(conn, {"OpenDesiredByRemote"})
  BY Zenon DEF BooksInv, Standing, AnyIn, In, Active
<1> QED BY Zenon, <1>1, <1>2 DEF PeerRecord, Sane

(* peerset_report_connect *)
LEMMA ConnectKeepsBooks ==
  ASSUME BooksInv, Sane, UNCHANGED <<handlerVars, fromHandler>>, PeersetReportConnect
  PROVE  BooksInv' /\ Sane'
<1>1. UNCHANGED <<order, numPeers, apiSink, incoming, nextIncomingIndex, validations, abandoned, inVars>>
  BY Zenon DEF PeersetReportConnect, inVars, apiVars
<1>2. /\ delays \in SUBSET (1..MaxDelays) /\ failed \subseteq Excepted /\ peer \in PeerRecord
      /\ validations' \in SUBSET (1..MaxIncoming) /\ abandoned' \in SUBSET (1..MaxIncoming)
  BY Zenon, <1>1 DEF BooksInv, RestTyped
<1>3. CASE peer.state = "absent" \/ peer.state = "Backoff"
  <2>1. /\ UNCHANGED <<conn, delays, toHandler, failed>>
        /\ peer' = InState("Requested") \/ peer' = [peer EXCEPT !.state = "PendingRequest"]
    BY Zenon, <1>3 DEF PeersetReportConnect
  <2>2. peer' \in PeerRecord /\ peer'.state \in {"Requested", "PendingRequest"}
    BY <1>2, <2>1, PeerRecords, PeerFacts DEF PeerStates, PeerRecord
  <2> QED BY Zenon, <1>1, <1>2, <1>3, <2>1, <2>2, PeerMoves DEF Unconnected, Sane
<1>4. CASE peer.state = "Disabled"
  <2>1. ~AnyIn(conn, {"Open"})
    BY Zenon, <1>4, PeerFacts
  <2>2. \A label : Unless(~AnyIn(conn, {"Open"}), label) = {}
    BY Zenon, <2>1 DEF Unless
  <2>3. CASE ~peer.backoff /\ AnyIn(conn, {"Closed"})
    <3>1. OpenFirstClosed /\ delays' = delays /\ failed' = failed
      BY Zenon, <1>4, <2>2, <2>3 DEF PeersetReportConnect, DebugAsserts
    <3> QED BY Zenon, <1>1, <1>2, <1>4, <2>3, <3>1, OpensFirst
  <2>4. CASE peer.backoff \/ ~AnyIn(conn, {"Closed"})
    <3>1. StartDelay("DisabledPendingEnable") /\ UNCHANGED <<conn, toHandler>>
      BY Zenon, <1>4, <2>4 DEF PeersetReportConnect
    <3>2. /\ delays' \in SUBSET (1..MaxDelays)
          /\ peer' \in PeerRecord /\ peer'.state = "DisabledPendingEnable"
      BY Zenon, <3>1, StartDelayTypes DEF PeerStates
    <3>3. failed' \subseteq Excepted
      <4>1. CASE peer.backoff
        BY Zenon, <1>2, <1>4, <4>1 DEF PeersetReportConnect
      <4>2. CASE ~peer.backoff
        <5>1. AnyIn(conn, {"OpeningThenClosing", "Closing"})
          <6>1. PICK c \in Conns : conn[c] # "none"
            BY Zenon, <1>4 DEF BooksInv, Standing, Unconnected
          <6>2. conn[c] \in ConnStates
            BY Zenon DEF BooksInv, Functional
          <6>3. conn[c] \notin {"Closed", "Opening", "Open", "OpenDesiredByRemote"}
            BY Zenon, <1>4, <2>4, <4>2, PeerFacts DEF AnyIn, In, Active
          <6> QED BY Zenon, <6>1, <6>2, <6>3 DEF ConnStates, AnyIn, In
        <5>2. \A label : Unless(AnyIn(conn, {"OpeningThenClosing", "Closing"}), label) = {}
          BY Zenon, <5>1 DEF Unless
        <5> QED BY Zenon, <1>2, <1>4, <2>2, <2>4, <4>2, <5>2 DEF PeersetReportConnect, DebugAsserts
      <4> QED BY Zenon, <4>1, <4>2
    <3> QED BY Zenon, <1>1, <1>2, <1>4, <3>1, <3>2, <3>3, PeerMoves DEF Unconnected, Sane
  <2> QED BY Zenon, <2>3, <2>4
<1>5. CASE peer.state \in {"Incoming", "Enabled", "DisabledPendingEnable", "Requested", "PendingRequest"}
  <2>1. UNCHANGED <<peer, conn, delays, toHandler, failed>>
    BY Zenon, <1>5 DEF PeersetReportConnect
  <2> QED BY Zenon, <1>1, <1>2, <2>1, PeerMoves DEF Sane
<1> QED BY Zenon, <1>3, <1>4, <1>5, PeerFacts DEF PeerStates

(* peerset_report_disconnect *)
LEMMA DropKeepsBooks ==
  ASSUME BooksInv, Sane, UNCHANGED <<handlerVars, fromHandler>>, PeersetReportDisconnect
  PROVE  BooksInv' /\ Sane'
<1>1. UNCHANGED <<order, incoming, nextIncomingIndex, validations, abandoned, inVars, delays>>
  BY Zenon DEF PeersetReportDisconnect, inVars
<1>2. /\ delays' \in SUBSET (1..MaxDelays) /\ failed \subseteq Excepted /\ peer \in PeerRecord
      /\ validations' \in SUBSET (1..MaxIncoming) /\ abandoned' \in SUBSET (1..MaxIncoming)
  BY Zenon, <1>1 DEF BooksInv, RestTyped
<1>3. CASE peer.state = "Enabled"
  <2>1. /\ CloseActive /\ peer' = Disabled(FALSE)
        /\ DebugAsserts(Unless(AnyIn(conn, Active), "enabled but inactive"))
    BY Zenon, <1>3 DEF PeersetReportDisconnect
  <2>2. failed' \subseteq Excepted
    BY Zenon, <1>2, <1>3, <2>1, PeerFacts DEF DebugAsserts, Unless
  <2> QED BY Zenon, <1>1, <1>3, <2>1, <2>2, ClosesActive
<1>4. CASE peer.state = "DisabledPendingEnable"
  <2>1. /\ peer' = Disabled(peer.backoff) /\ UNCHANGED <<conn, toHandler, numPeers, apiSink>>
        /\ DebugAsserts(Unless(order # <<>>, "no connections"))
    BY Zenon, <1>4 DEF PeersetReportDisconnect, apiVars
  <2>2. order # <<>>
    <3>1. PICK c \in Conns : conn[c] # "none"
      BY Zenon, <1>4 DEF BooksInv, Standing, Unconnected
    <3> QED BY <3>1 DEF BooksInv, Listed
  <2>3. failed' \subseteq Excepted
    BY Zenon, <1>2, <2>1, <2>2 DEF DebugAsserts, Unless
  <2>4. peer' \in PeerRecord /\ peer'.state = "Disabled"
    BY Zenon, <2>1, PeerRecords, PeerFacts
  <2> QED BY Zenon, <1>1, <1>2, <1>4, <2>1, <2>3, <2>4, PeerMoves DEF Unconnected, Sane
<1>5. CASE peer.state \in Unconnected \cup {"Disabled", "Incoming"}
  <2>1. UNCHANGED <<conn, toHandler, numPeers, apiSink, failed>>
    BY Zenon, <1>5 DEF PeersetReportDisconnect, apiVars, Unconnected
  <2>2. CASE peer.state = "Incoming"
    <3>1. peer' = [peer EXCEPT !.rejected = TRUE]
      BY Zenon, <2>2 DEF PeersetReportDisconnect
    <3>2. peer' \in PeerRecord /\ peer'.state = "Incoming" /\ peer'.index = peer.index
      BY Zenon, <1>2, <2>2, <3>1, PeerFacts DEF PeerRecord
    <3> QED BY Zenon, <1>1, <1>2, <2>1, <2>2, <3>2, PeerMoves DEF Unconnected, Sane
  <2>3. CASE peer.state = "Disabled"
    <3>1. peer' = peer
      BY Zenon, <2>3 DEF PeersetReportDisconnect
    <3> QED BY Zenon, <1>1, <1>2, <2>1, <3>1, PeerMoves DEF Sane
  <2>4. CASE peer.state \in Unconnected
    <3>1. peer' = peer \/ peer' = Absent \/ peer' = [peer EXCEPT !.state = "Backoff"]
      BY Zenon, <2>4 DEF PeersetReportDisconnect, Unconnected
    <3>2. peer' \in PeerRecord /\ peer'.state \in Unconnected
      BY <1>2, <2>4, <3>1, PeerRecords, PeerFacts DEF PeerStates, PeerRecord, Unconnected
    <3> QED BY Zenon, <1>1, <1>2, <2>1, <2>4, <3>2, PeerMoves DEF Unconnected, Sane
  <2> QED BY Zenon, <1>5, <2>2, <2>3, <2>4
<1> QED BY Zenon, <1>3, <1>4, <1>5, PeerFacts DEF PeerStates, Unconnected

(* peerset_report_preaccept *)
LEMMA PreacceptKeepsBooks ==
  ASSUME BooksInv, Sane, UNCHANGED <<handlerVars, fromHandler>>, PeersetReportPreaccept
  PROVE  BooksInv' /\ Sane'
<1> DEFINE i == Head(fromController).index
<1>1. /\ delays \in SUBSET (1..MaxDelays) /\ failed \subseteq Excepted /\ peer \in PeerRecord
      /\ validations \in SUBSET (1..MaxIncoming) /\ abandoned \in SUBSET (1..MaxIncoming)
      /\ incoming \in SUBSET EntryRecord
  BY Zenon DEF BooksInv, RestTyped
<1>2. CASE UNCHANGED <<notifVars, toHandler, toController, failed>>
  <2>1. UNCHANGED <<conn, order, numPeers, incoming, nextIncomingIndex, peer, delays, apiSink,
                    validations, abandoned, toHandler, failed>>
    BY Zenon, <1>2 DEF notifVars, peerVars, inVars, apiVars
  <2> QED BY Zenon, <1>1, <2>1, PeerMoves DEF Sane
<1>3. CASE ProtocolReportAccept(i) /\ abandoned' = abandoned /\ validations' = validations
  BY Zenon, <1>1, <1>3, AcceptKeepsBooks
<1>4. CASE ReportReject(i, TRUE) /\ abandoned' = abandoned /\ validations' = validations
  BY Zenon, <1>1, <1>4, RejectKeepsBooks
<1>5. CASE /\ \E e \in incoming : e.id = i
           /\ abandoned' = abandoned /\ validations' = validations \cup {i}
           /\ UNCHANGED <<peerVars, delays, incoming, nextIncomingIndex, apiVars, toHandler,
                          toController, failed>>
  <2>1. UNCHANGED <<conn, order, numPeers, incoming, nextIncomingIndex, peer, delays, apiSink,
                    abandoned, toHandler, failed>>
    BY Zenon, <1>5 DEF peerVars, apiVars
  <2>2. i \in 1..MaxIncoming
    BY Zenon, <1>1, <1>5 DEF EntryRecord
  <2>3. validations' \in SUBSET (1..MaxIncoming)
    BY Zenon, <1>1, <1>5, <2>2
  <2> QED BY Zenon, <1>1, <2>1, <2>3, PeerMoves DEF Sane
<1> QED BY Zenon, <1>2, <1>3, <1>4, <1>5 DEF PeersetReportPreaccept

(* poll, for one message of the controller. *)
LEMMA MessageKeepsBooks ==
  ASSUME BooksInv, Sane, PeersetMessage
  PROVE  BooksInv' /\ Sane'
<1>1. UNCHANGED <<handlerVars, fromHandler>>
  BY Zenon DEF PeersetMessage
<1>2. CASE PeersetReportReject
  <2>1. validations' \in SUBSET (1..MaxIncoming) /\ abandoned' \in SUBSET (1..MaxIncoming)
    BY Zenon, <1>2 DEF PeersetReportReject, BooksInv, RestTyped
  <2>2. ReportReject(Head(fromController).index, FALSE)
    BY Zenon, <1>2 DEF PeersetReportReject
  <2> QED BY Zenon, <1>1, <2>1, <2>2, RejectKeepsBooks
<1> QED BY Zenon, <1>1, <1>2, ConnectKeepsBooks, DropKeepsBooks, PreacceptKeepsBooks DEF PeersetMessage

(* poll, for the verdict on an inbound substream. *)
LEMMA ValidationKeepsBooks ==
  ASSUME BooksInv, Sane, ValidationStep
  PROVE  BooksInv' /\ Sane'
<1>1. PICK i \in validations, v \in Verdicts :
        UNCHANGED <<handlerVars, fromHandler>> /\ ValidationEnds(i, v)
  BY Zenon DEF ValidationStep
<1>2. validations \in SUBSET (1..MaxIncoming) /\ abandoned \in SUBSET (1..MaxIncoming)
  BY Zenon DEF BooksInv, RestTyped
<1>3. validations' \in SUBSET (1..MaxIncoming) /\ abandoned' \in SUBSET (1..MaxIncoming)
  BY Zenon, <1>1, <1>2 DEF ValidationEnds
<1>4. CASE ProtocolReportAccept(i)
  BY Zenon, <1>1, <1>3, <1>4, AcceptKeepsBooks
<1>5. CASE ReportReject(i, TRUE)
  BY Zenon, <1>1, <1>3, <1>5, RejectKeepsBooks
<1>6. CASE UNCHANGED <<peerVars, delays, incoming, nextIncomingIndex, apiVars, toHandler,
                       toController, failed>>
  <2>1. UNCHANGED <<conn, order, numPeers, incoming, nextIncomingIndex, peer, delays, apiSink,
                    toHandler, failed>>
    BY Zenon, <1>6 DEF peerVars, apiVars
  <2>2. delays' \in SUBSET (1..MaxDelays) /\ failed' \subseteq Excepted /\ peer' \in PeerRecord
    BY Zenon, <2>1 DEF BooksInv, RestTyped
  <2> QED BY Zenon, <1>1, <1>3, <2>1, <2>2, PeerMoves DEF Sane
<1> QED BY Zenon, <1>1, <1>4, <1>5, <1>6 DEF ValidationEnds

(* disconnect_peer *)
LEMMA DisconnectKeepsBooks ==
  ASSUME BooksInv, Sane, UNCHANGED <<handlerVars, fromHandler>>, DisconnectPeer
  PROVE  BooksInv' /\ Sane'
<1>1. UNCHANGED <<nextIncomingIndex, validations, abandoned, delays>>
  BY Zenon DEF DisconnectPeer
<1>2. /\ delays' \in SUBSET (1..MaxDelays) /\ failed \subseteq Excepted
      /\ validations' \in SUBSET (1..MaxIncoming) /\ abandoned' \in SUBSET (1..MaxIncoming)
  BY Zenon, <1>1 DEF BooksInv, RestTyped
<1>3. CASE peer.state = "DisabledPendingEnable"
  <2>1. /\ peer' = Disabled(peer.backoff)
        /\ UNCHANGED <<conn, order, toHandler, numPeers, apiSink, incoming, failed>>
    BY Zenon, <1>3 DEF DisconnectPeer, apiVars
  <2>2. peer' \in PeerRecord /\ peer'.state = "Disabled"
    BY Zenon, <2>1, PeerRecords, PeerFacts
  <2> QED BY Zenon, <1>1, <1>2, <1>3, <2>1, <2>2, PeerMoves DEF Unconnected, Sane
<1>4. CASE peer.state = "Enabled"
  <2>1. /\ CloseActive /\ peer' = Disabled(FALSE) /\ UNCHANGED <<order, inVars>>
        /\ DebugAsserts(Unless(~AnyIn(conn', Active), "active after close"))
    BY Zenon, <1>1, <1>4 DEF DisconnectPeer, inVars
  <2>2. ~AnyIn(conn', Active)
    BY Zenon, <2>1 DEF CloseActive, AnyIn, In, Active
  <2>3. failed' \subseteq Excepted
    BY Zenon, <1>2, <2>1, <2>2 DEF DebugAsserts, Unless
  <2> QED BY Zenon, <1>1, <1>4, <2>1, <2>3, ClosesActive
<1>5. CASE peer.state = "Incoming"
  <2>1. AliveEntries # {}
    BY <1>5 DEF BooksInv, Entries, AliveEntries
  <2>2. KillAlive /\ DenyRemote /\ UNCHANGED <<order, apiVars, failed>>
    BY Zenon, <1>5, <2>1 DEF DisconnectPeer
  <2>3. /\ incoming' \in SUBSET EntryRecord
        /\ \A p : p.state # "Incoming" => Entries(incoming', p, nextIncomingIndex)
    BY Zenon, <1>5, <2>2, EntriesKilled
  <2>4. /\ conn' = [c \in Conns |-> IF conn[c] = "OpenDesiredByRemote" THEN "Closing" ELSE conn[c]]
        /\ Tell(In(conn, {"OpenDesiredByRemote"}), "Close") /\ peer' = Disabled(peer.backoff)
    BY Zenon, <2>2 DEF DenyRemote
  <2>5. failed' \subseteq Excepted
    BY Zenon, <1>2, <2>2
  <2> QED BY Zenon, <1>1, <1>2, <1>5, <2>2, <2>3, <2>4, <2>5, RemoteDecided
<1> QED BY Zenon, <1>3, <1>4, <1>5 DEF DisconnectPeer

(* on_swarm_event for DialFailure, a deadline that passes, and poll for a delay. *)
LEMMA TimeKeepsBooks ==
  ASSUME BooksInv, Sane, DialFailure \/ DeadlinePasses \/ \E t \in delays : DelayFires(t)
  PROVE  BooksInv' /\ Sane'
<1>1. /\ delays \in SUBSET (1..MaxDelays) /\ failed \subseteq Excepted /\ peer \in PeerRecord
      /\ validations \in SUBSET (1..MaxIncoming) /\ abandoned \in SUBSET (1..MaxIncoming)
  BY Zenon DEF BooksInv, RestTyped
<1>2. UNCHANGED <<handlerVars, fromHandler, order, numPeers, apiSink, incoming, nextIncomingIndex,
                  validations, abandoned, inVars, failed>>
  BY Zenon DEF DialFailure, DeadlinePasses, DelayFires, inVars, apiVars
<1>3. CASE DialFailure
  <2>1. /\ peer.state \in Unconnected /\ UNCHANGED <<conn, toHandler>>
        /\ StartDelay("Backoff")
    BY Zenon, <1>3 DEF DialFailure, Unconnected
  <2>2. delays' \in SUBSET (1..MaxDelays) /\ peer' \in PeerRecord /\ peer'.state = "Backoff"
    BY Zenon, <2>1, StartDelayTypes DEF PeerStates
  <2> QED BY Zenon, <1>1, <1>2, <2>1, <2>2, PeerMoves DEF Unconnected, Sane
<1>4. CASE DeadlinePasses
  <2>1. peer' = [peer EXCEPT !.backoff = FALSE] /\ UNCHANGED <<conn, toHandler, delays>>
    BY Zenon, <1>4 DEF DeadlinePasses
  <2>2. peer' \in PeerRecord /\ peer'.state = peer.state /\ peer'.index = peer.index
    BY Zenon, <1>1, <2>1, PeerFacts DEF PeerRecord
  <2> QED BY Zenon, <1>1, <1>2, <2>1, <2>2, PeerMoves DEF Sane
<1>5. ASSUME NEW t \in delays, DelayFires(t) PROVE BooksInv' /\ Sane'
  <2>1. delays' \in SUBSET (1..MaxDelays)
    BY Zenon, <1>1, <1>5 DEF DelayFires
  <2>2. CASE peer.state = "DisabledPendingEnable" /\ AnyIn(conn, {"Closed"}) /\ OpenFirstClosed
    BY Zenon, <1>1, <1>2, <2>1, <2>2, OpensFirst
  <2>3. CASE UNCHANGED <<peer, conn, toHandler>>
    BY Zenon, <1>1, <1>2, <2>1, <2>3, PeerMoves DEF Sane
  <2>4. CASE /\ peer.state \in {"Backoff", "PendingRequest"} /\ UNCHANGED <<conn, toHandler>>
             /\ peer' = Absent \/ peer' = InState("Requested")
    <3>1. peer' \in PeerRecord /\ peer'.state \in {"absent", "Requested"}
      BY Zenon, <2>4, PeerRecords DEF PeerStates
    <3> QED BY Zenon, <1>1, <1>2, <2>1, <2>4, <3>1, PeerMoves DEF Unconnected, Sane
  <2>5. CASE /\ UNCHANGED <<conn, toHandler>> /\ peer' = [peer EXCEPT !.backoff = TRUE]
    <3>1. peer' \in PeerRecord /\ peer'.state = peer.state /\ peer'.index = peer.index
      BY Zenon, <1>1, <2>5, PeerFacts DEF PeerRecord
    <3> QED BY Zenon, <1>1, <1>2, <2>1, <2>5, <3>1, PeerMoves DEF Sane
  <2> QED BY Zenon, <1>5, <2>2, <2>3, <2>4, <2>5 DEF DelayFires
<1> QED BY Zenon, <1>3, <1>4, <1>5

-----------------------------------------------------------------------------
(* Connections that come and go. *)

(* on_swarm_event for ConnectionEstablished. *)
LEMMA EstablishedKeepsBooks ==
  ASSUME BooksInv, Sane, NEW c \in Conns, ConnectionEstablished(c), RequestInv'
  PROVE  BooksInv' /\ Sane'
<1>1. /\ handler[c] = "gone" /\ fromHandler[c] = <<>>
      /\ handler' = [handler EXCEPT ![c] = "Closed"] /\ order' = Append(order, c)
      /\ UNCHANGED <<outSub, fromHandler, failed, delays, incoming, nextIncomingIndex, validations,
                     abandoned, numPeers, apiSink>>
  BY Zenon DEF ConnectionEstablished, inVars, apiVars
<1>2. conn[c] = "none" /\ toHandler[c] = <<>>
  <2>1. InStep(conn[c], toHandler[c], "gone", <<>>)
    BY Zenon, <1>1 DEF BooksInv, LinkInStep
  <2> QED BY <2>1, InStepGone
<1>3. /\ conn \in [Conns -> ConnStates] /\ toHandler \in [Conns -> Seq(HandlerIn)]
      /\ handler \in [Conns -> HandlerStates] /\ fromHandler \in [Conns -> Seq(HandlerOut)]
  BY Zenon DEF BooksInv, Functional, RequestInv
<1>4. PICK s \in {"Opening", "Closed"} :
        /\ conn' = [conn EXCEPT ![c] = s]
        /\ toHandler' = [toHandler EXCEPT ![c] = IF s = "Opening" THEN <<"Open">> ELSE <<>>]
        /\ peer' \in PeerRecord
        /\ s = "Opening" => peer.state \in {"Requested", "PendingRequest"} /\ peer'.state = "Enabled"
        /\ s = "Closed" => /\ peer.state \in {"absent", "Backoff"} => peer'.state = "Disabled"
                           /\ peer.state \notin {"absent", "Backoff"} => peer' = peer
                           /\ peer.state \notin {"Requested", "PendingRequest"}
  <2>1. CASE peer.state \in {"Requested", "PendingRequest"}
    <3>1. conn' = [conn EXCEPT ![c] = "Opening"] /\ Tell({c}, "Open") /\ peer' = Enabled
      BY Zenon, <2>1 DEF ConnectionEstablished
    <3>2. handler'[c] # "gone"
      BY Zenon, <1>1, <1>3
    <3>3. toHandler' = [toHandler EXCEPT ![c] = <<"Open">>]
      <4>1. Append(toHandler[c], "Open") = <<"Open">>
        BY Zenon, <1>2, AppendFirst
      <4> QED BY Zenon, <1>3, <3>1, <3>2, <4>1 DEF Tell
    <3> QED BY Zenon, <2>1, <3>1, <3>3, PeerRecords
  <2>2. CASE peer.state \notin {"Requested", "PendingRequest"}
    <3>1. /\ conn' = [conn EXCEPT ![c] = "Closed"] /\ toHandler' = toHandler
          /\ peer' = IF peer.state \in {"absent", "Poisoned", "Backoff"}
                     THEN Disabled(peer.backoff) ELSE peer
      BY Zenon, <2>2 DEF ConnectionEstablished
    <3>2. toHandler' = [toHandler EXCEPT ![c] = <<>>]
      BY Zenon, <1>2, <1>3, <3>1
    <3>3. peer \in PeerRecord /\ peer.backoff \in BOOLEAN /\ peer.state # "Poisoned"
      BY Zenon, PeerFacts DEF BooksInv, RestTyped
    <3> QED BY Zenon, <2>2, <3>1, <3>2, <3>3, PeerRecords
  <2> QED BY Zenon, <2>1, <2>2
<1>5. s \in ConnStates /\ InStep(s, IF s = "Opening" THEN <<"Open">> ELSE <<>>, "Closed", <<>>)
  BY Zenon, InStepNew DEF ConnStates
<1>6. \A d \in Conns : LinkInStep(d)'
  <2>1. ASSUME NEW d \in Conns, d # c PROVE LinkInStep(d)'
    <3>1. /\ conn'[d] = conn[d] /\ toHandler'[d] = toHandler[d] /\ handler'[d] = handler[d]
          /\ fromHandler'[d] = fromHandler[d]
      BY Zenon, <1>1, <1>3, <1>4, <2>1
    <3> QED BY Zenon, <3>1 DEF BooksInv, LinkInStep
  <2>2. LinkInStep(c)'
    <3>1. /\ conn'[c] = s /\ toHandler'[c] = (IF s = "Opening" THEN <<"Open">> ELSE <<>>)
          /\ handler'[c] = "Closed" /\ fromHandler'[c] = <<>>
      BY Zenon, <1>1, <1>3, <1>4
    <3> QED BY Zenon, <1>5, <3>1 DEF LinkInStep
  <2> QED BY Zenon, <2>1, <2>2
<1>7. Functional'
  <2>1. (IF s = "Opening" THEN <<"Open">> ELSE <<>>) \in Seq(HandlerIn)
    BY Zenon, <1>5, InStepTypes
  <2> QED BY Zenon, <1>1, <1>3, <1>4, <1>5, <2>1 DEF Functional
<1>8. RestTyped'
  BY Zenon, <1>1, <1>4 DEF BooksInv, RestTyped
<1>9. conn'[c] = s /\ \A d \in Conns \ {c} : conn'[d] = conn[d]
  BY Zenon, <1>3, <1>4
<1>10. Standing(peer.state, conn)' /\ Sane'
  <2>1. CASE s = "Opening"
    BY Zenon, <1>2, <1>4, <1>9, <2>1 DEF BooksInv, Standing, Unconnected, Active, Sane
  <2>2. CASE s = "Closed"
    <3>1. /\ peer'.state \notin Unconnected
          /\ peer.state = "Enabled" <=> peer'.state = "Enabled"
          /\ peer.state = "Incoming" <=> peer'.state = "Incoming"
          /\ peer'.state # "Poisoned"
      BY Zenon, <1>4, <2>2 DEF Unconnected, Sane
    <3> QED BY Zenon, <1>2, <1>9, <2>2, <3>1 DEF BooksInv, Standing, Active, Sane
  <2> QED BY Zenon, <2>1, <2>2
<1>11. Listed(order, conn)'
  <2>1. Listed(Append(order, c), conn')
    BY Zenon, <1>2, <1>9, ListedNew DEF BooksInv
  <2> QED BY Zenon, <1>1, <2>1
<1>12. Told(numPeers, conn)'
  <2>1. (\E d \in Conns : conn[d] = "Open") <=> (\E d \in Conns : conn'[d] = "Open")
    BY Zenon, <1>2, <1>9
  <2> QED BY Zenon, <1>1, <2>1 DEF BooksInv, Told
<1>13. Entries(incoming, peer, nextIncomingIndex)'
  <2>1. Entries(incoming, peer', nextIncomingIndex)
    BY Zenon, <1>4, EntriesAlone DEF BooksInv
  <2> QED BY Zenon, <1>1, <2>1
<1>14. failed' \subseteq Excepted
  BY Zenon, <1>1 DEF BooksInv
<1> QED BY Zenon, <1>6, <1>7, <1>8, <1>10, <1>11, <1>12, <1>13, <1>14 DEF BooksInv

(* The report at the head is one that `Notifications` expects. *)
LEMMA ReadExpected ==
  ASSUME BooksInv, NEW c \in Conns, NEW ev, FromHandler(c, ev)
  PROVE  /\ UNCHANGED handlerVars /\ UNCHANGED <<validations, abandoned>>
         /\ fromHandler' = [fromHandler EXCEPT ![c] = Tail(@)]
         /\ toHandler = [toHandler EXCEPT ![c] = toHandler[c]]
         /\ ev # "OpenDesiredByRemote" => nextIncomingIndex' = nextIncomingIndex
         /\ \E r \in ConnStates : /\ Reads(conn[c], ev, r)
                                  /\ InStep(r, toHandler[c], handler[c], Tail(fromHandler[c]))
<1>1. fromHandler[c] # <<>> /\ Head(fromHandler[c]) = ev
  BY Zenon DEF FromHandler
<1>2. InStep(conn[c], toHandler[c], handler[c], fromHandler[c])
  BY Zenon DEF BooksInv, LinkInStep
<1>3. \E r \in ConnStates : /\ Reads(conn[c], Head(fromHandler[c]), r)
                            /\ InStep(r, toHandler[c], handler[c], Tail(fromHandler[c]))
  BY Zenon, <1>1, <1>2, InStepRead
<1>4. toHandler = [toHandler EXCEPT ![c] = toHandler[c]]
  BY Zenon DEF BooksInv, Functional
<1> QED BY Zenon, <1>1, <1>3, <1>4 DEF FromHandler

(* What is left to show of a step that reads a report of connection c. *)
LEMMA ReadKeepsBooks ==
  ASSUME BooksInv, NEW c \in Conns, NEW ev, FromHandler(c, ev), NEW r \in ConnStates, NEW commands,
         conn' = [conn EXCEPT ![c] = r], toHandler' = [toHandler EXCEPT ![c] = commands],
         InStep(r, commands, handler[c], Tail(fromHandler[c])),
         peer' \in PeerRecord, delays' \in SUBSET (1..MaxDelays), incoming' \in SUBSET EntryRecord,
         nextIncomingIndex' \in 1..MaxIncoming + 1, apiSink' \in Conns \cup {"closed"},
         failed' \subseteq Excepted,
         Standing(peer'.state, conn'), Listed(order', conn'), Told(numPeers', conn'),
         Entries(incoming', peer', nextIncomingIndex')
  PROVE  BooksInv'
<1>1. UNCHANGED handlerVars /\ UNCHANGED <<validations, abandoned>>
      /\ fromHandler' = [fromHandler EXCEPT ![c] = Tail(@)]
  BY Zenon, ReadExpected
<1>2. /\ RequestInv' /\ outSub' = outSub /\ Functional' /\ \A d \in Conns : LinkInStep(d)'
  BY Zenon, <1>1, LinksRead
<1>3. RestTyped'
  BY Zenon, <1>1, <1>2 DEF BooksInv, RestTyped
<1> QED BY Zenon, <1>2, <1>3 DEF BooksInv

(* What is left of the connections of the peer without c. *)
LEMMA WithoutFacts ==
  ASSUME BooksInv, NEW c \in Conns
  PROVE  /\ Without(c)[c] = "none" /\ \A d \in Conns \ {c} : Without(c)[d] = conn[d]
         /\ LastOne(c) <=> \A d \in Conns : Without(c)[d] = "none"
<1>1. conn \in [Conns -> ConnStates]
  BY Zenon DEF BooksInv, Functional
<1>2. Without(c) \in [Conns -> ConnStates]
  BY Zenon, <1>1 DEF Without, ConnStates
<1>3. Without(c)[c] = "none" /\ \A d \in Conns \ {c} : Without(c)[d] = conn[d]
  BY Zenon, <1>1 DEF Without
<1>4. LastOne(c) <=> \A d \in Conns : Without(c)[d] = "none"
  BY Zenon, <1>2 DEF LastOne, In
<1> QED BY Zenon, <1>3, <1>4

(* The API gets another open connection, or hears that there is none. *)
LEMMA SinkReplaced ==
  ASSUME BooksInv, NEW c \in Conns, NEW cn, conn[c] = "Open", cn[c] # "Open",
         \A d \in Conns \ {c} : cn[d] = conn[d], ReplaceSink(c, cn)
  PROVE  Told(numPeers', cn) /\ apiSink' \in Conns \cup {"closed"}
<1>1. numPeers = 1 /\ apiSink \in Conns \cup {"closed"}
  BY Zenon DEF BooksInv, Told, RestTyped
<1>2. CASE AnyIn(cn, {"Open"})
  <2>1. PICK d \in Conns : cn[d] = "Open"
    BY Zenon, <1>2 DEF AnyIn, In
  <2>2. FirstIn(cn, {"Open"}) \in Conns
    BY Zenon, <1>2, FirstInIs DEF BooksInv
  <2>3. numPeers' = 1 /\ apiSink' \in {FirstIn(cn, {"Open"}), apiSink}
    BY Zenon, <1>1, <1>2 DEF ReplaceSink
  <2> QED BY Zenon, <1>1, <2>1, <2>2, <2>3 DEF Told
<1>3. CASE ~AnyIn(cn, {"Open"})
  <2>1. \A d \in Conns : cn[d] # "Open"
    BY Zenon, <1>3 DEF AnyIn, In
  <2>2. numPeers' = 0 /\ apiSink' = "closed"
    BY <1>1, <1>3 DEF ReplaceSink, ApiClosed
  <2> QED BY Zenon, <2>1, <2>2 DEF Told
<1> QED BY Zenon, <1>2, <1>3

(* The peer whose last connection closes is forgotten, or backed off. *)
LEMMA LeaveTypes ==
  ASSUME BooksInv, Leave
  PROVE  /\ delays' \in SUBSET (1..MaxDelays) /\ peer' \in PeerRecord
         /\ peer'.state \in {"absent", "Backoff"}
<1>1. CASE StartDelay("Backoff")
  BY Zenon, <1>1, StartDelayTypes DEF PeerStates
<1>2. CASE peer' = Absent /\ delays' = delays
  BY Zenon, <1>2, PeerRecords DEF BooksInv, RestTyped
<1> QED BY Zenon, <1>1, <1>2 DEF Leave

(* on_swarm_event for ConnectionClosed. *)
LEMMA ClosedKeepsBooks ==
  ASSUME BooksInv, Sane, NEW c \in Conns, ConnectionClosed(c)
  PROVE  BooksInv' /\ Sane'
<1> DEFINE cn == Without(c)
<1>1. /\ FromHandler(c, "Gone") /\ toHandler' = [toHandler EXCEPT ![c] = toHandler[c]]
      /\ nextIncomingIndex' = nextIncomingIndex
  BY ReadExpected DEF ConnectionClosed
<1>2. /\ conn[c] # "none" /\ "none" \in ConnStates
      /\ InStep("none", toHandler[c], handler[c], Tail(fromHandler[c]))
  BY <1>1, ReadExpected DEF Reads, ConnStates
<1>3. peer.state \notin Unconnected
  BY Zenon, <1>2 DEF BooksInv, Standing
<1>4. /\ delays \in SUBSET (1..MaxDelays) /\ failed \subseteq Excepted /\ peer \in PeerRecord
      /\ incoming \in SUBSET EntryRecord /\ apiSink \in Conns \cup {"closed"}
      /\ nextIncomingIndex \in 1..MaxIncoming + 1
      /\ Entries(incoming, peer, nextIncomingIndex) /\ Told(numPeers, conn)
  BY Zenon DEF BooksInv, RestTyped
<1>5. Forget(c)
  BY Zenon, <1>3 DEF ConnectionClosed, ClosedWhileDisabled, ClosedWhilePending, ClosedWhileIncoming,
     ClosedWhileEnabled, ClosedUnexpectedly, Unconnected, Sane
<1>6. conn' = cn /\ conn' = [conn EXCEPT ![c] = "none"] /\ Listed(order', conn')
  <2>1. Listed(order, conn)'
    BY Zenon, <1>5, ListedForget DEF BooksInv, Functional
  <2> QED BY Zenon, <1>5, <2>1 DEF Forget, Without
<1>7. /\ cn[c] = "none" /\ \A d \in Conns \ {c} : cn[d] = conn[d]
      /\ LastOne(c) <=> \A d \in Conns : cn[d] = "none"
  BY Zenon, WithoutFacts
<1> HIDE DEF cn
<1>8. ASSUME peer' \in PeerRecord, delays' \in SUBSET (1..MaxDelays), incoming' \in SUBSET EntryRecord,
             apiSink' \in Conns \cup {"closed"}, failed' \subseteq Excepted,
             Standing(peer'.state, cn), Told(numPeers', cn), Entries(incoming', peer', nextIncomingIndex)
      PROVE  BooksInv'
  BY Zenon, <1>1, <1>2, <1>4, <1>6, <1>8, ReadKeepsBooks
<1>9. Known(c) = {}
  BY Zenon, <1>2 DEF Known, Unless
<1>10. conn[c] # "Open" => Told(numPeers, cn)
  BY Zenon, <1>4, <1>7 DEF Told
<1>11. CASE peer.state \in {"Disabled", "DisabledPendingEnable"}
  <2>1. \A d \in Conns : conn[d] \notin Active \cup {"OpenDesiredByRemote"}
    BY Zenon, <1>11 DEF BooksInv, Standing
  <2>2. /\ incoming' = incoming /\ UNCHANGED apiVars /\ failed' = failed
        /\ delays' \in SUBSET (1..MaxDelays) /\ peer' \in PeerRecord
        /\ LastOne(c) => peer'.state \in {"absent", "Backoff"}
        /\ ~LastOne(c) => peer' = peer
    <3>1. CASE ClosedWhileDisabled(c)
      BY Zenon, <1>4, <1>9, <3>1, LeaveTypes DEF ClosedWhileDisabled, DebugAsserts
    <3>2. CASE ClosedWhilePending(c)
      <4>1. /\ incoming' = incoming /\ UNCHANGED apiVars /\ failed' = failed /\ delays' = delays
            /\ LastOne(c) => peer' = [peer EXCEPT !.state = "Backoff"]
            /\ ~LastOne(c) => peer' = peer
        BY Zenon, <1>9, <3>2 DEF ClosedWhilePending, DebugAsserts
      <4>2. LastOne(c) => peer' \in PeerRecord /\ peer'.state = "Backoff"
        BY <1>4, <4>1, PeerFacts DEF PeerStates, PeerRecord
      <4> QED BY Zenon, <1>4, <4>1, <4>2
    <3> QED BY Zenon, <1>11, <3>1, <3>2 DEF ConnectionClosed, ClosedWhileIncoming, ClosedWhileEnabled,
           ClosedUnexpectedly
  <2>3. Standing(peer'.state, cn) /\ Sane'
    BY Zenon, <1>7, <1>11, <2>1, <2>2 DEF Standing, Unconnected, Active, Sane
  <2>4. Told(numPeers', cn)
    BY Zenon, <1>10, <2>1, <2>2 DEF apiVars, Active
  <2>5. Entries(incoming', peer', nextIncomingIndex)
    BY Zenon, <1>4, <1>11, <2>2, EntriesAlone
  <2> QED BY Zenon, <1>4, <1>8, <2>2, <2>3, <2>4, <2>5 DEF apiVars
<1>12. CASE peer.state = "Incoming"
  <2> DEFINE none == ~AnyIn(cn, {"OpenDesiredByRemote"})
  <2>1. AliveEntries # {}
    BY <1>12 DEF BooksInv, Entries, AliveEntries
  <2>2. ClosedWhileIncoming(c)
    BY Zenon, <1>12 DEF ConnectionClosed, ClosedWhileDisabled, ClosedWhilePending, ClosedWhileEnabled,
       ClosedUnexpectedly
  <2>3. AnyIn(conn, {"OpenDesiredByRemote"})
    BY Zenon, <1>12, PeerFacts
  <2>4. /\ IF none THEN KillAlive ELSE incoming' = incoming
        /\ \/ LastOne(c) /\ Leave
           \/ /\ ~LastOne(c) /\ delays' = delays
              /\ peer' = IF none THEN Disabled(peer.backoff) ELSE peer
        /\ UNCHANGED apiVars
    BY Zenon, <2>1, <2>2 DEF ClosedWhileIncoming, cn
  <2>5. failed' = failed
    <3>1. \A label : /\ Unless(AnyIn(conn, {"OpenDesiredByRemote"}), label) = {}
                     /\ Unless(~none \/ AliveEntries # {}, label) = {}
      BY Zenon, <2>1, <2>3 DEF Unless
    <3> QED BY Zenon, <1>9, <2>2, <3>1 DEF ClosedWhileIncoming, DebugAsserts, cn
  <2>6. LastOne(c) => none
    BY Zenon, <1>7 DEF AnyIn, In
  <2>7. /\ peer' \in PeerRecord /\ delays' \in SUBSET (1..MaxDelays)
        /\ LastOne(c) => peer'.state \in {"absent", "Backoff"}
        /\ ~LastOne(c) /\ none => peer'.state = "Disabled"
        /\ ~LastOne(c) /\ ~none => peer' = peer
    BY Zenon, <1>4, <2>4, LeaveTypes, PeerRecords, PeerFacts
  <2>8. /\ incoming' \in SUBSET EntryRecord
        /\ none => \A p : p.state # "Incoming" => Entries(incoming', p, nextIncomingIndex)
        /\ ~none => incoming' = incoming
    BY Zenon, <1>4, <1>12, <2>4, EntriesKilled
  <2>9. Entries(incoming', peer', nextIncomingIndex)
    BY Zenon, <1>4, <2>6, <2>7, <2>8
  <2>10. none <=> \A d \in Conns : cn[d] # "OpenDesiredByRemote"
    BY Zenon DEF AnyIn, In
  <2>11. \A d \in Conns : conn[d] \notin Active
    BY Zenon, <1>12 DEF BooksInv, Standing
  <2> HIDE DEF none
  <2>12. Standing(peer'.state, cn) /\ Sane'
    BY Zenon, <1>7, <1>12, <2>6, <2>7, <2>10, <2>11 DEF Standing, Unconnected, Active, Sane
  <2>13. Told(numPeers', cn)
    BY Zenon, <1>10, <2>4, <2>11 DEF apiVars, Active
  <2> QED BY Zenon, <1>4, <1>8, <2>4, <2>5, <2>7, <2>8, <2>9, <2>12, <2>13 DEF apiVars
<1>13. CASE peer.state = "Enabled"
  <2>1. ClosedWhileEnabled(c)
    BY Zenon, <1>13 DEF ConnectionClosed, ClosedWhileDisabled, ClosedWhilePending, ClosedWhileIncoming,
       ClosedUnexpectedly
  <2>2. AnyIn(conn, Active) /\ \A d \in Conns : conn[d] # "OpenDesiredByRemote"
    BY Zenon, <1>13, PeerFacts DEF AnyIn, In
  <2>3. failed' = failed /\ incoming' = incoming
    <3>1. \A label : Unless(AnyIn(conn, Active), label) = {}
      BY Zenon, <2>2 DEF Unless
    <3> QED BY Zenon, <1>9, <2>1, <3>1 DEF ClosedWhileEnabled, DebugAsserts
  <2>4. Told(numPeers', cn) /\ apiSink' \in Conns \cup {"closed"}
    <3>1. CASE conn[c] = "Open"
      <4>1. ReplaceSink(c, cn)
        BY Zenon, <2>1, <3>1 DEF ClosedWhileEnabled, cn
      <4> QED BY Zenon, <1>7, <3>1, <4>1, SinkReplaced
    <3>2. CASE conn[c] # "Open"
      BY Zenon, <1>4, <1>10, <2>1, <3>2 DEF ClosedWhileEnabled, apiVars
    <3> QED BY Zenon, <3>1, <3>2
  <2>5. \/ LastOne(c) /\ StartDelay("Backoff")
        \/ ~LastOne(c) /\ ~AnyIn(cn, Active) /\ peer' = Disabled(FALSE) /\ delays' = delays
        \/ AnyIn(cn, Active) /\ UNCHANGED <<peer, delays>>
    BY Zenon, <2>1 DEF ClosedWhileEnabled, cn
  <2>6. AnyIn(cn, Active) <=> \E d \in Conns : cn[d] \in Active
    BY Zenon DEF AnyIn, In
  <2>7. /\ peer' \in PeerRecord /\ delays' \in SUBSET (1..MaxDelays)
        /\ \/ LastOne(c) /\ peer'.state = "Backoff"
           \/ ~LastOne(c) /\ ~AnyIn(cn, Active) /\ peer'.state = "Disabled"
           \/ AnyIn(cn, Active) /\ peer'.state = "Enabled"
    BY Zenon, <1>4, <1>13, <2>5, StartDelayTypes, PeerRecords DEF PeerStates
  <2>8. Standing(peer'.state, cn) /\ Sane'
    BY Zenon, <1>7, <2>2, <2>6, <2>7 DEF Standing, Unconnected, Active, Sane
  <2>9. Entries(incoming', peer', nextIncomingIndex)
    BY Zenon, <1>4, <1>13, <2>3, <2>7, EntriesAlone
  <2> QED BY Zenon, <1>4, <1>8, <2>3, <2>4, <2>7, <2>8, <2>9
<1> QED BY Zenon, <1>3, <1>11, <1>12, <1>13, PeerFacts DEF PeerStates, Unconnected

-----------------------------------------------------------------------------
(* The reports of the handlers. *)

(* A single connection is told something. *)
LEMMA TellOne ==
  ASSUME BooksInv, NEW c \in Conns, NEW msg, Tell({c}, msg), UNCHANGED handlerVars
  PROVE  toHandler' = [toHandler EXCEPT ![c] = Sent(toHandler[c], handler[c], msg)]
<1>1. toHandler \in [Conns -> Seq(HandlerIn)] /\ handler' = handler
  BY Zenon DEF BooksInv, Functional, handlerVars
<1> QED BY Zenon, <1>1 DEF Tell, Sent

(* on_connection_handler_event for OpenDesiredByRemote. *)
LEMMA DesiredKeepsBooks ==
  ASSUME BooksInv, Sane, NEW c \in Conns, OpenDesiredByRemote(c)
  PROVE  BooksInv' /\ Sane'
<1>1. FromHandler(c, "OpenDesiredByRemote") /\ UNCHANGED <<numPeers, apiSink, delays>>
  BY Zenon DEF OpenDesiredByRemote, apiVars
<1>2. PICK r \in ConnStates : /\ Reads(conn[c], "OpenDesiredByRemote", r)
                              /\ InStep(r, toHandler[c], handler[c], Tail(fromHandler[c]))
  BY Zenon, <1>1, ReadExpected
<1>3. UNCHANGED handlerVars /\ toHandler = [toHandler EXCEPT ![c] = toHandler[c]]
  BY Zenon, <1>1, ReadExpected
<1>4. \/ conn[c] = "Closed" /\ r = "OpenDesiredByRemote"
      \/ conn[c] \in {"Opening", "OpeningThenClosing", "Closing"} /\ r = conn[c]
  BY Zenon, <1>2 DEF Reads
<1>5. /\ delays' \in SUBSET (1..MaxDelays) /\ failed \subseteq Excepted /\ peer \in PeerRecord
      /\ incoming \in SUBSET EntryRecord /\ apiSink' \in Conns \cup {"closed"}
      /\ nextIncomingIndex \in 1..MaxIncoming + 1 /\ Standing(peer.state, conn)
      /\ Entries(incoming, peer, nextIncomingIndex) /\ Told(numPeers, conn) /\ Listed(order, conn)
      /\ conn \in [Conns -> ConnStates]
  BY Zenon, <1>1 DEF BooksInv, RestTyped, Functional
<1>6. ASSUME NEW s, s \notin {"none", "Open"}, conn[c] = "Closed", conn' = [conn EXCEPT ![c] = s]
      PROVE  /\ conn'[c] = s /\ \A d \in Conns \ {c} : conn'[d] = conn[d]
             /\ Listed(order, conn') /\ Told(numPeers', conn')
  <2>1. conn'[c] = s /\ \A d \in Conns \ {c} : conn'[d] = conn[d]
    BY Zenon, <1>5, <1>6
  <2>2. Listed(order, conn')
    <3>1. \A d \in Conns : conn[d] # "none" <=> conn'[d] # "none"
      BY Zenon, <1>6, <2>1
    <3> QED BY Zenon, <1>5, <3>1, ListedKept
  <2>3. (\E d \in Conns : conn[d] = "Open") <=> (\E d \in Conns : conn'[d] = "Open")
    BY Zenon, <1>6, <2>1
  <2> QED BY Zenon, <1>1, <1>5, <2>1, <2>2, <2>3 DEF Told
<1>7. CASE DesiredWhileDisabled(c)
  <2>1. /\ peer.state = "Disabled" /\ conn[c] = "Closed" /\ nextIncomingIndex <= MaxIncoming
        /\ conn' = [conn EXCEPT ![c] = "OpenDesiredByRemote"]
        /\ nextIncomingIndex' = nextIncomingIndex + 1
        /\ incoming' = incoming \cup {[id |-> nextIncomingIndex, alive |-> TRUE]}
        /\ peer' = [peer EXCEPT !.state = "Incoming", !.index = nextIncomingIndex]
        /\ UNCHANGED <<order, toHandler, failed>>
    BY Zenon, <1>7 DEF DesiredWhileDisabled
  <2>2. /\ conn'[c] = "OpenDesiredByRemote" /\ \A d \in Conns \ {c} : conn'[d] = conn[d]
        /\ Listed(order', conn') /\ Told(numPeers', conn')
    BY Zenon, <1>6, <2>1
  <2>3. nextIncomingIndex \in 1..MaxIncoming /\ nextIncomingIndex' \in 1..MaxIncoming + 1
    BY <1>5, <2>1, BoundsNat
  <2>4. peer' \in PeerRecord /\ peer'.state = "Incoming" /\ peer'.index = nextIncomingIndex
    <3>1. nextIncomingIndex \in 0..MaxIncoming /\ "Incoming" \in PeerStates
      BY <2>3, BoundsNat DEF PeerStates
    <3> QED BY Zenon, <1>5, <2>1, <3>1 DEF PeerRecord
  <2>5. incoming' \in SUBSET EntryRecord
    <3>1. [id |-> nextIncomingIndex, alive |-> TRUE] \in EntryRecord
      BY Zenon, <2>3 DEF EntryRecord
    <3> QED BY Zenon, <1>5, <2>1, <3>1
  <2>6. Standing(peer'.state, conn') /\ Sane'
    BY Zenon, <1>5, <2>1, <2>2, <2>4 DEF Standing, Unconnected, Active, Sane
  <2>7. Entries(incoming', peer', nextIncomingIndex')
    <3> DEFINE new == [id |-> nextIncomingIndex, alive |-> TRUE]
    <3>1. new.id = nextIncomingIndex /\ new.alive
      BY Zenon
    <3>2. /\ \A e, f \in incoming : e.id = f.id => e = f
          /\ \A e \in incoming : e.id < nextIncomingIndex /\ ~e.alive
      BY Zenon, <1>5, <2>1 DEF Entries
    <3>3. incoming' = incoming \cup {new} /\ [id |-> peer'.index, alive |-> TRUE] = new
      BY Zenon, <2>1, <2>4
    <3> HIDE DEF new
    <3>4. \A e \in incoming : e.id \in Nat /\ e.id # new.id
      <4>1. \A e \in incoming : e.id \in Nat
        BY <1>5, BoundsNat DEF EntryRecord
      <4> QED BY <2>3, <3>1, <3>2, <4>1, BoundsNat
    <3>5. \A e, f \in incoming' : e.id = f.id => e = f
      BY Zenon, <3>2, <3>3, <3>4
    <3>6. \A e \in incoming' : e.id < nextIncomingIndex'
      BY <2>1, <2>3, <3>1, <3>2, <3>3, <3>4, BoundsNat
    <3> QED BY Zenon, <2>4, <3>1, <3>2, <3>3, <3>5, <3>6 DEF Entries
  <2>8. r = "OpenDesiredByRemote" /\ toHandler' = [toHandler EXCEPT ![c] = toHandler[c]]
        /\ failed' \subseteq Excepted
    BY Zenon, <1>3, <1>4, <1>5, <2>1
  <2> QED BY Zenon, <1>1, <1>2, <1>5, <2>1, <2>2, <2>3, <2>4, <2>5, <2>6, <2>7, <2>8, ReadKeepsBooks
<1>8. CASE DesiredWhileIncoming(c)
  <2>1. /\ peer.state = "Incoming" /\ conn[c] = "Closed"
        /\ conn' = [conn EXCEPT ![c] = "OpenDesiredByRemote"]
        /\ UNCHANGED <<peer, order, toHandler, incoming, nextIncomingIndex>>
        /\ DebugAsserts(Unless(AnyIn(conn, {"OpenDesiredByRemote"}), "incoming but not desired"))
    BY Zenon, <1>8 DEF DesiredWhileIncoming
  <2>2. failed' \subseteq Excepted
    BY Zenon, <1>5, <2>1, PeerFacts DEF DebugAsserts, Unless
  <2>3. /\ conn'[c] = "OpenDesiredByRemote" /\ \A d \in Conns \ {c} : conn'[d] = conn[d]
        /\ Listed(order', conn') /\ Told(numPeers', conn')
    BY Zenon, <1>6, <2>1
  <2>4. Standing(peer'.state, conn') /\ Sane'
    BY Zenon, <1>5, <2>1, <2>3 DEF Standing, Unconnected, Active, Sane
  <2>5. r = "OpenDesiredByRemote" /\ toHandler' = [toHandler EXCEPT ![c] = toHandler[c]]
        /\ Entries(incoming', peer', nextIncomingIndex')
    BY Zenon, <1>3, <1>4, <1>5, <2>1
  <2>6. /\ peer' \in PeerRecord /\ incoming' \in SUBSET EntryRecord
        /\ nextIncomingIndex' \in 1..MaxIncoming + 1
    BY Zenon, <1>5, <2>1
  <2> QED BY Zenon, <1>1, <1>2, <1>5, <2>1, <2>2, <2>3, <2>4, <2>5, <2>6, ReadKeepsBooks
<1>9. CASE DesiredWhileWanted(c)
  <2>1. /\ peer.state \in {"Enabled", "DisabledPendingEnable"} /\ conn[c] = "Closed"
        /\ conn' = [conn EXCEPT ![c] = "Opening"] /\ Tell({c}, "Open") /\ peer' = Enabled
        /\ UNCHANGED <<order, incoming, nextIncomingIndex>>
        /\ DebugAsserts(Unless(peer.state = "Enabled" => AnyIn(conn, Active), "enabled but inactive"))
    BY Zenon, <1>9 DEF DesiredWhileWanted
  <2>2. failed' \subseteq Excepted
    BY Zenon, <1>5, <2>1, PeerFacts DEF DebugAsserts, Unless
  <2>3. /\ conn'[c] = "Opening" /\ \A d \in Conns \ {c} : conn'[d] = conn[d]
        /\ Listed(order', conn') /\ Told(numPeers', conn')
    BY Zenon, <1>6, <2>1
  <2>4. peer' \in PeerRecord /\ peer'.state = "Enabled"
    BY Zenon, <2>1, PeerRecords
  <2>5. Standing(peer'.state, conn') /\ Sane'
    BY Zenon, <1>5, <2>1, <2>3, <2>4 DEF Standing, Unconnected, Active, Sane
  <2>6. /\ toHandler' = [toHandler EXCEPT ![c] = Sent(toHandler[c], handler[c], "Open")]
        /\ InStep("Opening", Sent(toHandler[c], handler[c], "Open"), handler[c], Tail(fromHandler[c]))
    BY Zenon, <1>2, <1>3, <1>4, <2>1, TellOne, InStepTellOpen
  <2>7. Entries(incoming', peer', nextIncomingIndex')
    <3>1. Entries(incoming, peer', nextIncomingIndex)
      BY Zenon, <1>5, <2>1, <2>4, EntriesAlone
    <3> QED BY Zenon, <2>1, <3>1
  <2>8. /\ "Opening" \in ConnStates /\ incoming' \in SUBSET EntryRecord
        /\ nextIncomingIndex' \in 1..MaxIncoming + 1
    BY Zenon, <1>5, <2>1 DEF ConnStates
  <2> QED BY Zenon, <1>1, <1>5, <2>1, <2>2, <2>3, <2>4, <2>5, <2>6, <2>7, <2>8, ReadKeepsBooks
<1>10. CASE DesiredTooLate(c)
  <2>1. /\ UNCHANGED <<peer, conn, order, toHandler, incoming, nextIncomingIndex>>
        /\ conn[c] \notin {"Closed", "none"}
    BY Zenon, <1>10 DEF DesiredTooLate, peerVars
  <2>2. conn[c] \in {"Opening", "OpeningThenClosing", "Closing"} /\ r = conn[c]
    BY Zenon, <1>4, <2>1
  <2>3. conn[c] = "Opening" => peer.state = "Enabled"
    BY Zenon, <1>5 DEF Standing, Active
  <2>4. failed' \subseteq Excepted
    <3>1. CASE peer.state = "Enabled"
      BY Zenon, <1>5, <1>10, <3>1 DEF DesiredTooLate, DebugAsserts, Unless, Excepted
    <3>2. CASE peer.state # "Enabled"
      BY Zenon, <1>5, <1>10, <2>2, <2>3, <3>2 DEF DesiredTooLate, DebugAsserts, Unless
    <3> QED BY Zenon, <3>1, <3>2
  <2>5. conn' = [conn EXCEPT ![c] = r] /\ toHandler' = [toHandler EXCEPT ![c] = toHandler[c]]
    BY Zenon, <1>3, <1>5, <2>1, <2>2
  <2>6. /\ peer' \in PeerRecord /\ incoming' \in SUBSET EntryRecord
        /\ nextIncomingIndex' \in 1..MaxIncoming + 1
        /\ Standing(peer'.state, conn') /\ Listed(order', conn') /\ Told(numPeers', conn')
        /\ Entries(incoming', peer', nextIncomingIndex')
    BY Zenon, <1>1, <1>5, <2>1
  <2>7. BooksInv'
    BY Zenon, <1>1, <1>2, <1>5, <2>4, <2>5, <2>6, ReadKeepsBooks
  <2> QED BY Zenon, <2>1, <2>7 DEF Sane
<1> QED BY Zenon, <1>4, <1>7, <1>8, <1>9, <1>10 DEF OpenDesiredByRemote, DesiredUnexpectedly

(* Only another connection that the remote asks to open makes a report that *)
(* it wants this one closed a surprise.                                     *)
LEMMA CloseDesiredKeepsBooks ==
  ASSUME BooksInv, Sane, NEW c \in Conns, CloseDesired(c)
  PROVE  (Sane' => BooksInv') /\ (Sane' \/ \E d \in Conns : d # c)
<1>1. FromHandler(c, "CloseDesired") /\ UNCHANGED <<delays, incoming>>
      /\ nextIncomingIndex' = nextIncomingIndex
  BY Zenon DEF CloseDesired, FromHandler
<1>2. PICK r \in ConnStates : /\ Reads(conn[c], "CloseDesired", r)
                              /\ InStep(r, toHandler[c], handler[c], Tail(fromHandler[c]))
  BY Zenon, <1>1, ReadExpected
<1>3. UNCHANGED handlerVars /\ toHandler = [toHandler EXCEPT ![c] = toHandler[c]]
  BY Zenon, <1>1, ReadExpected
<1>4. conn[c] \in {"Open", "Closing"} /\ r = conn[c]
  BY Zenon, <1>2 DEF Reads
<1>5. /\ delays' \in SUBSET (1..MaxDelays) /\ failed \subseteq Excepted /\ peer \in PeerRecord
      /\ incoming' \in SUBSET EntryRecord /\ apiSink \in Conns \cup {"closed"}
      /\ nextIncomingIndex' \in 1..MaxIncoming + 1 /\ Standing(peer.state, conn)
      /\ Entries(incoming, peer, nextIncomingIndex) /\ Told(numPeers, conn) /\ Listed(order, conn)
      /\ conn \in [Conns -> ConnStates]
  BY Zenon, <1>1 DEF BooksInv, RestTyped, Functional
<1>6. peer.state \notin Unconnected /\ (conn[c] = "Open" => peer.state = "Enabled")
  BY Zenon, <1>4, <1>5 DEF Standing, Active
<1>7. CASE conn[c] = "Open"
  <2> DEFINE cn == [conn EXCEPT ![c] = "Closing"]
  <2>1. peer.state = "Enabled"
    BY Zenon, <1>6, <1>7
  <2>2. /\ order' = order /\ conn' = cn /\ ReplaceSink(c, cn) /\ Tell({c}, "Close")
        /\ IF AnyIn(cn, Active) THEN UNCHANGED <<peer, toController>>
                                ELSE Dropped /\ peer' = Disabled(FALSE)
        /\ DebugAsserts(Unless(conn[c] = "Open", "close desired but not open"))
    BY Zenon, <1>7, <2>1 DEF CloseDesired
  <2>3. failed' \subseteq Excepted
    BY Zenon, <1>5, <1>7, <2>2 DEF DebugAsserts, Unless
  <2>4. cn[c] = "Closing" /\ \A d \in Conns \ {c} : cn[d] = conn[d]
    BY Zenon, <1>5
  <2> HIDE DEF cn
  <2>5. Told(numPeers', conn') /\ apiSink' \in Conns \cup {"closed"}
    BY Zenon, <1>7, <2>2, <2>4, SinkReplaced
  <2>6. Listed(order', conn')
    <3>1. \A d \in Conns : conn[d] # "none" <=> cn[d] # "none"
      BY Zenon, <1>7, <2>4
    <3> QED BY Zenon, <1>5, <2>2, <3>1, ListedKept
  <2>7. AnyIn(cn, Active) <=> \E d \in Conns : cn[d] \in Active
    BY Zenon DEF AnyIn, In
  <2>8. /\ peer' \in PeerRecord
        /\ AnyIn(cn, Active) => peer'.state = "Enabled"
        /\ ~AnyIn(cn, Active) => peer'.state = "Disabled"
    BY Zenon, <1>5, <2>1, <2>2, PeerRecords
  <2>9. Standing(peer'.state, conn') /\ Sane'
    BY Zenon, <1>5, <2>1, <2>2, <2>4, <2>7, <2>8 DEF Standing, Unconnected, Active, Sane
  <2>10. /\ toHandler' = [toHandler EXCEPT ![c] = Sent(toHandler[c], handler[c], "Close")]
         /\ InStep("Closing", Sent(toHandler[c], handler[c], "Close"), handler[c], Tail(fromHandler[c]))
    <3>1. Closes("Open") = "Closing"
      BY Zenon DEF Closes
    <3>2. InStep("Open", toHandler[c], handler[c], Tail(fromHandler[c]))
      BY Zenon, <1>2, <1>4, <1>7
    <3>3. InStep("Closing", Sent(toHandler[c], handler[c], "Close"), handler[c], Tail(fromHandler[c]))
      BY Zenon, <3>1, <3>2, InStepTellClose
    <3> QED BY Zenon, <1>3, <2>2, <3>3, TellOne
  <2>11. Entries(incoming', peer', nextIncomingIndex')
    <3>1. Entries(incoming, peer', nextIncomingIndex)
      BY Zenon, <1>5, <2>1, <2>8, EntriesAlone
    <3> QED BY Zenon, <1>1, <3>1
  <2>12. "Closing" \in ConnStates /\ conn' = [conn EXCEPT ![c] = "Closing"]
    BY Zenon, <2>2 DEF ConnStates, cn
  <2>13. BooksInv'
    BY Zenon, <1>1, <1>5, <2>3, <2>5, <2>6, <2>8, <2>9, <2>10, <2>11, <2>12, ReadKeepsBooks
  <2> QED BY Zenon, <2>9, <2>13
<1>8. CASE conn[c] = "Closing"
  <2>1. CASE peer.state \in {"Enabled", "Disabled", "DisabledPendingEnable"}
    <3>1. UNCHANGED <<peer, conn, order, numPeers, apiSink, toHandler, failed>>
      BY Zenon, <1>8, <2>1 DEF CloseDesired, peerVars, apiVars
    <3>2. conn' = [conn EXCEPT ![c] = r] /\ toHandler' = [toHandler EXCEPT ![c] = toHandler[c]]
      BY Zenon, <1>3, <1>4, <1>5, <3>1
    <3>3. /\ peer' \in PeerRecord /\ apiSink' \in Conns \cup {"closed"} /\ failed' \subseteq Excepted
          /\ Standing(peer'.state, conn') /\ Listed(order', conn') /\ Told(numPeers', conn')
          /\ Entries(incoming', peer', nextIncomingIndex')
      BY Zenon, <1>1, <1>5, <3>1
    <3>4. BooksInv'
      BY Zenon, <1>1, <1>2, <1>5, <3>2, <3>3, ReadKeepsBooks
    <3> QED BY Zenon, <3>1, <3>4 DEF Sane
  <2>2. CASE peer.state = "Incoming"
    <3>1. peer' = InState("Poisoned")
      BY Zenon, <2>2 DEF CloseDesired, Poison
    <3>2. ~Sane'
      BY Zenon, <3>1, PeerRecords DEF PeerStates, Sane
    <3>3. PICK d \in Conns : conn[d] = "OpenDesiredByRemote"
      BY Zenon, <1>5, <2>2 DEF Standing
    <3> QED BY Zenon, <1>8, <3>2, <3>3
  <2> QED BY Zenon, <1>6, <2>1, <2>2, PeerFacts DEF PeerStates, Unconnected
<1> QED BY Zenon, <1>4, <1>7, <1>8

(* on_connection_handler_event for CloseResult, OpenResultOk and OpenResultErr. *)
LEMMA ResultKeepsBooks ==
  ASSUME BooksInv, Sane, NEW c \in Conns, CloseResult(c) \/ OpenResultOk(c) \/ OpenResultErr(c)
  PROVE  BooksInv' /\ Sane'
<1>1. PICK ev \in {"CloseResult", "OpenResultOk", "OpenResultErr"} :
        /\ FromHandler(c, ev) /\ UNCHANGED <<order, delays, incoming, toHandler>>
        /\ ev = "CloseResult" <=> CloseResult(c)
        /\ ev = "OpenResultOk" <=> OpenResultOk(c)
        /\ ev = "OpenResultErr" <=> OpenResultErr(c)
  BY Zenon DEF CloseResult, OpenResultOk, OpenResultErr, FromHandler
<1>2. PICK r \in ConnStates : /\ Reads(conn[c], ev, r)
                              /\ InStep(r, toHandler[c], handler[c], Tail(fromHandler[c]))
  BY Zenon, <1>1, ReadExpected
<1>3. toHandler' = [toHandler EXCEPT ![c] = toHandler[c]] /\ nextIncomingIndex' = nextIncomingIndex
  BY Zenon, <1>1, ReadExpected
<1>4. /\ delays' \in SUBSET (1..MaxDelays) /\ failed \subseteq Excepted /\ peer \in PeerRecord
      /\ incoming' \in SUBSET EntryRecord /\ apiSink \in Conns \cup {"closed"}
      /\ nextIncomingIndex' \in 1..MaxIncoming + 1 /\ Standing(peer.state, conn)
      /\ Entries(incoming, peer, nextIncomingIndex) /\ Told(numPeers, conn) /\ Listed(order, conn)
      /\ conn \in [Conns -> ConnStates]
  BY Zenon, <1>1, <1>3 DEF BooksInv, RestTyped, Functional
<1>5. conn[c] \in {"Closing", "Opening", "OpeningThenClosing"} /\ r \in {"Closed", "Closing", "Open"}
  BY Zenon, <1>1, <1>2 DEF Reads
<1>6. conn[c] = "Opening" => peer.state = "Enabled"
  BY Zenon, <1>4 DEF Standing, Active
<1>7. ASSUME conn' = [conn EXCEPT ![c] = r], peer' \in PeerRecord, apiSink' \in Conns \cup {"closed"},
             failed' = failed, peer.state # "Enabled" => peer' = peer,
             peer.state = "Enabled" => peer'.state = IF AnyIn(conn', Active) THEN "Enabled" ELSE "Disabled",
             numPeers' = IF r = "Open" THEN 1 ELSE numPeers
      PROVE  BooksInv' /\ Sane'
  <2>1. conn'[c] = r /\ \A d \in Conns \ {c} : conn'[d] = conn[d]
    BY Zenon, <1>4, <1>7
  <2>2. Listed(order', conn')
    <3>1. \A d \in Conns : conn[d] # "none" <=> conn'[d] # "none"
      BY Zenon, <1>5, <2>1
    <3> QED BY Zenon, <1>1, <1>4, <3>1, ListedKept
  <2>3. Told(numPeers', conn')
    <3>1. CASE r = "Open"
      BY Zenon, <1>7, <2>1, <3>1 DEF Told
    <3>2. CASE r # "Open"
      <4>1. (\E d \in Conns : conn[d] = "Open") <=> (\E d \in Conns : conn'[d] = "Open")
        BY Zenon, <1>5, <2>1, <3>2
      <4> QED BY Zenon, <1>4, <1>7, <3>2, <4>1 DEF Told
    <3> QED BY Zenon, <3>1, <3>2
  <2>4. AnyIn(conn', Active) <=> \E d \in Conns : conn'[d] \in Active
    BY Zenon DEF AnyIn, In
  <2>5. r \in {"Open"} => conn[c] = "Opening"
    BY Zenon, <1>1, <1>2 DEF Reads
  <2>6. /\ conn'[c] \notin {"none", "OpenDesiredByRemote"} /\ conn[c] \notin {"none", "OpenDesiredByRemote"}
        /\ conn[c] \notin Active => conn'[c] \notin Active
    BY Zenon, <1>5, <2>1, <2>5 DEF Active
  <2>7. peer.state \notin Unconnected
    BY Zenon, <1>4, <2>6 DEF Standing
  <2>8. Standing(peer'.state, conn') /\ Sane'
    <3>1. CASE peer.state = "Enabled"
      BY Zenon, <1>4, <1>7, <2>1, <2>4, <2>6, <3>1 DEF Standing, Unconnected, Sane
    <3>2. CASE peer.state # "Enabled"
      BY Zenon, <1>4, <1>7, <2>1, <2>6, <2>7, <3>2 DEF Standing, Sane
    <3> QED BY Zenon, <3>1, <3>2
  <2>9. Entries(incoming', peer', nextIncomingIndex')
    <3>1. Entries(incoming, peer', nextIncomingIndex)
      BY Zenon, <1>4, <1>7, EntriesAlone
    <3> QED BY Zenon, <1>1, <1>3, <3>1
  <2>10. failed' \subseteq Excepted
    BY Zenon, <1>4, <1>7
  <2>11. BooksInv'
    BY Zenon, <1>1, <1>2, <1>3, <1>4, <1>7, <2>2, <2>3, <2>8, <2>9, <2>10, ReadKeepsBooks
  <2> QED BY Zenon, <2>8, <2>11
<1>8. \A label : Unless(peer.state = "Enabled" => AnyIn(conn, Active), label) = {}
  BY Zenon, PeerFacts DEF Unless
<1>9. CASE CloseResult(c)
  <2>1. conn[c] = "Closing" /\ r = "Closed"
    BY Zenon, <1>1, <1>2, <1>9 DEF Reads
  <2>2. /\ conn' = [conn EXCEPT ![c] = IF @ = "Closing" THEN "Closed" ELSE @]
        /\ UNCHANGED <<peer, apiVars>>
        /\ DebugAsserts(Unless(conn[c] = "Closing", "close result out of place"))
    BY Zenon, <1>9 DEF CloseResult
  <2>3. conn' = [conn EXCEPT ![c] = r] /\ failed' = failed
    BY Zenon, <2>1, <2>2 DEF DebugAsserts, Unless
  <2>4. AnyIn(conn', Active) <=> AnyIn(conn, Active)
    <3>1. conn'[c] = "Closed" /\ \A d \in Conns \ {c} : conn'[d] = conn[d]
      BY Zenon, <1>4, <2>1, <2>3
    <3> QED BY Zenon, <2>1, <3>1 DEF AnyIn, In, Active
  <2> QED BY Zenon, <1>4, <1>7, <2>1, <2>2, <2>3, <2>4, PeerFacts DEF apiVars
<1>10. CASE OpenResultOk(c)
  <2>1. \/ conn[c] = "Opening" /\ r = "Open"
        \/ conn[c] = "OpeningThenClosing" /\ r = "Closing"
    BY Zenon, <1>1, <1>2, <1>10 DEF Reads
  <2> DEFINE opens == peer.state = "Enabled" /\ conn[c] = "Opening"
  <2>2. /\ conn' = [conn EXCEPT ![c] = CASE opens -> "Open"
                                         [] @ = "OpeningThenClosing" -> "Closing"
                                         [] OTHER -> @]
        /\ IF opens /\ ~AnyIn(conn, {"Open"}) THEN ApiOpen(c) ELSE UNCHANGED apiVars
        /\ peer' = peer
    BY Zenon, <1>10 DEF OpenResultOk
  <2>3. opens <=> conn[c] = "Opening"
    BY Zenon, <1>6
  <2>4. failed' = failed
    <3>1. \A label : Unless(opens \/ conn[c] = "OpeningThenClosing", label) = {}
      BY Zenon, <2>1, <2>3 DEF Unless
    <3> QED BY Zenon, <1>8, <1>10, <3>1 DEF OpenResultOk, DebugAsserts
  <2> HIDE DEF opens
  <2>5. conn' = [conn EXCEPT ![c] = r]
    BY Zenon, <2>1, <2>2, <2>3
  <2>6. AnyIn(conn, {"Open"}) <=> \E d \in Conns : conn[d] = "Open"
    BY Zenon DEF AnyIn, In
  <2>7. /\ numPeers' = (IF r = "Open" THEN 1 ELSE numPeers)
        /\ apiSink' \in Conns \cup {"closed"}
    BY <1>4, <2>1, <2>2, <2>3, <2>6 DEF ApiOpen, apiVars, Told
  <2>8. AnyIn(conn', Active) <=> AnyIn(conn, Active)
    <3>1. conn'[c] = r /\ \A d \in Conns \ {c} : conn'[d] = conn[d]
      BY Zenon, <1>4, <2>5
    <3> QED BY Zenon, <2>1, <3>1 DEF AnyIn, In, Active
  <2> QED BY Zenon, <1>4, <1>7, <2>2, <2>4, <2>5, <2>7, <2>8, PeerFacts
<1>11. CASE OpenResultErr(c)
  <2>1. \/ conn[c] = "Opening" /\ r = "Closed"
        \/ conn[c] = "OpeningThenClosing" /\ r = "Closing"
    BY Zenon, <1>1, <1>2, <1>11 DEF Reads
  <2> DEFINE fails == peer.state = "Enabled" /\ conn[c] = "Opening"
  <2>2. /\ conn' = [conn EXCEPT ![c] = CASE fails -> "Closed"
                                         [] @ = "OpeningThenClosing" -> "Closing"
                                         [] OTHER -> @]
        /\ IF peer.state = "Enabled" /\ ~AnyIn(conn', Active)
           THEN Dropped /\ peer' = Disabled(TRUE) ELSE UNCHANGED <<toController, peer>>
        /\ UNCHANGED apiVars
    BY Zenon, <1>11 DEF OpenResultErr
  <2>3. fails <=> conn[c] = "Opening"
    BY Zenon, <1>6
  <2>4. failed' = failed
    <3>1. \A label : Unless(fails \/ conn[c] = "OpeningThenClosing", label) = {}
      BY Zenon, <2>1, <2>3 DEF Unless
    <3> QED BY Zenon, <1>8, <1>11, <3>1 DEF OpenResultErr, DebugAsserts
  <2> HIDE DEF fails
  <2>5. conn' = [conn EXCEPT ![c] = r]
    BY Zenon, <2>1, <2>2, <2>3
  <2>6. /\ peer' \in PeerRecord /\ (peer.state # "Enabled" => peer' = peer)
        /\ peer.state = "Enabled" => peer'.state = IF AnyIn(conn', Active) THEN "Enabled" ELSE "Disabled"
    BY Zenon, <1>4, <2>2, PeerRecords
  <2> QED BY Zenon, <1>4, <1>7, <2>1, <2>2, <2>4, <2>5, <2>6 DEF apiVars
<1> QED BY Zenon, <1>9, <1>10, <1>11

-----------------------------------------------------------------------------
(* Every step. *)

(* The controller and its channels are no concern of the invariant. *)
LEMMA BooksAlone ==
  ASSUME BooksInv, Sane, UNCHANGED <<handlerVars, toHandler, fromHandler, failed, notifVars>>
  PROVE  BooksInv' /\ Sane'
<1>1. UNCHANGED <<peer, conn, order, delays, incoming, nextIncomingIndex, validations, abandoned,
                  numPeers, apiSink>>
  BY Zenon DEF notifVars, peerVars, inVars, apiVars
<1>2. /\ delays' \in SUBSET (1..MaxDelays) /\ failed' \subseteq Excepted /\ peer' \in PeerRecord
      /\ validations' \in SUBSET (1..MaxIncoming) /\ abandoned' \in SUBSET (1..MaxIncoming)
  BY Zenon, <1>1 DEF BooksInv, RestTyped
<1>3. BooksInv'
  BY Zenon, <1>1, <1>2, PeerMoves
<1> QED BY Zenon, <1>1, <1>3 DEF Sane

(* A step keeps the invariant unless it poisons the entry, for which it takes two connections. *)
LEMMA NextBooks ==
  ASSUME BooksInv, Sane, [Next]_vars
  PROVE  /\ Sane' => BooksInv'
         /\ Sane' \/ \E c, d \in Conns : c # d
<1>1. CASE UNCHANGED vars \/ OnController(ControllerCommands) \/ ControllerReads
  <2>1. UNCHANGED <<handlerVars, toHandler, fromHandler, failed, notifVars>>
    BY Zenon, <1>1 DEF vars, OnController, ControllerReads
  <2> QED BY Zenon, <2>1, BooksAlone
<1>2. CASE NetworkStep
  <2>1. ASSUME NEW c \in Conns, HandlerActs(c) \/ HandlerWorks(c) PROVE BooksInv' /\ Sane'
    <3>1. BooksInv'
      BY Zenon, <2>1, HandlerKeepsBooks
    <3>2. peer' = peer
      BY Zenon, <2>1 DEF HandlerActs, HandlerWorks, notifVars, peerVars
    <3> QED BY Zenon, <3>1, <3>2 DEF Sane
  <2>2. ASSUME NEW c \in Conns, ConnectionEstablished(c) PROVE BooksInv' /\ Sane'
    <3>1. RequestInv'
      BY Zenon, NextRequestInv DEF BooksInv
    <3> QED BY Zenon, <2>2, <3>1, EstablishedKeepsBooks
  <2>3. ASSUME NEW c \in Conns, CloseDesired(c)
        PROVE  (Sane' => BooksInv') /\ (Sane' \/ \E d, e \in Conns : d # e)
    BY Zenon, <2>3, CloseDesiredKeepsBooks
  <2>4. ASSUME NEW c \in Conns, ConnectionClosed(c) \/ HandlerEvent(c), ~CloseDesired(c)
        PROVE  BooksInv' /\ Sane'
    BY Zenon, <2>4, ClosedKeepsBooks, DesiredKeepsBooks, ResultKeepsBooks DEF HandlerEvent
  <2>5. CASE PeersetMessage \/ ValidationStep
    BY Zenon, <2>5, MessageKeepsBooks, ValidationKeepsBooks
  <2>6. CASE UNCHANGED <<handlerVars, fromHandler>> /\ DisconnectPeer
    BY Zenon, <2>6, DisconnectKeepsBooks
  <2>7. CASE DialFailure \/ DeadlinePasses \/ \E t \in delays : DelayFires(t)
    BY Zenon, <2>7, TimeKeepsBooks
  <2> QED BY Zenon, <1>2, <2>1, <2>2, <2>3, <2>4, <2>5, <2>6, <2>7 DEF NetworkStep
<1> QED BY Zenon, <1>1, <1>2 DEF Next, OnNetwork

(* However commands, reports and losses cross, and with any number of       *)
(* connections: until the entry of the peer is left Poisoned                *)
(* (behaviour.rs), the API has been told of the peer exactly while it has   *)
(* an open connection, `incoming` holds exactly the request the peer is     *)
(* Incoming for, every handler agrees with `Notifications` once nothing is  *)
(* on its way, and no debug_assert! fails but the one that leaves out       *)
(* OpeningThenClosing.                                                      *)
THEOREM BooksStayInStep == Spec /\ []Sane => [](BooksInStep /\ HandlersAgree /\ AssertionsHold)
<1>1. BooksInv /\ Sane /\ Sane' /\ [Next]_vars => BooksInv'
  BY Zenon, NextBooks
<1> QED BY <1>1, InitBooksInv, BooksInvImplies, PTL DEF Spec

(* While there is at most one connection with the peer at a time, no order  *)
(* of events, commands and reports leaves its entry Poisoned                *)
(* (behaviour.rs), and all that is kept about the peer has its type.        *)
THEOREM OneConnectionNeverPoisons ==
  ASSUME \A c, d \in Conns : c = d
  PROVE  Spec => []NeverPoisoned
<1>1. Init => Sane
  BY Zenon, PeerRecords DEF Init, NotifInit, Sane
<1>2. BooksInv /\ Sane /\ [Next]_vars => BooksInv' /\ Sane'
  BY Zenon, NextBooks
<1>3. BooksInv /\ Sane => NeverPoisoned
  BY Zenon, BooksInvTypes DEF NeverPoisoned
<1> QED BY <1>1, <1>2, <1>3, InitBooksInv, PTL DEF Spec

(* With one connection at a time the books are in step and no assertion     *)
(* fails, whatever happens.                                                 *)
THEOREM OneConnectionInStep ==
  ASSUME \A c, d \in Conns : c = d
  PROVE  Spec => [](BooksInStep /\ HandlersAgree /\ AssertionsHold)
<1>1. Spec => []NeverPoisoned
  BY Zenon, OneConnectionNeverPoisons
<1>2. NeverPoisoned => Sane
  BY Zenon DEF NeverPoisoned
<1> QED BY <1>1, <1>2, BooksStayInStep, PTL
=============================================================================
