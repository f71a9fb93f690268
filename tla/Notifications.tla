--------------------------- MODULE Notifications ---------------------------
(***************************************************************************)
(* The `Notifications` behaviour                                           *)
(* (client/network/src/protocol/notifications/behaviour.rs): what it keeps *)
(* about one peer on one protocol, that is one entry of `peers`.  Entries  *)
(* share nothing but the counters and lists below, which every handler     *)
(* searches by peer and protocol.                                          *)
(*                                                                         *)
(* `fromController` is the channel of `Message`s, `toController` the       *)
(* events channel of the protocol controller.  Requests to the swarm and   *)
(* reports to the API leave through the queue `events`, which is emptied   *)
(* in order before the next input is looked at: they take effect at once.  *)
(***************************************************************************)
EXTENDS NotifsHandler, Integers, FiniteSets, FiniteSetsExt

CONSTANTS MaxDelays,         \* bound: delays that run at the same time
          MaxIncoming,       \* bound: values of next_incoming_index
          DelegateToPeerset, \* of the ProtocolHandle: every set but the first
          Verdicts           \* what a validation by the protocol may end in

ASSUME BoundsNat == MaxDelays \in Nat /\ MaxIncoming \in Nat
ASSUME VerdictsKnown == Verdicts \subseteq {"Accept", "Reject", "Canceled"}

VARIABLES peer,         \* the PeerState, its list of connections apart
          conn,         \* ConnectionState of every connection
          order,        \* the list of connections
          delays, incoming, nextIncomingIndex,
          validations,  \* pending_inbound_validations
          abandoned,    \* history: requests whose validation ended without a verdict
          numPeers,     \* num_peers of the ProtocolHandle
          apiSink,      \* connection whose sink the API was given last
          toController, fromController

peerVars  == <<peer, conn, order>>
inVars    == <<incoming, nextIncomingIndex, validations, abandoned>>
apiVars   == <<numPeers, apiSink>>
notifVars == <<peerVars, delays, inVars, apiVars>>

ConnStates == {"none", "Closed", "Closing", "Opening", "OpeningThenClosing",
               "OpenDesiredByRemote", "Open"}
NoConns    == [c \in Conns |-> "none"]

(* `backoff`: backoff_until or timer_deadline lies ahead; a deadline that is *)
(* over and none at all are the same to every handler.                      *)
Absent          == [state |-> "absent", backoff |-> FALSE, timer |-> 0,
                    index |-> 0, rejected |-> FALSE]
InState(s)      == [Absent EXCEPT !.state = s]
Timed(s, t)     == [InState(s) EXCEPT !.timer = t, !.backoff = TRUE]
Disabled(b)     == [InState("Disabled") EXCEPT !.backoff = b]
Enabled         == InState("Enabled")

PeerStates == {"absent", "Backoff", "PendingRequest", "Requested", "Disabled",
               "DisabledPendingEnable", "Enabled", "Incoming", "Poisoned"}

NotifTypeOK ==
  /\ HandlerTypeOK
  /\ peer \in [state : PeerStates, backoff : BOOLEAN,
               timer : 0..MaxDelays, index : 0..MaxIncoming, rejected : BOOLEAN]
  /\ conn \in [Conns -> ConnStates]
  /\ order \in Seq(Conns)
  /\ delays \in SUBSET (1..MaxDelays)
  /\ incoming \in SUBSET [id : 1..MaxIncoming, alive : BOOLEAN]
  /\ nextIncomingIndex \in 1..MaxIncoming + 1
  /\ validations \in SUBSET (1..MaxIncoming) /\ abandoned \in SUBSET (1..MaxIncoming)
  /\ numPeers \in Nat /\ apiSink \in Conns \cup {"closed"}

NotifInit ==
  /\ HandlerInit
  /\ peer = Absent /\ conn = NoConns /\ order = <<>>
  /\ delays = {} /\ incoming = {} /\ nextIncomingIndex = 1
  /\ validations = {} /\ abandoned = {} /\ numPeers = 0 /\ apiSink = "closed"
  /\ toController = <<>> /\ fromController = <<>>

-----------------------------------------------------------------------------
(* Vocabulary of the handlers. *)

In(cn, sts)     == {c \in Conns : cn[c] \in sts}
AnyIn(cn, sts)  == In(cn, sts) # {}
Active          == {"Opening", "Open"}

(* The first connection of the list in one of the states. *)
FirstIn(cn, sts) ==
  order[Min({k \in DOMAIN order : cn[order[k]] \in sts})]

Position(c) == CHOOSE k \in DOMAIN order : order[k] = c

(* A command to a connection that has ended gets lost. *)
Tell(cs, msg) ==
  toHandler' = [c \in Conns |-> IF c \in cs /\ handler'[c] # "gone"
                                THEN Append(toHandler[c], msg)
                                ELSE toHandler[c]]

Dropped == toController' = Append(toController, [type |-> "Dropped"])

Unless(cond, label) == IF cond THEN {} ELSE {label}
DebugAsserts(labels) == failed' = failed \cup labels

ApiOpen(c)   == numPeers' = numPeers + 1 /\ apiSink' = c
ApiClosed    == numPeers' = numPeers - 1 /\ apiSink' = "closed"

(* mem::replace left Poisoned behind and the handler returned early. *)
Poison == peer' = InState("Poisoned") /\ conn' = NoConns /\ order' = <<>>

(* A new delay is put into `delays`; its id is not in use by another one. *)
StartDelay(s) ==
  LET free == (1..MaxDelays) \ delays
  IN  /\ free # {}
      /\ delays' = delays \cup {Min(free)}
      /\ peer' = Timed(s, Min(free))

OpenFirstClosed ==
  LET c == FirstIn(conn, {"Closed"})
  IN  /\ conn' = [conn EXCEPT ![c] = "Opening"]
      /\ Tell({c}, "Open")
      /\ peer' = Enabled

(* Faulty: tells the API of a peer that was never open. *)
CloseActiveReports ==
  /\ conn' = [c \in Conns |-> CASE conn[c] = "Open" -> "Closing"
                                [] conn[c] = "Opening" -> "OpeningThenClosing"
                                [] OTHER -> conn[c]]
  /\ Tell(In(conn, Active), "Close")
  /\ ApiClosed

(* Enabled => Disabled: every open or opening connection is told to close,  *)
(* and the API hears of it at once.                                         *)
CloseActive ==
  /\ conn' = [c \in Conns |-> CASE conn[c] = "Open" -> "Closing"
                                [] conn[c] = "Opening" -> "OpeningThenClosing"
                                [] OTHER -> conn[c]]
  /\ Tell(In(conn, Active), "Close")
  /\ IF AnyIn(conn, {"Open"}) THEN ApiClosed ELSE UNCHANGED apiVars

(* Faulty: the handlers are not told. *)
DenyRemoteSilently ==
  /\ conn' = [c \in Conns |-> IF conn[c] = "OpenDesiredByRemote"
                              THEN "Closing" ELSE conn[c]]
  /\ toHandler' = toHandler
  /\ peer' = Disabled(peer.backoff)

(* Incoming => Disabled: the requests of the remote are denied. *)
DenyRemote ==
  /\ conn' = [c \in Conns |-> IF conn[c] = "OpenDesiredByRemote"
                              THEN "Closing" ELSE conn[c]]
  /\ Tell(In(conn, {"OpenDesiredByRemote"}), "Close")
  /\ peer' = Disabled(peer.backoff)

AliveEntries == {e \in incoming : e.alive}

(* Faulty: the request outlives the connection. *)
KillAliveNot == incoming' = incoming

(* The request of the peer is over; the answer to it is still to come. *)
KillAlive ==
  LET i == Min({e.id : e \in AliveEntries})
  IN  incoming' = (incoming \ {[id |-> i, alive |-> TRUE]})
                    \cup {[id |-> i, alive |-> FALSE]}

-----------------------------------------------------------------------------
(* Commands of the protocol controller. *)

FromPeerset(type) ==
  /\ fromController # <<>> /\ Head(fromController).type = type
  /\ fromController' = Tail(fromController)

(* Message::Connect.  Entering Requested dials the peer. *)
PeersetReportConnect ==
  /\ FromPeerset("Connect")
  /\ UNCHANGED <<order, inVars, apiVars, toController>>
  /\ \/ /\ \/ peer.state = "absent"
           \/ peer.state = "Backoff" /\ ~peer.backoff
        /\ peer' = InState("Requested")
        /\ UNCHANGED <<conn, delays, toHandler, failed>>
     \/ /\ peer.state = "Backoff" /\ peer.backoff
        /\ peer' = [peer EXCEPT !.state = "PendingRequest"]
        /\ UNCHANGED <<conn, delays, toHandler, failed>>
     \/ /\ peer.state = "Disabled" /\ peer.backoff
        /\ StartDelay("DisabledPendingEnable")
        /\ UNCHANGED <<conn, toHandler, failed>>
     \/ /\ peer.state = "Disabled" /\ ~peer.backoff
        /\ AnyIn(conn, {"Closed"})
        /\ OpenFirstClosed
        /\ DebugAsserts(Unless(~AnyIn(conn, {"Open"}), "open while disabled"))
        /\ delays' = delays
     \/ /\ peer.state = "Disabled" /\ ~peer.backoff
        /\ ~AnyIn(conn, {"Closed"})
        /\ StartDelay("DisabledPendingEnable")
        /\ DebugAsserts(Unless(~AnyIn(conn, {"Open"}), "open while disabled")
             \cup Unless(AnyIn(conn, {"OpeningThenClosing", "Closing"}),
                         "no connection closing"))
        /\ UNCHANGED <<conn, toHandler>>
     \/ /\ peer.state \in {"Incoming", "Enabled", "DisabledPendingEnable",
                           "Requested", "PendingRequest"}
        /\ UNCHANGED <<peer, conn, delays, toHandler, failed>>
     \/ /\ peer.state = "Poisoned"
        /\ DebugAsserts({"poisoned"})
        /\ UNCHANGED <<peer, conn, delays, toHandler>>

(* Message::Drop. *)
PeersetReportDisconnect ==
  /\ FromPeerset("Drop")
  /\ UNCHANGED <<order, inVars, delays, toController>>
  /\ \/ /\ peer.state \in {"absent", "Disabled", "Backoff"}
        /\ UNCHANGED <<peer, conn, toHandler, apiVars, failed>>
     \/ /\ peer.state = "DisabledPendingEnable"
        /\ peer' = Disabled(peer.backoff)
        /\ DebugAsserts(Unless(order # <<>>, "no connections"))
        /\ UNCHANGED <<conn, toHandler, apiVars>>
     \/ /\ peer.state = "Enabled"
        /\ CloseActive
        /\ peer' = Disabled(FALSE)
        /\ DebugAsserts(Unless(AnyIn(conn, Active), "enabled but inactive"))
     \/ /\ peer.state = "Requested"
        /\ peer' = Absent
        /\ UNCHANGED <<conn, toHandler, apiVars, failed>>
     \/ /\ peer.state = "PendingRequest"
        /\ peer' = [peer EXCEPT !.state = "Backoff"]
        /\ UNCHANGED <<conn, toHandler, apiVars, failed>>
     \/ /\ peer.state = "Incoming"
        /\ peer' = [peer EXCEPT !.rejected = TRUE]
        /\ UNCHANGED <<conn, toHandler, apiVars, failed>>
     \/ /\ peer.state = "Poisoned"
        /\ DebugAsserts({"poisoned"})
        /\ UNCHANGED <<peer, conn, toHandler, apiVars>>

(* NetworkService::disconnect_peer. *)
DisconnectPeer ==
  /\ UNCHANGED <<nextIncomingIndex, validations, abandoned, delays, fromController>>
  /\ \/ /\ peer.state = "DisabledPendingEnable"
        /\ Dropped
        /\ peer' = Disabled(peer.backoff)
        /\ UNCHANGED <<conn, order, toHandler, apiVars, incoming, failed>>
     \/ /\ peer.state = "Enabled"
        /\ Dropped
        /\ CloseActive
        /\ peer' = Disabled(FALSE)
        /\ DebugAsserts(Unless(~AnyIn(conn', Active), "active after close"))
        /\ UNCHANGED <<order, incoming>>
     \/ /\ peer.state = "Incoming" /\ AliveEntries # {}
        /\ KillAlive
        /\ DenyRemote
        /\ UNCHANGED <<order, apiVars, toController, failed>>
     \/ /\ peer.state = "Incoming" /\ AliveEntries = {}
        /\ Poison
        /\ UNCHANGED <<toHandler, apiVars, incoming, toController, failed>>

(* report_reject; `tell` if the controller is to hear of the rejection. *)
ReportReject(i, tell) ==
  /\ UNCHANGED <<delays, apiVars, nextIncomingIndex>>
  /\ LET mine == {e \in incoming : e.id = i}
     IN  /\ incoming' = incoming \ mine
         /\ \/ /\ \/ \A e \in mine : ~e.alive
                  \/ peer.state \in {"absent", "Disabled", "Backoff"}
               /\ UNCHANGED <<peerVars, toHandler, toController, failed>>
            \/ /\ \E e \in mine : e.alive
               /\ peer.state = "Incoming" /\ i = peer.index
               /\ DenyRemote
               /\ DebugAsserts(Unless(AnyIn(conn, {"OpenDesiredByRemote"}),
                                      "incoming but not desired"))
               /\ order' = order
               /\ IF tell THEN Dropped ELSE toController' = toController
            \/ /\ \E e \in mine : e.alive
               /\ peer.state \notin {"absent", "Disabled", "Backoff"}
               /\ ~(peer.state = "Incoming" /\ i = peer.index)
               /\ Poison
               /\ DebugAsserts(Unless(~(peer.state = "Incoming" /\ i > peer.index),
                                      "index from the future"))
               /\ UNCHANGED <<toHandler, toController>>

(* Faulty: any answer decides the request the peer has now. *)
ProtocolReportAcceptStale(i) ==
  /\ incoming' = {e \in incoming : e.id # i}
  /\ UNCHANGED <<delays, apiVars, nextIncomingIndex, order, toController, failed>>
  /\ conn' = [c \in Conns |-> IF conn[c] = "OpenDesiredByRemote"
                              THEN "Opening" ELSE conn[c]]
  /\ Tell(In(conn, {"OpenDesiredByRemote"}), "Open")
  /\ peer' = IF peer.state = "Incoming" THEN Enabled ELSE peer

(* protocol_report_accept: the peer is enabled unless the request is gone,  *)
(* in which case the controller hears that the peer has been dropped, or    *)
(* the controller has taken its word back in the meantime.                  *)
ProtocolReportAccept(i) ==
  LET mine == {e \in incoming : e.id = i}
  IN \/ /\ ~(/\ \E e \in mine : e.alive
             /\ peer.state = "Incoming" /\ i = peer.index /\ peer.rejected)
        /\ UNCHANGED <<delays, apiVars, nextIncomingIndex>>
        /\ incoming' = incoming \ mine
        /\ \/ /\ mine = {}
              /\ UNCHANGED <<peerVars, toHandler, toController, failed>>
           \/ /\ \E e \in mine : ~e.alive
              /\ IF peer.state \in {"DisabledPendingEnable", "Enabled"}
                 THEN toController' = toController ELSE Dropped
              /\ UNCHANGED <<peerVars, toHandler, failed>>
           \/ /\ \E e \in mine : e.alive
              /\ peer.state \in {"absent", "Disabled", "Backoff"}
              /\ UNCHANGED <<peerVars, toHandler, toController, failed>>
           \/ /\ \E e \in mine : e.alive
              /\ peer.state = "Incoming" /\ i = peer.index
              /\ conn' = [c \in Conns |-> IF conn[c] = "OpenDesiredByRemote"
                                          THEN "Opening" ELSE conn[c]]
              /\ Tell(In(conn, {"OpenDesiredByRemote"}), "Open")
              /\ peer' = Enabled
              /\ DebugAsserts(Unless(AnyIn(conn, {"OpenDesiredByRemote"}),
                                     "incoming but not desired"))
              /\ UNCHANGED <<order, toController>>
           \/ /\ \E e \in mine : e.alive
              /\ peer.state \notin {"absent", "Disabled", "Backoff"}
              /\ ~(peer.state = "Incoming" /\ i = peer.index)
              /\ Poison
              /\ DebugAsserts(Unless(peer.state = "Incoming" /\ i < peer.index,
                                     "accept in a wrong state"))
              /\ UNCHANGED <<toHandler, toController>>
     \/ /\ \E e \in mine : e.alive
        /\ peer.state = "Incoming" /\ i = peer.index /\ peer.rejected
        /\ ReportReject(i, FALSE)

(* Message::Accept: the protocol validates the request, unless that is      *)
(* delegated to the controller or nobody is there to do it.                 *)
PeersetReportPreaccept ==
  /\ FromPeerset("Accept")
  /\ LET i == Head(fromController).index
     IN  \/ /\ \A e \in incoming : e.id # i
            /\ UNCHANGED <<notifVars, toHandler, toController, failed>>
         \/ /\ \E e \in incoming : e.id = i
            /\ abandoned' = abandoned
            /\ \/ /\ DelegateToPeerset
                  /\ ProtocolReportAccept(i)
                  /\ validations' = validations
               \/ /\ ~DelegateToPeerset
                  /\ validations' = validations \cup {i}
                  /\ UNCHANGED <<peerVars, delays, incoming, nextIncomingIndex,
                                 apiVars, toHandler, toController, failed>>
               \/ /\ ~DelegateToPeerset /\ "Canceled" \in Verdicts
                  /\ ReportReject(i, TRUE)
                  /\ validations' = validations

(* Message::Reject. *)
PeersetReportReject ==
  /\ FromPeerset("Reject")
  /\ ReportReject(Head(fromController).index, FALSE)
  /\ UNCHANGED <<validations, abandoned>>

(* A validation has come to an end.  If its sender is dropped nothing else  *)
(* is done about the request.                                               *)
ValidationEnds(i, verdict) ==
  /\ i \in validations
  /\ validations' = validations \ {i}
  /\ abandoned' = IF verdict = "Canceled" THEN abandoned \cup {i} ELSE abandoned
  /\ fromController' = fromController
  /\ \/ verdict = "Accept" /\ ProtocolReportAccept(i)
     \/ verdict = "Reject" /\ ReportReject(i, TRUE)
     \/ /\ verdict = "Canceled"
        /\ UNCHANGED <<peerVars, delays, incoming, nextIncomingIndex, apiVars,
                       toHandler, toController, failed>>

-----------------------------------------------------------------------------
(* Events of the swarm. *)

(* ConnectionEstablished, with a new handler. *)
ConnectionEstablished(c) ==
  /\ handler[c] = "gone" /\ fromHandler[c] = <<>> /\ c # apiSink
  /\ handler' = [handler EXCEPT ![c] = "Closed"]
  /\ order' = Append(order, c)
  /\ \/ /\ peer.state \in {"Requested", "PendingRequest"}
        /\ conn' = [conn EXCEPT ![c] = "Opening"]
        /\ Tell({c}, "Open")
        /\ peer' = Enabled
     \/ /\ peer.state \notin {"Requested", "PendingRequest"}
        /\ conn' = [conn EXCEPT ![c] = "Closed"]
        /\ toHandler' = toHandler
        /\ peer' = IF peer.state \in {"absent", "Poisoned", "Backoff"}
                   THEN Disabled(peer.backoff) ELSE peer
  /\ UNCHANGED <<pending, outSub, requested, fromHandler, failed, delays,
                 inVars, apiVars, toController, fromController>>

(* The event at the head of the reports of connection c. *)
FromHandler(c, ev) ==
  /\ fromHandler[c] # <<>> /\ Head(fromHandler[c]) = ev
  /\ fromHandler' = [fromHandler EXCEPT ![c] = Tail(@)]
  /\ UNCHANGED <<handlerVars, fromController, validations, abandoned>>
  /\ ev = "OpenDesiredByRemote" \/ nextIncomingIndex' = nextIncomingIndex

(* No connection is left and the peer is not wanted: it stays backed off. *)
Leave == IF peer.backoff
         THEN StartDelay("Backoff")
         ELSE peer' = Absent /\ delays' = delays

(* Open connection c ends and cn is left: the API gets the first open       *)
(* connection that comes later in the list, if it is the first of all.      *)
ReplaceSink(c, cn) ==
  IF AnyIn(cn, {"Open"})
  THEN LET r == FirstIn(cn, {"Open"})
       IN  /\ apiSink' = IF Position(c) <= Position(r) THEN r ELSE apiSink
           /\ numPeers' = numPeers
  ELSE ApiClosed

(* What is left of the connections of the peer when c is gone. *)
Without(c)  == [conn EXCEPT ![c] = "none"]
LastOne(c)  == In(Without(c), ConnStates \ {"none"}) = {}
Forget(c)   ==
  /\ conn' = Without(c)
  /\ order' = IF conn[c] = "none" THEN order
              ELSE SubSeq(order, 1, Position(c) - 1)
                     \o SubSeq(order, Position(c) + 1, Len(order))
Known(c)    == Unless(conn[c] # "none", "unknown connection")

ClosedWhileDisabled(c) ==
  /\ peer.state = "Disabled"
  /\ Forget(c)
  /\ IF LastOne(c) THEN Leave ELSE UNCHANGED <<peer, delays>>
  /\ DebugAsserts(Known(c))
  /\ UNCHANGED <<incoming, apiVars, toController>>

(* With the last connection the peer is dropped and its delay runs on. *)
ClosedWhilePending(c) ==
  /\ peer.state = "DisabledPendingEnable"
  /\ Forget(c)
  /\ IF LastOne(c) THEN Dropped /\ peer' = [peer EXCEPT !.state = "Backoff"]
                   ELSE UNCHANGED <<toController, peer>>
  /\ DebugAsserts(Known(c))
  /\ UNCHANGED <<delays, incoming, apiVars>>

(* The drop is reported when the controller accepts the dead request. *)
ClosedWhileIncoming(c) ==
  LET noDesiredLeft == ~AnyIn(Without(c), {"OpenDesiredByRemote"})
  IN  /\ peer.state = "Incoming"
      /\ Forget(c)
      /\ IF noDesiredLeft /\ AliveEntries # {} THEN KillAlive
                                               ELSE incoming' = incoming
      /\ \/ LastOne(c) /\ Leave
         \/ /\ ~LastOne(c) /\ delays' = delays
            /\ peer' = IF noDesiredLeft THEN Disabled(peer.backoff) ELSE peer
      /\ DebugAsserts(Known(c)
           \cup Unless(AnyIn(conn, {"OpenDesiredByRemote"}),
                       "incoming but not desired")
           \cup Unless(~noDesiredLeft \/ AliveEntries # {}, "no alive entry"))
      /\ UNCHANGED <<apiVars, toController>>

ClosedWhileEnabled(c) ==
  /\ peer.state = "Enabled"
  /\ Forget(c)
  /\ IF conn[c] = "Open" THEN ReplaceSink(c, Without(c)) ELSE UNCHANGED apiVars
  /\ \/ LastOne(c) /\ Dropped /\ StartDelay("Backoff")
     \/ /\ ~LastOne(c) /\ ~AnyIn(Without(c), Active)
        /\ Dropped /\ peer' = Disabled(FALSE) /\ delays' = delays
     \/ /\ AnyIn(Without(c), Active)
        /\ UNCHANGED <<peer, delays, toController>>
  /\ DebugAsserts(Known(c) \cup Unless(AnyIn(conn, Active), "enabled but inactive"))
  /\ incoming' = incoming

ClosedUnexpectedly(c) ==
  /\ peer.state \in {"absent", "Requested", "PendingRequest", "Backoff", "Poisoned"}
  /\ DebugAsserts({"closed in a wrong state"})
  /\ IF peer.state = "absent" THEN UNCHANGED peerVars ELSE Poison
  /\ UNCHANGED <<delays, incoming, apiVars, toController>>

ConnectionClosed(c) ==
  /\ FromHandler(c, "Gone")
  /\ toHandler' = toHandler
  /\ \/ ClosedWhileDisabled(c) \/ ClosedWhilePending(c)
     \/ ClosedWhileIncoming(c) \/ ClosedWhileEnabled(c) \/ ClosedUnexpectedly(c)

(* DialFailure, of a dial of ours or of another sub-system. *)
DialFailure ==
  /\ peer.state \in {"Requested", "PendingRequest"}
  /\ Dropped
  /\ StartDelay("Backoff")
  /\ UNCHANGED <<conn, order, inVars, apiVars, handlerVars, toHandler,
                 fromHandler, fromController, failed>>

-----------------------------------------------------------------------------
(* Events of the connection handlers. *)

(* A first request goes to the controller as an incoming connection. *)
DesiredWhileDisabled(c) ==
  /\ peer.state = "Disabled" /\ conn[c] = "Closed"
  /\ nextIncomingIndex <= MaxIncoming
  /\ conn' = [conn EXCEPT ![c] = "OpenDesiredByRemote"]
  /\ nextIncomingIndex' = nextIncomingIndex + 1
  /\ toController' = Append(toController, [type |-> "Incoming",
                                           index |-> nextIncomingIndex])
  /\ incoming' = incoming \cup {[id |-> nextIncomingIndex, alive |-> TRUE]}
  /\ peer' = [peer EXCEPT !.state = "Incoming", !.index = nextIncomingIndex]
  /\ UNCHANGED <<order, toHandler, failed>>

DesiredWhileIncoming(c) ==
  /\ peer.state = "Incoming" /\ conn[c] = "Closed"
  /\ conn' = [conn EXCEPT ![c] = "OpenDesiredByRemote"]
  /\ DebugAsserts(Unless(AnyIn(conn, {"OpenDesiredByRemote"}),
                         "incoming but not desired"))
  /\ UNCHANGED <<peer, order, toHandler, toController, incoming,
                 nextIncomingIndex>>

(* A wanted peer is opened without asking. *)
DesiredWhileWanted(c) ==
  /\ peer.state \in {"Enabled", "DisabledPendingEnable"} /\ conn[c] = "Closed"
  /\ conn' = [conn EXCEPT ![c] = "Opening"]
  /\ Tell({c}, "Open")
  /\ peer' = Enabled
  /\ DebugAsserts(Unless(peer.state = "Enabled" => AnyIn(conn, Active),
                         "enabled but inactive"))
  /\ UNCHANGED <<order, toController, incoming, nextIncomingIndex>>

(* The handler has been told Open or Close since. *)
DesiredTooLate(c) ==
  /\ peer.state \in {"Disabled", "Incoming", "DisabledPendingEnable", "Enabled"}
  /\ conn[c] \notin {"Closed", "none"}
  /\ DebugAsserts(
       IF peer.state = "Enabled"
       THEN Unless(conn[c] \in {"OpenDesiredByRemote", "Closing", "Opening"},
                   "desired while enabled")
       ELSE Unless(conn[c] \in {"OpeningThenClosing", "Closing"},
                   "desired while disabled"))
  /\ UNCHANGED <<peerVars, toHandler, toController, incoming, nextIncomingIndex>>

DesiredUnexpectedly(c) ==
  /\ conn[c] = "none"
  /\ DebugAsserts({"desired without a connection"})
  /\ IF peer.state \in {"absent", "Incoming", "Enabled"}
     THEN UNCHANGED peerVars ELSE Poison
  /\ UNCHANGED <<toHandler, toController, incoming, nextIncomingIndex>>

(* The remote asks for a substream. *)
OpenDesiredByRemote(c) ==
  /\ FromHandler(c, "OpenDesiredByRemote")
  /\ UNCHANGED <<apiVars, delays>>
  /\ \/ DesiredWhileDisabled(c) \/ DesiredWhileIncoming(c)
     \/ DesiredWhileWanted(c) \/ DesiredTooLate(c) \/ DesiredUnexpectedly(c)

(* The remote wants an open substream closed. *)
CloseDesired(c) ==
  /\ FromHandler(c, "CloseDesired")
  /\ UNCHANGED <<delays, incoming>>
  /\ \/ /\ peer.state = "Enabled" /\ conn[c] # "Closing"
        /\ order' = order
        /\ LET cn == [conn EXCEPT ![c] = "Closing"]
           IN  /\ conn' = cn
               /\ ReplaceSink(c, cn)
               /\ IF AnyIn(cn, Active)
                  THEN UNCHANGED <<peer, toController>>
                  ELSE Dropped /\ peer' = Disabled(FALSE)
        /\ Tell({c}, "Close")
        /\ DebugAsserts(Unless(conn[c] = "Open", "close desired but not open"))
     \/ /\ \/ peer.state \in {"Disabled", "DisabledPendingEnable"}
           \/ peer.state = "Enabled" /\ conn[c] = "Closing"
        /\ UNCHANGED <<peerVars, apiVars, toHandler, toController, failed>>
     \/ /\ peer.state \notin {"Enabled", "Disabled", "DisabledPendingEnable"}
        /\ DebugAsserts(Unless(peer.state # "absent", "close desired of nobody"))
        /\ IF peer.state = "absent" THEN UNCHANGED peerVars ELSE Poison
        /\ UNCHANGED <<apiVars, toHandler, toController>>

CloseResult(c) ==
  /\ FromHandler(c, "CloseResult")
  /\ conn' = [conn EXCEPT ![c] = IF @ = "Closing" THEN "Closed" ELSE @]
  /\ DebugAsserts(Unless(conn[c] = "Closing", "close result out of place"))
  /\ UNCHANGED <<peer, order, delays, incoming, apiVars, toHandler,
                 toController>>

(* Faulty: tells the API of every connection that opens. *)
OpenResultOkEach(c) ==
  /\ FromHandler(c, "OpenResultOk")
  /\ conn' = [conn EXCEPT ![c] = CASE @ = "Opening" -> "Open"
                                   [] @ = "OpeningThenClosing" -> "Closing"
                                   [] OTHER -> @]
  /\ IF conn[c] = "Opening" THEN ApiOpen(c) ELSE UNCHANGED apiVars
  /\ UNCHANGED <<peer, order, delays, incoming, toHandler, toController, failed>>

OpenResultOk(c) ==
  /\ FromHandler(c, "OpenResultOk")
  /\ LET opens == peer.state = "Enabled" /\ conn[c] = "Opening"
     IN  /\ conn' = [conn EXCEPT ![c] =
                       CASE opens -> "Open"
                         [] @ = "OpeningThenClosing" -> "Closing"
                         [] OTHER -> @]
         /\ IF opens /\ ~AnyIn(conn, {"Open"}) THEN ApiOpen(c)
                                               ELSE UNCHANGED apiVars
         /\ DebugAsserts(
              Unless(opens \/ conn[c] = "OpeningThenClosing",
                     "open result out of place")
              \cup Unless(peer.state = "Enabled" => AnyIn(conn, Active),
                          "enabled but inactive"))
  /\ UNCHANGED <<peer, order, delays, incoming, toHandler, toController>>

(* The last connection that could have opened has not: the peer is dropped  *)
(* and backed off.                                                          *)
OpenResultErr(c) ==
  /\ FromHandler(c, "OpenResultErr")
  /\ LET fails == peer.state = "Enabled" /\ conn[c] = "Opening"
         cn    == [conn EXCEPT ![c] =
                     CASE fails -> "Closed"
                       [] @ = "OpeningThenClosing" -> "Closing"
                       [] OTHER -> @]
     IN  /\ conn' = cn
         /\ DebugAsserts(
              Unless(fails \/ conn[c] = "OpeningThenClosing",
                     "open result out of place")
              \cup Unless(peer.state = "Enabled" => AnyIn(conn, Active),
                          "enabled but inactive"))
         /\ IF peer.state = "Enabled" /\ ~AnyIn(cn, Active)
            THEN Dropped /\ peer' = Disabled(TRUE)
            ELSE UNCHANGED <<toController, peer>>
  /\ UNCHANGED <<order, delays, incoming, apiVars, toHandler>>

-----------------------------------------------------------------------------
(* Delays. *)

(* Time passes: the deadline the peer is backed off until is over. *)
DeadlinePasses ==
  /\ peer.backoff
  /\ peer' = [peer EXCEPT !.backoff = FALSE]
  /\ UNCHANGED <<conn, order, delays, inVars, apiVars, handlerVars, toHandler,
                 fromHandler, toController, fromController, failed>>

(* Faulty: a delay is not started again while a connection is closing. *)
DelayFiresOnce(t) ==
  /\ t \in delays
  /\ UNCHANGED handlerVars
  /\ delays' = delays \ {t}
  /\ \/ /\ peer.state = "DisabledPendingEnable" /\ AnyIn(conn, {"Closed"})
        /\ OpenFirstClosed
     \/ /\ ~(peer.state = "DisabledPendingEnable" /\ AnyIn(conn, {"Closed"}))
        /\ peer' = IF peer.state = "Backoff" THEN Absent ELSE peer
        /\ UNCHANGED <<conn, toHandler>>
  /\ UNCHANGED <<order, inVars, apiVars, fromHandler, toController,
                 fromController, failed>>

(* A delay of `delays` is over.  The one the peer waits for is not over     *)
(* before its deadline; any other belongs to the past and is ignored.       *)
DelayFires(t) ==
  /\ t \in delays
  /\ UNCHANGED handlerVars
  /\ t = peer.timer => ~peer.backoff
  /\ \/ /\ t # peer.timer
        /\ delays' = delays \ {t}
        /\ UNCHANGED <<peer, conn, toHandler>>
     \/ /\ t = peer.timer
        /\ \/ /\ peer.state = "Backoff"
              /\ peer' = Absent
              /\ delays' = delays \ {t}
              /\ UNCHANGED <<conn, toHandler>>
           \/ /\ peer.state = "PendingRequest"
              /\ peer' = InState("Requested")
              /\ delays' = delays \ {t}
              /\ UNCHANGED <<conn, toHandler>>
           \/ /\ peer.state = "DisabledPendingEnable" /\ AnyIn(conn, {"Closed"})
              /\ OpenFirstClosed
              /\ delays' = delays \ {t}
           \/ /\ peer.state = "DisabledPendingEnable" /\ ~AnyIn(conn, {"Closed"})
              /\ peer' = [peer EXCEPT !.backoff = TRUE]
              /\ UNCHANGED <<conn, toHandler, delays>>
  /\ UNCHANGED <<order, inVars, apiVars, fromHandler, toController,
                 fromController, failed>>

-----------------------------------------------------------------------------
(* What a handler does on its own, and what it has been asked to do. *)
HandlerActs(c) ==
  /\ FullyNegotiatedInbound(c) \/ OutSubstreamFails(c) \/ ConnectionEnds(c)
  /\ UNCHANGED <<notifVars, toController, fromController>>

HandlerWorks(c) ==
  /\ \/ OnOpen(c) \/ OnClose(c)
     \/ FullyNegotiatedOutbound(c) \/ DialUpgradeError(c)
  /\ UNCHANGED <<notifVars, toController, fromController>>

HandlerEvent(c) ==
  \/ OpenDesiredByRemote(c) \/ CloseDesired(c) \/ CloseResult(c)
  \/ OpenResultOk(c) \/ OpenResultErr(c)

PeersetMessage ==
  /\ UNCHANGED <<handlerVars, fromHandler>>
  /\ \/ PeersetReportConnect \/ PeersetReportDisconnect
     \/ PeersetReportPreaccept \/ PeersetReportReject

ValidationStep ==
  \E i \in validations, v \in Verdicts :
    UNCHANGED <<handlerVars, fromHandler>> /\ ValidationEnds(i, v)

(* Everything but the protocol controller. *)
NetworkStep ==
  \/ \E c \in Conns : HandlerActs(c) \/ HandlerWorks(c)
  \/ \E c \in Conns : \/ ConnectionEstablished(c) \/ ConnectionClosed(c)
                      \/ HandlerEvent(c)
  \/ PeersetMessage
  \/ ValidationStep
  \/ UNCHANGED <<handlerVars, fromHandler>> /\ DisconnectPeer
  \/ DialFailure
  \/ \E t \in delays : DelayFires(t)
  \/ DeadlinePasses
=============================================================================
