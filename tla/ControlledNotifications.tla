---------------------- MODULE ControlledNotifications ----------------------
(***************************************************************************)
(* `Notifications` with its handlers, driven by any protocol controller    *)
(* that keeps the promise of ConnectionCommands.  The controller and       *)
(* `Notifications` are two tasks joined by two unbounded channels, so each *)
(* decides on an outdated view of the other.                               *)
(***************************************************************************)
EXTENDS Notifications, TLC

CONSTANT MaxQueue   \* bound: messages between the two when a command is sent

VARIABLE connected   \* the peer, while it holds a slot at the controller

(* What the controller has sent last, as ConnectionCommands puts it. *)
LastSent ==
  IF fromController = <<>> THEN {}
  ELSE {[peer |-> "peer"] @@ fromController[Len(fromController)]}

CC == INSTANCE ConnectionCommands WITH Peers <- {"peer"}, sent <- LastSent

vars == <<handlerVars, toHandler, fromHandler, failed, notifVars, toController,
          fromController, connected>>

Init == NotifInit /\ CC!Init

(* The controller decides on its own to connect or to drop the peer. *)
ControllerCommands ==
  /\ Len(fromController) + Len(toController) < MaxQueue
  /\ \E type \in {"Connect", "Drop"} :
       fromController' = Append(fromController, [type |-> type])
  /\ CC!Emit
  /\ toController' = toController

NextEvent(type) ==
  /\ toController # <<>> /\ Head(toController).type = type
  /\ toController' = Tail(toController)

ControllerAnswers ==
  /\ NextEvent("Incoming")
  /\ \E type \in {"Accept", "Reject"} :
       fromController' = Append(fromController,
                                [type |-> type, index |-> Head(toController).index])
  /\ CC!Emit

ControllerDropped ==
  /\ NextEvent("Dropped")
  /\ fromController' = fromController
  /\ connected' = {}

OnController(A) ==
  A /\ UNCHANGED <<handlerVars, toHandler, fromHandler, failed, notifVars>>

OnNetwork(A) == A /\ connected' = connected

ControllerReads == OnController(ControllerAnswers \/ ControllerDropped)

Next == \/ OnController(ControllerCommands) \/ ControllerReads
        \/ OnNetwork(NetworkStep)

Spec == Init /\ [][Next]_vars

(* The tasks keep running: the controller reads its events, the swarm polls  *)
(* `Notifications`, which reads messages, events, validations and delays,    *)
(* and the handlers, which read commands.  A negotiation ends, if only by    *)
(* its timeout, time passes, and the protocol answers what it is asked.      *)
(* Nothing forces the remote, the controller or the API to ask for anything. *)
FairSpec ==
  /\ Spec
  /\ WF_vars(ControllerReads)
  /\ SF_vars(OnNetwork(PeersetMessage))
  /\ WF_vars(OnNetwork(ValidationStep))
  /\ WF_vars(OnNetwork(DeadlinePasses))
  /\ \A t \in 1..MaxDelays : WF_vars(OnNetwork(DelayFires(t)))
  /\ \A c \in Conns :
       /\ SF_vars(OnNetwork(ConnectionClosed(c) \/ HandlerEvent(c)))
       /\ WF_vars(OnNetwork(HandlerWorks(c)))

-----------------------------------------------------------------------------
Sane == peer.state # "Poisoned"

Waiting == {"Backoff", "PendingRequest", "DisabledPendingEnable"}

(* Whatever the order of events, commands and reports, no handler of        *)
(* `Notifications` meets a combination it has no answer to and leaves the    *)
(* entry of the peer behind as Poisoned, all its connections forgotten; the  *)
(* books of the peer keep their types.                                       *)
NeverPoisoned == NotifTypeOK /\ Sane

(* No debug_assert! of behaviour.rs or handler.rs fails while the entry is   *)
(* sound: in particular no answer of a handler arrives in a state of its     *)
(* connection that does not expect it.  One assertion is excepted: that on   *)
(* OpenDesiredByRemote while the peer is Enabled leaves out                  *)
(* OpeningThenClosing, which the comment above it includes, and does fail    *)
(* with two connections.                                                     *)
AssertionsHold == Sane => failed \subseteq {"desired while enabled"}

(* Openings and closings reported to the API alternate, and the API is told  *)
(* that the peer is there exactly while a connection is open: num_peers      *)
(* never counts a peer twice and never underflows.                           *)
ApiInStep ==
  Sane => numPeers = IF peer.state = "Enabled" /\ AnyIn(conn, {"Open"})
                     THEN 1 ELSE 0

(* The sink that the API sends notifications into belongs to a connection    *)
(* whose substream is open.                                                  *)
ApiSinkOpen == Sane /\ apiSink # "closed" => conn[apiSink] = "Open"

(* `incoming` holds one request that is alive while the peer is Incoming,    *)
(* the one the peer is waiting for, and none otherwise: an answer of the     *)
(* controller to an earlier request can never decide a later one.            *)
AliveIsIncoming ==
  Sane => {e.id : e \in AliveEntries} =
            IF peer.state = "Incoming" THEN {peer.index} ELSE {}

(* What `Notifications` has told the API and what it remembers of requests   *)
(* are in step with the state of the peer.                                   *)
BooksInStep == ApiInStep /\ AliveIsIncoming

(* Once nothing is on its way between the two, `Notifications` and the       *)
(* handler of a connection agree on the state of its substream.              *)
HandlersAgree ==
  Sane => \A c \in Conns :
            toHandler[c] = <<>> /\ fromHandler[c] = <<>> =>
              handler[c] = IF conn[c] = "none" THEN "gone" ELSE conn[c]

-----------------------------------------------------------------------------
(* A request of the remote whose report has been read gets an answer: the    *)
(* handler is told Open or Close, or the connection ends.  Only a validation *)
(* whose sender is dropped leaves the request as it is.                      *)
RemoteAnswered ==
  \A c \in Conns :
    []<>(\/ handler[c] # "OpenDesiredByRemote" \/ fromHandler[c] # <<>>
         \/ peer.index \in abandoned)

(* An opening or a closing that `Notifications` has started comes to an end: *)
(* no connection is left waiting for an answer of its handler.               *)
TransitionsEnd ==
  \A c \in Conns : []<>(conn[c] \notin {"Opening", "OpeningThenClosing", "Closing"})

(* No peer waits for one delay for ever: the back-off ends, a connection     *)
(* that was asked for meanwhile is attempted, or failed dials keep starting  *)
(* new delays.                                                               *)
WaitingEnds ==
  \/ []<>(peer.state \notin Waiting)
  \/ []<><<peer'.timer # peer.timer>>_peer

-----------------------------------------------------------------------------
(* Nothing is on its way anywhere: no message, no validation, no delay, no   *)
(* dial and no negotiation.  Only a new event from outside can change this.  *)
Settled ==
  /\ toController = <<>> /\ fromController = <<>>
  /\ validations = {} /\ delays = {} /\ peer.state # "Requested"
  /\ \A c \in Conns :
       toHandler[c] = <<>> /\ fromHandler[c] = <<>> /\ requested[c] = 0

(* The two sides become consistent again once everything has settled: the    *)
(* peer holds a slot at the controller exactly if it is Enabled, unless its  *)
(* request is still being decided.                                           *)
EventuallyConsistent ==
  Settled /\ peer.state # "Incoming" => (connected # {} <=> peer.state = "Enabled")
=============================================================================
