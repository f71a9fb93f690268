--------------------------- MODULE NotifsHandler ---------------------------
(***************************************************************************)
(* The connection handlers of one notifications protocol with one peer     *)
(* (client/network/src/protocol/notifications/handler.rs), one per         *)
(* transport connection.                                                   *)
(*                                                                         *)
(* `toHandler[c]` carries the commands of `Notifications` to the handler   *)
(* of connection c and `fromHandler[c]` its answers and reports (its       *)
(* events_queue and the channel of its connection task in one).  The swarm *)
(* is external: it keeps both channels in order and delivers the end of a  *)
(* connection after everything the handler reported.                       *)
(*                                                                         *)
(* The notifications themselves, the inbound half of an open substream,    *)
(* whose end is tolerated, and the keep-alive flag are left out: none of   *)
(* them moves the state machine.                                           *)
(* `NotificationsInSubstream::poll_process` never fails before the         *)
(* handshake is sent, so a request of the remote is never withdrawn.       *)
(***************************************************************************)
EXTENDS Naturals, Sequences

CONSTANT Conns   \* connections with the peer; an id is reused once it is free

VARIABLES handler,      \* state of the handler, "gone" without a connection
          pending,      \* pending_opening: a forgotten outbound request runs
          outSub,       \* out_substream is Some
          requested,    \* outbound substreams the swarm is negotiating
          toHandler, fromHandler,
          failed        \* debug_assert!s that have failed so far

handlerVars == <<handler, pending, outSub, requested>>

HandlerStates == {"gone", "Closed", "OpenDesiredByRemote", "Opening", "Open"}
HandlerIn     == {"Open", "Close"}
HandlerOut    == {"OpenResultOk", "OpenResultErr", "CloseResult",
                  "OpenDesiredByRemote", "CloseDesired", "Gone"}

HandlerTypeOK ==
  /\ handler \in [Conns -> HandlerStates]
  /\ pending \in [Conns -> BOOLEAN]
  /\ outSub \in [Conns -> BOOLEAN]
  /\ requested \in [Conns -> Nat]
  /\ toHandler \in [Conns -> Seq(HandlerIn)]
  /\ fromHandler \in [Conns -> Seq(HandlerOut)]

HandlerInit ==
  /\ handler = [c \in Conns |-> "gone"]
  /\ pending = [c \in Conns |-> FALSE]
  /\ outSub = [c \in Conns |-> FALSE]
  /\ requested = [c \in Conns |-> 0]
  /\ toHandler = [c \in Conns |-> <<>>]
  /\ fromHandler = [c \in Conns |-> <<>>]
  /\ failed = {}

(* The handler of c enters state s. *)
Become(c, s, pend, out) ==
  /\ handler' = [handler EXCEPT ![c] = s]
  /\ pending' = [pending EXCEPT ![c] = pend]
  /\ outSub'  = [outSub EXCEPT ![c] = out]

Report(c, evs) == fromHandler' = [fromHandler EXCEPT ![c] = @ \o evs]

(* debug_assert!(cond), labelled with what it is about. *)
DebugAssert(label, cond) == failed' = IF cond THEN failed ELSE failed \cup {label}

-----------------------------------------------------------------------------
(* on_connection_event *)

(* The remote opens a substream.  In any state but Closed it is dropped or  *)
(* becomes the inbound half of a substream that is open or opening.         *)
FullyNegotiatedInbound(c) ==
  /\ handler[c] = "Closed"
  /\ Become(c, "OpenDesiredByRemote", pending[c], FALSE)
  /\ Report(c, <<"OpenDesiredByRemote">>)
  /\ UNCHANGED <<requested, toHandler, failed>>

(* Faulty: the outcome of a forgotten request counts for the new one. *)
ForgetRequestKept(c) ==
  /\ DebugAssert("pending_opening", pending[c])
  /\ UNCHANGED <<handler, pending, outSub>>

(* A request that was given up by a Close has come to an end. *)
ForgetRequest(c) ==
  /\ DebugAssert("pending_opening", pending[c])
  /\ Become(c, handler[c], FALSE, outSub[c])

FullyNegotiatedOutbound(c) ==
  /\ requested[c] > 0
  /\ requested' = [requested EXCEPT ![c] = @ - 1]
  /\ toHandler' = toHandler
  /\ \/ /\ handler[c] \in {"Closed", "OpenDesiredByRemote"}
        /\ ForgetRequest(c)
        /\ fromHandler' = fromHandler
     \/ /\ handler[c] = "Opening"
        /\ Become(c, "Open", FALSE, TRUE)
        /\ Report(c, <<"OpenResultOk">>)
        /\ failed' = failed
     \/ /\ handler[c] = "Open"
        /\ DebugAssert("negotiated while open", FALSE)
        /\ UNCHANGED <<handler, pending, outSub, fromHandler>>

DialUpgradeError(c) ==
  /\ requested[c] > 0
  /\ requested' = [requested EXCEPT ![c] = @ - 1]
  /\ toHandler' = toHandler
  /\ \/ /\ handler[c] \in {"Closed", "OpenDesiredByRemote"}
        /\ ForgetRequest(c)
        /\ fromHandler' = fromHandler
     \/ /\ handler[c] = "Opening"
        /\ Become(c, "Closed", FALSE, FALSE)
        /\ Report(c, <<"OpenResultErr">>)
        /\ failed' = failed
     \/ /\ handler[c] = "Open"
        /\ DebugAssert("upgrade error while open", FALSE)
        /\ UNCHANGED <<handler, pending, outSub, fromHandler>>

-----------------------------------------------------------------------------
(* on_behaviour_event *)

Receive(c, msg) ==
  /\ toHandler[c] # <<>> /\ Head(toHandler[c]) = msg
  /\ toHandler' = [toHandler EXCEPT ![c] = Tail(@)]

(* Faulty: asks for a second substream while the first is negotiated. *)
RequestSubstreamAlways(c) == requested' = [requested EXCEPT ![c] = @ + 1]

(* A new outbound substream is requested unless an earlier one is underway. *)
RequestSubstream(c) ==
  requested' = [requested EXCEPT ![c] = IF pending[c] THEN @ ELSE @ + 1]

OnOpen(c) ==
  /\ Receive(c, "Open")
  /\ fromHandler' = fromHandler
  /\ \/ /\ handler[c] \in {"Closed", "OpenDesiredByRemote"}
        /\ RequestSubstream(c)
        /\ Become(c, "Opening", FALSE, FALSE)
        /\ failed' = failed
     \/ /\ handler[c] \in {"Opening", "Open"}
        /\ DebugAssert("open while open", FALSE)
        /\ UNCHANGED handlerVars

(* Faulty: does not remember the request that is still being negotiated. *)
OnCloseForgetful(c) ==
  /\ Receive(c, "Close")
  /\ Become(c, "Closed", pending[c], FALSE)
  /\ Report(c, IF handler[c] = "Opening" THEN <<"OpenResultErr", "CloseResult">>
                                         ELSE <<"CloseResult">>)
  /\ UNCHANGED <<requested, failed>>

(* Faulty: a handler that was not open sees no need to answer. *)
OnCloseSilent(c) ==
  /\ Receive(c, "Close")
  /\ Become(c, "Closed", pending[c] \/ handler[c] = "Opening", FALSE)
  /\ Report(c, CASE handler[c] = "Opening" -> <<"OpenResultErr", "CloseResult">>
                 [] handler[c] = "Open" -> <<"CloseResult">>
                 [] OTHER -> <<>>)
  /\ UNCHANGED <<requested, failed>>

OnClose(c) ==
  /\ Receive(c, "Close")
  /\ Become(c, "Closed", pending[c] \/ handler[c] = "Opening", FALSE)
  /\ Report(c, IF handler[c] = "Opening" THEN <<"OpenResultErr", "CloseResult">>
                                         ELSE <<"CloseResult">>)
  /\ UNCHANGED <<requested, failed>>

-----------------------------------------------------------------------------
(* poll *)

(* Flushing the outbound substream fails: the remote wants it closed. *)
OutSubstreamFails(c) ==
  /\ handler[c] = "Open" /\ outSub[c]
  /\ outSub' = [outSub EXCEPT ![c] = FALSE]
  /\ Report(c, <<"CloseDesired">>)
  /\ UNCHANGED <<handler, pending, requested, toHandler, failed>>

(* The connection ends, for a reason of its own or of the swarm, or because *)
(* the buffer of a sink is full and the handler asks for it.  What is on    *)
(* its way to the handler is lost, and so may be the last of its reports.   *)
ConnectionEnds(c) ==
  /\ handler[c] # "gone"
  /\ Become(c, "gone", FALSE, FALSE)
  /\ requested' = [requested EXCEPT ![c] = 0]
  /\ toHandler' = [toHandler EXCEPT ![c] = <<>>]
  /\ \E k \in 0..Len(fromHandler[c]) :
       fromHandler' = [fromHandler EXCEPT ![c] =
                         Append(SubSeq(@, 1, k), "Gone")]
  /\ failed' = failed

-----------------------------------------------------------------------------
(* The handler knows of every outbound substream it has asked for: exactly  *)
(* one is being negotiated while it is Opening or remembers one with        *)
(* pending_opening, and none otherwise.  An Open that follows a Close takes *)
(* over the request the Close gave up instead of making a second one, and   *)
(* an outcome never reaches a handler that has no request.                  *)
OneRequestAtMost ==
  \A c \in Conns :
    requested[c] = IF handler[c] = "Opening" \/ pending[c] THEN 1 ELSE 0
=============================================================================
