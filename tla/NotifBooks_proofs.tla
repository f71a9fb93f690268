-------------------------- MODULE NotifBooks_proofs --------------------------
(***************************************************************************)
(* How `Notifications` and the handlers of the connections with a peer     *)
(* stay in step though each acts on an outdated view of the other.         *)
(*                                                                         *)
(* The first part has facts about the state of a connection, the commands  *)
(* and the reports that are on their way, for any number of either.  The   *)
(* reports on their way lead the state that `Notifications` has of the     *)
(* connection, step by step, to the one it will have once it has read them *)
(* all.  What the handler and the commands on their way to it must look    *)
(* like depends on this last state alone.  A command that is sent while    *)
(* reports are on their way changes every state on the way alike.  With it *)
(* stands the theorem about the handlers alone: whatever the order of      *)
(* commands, losses and API calls, a handler negotiates no outbound        *)
(* substream it does not know of (OneRequest).                             *)
(*                                                                         *)
(* The second part has the invariant of the books that `Notifications`     *)
(* keeps of a peer: its connections, their handlers and the messages       *)
(* between them, the requests of the remote that wait for an answer and    *)
(* what the API has been told.  It has what the invariant implies, the     *)
(* steps of a handler and the parts that the steps of `Notifications` are  *)
(* made of; NotifSteps_proofs has those steps and the theorems.            *)
(***************************************************************************)
EXTENDS ControlledNotifications, WellFoundedInduction, TLAPS

(* `Notifications`, with a connection in state s, reads report ev and takes *)
(* the connection to state t.  (CloseDesired of an open connection is also  *)
(* answered, by a command.)                                                 *)
Reads(s, ev, t) ==
  \/ ev = "OpenDesiredByRemote" /\ s = "Closed" /\ t = "OpenDesiredByRemote"
  \/ ev = "OpenDesiredByRemote" /\ s \in {"Opening", "OpeningThenClosing", "Closing"} /\ t = s
  \/ ev = "OpenResultOk" /\ s = "Opening" /\ t = "Open"
  \/ ev = "OpenResultErr" /\ s = "Opening" /\ t = "Closed"
  \/ ev \in {"OpenResultOk", "OpenResultErr"} /\ s = "OpeningThenClosing" /\ t = "Closing"
  \/ ev = "CloseDesired" /\ s \in {"Open", "Closing"} /\ t = s
  \/ ev = "CloseResult" /\ s = "Closing" /\ t = "Closed"
  \/ ev = "Gone" /\ s # "none" /\ t = "none"

(* The states that reports alone may lead to from s. *)
Ahead(s, t) ==
  \/ t \in {s, "none"}
  \/ s = "Closed" /\ t = "OpenDesiredByRemote"
  \/ s = "Opening" /\ t \in {"Open", "Closed", "OpenDesiredByRemote"}
  \/ s = "OpeningThenClosing" /\ t \in {"Closing", "Closed", "OpenDesiredByRemote"}
  \/ s = "Closing" /\ t \in {"Closed", "OpenDesiredByRemote"}

(* p[k] is the state of the connection after the first k reports. *)
Leads(p, reports) ==
  /\ \A k \in 1..Len(reports) : Reads(p[k - 1], reports[k], p[k])
  /\ \A j, k \in 0..Len(reports) : j <= k => Ahead(p[j], p[k])

(* The reports lead from state s to state t. *)
Channel(s, reports, t) ==
  /\ reports \in Seq(HandlerOut)
  /\ \E p \in [Nat -> ConnStates] :
       p[0] = s /\ p[Len(reports)] = t /\ Leads(p, reports)

(* With nothing left to read and the connection in state t, these are the   *)
(* commands on their way and the states of the handler.                     *)
Agreed(t, commands, h) ==
  \/ t = "none" /\ commands = <<>> /\ h = "gone"
  \/ t \in {"Closed", "OpenDesiredByRemote", "Opening", "Open"} /\ commands = <<>> /\ h = t
  \/ t = "Opening" /\ commands = <<"Open">> /\ h \in {"Closed", "OpenDesiredByRemote"}
  \/ /\ t = "OpeningThenClosing" /\ commands = <<"Open", "Close">>
     /\ h \in {"Closed", "OpenDesiredByRemote"}
  \/ t = "OpeningThenClosing" /\ commands = <<"Close">> /\ h = "Opening"
  \/ /\ t = "Closing" /\ commands = <<"Close">>
     /\ h \in {"Closed", "OpenDesiredByRemote", "Open"}

(* A connection, its commands, its handler and its reports are in step. *)
InStep(s, commands, h, reports) ==
  \E t \in ConnStates : Channel(s, reports, t) /\ Agreed(t, commands, h)

(* The states after a command Open or Close. *)
Opened(s) == IF s = "none" THEN "none" ELSE "Opening"
Closes(s) == IF s = "none" THEN "none"
             ELSE IF s = "Opening" THEN "OpeningThenClosing" ELSE "Closing"

-----------------------------------------------------------------------------
(* Reports. *)

(* What is ahead of a state that is ahead is ahead. *)
LEMMA AheadReads ==
  ASSUME NEW r, NEW s, NEW t, NEW ev, Ahead(r, s), Reads(s, ev, t)
  PROVE  Ahead(r, t)
BY Zenon DEF Ahead, Reads

(* Nothing has to happen for a state to be reached from itself. *)
LEMMA AheadSelf == \A s : Ahead(s, s)
BY Zenon DEF Ahead

(* No report is on its way: the last state is the present one. *)
LEMMA ChannelEmpty ==
  ASSUME NEW s \in ConnStates
  PROVE  Channel(s, <<>>, s)
<1> DEFINE p == [k \in Nat |-> s]
<1>1. Leads(p, <<>>)
  BY AheadSelf DEF Leads
<1> QED BY <1>1 DEF Channel

(* Without reports on their way the last state can only be the present one. *)
LEMMA ChannelOfEmpty ==
  ASSUME NEW s, NEW t, Channel(s, <<>>, t)
  PROVE  s = t
BY Zenon DEF Channel

(* The handler reports. *)
LEMMA ChannelReport ==
  ASSUME NEW s, NEW reports, NEW t, Channel(s, reports, t),
         NEW ev \in HandlerOut, NEW u \in ConnStates, Reads(t, ev, u)
  PROVE  Channel(s, Append(reports, ev), u)
<1>1. PICK p \in [Nat -> ConnStates] :
        p[0] = s /\ p[Len(reports)] = t /\ Leads(p, reports)
  BY Zenon DEF Channel
<1> DEFINE n == Len(reports)
           q == [p EXCEPT ![n + 1] = u]
           more == Append(reports, ev)
<1>2. reports \in Seq(HandlerOut) /\ n \in Nat
  BY DEF Channel
<1>3. more \in Seq(HandlerOut) /\ Len(more) = n + 1
  BY <1>2
<1>4. q \in [Nat -> ConnStates] /\ q[0] = s /\ q[n + 1] = u /\ \A k \in 0..n : q[k] = p[k]
  BY <1>1, <1>2
<1>5. ASSUME NEW k \in 1..n + 1 PROVE Reads(q[k - 1], more[k], q[k])
  <2>1. CASE k = n + 1
    <3>1. more[k] = ev /\ q[k] = u /\ q[k - 1] = t
      BY <1>1, <1>2, <1>4, <2>1
    <3> QED BY Zenon, <3>1
  <2>2. CASE k # n + 1
    <3>1. k \in 1..n /\ more[k] = reports[k] /\ q[k] = p[k] /\ q[k - 1] = p[k - 1]
      BY <1>2, <1>4, <2>2
    <3> QED BY Zenon, <1>1, <3>1 DEF Leads
  <2> QED BY Zenon, <2>1, <2>2
<1>6. ASSUME NEW j \in 0..n + 1, NEW k \in 0..n + 1, j <= k PROVE Ahead(q[j], q[k])
  <2>1. CASE j = n + 1
    <3>1. j = k
      BY <1>2, <1>6, <2>1
    <3> QED BY Zenon, <3>1, AheadSelf
  <2>2. CASE j # n + 1 /\ k # n + 1
    <3>1. j \in 0..n /\ k \in 0..n /\ q[j] = p[j] /\ q[k] = p[k]
      BY <1>2, <1>4, <2>2
    <3> QED BY Zenon, <1>1, <1>6, <3>1 DEF Leads
  <2>3. CASE j # n + 1 /\ k = n + 1
    <3>1. j \in 0..n /\ n \in 0..n /\ j <= n /\ q[j] = p[j] /\ q[k] = u
      BY <1>2, <1>4, <2>3
    <3>2. Ahead(p[j], t)
      BY Zenon, <1>1, <3>1 DEF Leads
    <3> QED BY Zenon, <3>1, <3>2, AheadReads
  <2> QED BY Zenon, <2>1, <2>2, <2>3
<1>7. Leads(q, more)
  BY Zenon, <1>3, <1>5, <1>6 DEF Leads
<1> QED BY Zenon, <1>3, <1>4, <1>7 DEF Channel

(* `Notifications` reads the next report. *)
LEMMA ChannelRead ==
  ASSUME NEW s, NEW reports, NEW t, Channel(s, reports, t), reports # <<>>
  PROVE  \E r \in ConnStates : Reads(s, Head(reports), r) /\ Channel(r, Tail(reports), t)
<1>1. PICK p \in [Nat -> ConnStates] :
        p[0] = s /\ p[Len(reports)] = t /\ Leads(p, reports)
  BY Zenon DEF Channel
<1> DEFINE n == Len(reports)
           q == [k \in Nat |-> p[k + 1]]
           rest == Tail(reports)
<1>2. reports \in Seq(HandlerOut) /\ n \in Nat \ {0}
  BY DEF Channel
<1>3. rest \in Seq(HandlerOut) /\ Len(rest) = n - 1 /\ \A k \in 1..n - 1 : rest[k] = reports[k + 1]
  BY <1>2
<1>4. q \in [Nat -> ConnStates] /\ q[0] = p[1] /\ q[n - 1] = t
  BY <1>1, <1>2
<1>5. Reads(s, Head(reports), p[1])
  <2>1. 1 \in 1..n /\ Head(reports) = reports[1] /\ p[1 - 1] = s
    BY <1>1, <1>2
  <2> QED BY Zenon, <1>1, <2>1 DEF Leads
<1>6. ASSUME NEW k \in 1..n - 1 PROVE Reads(q[k - 1], rest[k], q[k])
  <2>1. k + 1 \in 1..n /\ q[k - 1] = p[(k + 1) - 1] /\ rest[k] = reports[k + 1] /\ q[k] = p[k + 1]
    BY <1>2, <1>3
  <2> QED BY Zenon, <1>1, <2>1 DEF Leads
<1>7. ASSUME NEW j \in 0..n - 1, NEW k \in 0..n - 1, j <= k PROVE Ahead(q[j], q[k])
  <2>1. j + 1 \in 0..n /\ k + 1 \in 0..n /\ j + 1 <= k + 1 /\ q[j] = p[j + 1] /\ q[k] = p[k + 1]
    BY <1>2, <1>7
  <2> QED BY Zenon, <1>1, <2>1 DEF Leads
<1>8. Leads(q, rest)
  BY Zenon, <1>3, <1>6, <1>7 DEF Leads
<1>9. Channel(p[1], rest, t)
  BY Zenon, <1>3, <1>4, <1>8 DEF Channel
<1> QED BY Zenon, <1>1, <1>5, <1>9

(* The last reports get lost with the connection. *)
LEMMA ChannelCut ==
  ASSUME NEW s, NEW reports, NEW t, Channel(s, reports, t), t # "none",
         NEW n \in 0..Len(reports)
  PROVE  \E r \in ConnStates : r # "none" /\ Channel(s, SubSeq(reports, 1, n), r)
<1>1. PICK p \in [Nat -> ConnStates] :
        p[0] = s /\ p[Len(reports)] = t /\ Leads(p, reports)
  BY Zenon DEF Channel
<1> DEFINE first == SubSeq(reports, 1, n)
<1>2. reports \in Seq(HandlerOut) /\ Len(reports) \in Nat
  BY DEF Channel
<1>3. first \in Seq(HandlerOut) /\ Len(first) = n /\ \A k \in 1..n : first[k] = reports[k]
  BY <1>2
<1>4. Leads(p, first)
  <2>1. 1..n \subseteq 1..Len(reports) /\ 0..n \subseteq 0..Len(reports)
    BY <1>2
  <2> QED BY Zenon, <1>1, <1>3, <2>1 DEF Leads
<1>5. p[n] # "none"
  <2>1. CASE n = Len(reports)
    BY Zenon, <1>1, <2>1
  <2>2. CASE n # Len(reports)
    <3>1. n + 1 \in 1..Len(reports) /\ (n + 1) - 1 = n
      BY <1>2, <2>2
    <3>2. Reads(p[n], reports[n + 1], p[n + 1])
      BY Zenon, <1>1, <3>1 DEF Leads
    <3> QED BY Zenon, <3>2 DEF Reads
  <2> QED BY Zenon, <2>1, <2>2
<1>6. Channel(s, first, p[n])
  BY Zenon, <1>1, <1>3, <1>4 DEF Channel
<1> QED BY <1>1, <1>5, <1>6

-----------------------------------------------------------------------------
(* Commands. *)

(* A command to open turns a report that was expected into one that is still expected. *)
LEMMA ReadsOpened ==
  ASSUME NEW s, NEW ev, NEW t, Reads(s, ev, t),
         s \in {"Closed", "OpenDesiredByRemote", "none"},
         t \in {"Closed", "OpenDesiredByRemote", "none"}
  PROVE  Reads(Opened(s), ev, Opened(t))
BY Zenon DEF Reads, Opened

(* So does a command to close. *)
LEMMA ReadsCloses ==
  ASSUME NEW s, NEW ev, NEW t, Reads(s, ev, t),
         s \in {"Closed", "OpenDesiredByRemote", "Opening", "Open", "none"},
         t \in {"Closed", "OpenDesiredByRemote", "Opening", "Open", "none"}
  PROVE  Reads(Closes(s), ev, Closes(t))
BY Zenon DEF Reads, Closes

(* A command to close keeps the order of the states on the way. *)
LEMMA AheadCloses ==
  ASSUME NEW s, NEW t, Ahead(s, t),
         s \in {"Closed", "OpenDesiredByRemote", "Opening", "Open", "none"},
         t \in {"Closed", "OpenDesiredByRemote", "Opening", "Open", "none"}
  PROVE  Ahead(Closes(s), Closes(t))
BY Zenon DEF Ahead, Closes

(* Open, sent to a connection that is not open. *)
LEMMA ChannelOpen ==
  ASSUME NEW s \in {"Closed", "OpenDesiredByRemote"}, NEW reports, NEW t, Channel(s, reports, t)
  PROVE  /\ t \in {"Closed", "OpenDesiredByRemote", "none"}
         /\ Channel("Opening", reports, Opened(t))
<1>1. PICK p \in [Nat -> ConnStates] :
        p[0] = s /\ p[Len(reports)] = t /\ Leads(p, reports)
  BY Zenon DEF Channel
<1> DEFINE n == Len(reports)
           q == [k \in Nat |-> Opened(p[k])]
<1>2. reports \in Seq(HandlerOut) /\ n \in Nat
  BY DEF Channel
<1>3. ASSUME NEW k \in 0..n PROVE p[k] \in {"Closed", "OpenDesiredByRemote", "none"}
  <2>1. 0 \in 0..n /\ 0 <= k
    BY <1>2
  <2>2. Ahead(s, p[k])
    BY Zenon, <1>1, <2>1 DEF Leads
  <2> QED BY Zenon, <2>2 DEF Ahead
<1>4. q \in [Nat -> ConnStates] /\ q[0] = "Opening" /\ q[n] = Opened(t)
  BY Zenon, <1>1, <1>2 DEF Opened, ConnStates
<1>5. ASSUME NEW k \in 1..n PROVE Reads(q[k - 1], reports[k], q[k])
  <2>1. k - 1 \in 0..n /\ k \in 0..n /\ q[k - 1] = Opened(p[k - 1]) /\ q[k] = Opened(p[k])
    BY <1>2
  <2>2. Reads(p[k - 1], reports[k], p[k])
    BY Zenon, <1>1 DEF Leads
  <2> QED BY <1>3, <2>1, <2>2, ReadsOpened
<1>6. ASSUME NEW j \in 0..n, NEW k \in 0..n, j <= k PROVE Ahead(q[j], q[k])
  <2>1. q[j] = Opened(p[j]) /\ q[k] = Opened(p[k])
    BY <1>2
  <2>2. Ahead(p[j], p[k])
    BY Zenon, <1>1, <1>6 DEF Leads
  <2> QED BY Zenon, <2>1, <2>2, <1>3 DEF Ahead, Opened
<1>7. Leads(q, reports)
  BY Zenon, <1>5, <1>6 DEF Leads
<1>8. t \in {"Closed", "OpenDesiredByRemote", "none"}
  BY <1>1, <1>2, <1>3
<1> QED BY Zenon, <1>2, <1>4, <1>7, <1>8 DEF Channel

(* Close, sent to a connection that is open, opening or wants to be open. *)
LEMMA ChannelClose ==
  ASSUME NEW s \in {"OpenDesiredByRemote", "Opening", "Open"}, NEW reports, NEW t,
         Channel(s, reports, t)
  PROVE  /\ t \in {"Closed", "OpenDesiredByRemote", "Opening", "Open", "none"}
         /\ Channel(Closes(s), reports, Closes(t))
<1>1. PICK p \in [Nat -> ConnStates] :
        p[0] = s /\ p[Len(reports)] = t /\ Leads(p, reports)
  BY Zenon DEF Channel
<1> DEFINE n == Len(reports)
           q == [k \in Nat |-> Closes(p[k])]
<1>2. reports \in Seq(HandlerOut) /\ n \in Nat
  BY DEF Channel
<1>3. ASSUME NEW k \in 0..n
      PROVE  p[k] \in {"Closed", "OpenDesiredByRemote", "Opening", "Open", "none"}
  <2>1. 0 \in 0..n /\ 0 <= k
    BY <1>2
  <2>2. Ahead(s, p[k])
    BY Zenon, <1>1, <2>1 DEF Leads
  <2> QED BY Zenon, <2>2 DEF Ahead
<1>4. q \in [Nat -> ConnStates] /\ q[0] = Closes(s) /\ q[n] = Closes(t)
  BY Zenon, <1>1, <1>2 DEF Closes, ConnStates
<1>5. ASSUME NEW k \in 1..n PROVE Reads(q[k - 1], reports[k], q[k])
  <2>1. k - 1 \in 0..n /\ k \in 0..n /\ q[k - 1] = Closes(p[k - 1]) /\ q[k] = Closes(p[k])
    BY <1>2
  <2>2. Reads(p[k - 1], reports[k], p[k])
    BY Zenon, <1>1 DEF Leads
  <2> QED BY <1>3, <2>1, <2>2, ReadsCloses
<1>6. ASSUME NEW j \in 0..n, NEW k \in 0..n, j <= k PROVE Ahead(q[j], q[k])
  <2>1. q[j] = Closes(p[j]) /\ q[k] = Closes(p[k])
    BY <1>2
  <2>2. Ahead(p[j], p[k])
    BY Zenon, <1>1, <1>6 DEF Leads
  <2> QED BY <2>1, <2>2, <1>3, AheadCloses
<1>7. Leads(q, reports)
  BY Zenon, <1>5, <1>6 DEF Leads
<1>8. t \in {"Closed", "OpenDesiredByRemote", "Opening", "Open", "none"}
  BY <1>1, <1>2, <1>3
<1> QED BY Zenon, <1>2, <1>4, <1>7, <1>8 DEF Channel

-----------------------------------------------------------------------------
(* A connection stays in step, whatever happens to it. *)

(* A report is put at the end of the queue. *)
LEMMA AppendOne ==
  ASSUME NEW S, NEW s \in Seq(S), NEW e \in S
  PROVE  s \o <<e>> = Append(s, e)
OBVIOUS

(* Two reports are put at the end of the queue, one after the other. *)
LEMMA AppendTwo ==
  ASSUME NEW S, NEW s \in Seq(S), NEW e \in S, NEW f \in S
  PROVE  s \o <<e, f>> = Append(Append(s, e), f)
OBVIOUS

(* Sequences of one length with the same elements are the same. *)
LEMMA SameSequences ==
  ASSUME NEW S, NEW s \in Seq(S), NEW t \in Seq(S), Len(s) = Len(t), \A i \in 1..Len(s) : s[i] = t[i]
  PROVE  s = t
OBVIOUS

(* A command is put in a queue that holds none or one. *)
LEMMA AppendFirst ==
  ASSUME NEW d, NEW e
  PROVE  Append(<<>>, e) = <<e>> /\ Append(<<d>>, e) = <<d, e>>
<1>1. Append(<<>>, e) = <<e>>
  OBVIOUS
<1>2. Append(<<d>>, e) = <<d, e>>
  <2>1. <<d>> \in Seq({d, e}) /\ <<d, e>> \in Seq({d, e}) /\ e \in {d, e}
    OBVIOUS
  <2>2. /\ Append(<<d>>, e) \in Seq({d, e}) /\ Len(Append(<<d>>, e)) = 2
        /\ Append(<<d>>, e)[1] = d /\ Append(<<d>>, e)[2] = e
    BY <2>1
  <2>3. Len(<<d, e>>) = 2 /\ <<d, e>>[1] = d /\ <<d, e>>[2] = e
    BY Zenon
  <2> DEFINE s == Append(<<d>>, e)
             t == <<d, e>>
  <2>4. s \in Seq({d, e}) /\ t \in Seq({d, e}) /\ Len(s) = Len(t) /\ \A i \in 1..Len(s) : s[i] = t[i]
    BY <2>1, <2>2, <2>3
  <2> HIDE DEF s, t
  <2>5. s = t
    BY Zenon, <2>4, SameSequences
  <2> QED BY Zenon, <2>5 DEF s, t
<1> QED BY Zenon, <1>1, <1>2

(* A connection that is in step keeps its types. *)
LEMMA InStepTypes ==
  ASSUME NEW s, NEW commands, NEW h, NEW reports, InStep(s, commands, h, reports)
  PROVE  /\ s \in ConnStates /\ h \in HandlerStates
         /\ commands \in Seq(HandlerIn) /\ reports \in Seq(HandlerOut)
<1>1. PICK t \in ConnStates : Channel(s, reports, t) /\ Agreed(t, commands, h)
  BY Zenon DEF InStep
<1>2. s \in ConnStates /\ reports \in Seq(HandlerOut)
  BY Zenon, <1>1 DEF Channel
<1>3. <<>> \in Seq(HandlerIn) /\ <<"Open">> \in Seq(HandlerIn) /\ <<"Close">> \in Seq(HandlerIn)
      /\ <<"Open", "Close">> \in Seq(HandlerIn)
  BY DEF HandlerIn
<1>4. h \in HandlerStates /\ commands \in Seq(HandlerIn)
  BY Zenon, <1>1, <1>3 DEF Agreed, HandlerStates
<1> QED BY Zenon, <1>2, <1>4

(* A connection that has ended or not begun, and a new one. *)
LEMMA InStepNew ==
  /\ InStep("none", <<>>, "gone", <<>>)
  /\ InStep("Closed", <<>>, "Closed", <<>>)
  /\ InStep("Opening", <<"Open">>, "Closed", <<>>)
<1>1. "none" \in ConnStates /\ "Closed" \in ConnStates /\ "Opening" \in ConnStates
  BY Zenon DEF ConnStates
<1>2. Channel("none", <<>>, "none") /\ Channel("Closed", <<>>, "Closed") /\ Channel("Opening", <<>>, "Opening")
  BY Zenon, <1>1, ChannelEmpty
<1> QED BY Zenon, <1>1, <1>2 DEF InStep, Agreed

(* Nothing is on its way. *)
LEMMA InStepQuiet ==
  ASSUME NEW s, NEW h, InStep(s, <<>>, h, <<>>)
  PROVE  h = IF s = "none" THEN "gone" ELSE s
<1>1. PICK t \in ConnStates : Channel(s, <<>>, t) /\ Agreed(t, <<>>, h)
  BY Zenon DEF InStep
<1>2. s = t
  BY Zenon, <1>1, ChannelOfEmpty
<1>3. <<"Open">> # <<>> /\ <<"Close">> # <<>> /\ <<"Open", "Close">> # <<>>
  BY Zenon
<1> QED BY Zenon, <1>1, <1>2, <1>3 DEF Agreed

(* A connection whose end has been read. *)
LEMMA InStepGone ==
  ASSUME NEW s, NEW commands, InStep(s, commands, "gone", <<>>)
  PROVE  s = "none" /\ commands = <<>>
<1>1. PICK t \in ConnStates : Channel(s, <<>>, t) /\ Agreed(t, commands, "gone")
  BY Zenon DEF InStep
<1> QED BY Zenon, <1>1, ChannelOfEmpty DEF Agreed

(* FullyNegotiatedInbound *)
LEMMA InStepInbound ==
  ASSUME NEW s, NEW commands, NEW reports, InStep(s, commands, "Closed", reports)
  PROVE  InStep(s, commands, "OpenDesiredByRemote", reports \o <<"OpenDesiredByRemote">>)
<1>1. PICK t \in ConnStates : Channel(s, reports, t) /\ Agreed(t, commands, "Closed")
  BY Zenon DEF InStep
<1>2. "OpenDesiredByRemote" \in HandlerOut /\ reports \in Seq(HandlerOut)
  BY Zenon, <1>1 DEF HandlerOut, Channel
<1>3. PICK u \in ConnStates : /\ Reads(t, "OpenDesiredByRemote", u)
                              /\ Agreed(u, commands, "OpenDesiredByRemote")
  BY Zenon, <1>1 DEF Agreed, Reads, ConnStates
<1>4. Channel(s, Append(reports, "OpenDesiredByRemote"), u)
  BY Zenon, <1>1, <1>2, <1>3, ChannelReport
<1> QED BY Zenon, <1>2, <1>3, <1>4, AppendOne DEF InStep

(* OutSubstreamFails *)
LEMMA InStepFails ==
  ASSUME NEW s, NEW commands, NEW reports, InStep(s, commands, "Open", reports)
  PROVE  InStep(s, commands, "Open", reports \o <<"CloseDesired">>)
<1>1. PICK t \in ConnStates : Channel(s, reports, t) /\ Agreed(t, commands, "Open")
  BY Zenon DEF InStep
<1>2. "CloseDesired" \in HandlerOut /\ reports \in Seq(HandlerOut)
  BY Zenon, <1>1 DEF HandlerOut, Channel
<1>3. Reads(t, "CloseDesired", t)
  BY Zenon, <1>1 DEF Agreed, Reads
<1>4. Channel(s, Append(reports, "CloseDesired"), t)
  BY Zenon, <1>1, <1>2, <1>3, ChannelReport
<1> QED BY Zenon, <1>1, <1>2, <1>4, AppendOne DEF InStep

(* ConnectionEnds *)
LEMMA InStepEnds ==
  ASSUME NEW s, NEW commands, NEW h, NEW reports, InStep(s, commands, h, reports), h # "gone",
         NEW n \in 0..Len(reports)
  PROVE  InStep(s, <<>>, "gone", Append(SubSeq(reports, 1, n), "Gone"))
<1>1. PICK t \in ConnStates : Channel(s, reports, t) /\ Agreed(t, commands, h)
  BY Zenon DEF InStep
<1>2. t # "none"
  BY Zenon, <1>1 DEF Agreed
<1>3. PICK r \in ConnStates : r # "none" /\ Channel(s, SubSeq(reports, 1, n), r)
  BY Zenon, <1>1, <1>2, ChannelCut
<1>4. Reads(r, "Gone", "none") /\ "none" \in ConnStates /\ "Gone" \in HandlerOut
  BY Zenon, <1>3 DEF Reads, ConnStates, HandlerOut
<1>5. Channel(s, Append(SubSeq(reports, 1, n), "Gone"), "none")
  BY Zenon, <1>3, <1>4, ChannelReport
<1> QED BY Zenon, <1>4, <1>5 DEF InStep, Agreed

(* The outcome of a negotiation: FullyNegotiatedOutbound, DialUpgradeError. *)
LEMMA InStepNegotiated ==
  ASSUME NEW s, NEW commands, NEW reports, InStep(s, commands, "Opening", reports)
  PROVE  /\ InStep(s, commands, "Open", reports \o <<"OpenResultOk">>)
         /\ InStep(s, commands, "Closed", reports \o <<"OpenResultErr">>)
<1>1. PICK t \in ConnStates : Channel(s, reports, t) /\ Agreed(t, commands, "Opening")
  BY Zenon DEF InStep
<1>2. "OpenResultOk" \in HandlerOut /\ "OpenResultErr" \in HandlerOut /\ reports \in Seq(HandlerOut)
  BY Zenon, <1>1 DEF HandlerOut, Channel
<1>3. PICK u \in ConnStates : Reads(t, "OpenResultOk", u) /\ Agreed(u, commands, "Open")
  BY Zenon, <1>1 DEF Agreed, Reads, ConnStates
<1>4. PICK v \in ConnStates : Reads(t, "OpenResultErr", v) /\ Agreed(v, commands, "Closed")
  BY Zenon, <1>1 DEF Agreed, Reads, ConnStates
<1>5. Channel(s, Append(reports, "OpenResultOk"), u) /\ Channel(s, Append(reports, "OpenResultErr"), v)
  BY Zenon, <1>1, <1>2, <1>3, <1>4, ChannelReport
<1> QED BY Zenon, <1>2, <1>3, <1>4, <1>5, AppendOne DEF InStep

(* What the commands on their way are made of. *)
LEMMA AgreedHead ==
  ASSUME NEW t, NEW commands, NEW h, Agreed(t, commands, h), commands # <<>>
  PROVE  /\ Head(commands) = "Open" =>
              /\ h \in {"Closed", "OpenDesiredByRemote"}
              /\ Agreed(t, Tail(commands), "Opening")
         /\ Head(commands) = "Close" =>
              /\ Tail(commands) = <<>>
              /\ \/ t = "OpeningThenClosing" /\ h = "Opening"
                 \/ t = "Closing" /\ h \in {"Closed", "OpenDesiredByRemote", "Open"}
<1>1. CASE commands = <<"Open">>
  <2>1. Head(commands) = "Open" /\ Tail(commands) = <<>> /\ commands # <<"Close">> /\ commands # <<"Open", "Close">>
    BY <1>1
  <2> QED BY Zenon, <2>1, <1>1 DEF Agreed
<1>2. CASE commands = <<"Open", "Close">>
  <2>1. Head(commands) = "Open" /\ Tail(commands) = <<"Close">> /\ commands # <<"Close">> /\ commands # <<"Open">>
    BY <1>2
  <2> QED BY Zenon, <2>1, <1>2 DEF Agreed
<1>3. CASE commands = <<"Close">>
  <2>1. Head(commands) = "Close" /\ Tail(commands) = <<>> /\ commands # <<"Open", "Close">> /\ commands # <<"Open">>
    BY <1>3
  <2> QED BY Zenon, <2>1, <1>3 DEF Agreed
<1> QED BY Zenon, <1>1, <1>2, <1>3 DEF Agreed

(* OnOpen *)
LEMMA InStepOnOpen ==
  ASSUME NEW s, NEW commands, NEW h, NEW reports, InStep(s, commands, h, reports),
         commands # <<>>, Head(commands) = "Open"
  PROVE  /\ h \in {"Closed", "OpenDesiredByRemote"}
         /\ InStep(s, Tail(commands), "Opening", reports)
BY Zenon, AgreedHead DEF InStep

(* OnClose *)
LEMMA InStepOnClose ==
  ASSUME NEW s, NEW commands, NEW h, NEW reports, InStep(s, commands, h, reports),
         commands # <<>>, Head(commands) = "Close"
  PROVE  InStep(s, Tail(commands), "Closed",
                reports \o (IF h = "Opening" THEN <<"OpenResultErr", "CloseResult">>
                                             ELSE <<"CloseResult">>))
<1>1. PICK t \in ConnStates : Channel(s, reports, t) /\ Agreed(t, commands, h)
  BY Zenon DEF InStep
<1>2. /\ "OpenResultErr" \in HandlerOut /\ "CloseResult" \in HandlerOut /\ reports \in Seq(HandlerOut)
      /\ "Closing" \in ConnStates /\ "Closed" \in ConnStates
  BY Zenon, <1>1 DEF HandlerOut, Channel, ConnStates
<1>3. /\ Tail(commands) = <<>>
      /\ \/ t = "OpeningThenClosing" /\ h = "Opening"
         \/ t = "Closing" /\ h \in {"Closed", "OpenDesiredByRemote", "Open"}
  BY Zenon, <1>1, AgreedHead
<1>4. CASE t = "OpeningThenClosing"
  <2>1. Reads(t, "OpenResultErr", "Closing") /\ Reads("Closing", "CloseResult", "Closed")
    BY Zenon, <1>4 DEF Reads
  <2>2. Channel(s, Append(reports, "OpenResultErr"), "Closing")
    BY Zenon, <1>1, <1>2, <2>1, ChannelReport
  <2>3. Channel(s, Append(Append(reports, "OpenResultErr"), "CloseResult"), "Closed")
    BY Zenon, <1>2, <2>1, <2>2, ChannelReport
  <2>4. reports \o <<"OpenResultErr", "CloseResult">>
          = Append(Append(reports, "OpenResultErr"), "CloseResult")
    BY <1>2, AppendTwo
  <2>5. Channel(s, reports \o <<"OpenResultErr", "CloseResult">>, "Closed")
    BY Zenon, <2>3, <2>4
  <2> QED BY Zenon, <1>2, <1>3, <1>4, <2>5 DEF InStep, Agreed
<1>5. CASE t = "Closing"
  <2>1. Reads(t, "CloseResult", "Closed")
    BY Zenon, <1>5 DEF Reads
  <2>2. Channel(s, Append(reports, "CloseResult"), "Closed")
    BY Zenon, <1>1, <1>2, <2>1, ChannelReport
  <2>3. Channel(s, reports \o <<"CloseResult">>, "Closed")
    BY Zenon, <1>2, <2>2, AppendOne
  <2> QED BY Zenon, <1>2, <1>3, <1>5, <2>3 DEF InStep, Agreed
<1> QED BY Zenon, <1>3, <1>4, <1>5

(* A report is read. *)
LEMMA InStepRead ==
  ASSUME NEW s, NEW commands, NEW h, NEW reports, InStep(s, commands, h, reports), reports # <<>>
  PROVE  \E r \in ConnStates : Reads(s, Head(reports), r) /\ InStep(r, commands, h, Tail(reports))
BY Zenon, ChannelRead DEF InStep

(* Commands that are sent; one to a connection that has ended is lost. *)
Sent(commands, h, msg) == IF h = "gone" THEN commands ELSE Append(commands, msg)

(* `Notifications` asks the handler to open the substreams. *)
LEMMA InStepTellOpen ==
  ASSUME NEW s \in {"Closed", "OpenDesiredByRemote"}, NEW commands, NEW h, NEW reports,
         InStep(s, commands, h, reports)
  PROVE  InStep("Opening", Sent(commands, h, "Open"), h, reports)
<1>1. PICK t \in ConnStates : Channel(s, reports, t) /\ Agreed(t, commands, h)
  BY Zenon DEF InStep
<1>2. t \in {"Closed", "OpenDesiredByRemote", "none"} /\ Channel("Opening", reports, Opened(t))
  BY Zenon, <1>1, ChannelOpen
<1>3. Append(<<>>, "Open") = <<"Open">>
  BY Zenon, AppendFirst
<1>4. Opened(t) \in ConnStates /\ Agreed(Opened(t), Sent(commands, h, "Open"), h)
  BY Zenon, <1>1, <1>2, <1>3 DEF Agreed, Opened, Sent, ConnStates
<1> QED BY Zenon, <1>2, <1>4 DEF InStep

(* `Notifications` asks the handler to close the substreams. *)
LEMMA InStepTellClose ==
  ASSUME NEW s \in {"OpenDesiredByRemote", "Opening", "Open"}, NEW commands, NEW h, NEW reports,
         InStep(s, commands, h, reports)
  PROVE  InStep(Closes(s), Sent(commands, h, "Close"), h, reports)
<1>1. PICK t \in ConnStates : Channel(s, reports, t) /\ Agreed(t, commands, h)
  BY Zenon DEF InStep
<1>2. /\ t \in {"Closed", "OpenDesiredByRemote", "Opening", "Open", "none"}
      /\ Channel(Closes(s), reports, Closes(t))
  BY Zenon, <1>1, ChannelClose
<1>3. Append(<<>>, "Close") = <<"Close">> /\ Append(<<"Open">>, "Close") = <<"Open", "Close">>
  BY Zenon, AppendFirst
<1>4. Closes(t) \in ConnStates /\ Agreed(Closes(t), Sent(commands, h, "Close"), h)
  BY Zenon, <1>1, <1>2, <1>3 DEF Agreed, Closes, Sent, ConnStates
<1> QED BY Zenon, <1>2, <1>4 DEF InStep

-----------------------------------------------------------------------------
(* The requests of a handler. *)

(* A request that was given up is remembered only where it can still be     *)
(* taken over or awaited: not in a state that has, or needs, one of its own.*)
GivenUpOnlyWhileClosed ==
  \A c \in Conns : handler[c] \in {"gone", "Opening", "Open"} => ~pending[c]

(* The inductive invariant: OneRequestAtMost is not inductive alone, since  *)
(* an Open handler with a remembered request would keep the memory of it    *)
(* when the negotiation ends.                                               *)
RequestInv ==
  /\ handler \in [Conns -> HandlerStates]
  /\ pending \in [Conns -> BOOLEAN]
  /\ requested \in [Conns -> Nat]
  /\ OneRequestAtMost
  /\ GivenUpOnlyWhileClosed

(* No handler exists at the start. *)
LEMMA InitRequestInv == Init => RequestInv
BY DEF Init, NotifInit, HandlerInit, RequestInv, HandlerStates, OneRequestAtMost,
   GivenUpOnlyWhileClosed

(* A step that leaves the handlers alone keeps what is true of them. *)
LEMMA UnchangedRequestInv ==
  ASSUME RequestInv, UNCHANGED handlerVars
  PROVE  RequestInv'
BY Zenon DEF RequestInv, handlerVars, OneRequestAtMost, GivenUpOnlyWhileClosed

(* A handler that enters state s with n requests under way, all of which it *)
(* knows of, keeps the invariant.                                           *)
LEMMA BecomeRequestInv ==
  ASSUME RequestInv, NEW c \in Conns, NEW s \in HandlerStates,
         NEW b \in BOOLEAN, NEW o, NEW n \in Nat,
         Become(c, s, b, o),
         requested' = [requested EXCEPT ![c] = n],
         n = IF s = "Opening" \/ b THEN 1 ELSE 0,
         s \in {"gone", "Opening", "Open"} => ~b
  PROVE  RequestInv'
<1>1. /\ handler' = [handler EXCEPT ![c] = s]
      /\ pending' = [pending EXCEPT ![c] = b]
  BY Zenon DEF Become
<1>2. /\ handler' \in [Conns -> HandlerStates]
      /\ pending' \in [Conns -> BOOLEAN]
      /\ requested' \in [Conns -> Nat]
  BY Zenon, <1>1 DEF RequestInv
<1>3. ASSUME NEW d \in Conns
      PROVE  /\ requested'[d] = IF handler'[d] = "Opening" \/ pending'[d] THEN 1 ELSE 0
             /\ handler'[d] \in {"gone", "Opening", "Open"} => ~pending'[d]
  <2>1. CASE d = c
    BY Zenon, <1>1, <2>1 DEF RequestInv
  <2>2. CASE d # c
    BY Zenon, <1>1, <2>2 DEF RequestInv, OneRequestAtMost, GivenUpOnlyWhileClosed
  <2> QED BY Zenon, <2>1, <2>2
<1> QED BY Zenon, <1>2, <1>3 DEF RequestInv, OneRequestAtMost, GivenUpOnlyWhileClosed

(* What the handlers of handler.rs do themselves. *)
LEMMA HandlerKeepsRequestInv ==
  ASSUME RequestInv, NEW c \in Conns, HandlerActs(c) \/ HandlerWorks(c)
  PROVE  RequestInv'
<1>0. /\ handler[c] \in HandlerStates /\ pending[c] \in BOOLEAN /\ requested[c] \in Nat
      /\ requested[c] = IF handler[c] = "Opening" \/ pending[c] THEN 1 ELSE 0
      /\ handler[c] \in {"gone", "Opening", "Open"} => ~pending[c]
  BY Zenon DEF RequestInv, OneRequestAtMost, GivenUpOnlyWhileClosed
<1>1. CASE FullyNegotiatedInbound(c)
  <2> DEFINE b == pending[c]
  <2>1. Become(c, "OpenDesiredByRemote", b, FALSE) /\ b \in BOOLEAN
    BY Zenon, <1>0, <1>1 DEF FullyNegotiatedInbound
  <2>2. requested' = [requested EXCEPT ![c] = requested[c]]
    BY Zenon, <1>1 DEF FullyNegotiatedInbound, RequestInv
  <2>3. requested[c] = IF "OpenDesiredByRemote" = "Opening" \/ b THEN 1 ELSE 0
    BY Zenon, <1>0, <1>1 DEF FullyNegotiatedInbound
  <2> HIDE DEF b
  <2> QED BY Zenon, <1>0, <2>1, <2>2, <2>3, BecomeRequestInv DEF HandlerStates
<1>2. CASE OutSubstreamFails(c)
  BY Zenon, <1>2 DEF OutSubstreamFails, RequestInv, OneRequestAtMost, GivenUpOnlyWhileClosed
<1>3. CASE ConnectionEnds(c)
  BY Zenon, <1>0, <1>3, BecomeRequestInv DEF ConnectionEnds, HandlerStates
<1>4. CASE OnOpen(c)
  <2>1. CASE handler[c] \in {"Opening", "Open"}
    BY Zenon, <1>4, <2>1, UnchangedRequestInv DEF OnOpen
  <2>2. CASE handler[c] \notin {"Opening", "Open"}
    <3>1. Become(c, "Opening", FALSE, FALSE)
      BY Zenon, <1>4, <2>2 DEF OnOpen
    <3>2. requested' = [requested EXCEPT ![c] = 1]
      <4>1. RequestSubstream(c)
        BY Zenon, <1>4, <2>2 DEF OnOpen
      <4>2. CASE pending[c]
        BY Zenon, <1>0, <4>1, <4>2 DEF RequestSubstream
      <4>3. CASE ~pending[c]
        <5>1. requested[c] = 0
          BY Zenon, <1>0, <2>2, <4>3
        <5>2. requested' = [requested EXCEPT ![c] = requested[c] + 1]
          BY Zenon, <4>1, <4>3 DEF RequestSubstream
        <5> QED BY <5>1, <5>2
      <4> QED BY Zenon, <4>2, <4>3
    <3> QED BY Zenon, <3>1, <3>2, BecomeRequestInv DEF HandlerStates
  <2> QED BY Zenon, <2>1, <2>2
<1>5. CASE OnClose(c)
  <2> DEFINE b == pending[c] \/ handler[c] = "Opening"
  <2>1. Become(c, "Closed", b, FALSE) /\ b \in BOOLEAN
    BY Zenon, <1>0, <1>5 DEF OnClose
  <2>2. requested' = [requested EXCEPT ![c] = requested[c]]
    BY Zenon, <1>5 DEF OnClose, RequestInv
  <2>3. requested[c] = IF "Closed" = "Opening" \/ b THEN 1 ELSE 0
    BY Zenon, <1>0
  <2> HIDE DEF b
  <2> QED BY Zenon, <1>0, <2>1, <2>2, <2>3, BecomeRequestInv DEF HandlerStates
<1>6. CASE FullyNegotiatedOutbound(c) \/ DialUpgradeError(c)
  <2>1. requested[c] > 0 /\ requested' = [requested EXCEPT ![c] = requested[c] - 1]
    BY Zenon, <1>6 DEF FullyNegotiatedOutbound, DialUpgradeError
  <2>2. requested[c] = 1 /\ (handler[c] = "Opening" \/ pending[c])
    BY <1>0, <2>1
  <2>3. PICK s \in HandlerStates : s # "Opening" /\ \E o : Become(c, s, FALSE, o)
    BY Zenon, <1>0, <1>6, <2>2
       DEF FullyNegotiatedOutbound, DialUpgradeError, ForgetRequest, HandlerStates
  <2>4. requested' = [requested EXCEPT ![c] = 0]
    BY <2>1, <2>2
  <2> QED BY Zenon, <2>3, <2>4, BecomeRequestInv
<1> QED BY Zenon, <1>1, <1>2, <1>3, <1>4, <1>5, <1>6 DEF HandlerActs, HandlerWorks

(* Every step of the network, of the controller and of time. *)
LEMMA NextRequestInv == RequestInv /\ [Next]_vars => RequestInv'
<1> SUFFICES ASSUME RequestInv, [Next]_vars PROVE RequestInv'
  BY Zenon
<1>1. CASE UNCHANGED vars
  BY Zenon, <1>1, UnchangedRequestInv DEF vars
<1>2. CASE OnController(ControllerCommands) \/ ControllerReads
  BY Zenon, <1>2, UnchangedRequestInv DEF OnController, ControllerReads
<1>3. CASE NetworkStep
  <2>1. CASE \E c \in Conns : HandlerActs(c) \/ HandlerWorks(c)
    BY Zenon, <2>1, HandlerKeepsRequestInv
  <2>2. ASSUME NEW c \in Conns, ConnectionEstablished(c) PROVE RequestInv'
    <3>1. /\ handler[c] = "gone" /\ handler' = [handler EXCEPT ![c] = "Closed"]
          /\ pending' = pending /\ requested' = requested
      BY Zenon, <2>2 DEF ConnectionEstablished
    <3> QED BY Zenon, <3>1 DEF RequestInv, OneRequestAtMost, GivenUpOnlyWhileClosed, HandlerStates
  <2>3. ASSUME NEW c \in Conns, ConnectionClosed(c) \/ HandlerEvent(c) PROVE RequestInv'
    <3>1. UNCHANGED handlerVars
      BY Zenon, <2>3 DEF ConnectionClosed, HandlerEvent, OpenDesiredByRemote, CloseDesired,
         CloseResult, OpenResultOk, OpenResultErr, FromHandler
    <3> QED BY Zenon, <3>1, UnchangedRequestInv
  <2>4. CASE \/ PeersetMessage \/ ValidationStep \/ DialFailure \/ DeadlinePasses
             \/ UNCHANGED <<handlerVars, fromHandler>> /\ DisconnectPeer
             \/ \E t \in delays : DelayFires(t)
    <3>1. UNCHANGED handlerVars
      BY Zenon, <2>4 DEF PeersetMessage, ValidationStep, DialFailure, DeadlinePasses, DelayFires
    <3> QED BY Zenon, <3>1, UnchangedRequestInv
  <2> QED BY Zenon, <1>3, <2>1, <2>2, <2>3, <2>4 DEF NetworkStep
<1> QED BY Zenon, <1>1, <1>2, <1>3 DEF Next, OnNetwork

(* However often a connection is told to open and close, its handler        *)
(* (handler.rs) negotiates at most one outbound substream at a time, and    *)
(* exactly while it is Opening or remembers one with pending_opening; an    *)
(* outcome never reaches a handler without a request.                       *)
THEOREM OneRequest == Spec => []OneRequestAtMost
<1>1. RequestInv => OneRequestAtMost
  BY Zenon DEF RequestInv
<1> QED BY <1>1, InitRequestInv, NextRequestInv, PTL DEF Spec

-----------------------------------------------------------------------------
(* The books. *)

(* The peer has no connections in these states. *)
Unconnected == {"absent", "Backoff", "Requested", "PendingRequest"}

(* Connection c, its commands, its handler and its reports are in step. *)
LinkInStep(c) == InStep(conn[c], toHandler[c], handler[c], fromHandler[c])

(* What the state of the peer says about its connections. *)
Standing(state, cn) ==
  /\ state \in Unconnected <=> \A c \in Conns : cn[c] = "none"
  /\ state = "Enabled" <=> \E c \in Conns : cn[c] \in Active
  /\ state = "Incoming" <=> \E c \in Conns : cn[c] = "OpenDesiredByRemote"

(* The list has every connection once. *)
Listed(list, cn) ==
  /\ list \in Seq(Conns)
  /\ \A c \in Conns : cn[c] # "none" <=> \E k \in DOMAIN list : list[k] = c
  /\ \A j, k \in DOMAIN list : list[j] = list[k] => j = k

(* The API has been told of the peer exactly while a connection is open. *)
Told(n, cn) == n = IF \E c \in Conns : cn[c] = "Open" THEN 1 ELSE 0

(* One entry per request, and one that is alive while the peer is Incoming. *)
Entries(entries, p, next) ==
  /\ \A e, f \in entries : e.id = f.id => e = f
  /\ \A e \in entries : e.id < next
  /\ \A e \in entries : e.alive => p.state = "Incoming" /\ e.id = p.index
  /\ p.state = "Incoming" => [id |-> p.index, alive |-> TRUE] \in entries

PeerRecord == [state : PeerStates, backoff : BOOLEAN,
               timer : 0..MaxDelays, index : 0..MaxIncoming, rejected : BOOLEAN]

EntryRecord == [id : 1..MaxIncoming, alive : BOOLEAN]

(* The types of what the link between peer and connections does not fix. *)
RestTyped ==
  /\ outSub \in [Conns -> BOOLEAN]
  /\ peer \in PeerRecord
  /\ delays \in SUBSET (1..MaxDelays)
  /\ incoming \in SUBSET EntryRecord
  /\ nextIncomingIndex \in 1..MaxIncoming + 1
  /\ validations \in SUBSET (1..MaxIncoming) /\ abandoned \in SUBSET (1..MaxIncoming)
  /\ apiSink \in Conns \cup {"closed"}

Functional ==
  /\ conn \in [Conns -> ConnStates]
  /\ toHandler \in [Conns -> Seq(HandlerIn)]
  /\ fromHandler \in [Conns -> Seq(HandlerOut)]

(* The one assertion that is known to fail. *)
Excepted == {"desired while enabled"}

(* The inductive invariant. *)
BooksInv ==
  /\ RequestInv
  /\ RestTyped
  /\ Functional
  /\ \A c \in Conns : LinkInStep(c)
  /\ Standing(peer.state, conn)
  /\ Listed(order, conn)
  /\ Told(numPeers, conn)
  /\ Entries(incoming, peer, nextIncomingIndex)
  /\ failed \subseteq Excepted

-----------------------------------------------------------------------------
(* The invariant says what is to be shown. *)

(* The invariant holds the types of the variables. *)
LEMMA BooksInvTypes == BooksInv => NotifTypeOK
<1> SUFFICES ASSUME BooksInv PROVE NotifTypeOK
  BY Zenon
<1>1. HandlerTypeOK
  BY Zenon DEF BooksInv, RequestInv, RestTyped, Functional, HandlerTypeOK
<1>2. numPeers \in Nat
  BY Zenon DEF BooksInv, Told
<1>3. order \in Seq(Conns) /\ conn \in [Conns -> ConnStates]
  BY Zenon DEF BooksInv, Listed, Functional
<1>4. RestTyped
  BY Zenon DEF BooksInv
<1> QED BY Zenon, <1>1, <1>2, <1>3, <1>4 DEF RestTyped, NotifTypeOK, PeerRecord, EntryRecord

(* The invariant says of the books, the handlers and the assertions what the runs check. *)
LEMMA BooksInvImplies == BooksInv /\ Sane => BooksInStep /\ HandlersAgree /\ AssertionsHold
<1> SUFFICES ASSUME BooksInv, Sane PROVE BooksInStep /\ HandlersAgree /\ AssertionsHold
  BY Zenon
<1>1. ApiInStep
  <2>1. AnyIn(conn, {"Open"}) <=> \E c \in Conns : conn[c] = "Open"
    BY Zenon DEF AnyIn, In
  <2>2. AnyIn(conn, {"Open"}) => peer.state = "Enabled"
    BY Zenon, <2>1 DEF BooksInv, Standing, Active
  <2> QED BY Zenon, <2>1, <2>2 DEF BooksInv, Told, ApiInStep
<1>2. AliveIsIncoming
  BY Zenon DEF BooksInv, Entries, AliveIsIncoming, AliveEntries, RestTyped, EntryRecord
<1>3. HandlersAgree
  BY Zenon, InStepQuiet DEF BooksInv, LinkInStep, HandlersAgree
<1> QED BY Zenon, <1>1, <1>2, <1>3 DEF BooksInStep, AssertionsHold, BooksInv, Excepted

(* There is nothing at the start. *)
LEMMA InitBooksInv == Init => BooksInv
<1> SUFFICES ASSUME Init PROVE BooksInv
  BY Zenon
<1>1. RequestInv
  BY Zenon, InitRequestInv
<1>2. RestTyped /\ Functional
  BY BoundsNat DEF Init, NotifInit, HandlerInit, RestTyped, Functional, PeerRecord, EntryRecord, Absent,
     PeerStates, NoConns, ConnStates
<1>3. \A c \in Conns : LinkInStep(c)
  BY Zenon, InStepNew DEF Init, NotifInit, HandlerInit, LinkInStep, NoConns
<1>4. Standing(peer.state, conn)
  BY Zenon DEF Init, NotifInit, Standing, Absent, NoConns, Unconnected, Active
<1>5. Listed(order, conn)
  BY DEF Init, NotifInit, Listed, NoConns
<1>6. Told(numPeers, conn) /\ Entries(incoming, peer, nextIncomingIndex) /\ failed = {}
  BY Zenon DEF Init, NotifInit, HandlerInit, Told, Entries, NoConns, Absent
<1> QED BY Zenon, <1>1, <1>2, <1>3, <1>4, <1>5, <1>6 DEF BooksInv

-----------------------------------------------------------------------------
(* What the handlers do themselves. *)

(* The handler of c moves; `Notifications` does not. *)
LEMMA OneHandlerMoves ==
  ASSUME BooksInv, RequestInv', NEW c \in Conns, NEW h, NEW commands, NEW reports,
         UNCHANGED notifVars, failed' = failed, outSub' \in [Conns -> BOOLEAN],
         handler' = [handler EXCEPT ![c] = h],
         toHandler' = [toHandler EXCEPT ![c] = commands],
         fromHandler' = [fromHandler EXCEPT ![c] = reports],
         InStep(conn[c], commands, h, reports)
  PROVE  BooksInv'
<1>1. UNCHANGED <<peer, conn, order, delays, incoming, nextIncomingIndex, validations, abandoned,
                  numPeers, apiSink>>
  BY Zenon DEF notifVars, peerVars, inVars, apiVars
<1>2. commands \in Seq(HandlerIn) /\ reports \in Seq(HandlerOut)
  BY Zenon, InStepTypes
<1>3. RestTyped' /\ Functional'
  BY Zenon, <1>1, <1>2 DEF BooksInv, RestTyped, Functional
<1>4. ASSUME NEW d \in Conns PROVE LinkInStep(d)'
  <2>1. /\ handler \in [Conns -> HandlerStates] /\ toHandler \in [Conns -> Seq(HandlerIn)]
        /\ fromHandler \in [Conns -> Seq(HandlerOut)]
    BY Zenon DEF BooksInv, RequestInv, Functional
  <2>2. CASE d = c
    BY Zenon, <1>1, <2>1, <2>2 DEF LinkInStep
  <2>3. CASE d # c
    <3>1. handler'[d] = handler[d] /\ toHandler'[d] = toHandler[d] /\ fromHandler'[d] = fromHandler[d]
      BY Zenon, <2>1, <2>3
    <3>2. LinkInStep(d)
      BY Zenon DEF BooksInv
    <3> QED BY Zenon, <1>1, <3>1, <3>2 DEF LinkInStep
  <2> QED BY Zenon, <2>2, <2>3
<1>5. /\ Standing(peer.state, conn)' /\ Listed(order, conn)' /\ Told(numPeers, conn)'
      /\ Entries(incoming, peer, nextIncomingIndex)'
  <2>1. /\ Standing(peer.state, conn) /\ Listed(order, conn) /\ Told(numPeers, conn)
        /\ Entries(incoming, peer, nextIncomingIndex)
    BY Zenon DEF BooksInv
  <2> QED BY Zenon, <1>1, <2>1 DEF Standing, Listed, Told, Entries
<1> QED BY Zenon, <1>3, <1>4, <1>5 DEF BooksInv

(* What a handler does by itself leaves its connection in step and touches no book. *)
LEMMA HandlerKeepsBooks ==
  ASSUME BooksInv, NEW c \in Conns, HandlerActs(c) \/ HandlerWorks(c)
  PROVE  BooksInv'
<1> DEFINE T == toHandler[c]
           F == fromHandler[c]
<1>0. RequestInv /\ RequestInv'
  BY Zenon, HandlerKeepsRequestInv DEF BooksInv
<1>1. /\ handler \in [Conns -> HandlerStates] /\ toHandler \in [Conns -> Seq(HandlerIn)]
      /\ fromHandler \in [Conns -> Seq(HandlerOut)] /\ outSub \in [Conns -> BOOLEAN]
      /\ pending \in [Conns -> BOOLEAN]
  BY Zenon DEF BooksInv, RequestInv, Functional, RestTyped
<1>2. UNCHANGED notifVars
  BY Zenon DEF HandlerActs, HandlerWorks
<1>3. InStep(conn[c], T, handler[c], F)
  BY Zenon DEF BooksInv, LinkInStep
<1>4. toHandler = [toHandler EXCEPT ![c] = T] /\ fromHandler = [fromHandler EXCEPT ![c] = F]
      /\ handler = [handler EXCEPT ![c] = handler[c]]
  BY Zenon, <1>1
<1>5. CASE FullyNegotiatedInbound(c)
  <2>1. /\ handler[c] = "Closed" /\ handler' = [handler EXCEPT ![c] = "OpenDesiredByRemote"]
        /\ outSub' \in [Conns -> BOOLEAN] /\ failed' = failed /\ toHandler' = [toHandler EXCEPT ![c] = T]
        /\ fromHandler' = [fromHandler EXCEPT ![c] = F \o <<"OpenDesiredByRemote">>]
    BY Zenon, <1>1, <1>4, <1>5 DEF FullyNegotiatedInbound, Become, Report
  <2>2. InStep(conn[c], T, "OpenDesiredByRemote", F \o <<"OpenDesiredByRemote">>)
    BY Zenon, <1>3, <2>1, InStepInbound
  <2> QED BY Zenon, <1>0, <1>2, <2>1, <2>2, OneHandlerMoves
<1>6. CASE OutSubstreamFails(c)
  <2>1. /\ handler[c] = "Open" /\ handler' = [handler EXCEPT ![c] = "Open"]
        /\ outSub' \in [Conns -> BOOLEAN] /\ failed' = failed /\ toHandler' = [toHandler EXCEPT ![c] = T]
        /\ fromHandler' = [fromHandler EXCEPT ![c] = F \o <<"CloseDesired">>]
    BY Zenon, <1>1, <1>4, <1>6 DEF OutSubstreamFails, Report
  <2>2. InStep(conn[c], T, "Open", F \o <<"CloseDesired">>)
    BY Zenon, <1>3, <2>1, InStepFails
  <2> QED BY Zenon, <1>0, <1>2, <2>1, <2>2, OneHandlerMoves
<1>7. CASE ConnectionEnds(c)
  <2>1. PICK n \in 0..Len(F) :
          fromHandler' = [fromHandler EXCEPT ![c] = Append(SubSeq(F, 1, n), "Gone")]
    BY Zenon, <1>7 DEF ConnectionEnds
  <2>2. /\ handler[c] # "gone" /\ handler' = [handler EXCEPT ![c] = "gone"]
        /\ outSub' \in [Conns -> BOOLEAN] /\ failed' = failed /\ toHandler' = [toHandler EXCEPT ![c] = <<>>]
    BY Zenon, <1>1, <1>7 DEF ConnectionEnds, Become
  <2>3. InStep(conn[c], <<>>, "gone", Append(SubSeq(F, 1, n), "Gone"))
    BY Zenon, <1>3, <2>2, InStepEnds
  <2> QED BY Zenon, <1>0, <1>2, <2>1, <2>2, <2>3, OneHandlerMoves
<1>8. CASE OnOpen(c)
  <2>1. T # <<>> /\ Head(T) = "Open" /\ toHandler' = [toHandler EXCEPT ![c] = Tail(T)]
    BY Zenon, <1>8 DEF OnOpen, Receive
  <2>2. handler[c] \in {"Closed", "OpenDesiredByRemote"} /\ InStep(conn[c], Tail(T), "Opening", F)
    BY Zenon, <1>3, <2>1, InStepOnOpen
  <2>3. /\ handler' = [handler EXCEPT ![c] = "Opening"] /\ outSub' \in [Conns -> BOOLEAN]
        /\ failed' = failed /\ fromHandler' = [fromHandler EXCEPT ![c] = F]
    BY Zenon, <1>1, <1>4, <1>8, <2>2 DEF OnOpen, Become
  <2> QED BY Zenon, <1>0, <1>2, <2>1, <2>2, <2>3, OneHandlerMoves
<1>9. CASE OnClose(c)
  <2> DEFINE R == F \o (IF handler[c] = "Opening" THEN <<"OpenResultErr", "CloseResult">>
                                                  ELSE <<"CloseResult">>)
  <2>1. T # <<>> /\ Head(T) = "Close" /\ toHandler' = [toHandler EXCEPT ![c] = Tail(T)]
    BY Zenon, <1>9 DEF OnClose, Receive
  <2>2. InStep(conn[c], Tail(T), "Closed", R)
    BY Zenon, <1>3, <2>1, InStepOnClose
  <2>3. /\ handler' = [handler EXCEPT ![c] = "Closed"] /\ outSub' \in [Conns -> BOOLEAN]
        /\ failed' = failed /\ fromHandler' = [fromHandler EXCEPT ![c] = R]
    BY Zenon, <1>1, <1>4, <1>9 DEF OnClose, Become, Report
  <2> QED BY Zenon, <1>0, <1>2, <2>1, <2>2, <2>3, OneHandlerMoves
<1>10. CASE FullyNegotiatedOutbound(c) \/ DialUpgradeError(c)
  <2>1. requested[c] > 0 /\ toHandler' = [toHandler EXCEPT ![c] = T]
    BY Zenon, <1>4, <1>10 DEF FullyNegotiatedOutbound, DialUpgradeError
  <2>2. (handler[c] = "Opening" \/ pending[c]) /\ (pending[c] => handler[c] \notin {"gone", "Opening", "Open"})
    BY <1>0, <2>1 DEF RequestInv, OneRequestAtMost, GivenUpOnlyWhileClosed
  <2>3. CASE handler[c] = "Opening"
    <3>1. /\ InStep(conn[c], T, "Open", F \o <<"OpenResultOk">>)
          /\ InStep(conn[c], T, "Closed", F \o <<"OpenResultErr">>)
      BY Zenon, <1>3, <2>3, InStepNegotiated
    <3>2. CASE FullyNegotiatedOutbound(c)
      <4>1. /\ handler' = [handler EXCEPT ![c] = "Open"] /\ outSub' \in [Conns -> BOOLEAN]
            /\ failed' = failed /\ fromHandler' = [fromHandler EXCEPT ![c] = F \o <<"OpenResultOk">>]
        BY Zenon, <1>1, <2>3, <3>2 DEF FullyNegotiatedOutbound, Become, Report
      <4> QED BY Zenon, <1>0, <1>2, <2>1, <3>1, <4>1, OneHandlerMoves
    <3>3. CASE DialUpgradeError(c)
      <4>1. /\ handler' = [handler EXCEPT ![c] = "Closed"] /\ outSub' \in [Conns -> BOOLEAN]
            /\ failed' = failed /\ fromHandler' = [fromHandler EXCEPT ![c] = F \o <<"OpenResultErr">>]
        BY Zenon, <1>1, <2>3, <3>3 DEF DialUpgradeError, Become, Report
      <4> QED BY Zenon, <1>0, <1>2, <2>1, <3>1, <4>1, OneHandlerMoves
    <3> QED BY Zenon, <1>10, <3>2, <3>3
  <2>4. CASE handler[c] # "Opening"
    <3>1. pending[c] /\ handler[c] \in {"Closed", "OpenDesiredByRemote"}
      BY Zenon, <1>1, <2>2, <2>4 DEF HandlerStates
    <3>2. ForgetRequest(c) /\ fromHandler' = [fromHandler EXCEPT ![c] = F]
      BY Zenon, <1>4, <1>10, <3>1 DEF FullyNegotiatedOutbound, DialUpgradeError
    <3>3. /\ handler' = [handler EXCEPT ![c] = handler[c]] /\ outSub' \in [Conns -> BOOLEAN]
          /\ failed' = failed
      BY Zenon, <1>1, <3>1, <3>2 DEF ForgetRequest, Become, DebugAssert
    <3> QED BY Zenon, <1>0, <1>2, <1>3, <2>1, <3>2, <3>3, OneHandlerMoves
  <2> QED BY Zenon, <2>3, <2>4
<1> QED BY Zenon, <1>5, <1>6, <1>7, <1>8, <1>9, <1>10 DEF HandlerActs, HandlerWorks

-----------------------------------------------------------------------------
(* What the steps of `Notifications` are made of. *)

(* A set of numbers that is not empty has a least one. *)
LEMMA MinInSet == ASSUME NEW S \in SUBSET Nat, S # {} PROVE Min(S) \in S
<1>1. PICK x \in S : \A y \in S : ~ (<<y, x>> \in OpToRel(<, Nat))
  BY Zenon, NatLessThanWellFounded, WFMin
<1>2. \A y \in S : x =< y
  <2> SUFFICES ASSUME NEW y \in S, ~(x =< y) PROVE FALSE
    BY Zenon
  <2>1. <<y, x>> \in Nat \X Nat /\ y < x
    OBVIOUS
  <2>2. <<y, x>> \in OpToRel(<, Nat)
    BY Zenon, <2>1 DEF OpToRel
  <2> QED BY Zenon, <1>1, <2>2
<1> QED BY Zenon, <1>2 DEF Min

(* The first connection of the list in a state is one of the peer's. *)
LEMMA FirstInIs ==
  ASSUME NEW cn, NEW sts, Listed(order, conn), AnyIn(cn, sts),
         \A c \in Conns : cn[c] \in sts => conn[c] # "none"
  PROVE  FirstIn(cn, sts) \in Conns /\ cn[FirstIn(cn, sts)] \in sts
<1> DEFINE S == {k \in DOMAIN order : cn[order[k]] \in sts}
<1>1. PICK c \in Conns : cn[c] \in sts
  BY Zenon DEF AnyIn, In
<1>2. PICK k \in DOMAIN order : order[k] = c
  BY Zenon, <1>1 DEF Listed
<1>3. order \in Seq(Conns) /\ DOMAIN order = 1..Len(order)
  BY DEF Listed
<1>4. S \in SUBSET Nat /\ S # {}
  BY <1>1, <1>2, <1>3
<1> HIDE DEF S
<1>5. Min(S) \in S
  BY Zenon, <1>4, MinInSet
<1> QED BY <1>3, <1>5 DEF S, FirstIn

(* A connection that is new, or none at all, in the list. *)
LEMMA ListedKept ==
  ASSUME NEW list, NEW cn, NEW dn, Listed(list, cn),
         \A c \in Conns : cn[c] # "none" <=> dn[c] # "none"
  PROVE  Listed(list, dn)
BY Zenon DEF Listed

(* A connection that is established joins the list. *)
LEMMA ListedNew ==
  ASSUME NEW list, NEW cn, NEW dn, NEW c \in Conns, Listed(list, cn), cn[c] = "none", dn[c] # "none",
         \A d \in Conns \ {c} : dn[d] = cn[d]
  PROVE  Listed(Append(list, c), dn)
<1> DEFINE new == Append(list, c)
<1>1. list \in Seq(Conns) /\ DOMAIN list = 1..Len(list) /\ Len(list) \in Nat
  BY DEF Listed
<1>2. /\ new \in Seq(Conns) /\ DOMAIN new = 1..Len(list) + 1
      /\ new[Len(list) + 1] = c /\ \A k \in DOMAIN list : new[k] = list[k]
  BY <1>1
<1>3. \A k \in DOMAIN list : list[k] # c
  BY Zenon DEF Listed
<1> HIDE DEF new
<1>4. ASSUME NEW d \in Conns PROVE dn[d] # "none" <=> \E k \in DOMAIN new : new[k] = d
  <2>1. CASE d = c
    BY <1>1, <1>2, <2>1
  <2>2. CASE d # c
    <3>1. dn[d] # "none" <=> \E k \in DOMAIN list : list[k] = d
      BY Zenon, <2>2 DEF Listed
    <3> QED BY <1>1, <1>2, <2>2, <3>1
  <2> QED BY Zenon, <2>1, <2>2
<1>5. ASSUME NEW j \in DOMAIN new, NEW k \in DOMAIN new, new[j] = new[k] PROVE j = k
  <2>1. CASE j \in DOMAIN list /\ k \in DOMAIN list
    BY Zenon, <1>2, <1>5, <2>1 DEF Listed
  <2>2. CASE j = Len(list) + 1 \/ k = Len(list) + 1
    BY <1>1, <1>2, <1>3, <1>5, <2>2
  <2> QED BY <1>1, <1>2, <2>1, <2>2
<1> QED BY Zenon, <1>2, <1>4, <1>5 DEF Listed, new

(* The connection leaves the list. *)
LEMMA ListedForget ==
  ASSUME NEW c \in Conns, Listed(order, conn), conn \in [Conns -> ConnStates], Forget(c)
  PROVE  Listed(order, conn)'
<1>1. CASE conn[c] = "none"
  <2>1. conn' = conn /\ order' = order
    BY Zenon, <1>1 DEF Forget, Without
  <2> QED BY Zenon, <2>1 DEF Listed
<1>2. CASE conn[c] # "none"
  <2> DEFINE p == Position(c)
             n == Len(order)
             new == SubSeq(order, 1, p - 1) \o SubSeq(order, p + 1, n)
  <2>1. order \in Seq(Conns) /\ n \in Nat /\ DOMAIN order = 1..n
    BY DEF Listed
  <2>2. p \in 1..n /\ order[p] = c
    BY Zenon, <1>2, <2>1 DEF Listed, Position
  <2>3. conn' = [conn EXCEPT ![c] = "none"] /\ order' = new
    BY Zenon, <1>2 DEF Forget, Without
  <2> HIDE DEF p, n
  <2>4. \A k \in 1..n : order[k] = c => k = p
    BY Zenon, <2>1, <2>2 DEF Listed
  <2>5. /\ new \in Seq(Conns) /\ DOMAIN new = 1..n - 1
        /\ \A k \in 1..n - 1 : new[k] = IF k < p THEN order[k] ELSE order[k + 1]
    <3> DEFINE a == SubSeq(order, 1, p - 1)
               b == SubSeq(order, p + 1, n)
    <3>1. /\ a \in Seq(Conns) /\ Len(a) = p - 1
          /\ \A k \in 1..p - 1 : a[k] = order[k]
      BY <2>1, <2>2 DEF n
    <3>2. /\ b \in Seq(Conns) /\ Len(b) = n - p
          /\ \A k \in 1..n - p : b[k] = order[p + k]
      <4>1. p + 1 \in Int /\ n \in Int /\ \A i \in p + 1..n : order[i] \in Conns
        BY <2>1, <2>2
      <4>2. /\ b \in Seq(Conns) /\ Len(b) = (IF p + 1 <= n THEN n - (p + 1) + 1 ELSE 0)
            /\ \A i \in 1..n - (p + 1) + 1 : b[i] = order[(p + 1) + i - 1]
        BY <2>1, <2>2, <4>1
      <4>3. n - (p + 1) + 1 = n - p /\ (p + 1 <= n \/ n - p = 0)
        BY <2>1, <2>2
      <4>4. \A i \in 1..n - p : (p + 1) + i - 1 = p + i
        BY <2>1, <2>2
      <4> HIDE DEF b
      <4> QED BY Zenon, <4>2, <4>3, <4>4
    <3>3. new = a \o b
      BY Zenon
    <3> HIDE DEF a, b, new
    <3>4. /\ a \o b \in Seq(Conns) /\ Len(a \o b) = n - 1
          /\ \A k \in 1..n - 1 : (a \o b)[k] = IF k <= p - 1 THEN a[k] ELSE b[k - (p - 1)]
      <4>1. /\ a \o b \in Seq(Conns) /\ Len(a \o b) = Len(a) + Len(b)
            /\ \A i \in 1..Len(a) + Len(b) :
                 (a \o b)[i] = IF i <= Len(a) THEN a[i] ELSE b[i - Len(a)]
        <5>1. a \in Seq(Conns) /\ b \in Seq(Conns)
          BY Zenon, <3>1, <3>2
        <5> QED BY ONLY <5>1
      <4>2. Len(a) + Len(b) = n - 1
        BY <2>1, <2>2, <3>1, <3>2
      <4> QED BY Zenon, <3>1, <4>1, <4>2
    <3>5. DOMAIN new = 1..n - 1
      BY <3>3, <3>4
    <3>6. ASSUME NEW k \in 1..n - 1 PROVE new[k] = IF k < p THEN order[k] ELSE order[k + 1]
      <4>1. CASE k < p
        BY <2>1, <2>2, <3>1, <3>3, <3>4, <4>1
      <4>2. CASE k >= p
        <5>1. k - (p - 1) \in 1..n - p /\ p + (k - (p - 1)) = k + 1
          BY <2>1, <2>2, <4>2
        <5>2. b[k - (p - 1)] = order[k + 1]
          BY Zenon, <3>2, <5>1
        <5> QED BY <2>1, <2>2, <3>3, <3>4, <4>2, <5>2
      <4> QED BY <2>1, <2>2, <4>1, <4>2
    <3> QED BY Zenon, <3>3, <3>4, <3>5, <3>6
  <2> HIDE DEF new
  <2>6. ASSUME NEW d \in Conns PROVE conn'[d] # "none" <=> \E k \in DOMAIN new : new[k] = d
    <3>1. CASE d = c
      <4>1. \A k \in 1..n - 1 : new[k] # c
        BY <2>1, <2>2, <2>4, <2>5
      <4> QED BY Zenon, <2>3, <2>5, <3>1, <4>1
    <3>2. CASE d # c
      <4>1. conn'[d] # "none" <=> \E k \in 1..n : order[k] = d
        BY Zenon, <2>1, <2>3, <3>2 DEF Listed
      <4>2. ASSUME NEW k \in 1..n, order[k] = d PROVE \E j \in 1..n - 1 : new[j] = d
        <5>1. CASE k < p
          BY <2>1, <2>2, <2>5, <4>2, <5>1
        <5>2. CASE k > p
          <6>1. k - 1 \in 1..n - 1 /\ ~(k - 1 < p) /\ (k - 1) + 1 = k
            BY <2>1, <2>2, <5>2
          <6> QED BY Zenon, <2>5, <4>2, <6>1
        <5> QED BY <2>1, <2>2, <3>2, <4>2, <5>1, <5>2
      <4>3. ASSUME NEW j \in 1..n - 1, new[j] = d PROVE \E k \in 1..n : order[k] = d
        BY <2>1, <2>2, <2>5, <4>3
      <4> QED BY Zenon, <2>5, <4>1, <4>2, <4>3
    <3> QED BY Zenon, <3>1, <3>2
  <2>7. ASSUME NEW j \in 1..n - 1, NEW k \in 1..n - 1, new[j] = new[k] PROVE j = k
    <3> DEFINE at(i) == IF i < p THEN i ELSE i + 1
    <3>1. at(j) \in 1..n /\ at(k) \in 1..n /\ new[j] = order[at(j)] /\ new[k] = order[at(k)]
      BY <2>1, <2>2, <2>5
    <3>2. ASSUME NEW u \in 1..n, NEW v \in 1..n, order[u] = order[v] PROVE u = v
      BY Zenon, <2>1, <3>2 DEF Listed
    <3>3. at(j) = at(k)
      <4> HIDE DEF at
      <4> QED BY Zenon, <2>7, <3>1, <3>2
    <3> QED BY <2>1, <2>2, <3>3
  <2> QED BY Zenon, <2>3, <2>5, <2>6, <2>7 DEF Listed
<1> QED BY Zenon, <1>1, <1>2

(* The records of the peer. *)
LEMMA PeerRecords ==
  /\ \A s \in PeerStates : InState(s) \in PeerRecord /\ InState(s).state = s
  /\ \A b \in BOOLEAN : Disabled(b) \in PeerRecord /\ Disabled(b).state = "Disabled"
  /\ \A s \in PeerStates, t \in 1..MaxDelays : Timed(s, t) \in PeerRecord /\ Timed(s, t).state = s
  /\ Absent \in PeerRecord /\ Absent.state = "absent"
  /\ Enabled \in PeerRecord /\ Enabled.state = "Enabled"
<1>1. 0 \in 0..MaxDelays /\ 0 \in 0..MaxIncoming /\ \A t \in 1..MaxDelays : t \in 0..MaxDelays
  BY BoundsNat
<1> QED BY Zenon, <1>1 DEF InState, Disabled, Timed, Absent, Enabled, PeerRecord, PeerStates

(* A delay that is started is one of the delays. *)
LEMMA StartDelayTypes ==
  ASSUME BooksInv, NEW s \in PeerStates, StartDelay(s)
  PROVE  /\ delays' \in SUBSET (1..MaxDelays)
         /\ peer' \in PeerRecord /\ peer'.state = s
<1> DEFINE free == (1..MaxDelays) \ delays
<1>1. free # {} /\ delays' = delays \cup {Min(free)} /\ peer' = Timed(s, Min(free))
  BY Zenon DEF StartDelay
<1>2. free \in SUBSET Nat
  BY BoundsNat
<1> HIDE DEF free
<1>3. Min(free) \in free
  BY Zenon, <1>1, <1>2, MinInSet
<1>4. Min(free) \in 1..MaxDelays
  BY Zenon, <1>3 DEF free
<1> QED BY Zenon, <1>1, <1>4, PeerRecords DEF BooksInv, RestTyped

(* Nothing happens to the connections. *)
LEMMA LinksAlone ==
  ASSUME BooksInv, UNCHANGED <<handlerVars, toHandler, fromHandler, conn>>
  PROVE  /\ RequestInv' /\ outSub' = outSub /\ Functional'
         /\ \A c \in Conns : LinkInStep(c)'
<1>1. RequestInv' /\ outSub' = outSub /\ handler' = handler
  BY Zenon, UnchangedRequestInv DEF BooksInv, handlerVars
<1> QED BY Zenon, <1>1 DEF BooksInv, Functional, LinkInStep

(* The connections of cs are told something; no report is read. *)
LEMMA LinksTold ==
  ASSUME BooksInv, UNCHANGED <<handlerVars, fromHandler>>,
         NEW cs, NEW msg, Tell(cs, msg), conn' \in [Conns -> ConnStates],
         \A c \in Conns : c \notin cs => conn'[c] = conn[c],
         \A c \in Conns : c \in cs =>
            InStep(conn'[c], Sent(toHandler[c], handler[c], msg), handler[c], fromHandler[c])
  PROVE  /\ RequestInv' /\ outSub' = outSub /\ Functional'
         /\ \A c \in Conns : LinkInStep(c)'
<1>1. RequestInv' /\ outSub' = outSub /\ handler' = handler /\ fromHandler' = fromHandler
  BY Zenon, UnchangedRequestInv DEF BooksInv, handlerVars
<1>2. toHandler' = [c \in Conns |-> IF c \in cs /\ handler[c] # "gone"
                                    THEN Append(toHandler[c], msg) ELSE toHandler[c]]
  BY Zenon, <1>1 DEF Tell
<1>3. ASSUME NEW c \in Conns
      PROVE  /\ LinkInStep(c)'
             /\ toHandler'[c] \in Seq(HandlerIn)
  <2>1. CASE c \in cs
    <3>1. toHandler'[c] = Sent(toHandler[c], handler[c], msg)
      BY Zenon, <1>2, <2>1 DEF Sent
    <3>2. InStep(conn'[c], toHandler'[c], handler'[c], fromHandler'[c])
      BY Zenon, <1>1, <2>1, <3>1
    <3> QED BY Zenon, <3>2, InStepTypes DEF LinkInStep
  <2>2. CASE c \notin cs
    <3>1. toHandler'[c] = toHandler[c] /\ conn'[c] = conn[c]
      BY Zenon, <1>2, <2>2
    <3> QED BY Zenon, <1>1, <3>1 DEF BooksInv, Functional, LinkInStep
  <2> QED BY Zenon, <2>1, <2>2
<1>4. Functional'
  BY Zenon, <1>1, <1>2, <1>3 DEF Functional, BooksInv
<1> QED BY Zenon, <1>1, <1>3, <1>4

(* A report of connection c is read. *)
LEMMA LinksRead ==
  ASSUME BooksInv, NEW c \in Conns, UNCHANGED handlerVars, NEW commands, NEW r \in ConnStates,
         fromHandler' = [fromHandler EXCEPT ![c] = Tail(@)],
         toHandler' = [toHandler EXCEPT ![c] = commands],
         conn' = [conn EXCEPT ![c] = r],
         InStep(r, commands, handler[c], Tail(fromHandler[c]))
  PROVE  /\ RequestInv' /\ outSub' = outSub /\ Functional'
         /\ \A d \in Conns : LinkInStep(d)'
<1>1. RequestInv' /\ outSub' = outSub /\ handler' = handler
  BY Zenon, UnchangedRequestInv DEF BooksInv, handlerVars
<1>2. conn \in [Conns -> ConnStates] /\ toHandler \in [Conns -> Seq(HandlerIn)]
      /\ fromHandler \in [Conns -> Seq(HandlerOut)]
  BY Zenon DEF BooksInv, Functional
<1>3. commands \in Seq(HandlerIn) /\ Tail(fromHandler[c]) \in Seq(HandlerOut)
  BY Zenon, InStepTypes
<1>4. Functional'
  BY Zenon, <1>2, <1>3 DEF Functional
<1>5. ASSUME NEW d \in Conns PROVE LinkInStep(d)'
  <2>1. CASE d = c
    <3>1. conn'[c] = r /\ toHandler'[c] = commands /\ fromHandler'[c] = Tail(fromHandler[c])
      BY Zenon, <1>2
    <3> QED BY Zenon, <1>1, <2>1, <3>1 DEF LinkInStep
  <2>2. CASE d # c
    <3>1. conn'[d] = conn[d] /\ toHandler'[d] = toHandler[d] /\ fromHandler'[d] = fromHandler[d]
      BY Zenon, <1>2, <2>2
    <3> QED BY Zenon, <1>1, <3>1 DEF BooksInv, LinkInStep
  <2> QED BY Zenon, <2>1, <2>2
<1> QED BY Zenon, <1>1, <1>4, <1>5

(* The entries of `incoming` when no request is made or decided. *)
LEMMA EntriesAlone ==
  ASSUME NEW p, NEW q, NEW entries, NEW next, Entries(entries, p, next),
         p.state = "Incoming" <=> q.state = "Incoming",
         p.state = "Incoming" => q.index = p.index
  PROVE  Entries(entries, q, next)
BY Zenon DEF Entries

(* The connections stay as they are, and the state of the peer says the     *)
(* same of them.                                                            *)
LEMMA PeerMoves ==
  ASSUME BooksInv, UNCHANGED <<handlerVars, toHandler, fromHandler, conn, order, numPeers,
                               incoming, nextIncomingIndex>>,
         peer' \in PeerRecord, delays' \in SUBSET (1..MaxDelays), apiSink' = apiSink,
         validations' \in SUBSET (1..MaxIncoming), abandoned' \in SUBSET (1..MaxIncoming),
         failed' \subseteq Excepted,
         peer.state \in Unconnected <=> peer'.state \in Unconnected,
         peer.state = "Enabled" <=> peer'.state = "Enabled",
         peer.state = "Incoming" <=> peer'.state = "Incoming",
         peer.state = "Incoming" => peer'.index = peer.index
  PROVE  BooksInv'
<1>1. /\ RequestInv' /\ outSub' = outSub /\ Functional' /\ \A c \in Conns : LinkInStep(c)'
  BY Zenon, LinksAlone
<1>2. RestTyped'
  BY Zenon, <1>1 DEF BooksInv, RestTyped
<1>3. Standing(peer.state, conn)' /\ Listed(order, conn)' /\ Told(numPeers, conn)'
  BY Zenon DEF BooksInv, Standing, Listed, Told
<1>4. Entries(incoming, peer, nextIncomingIndex)'
  <2>1. Entries(incoming, peer', nextIncomingIndex)
    BY Zenon, EntriesAlone DEF BooksInv
  <2> QED BY Zenon, <2>1 DEF Entries
<1> QED BY Zenon, <1>1, <1>2, <1>3, <1>4 DEF BooksInv

(* Disabled => Enabled with the first closed connection. *)
LEMMA OpensFirst ==
  ASSUME BooksInv, UNCHANGED <<handlerVars, fromHandler, order, numPeers, apiSink, inVars>>,
         peer.state \in {"Disabled", "DisabledPendingEnable"}, AnyIn(conn, {"Closed"}),
         OpenFirstClosed, delays' \in SUBSET (1..MaxDelays), failed' \subseteq Excepted
  PROVE  BooksInv' /\ Sane'
<1> DEFINE c == FirstIn(conn, {"Closed"})
<1>1. conn' = [conn EXCEPT ![c] = "Opening"] /\ Tell({c}, "Open") /\ peer' = Enabled
  BY Zenon DEF OpenFirstClosed
<1>2. c \in Conns /\ conn[c] = "Closed"
  BY FirstInIs DEF BooksInv
<1> HIDE DEF c
<1>3. conn \in [Conns -> ConnStates] /\ "Opening" \in ConnStates
  BY Zenon DEF BooksInv, Functional, ConnStates
<1>4. /\ conn' \in [Conns -> ConnStates] /\ conn'[c] = "Opening"
      /\ \A d \in Conns : d # c => conn'[d] = conn[d]
  BY Zenon, <1>1, <1>2, <1>3
<1>5. InStep(conn'[c], Sent(toHandler[c], handler[c], "Open"), handler[c], fromHandler[c])
  BY Zenon, <1>2, <1>4, InStepTellOpen DEF BooksInv, LinkInStep
<1>6. /\ RequestInv' /\ outSub' = outSub /\ Functional' /\ \A d \in Conns : LinkInStep(d)'
  BY <1>1, <1>4, <1>5, LinksTold
<1>7. UNCHANGED <<incoming, nextIncomingIndex, validations, abandoned>>
  BY Zenon DEF inVars
<1>8. RestTyped'
  BY Zenon, <1>1, <1>6, <1>7, PeerRecords DEF BooksInv, RestTyped
<1>9. peer'.state = "Enabled" /\ Sane'
  BY Zenon, <1>1, PeerRecords DEF Sane
<1>10. Standing(peer.state, conn)'
  <2>1. \A d \in Conns : conn[d] # "OpenDesiredByRemote"
    BY Zenon DEF BooksInv, Standing
  <2> QED BY Zenon, <1>2, <1>4, <1>9, <2>1 DEF Standing, Unconnected, Active
<1>11. Listed(order, conn)'
  <2>1. Listed(order, conn')
    BY <1>2, <1>4, ListedKept DEF BooksInv
  <2> QED BY Zenon, <2>1
<1>12. Told(numPeers, conn)'
  <2>1. (\E d \in Conns : conn[d] = "Open") <=> (\E d \in Conns : conn'[d] = "Open")
    BY Zenon, <1>2, <1>4
  <2> QED BY Zenon, <2>1 DEF BooksInv, Told
<1>13. Entries(incoming, peer, nextIncomingIndex)'
  <2>1. Entries(incoming, peer', nextIncomingIndex)
    BY Zenon, <1>9, EntriesAlone DEF BooksInv
  <2> QED BY Zenon, <1>7, <2>1
<1> QED BY Zenon, <1>6, <1>8, <1>9, <1>10, <1>11, <1>12, <1>13 DEF BooksInv

(* Enabled => Disabled. *)
LEMMA ClosesActive ==
  ASSUME BooksInv, UNCHANGED <<handlerVars, fromHandler, order, delays, inVars>>,
         peer.state = "Enabled", CloseActive, peer' = Disabled(FALSE), failed' \subseteq Excepted
  PROVE  BooksInv' /\ Sane'
<1>1. /\ conn' = [c \in Conns |-> CASE conn[c] = "Open" -> "Closing"
                                    [] conn[c] = "Opening" -> "OpeningThenClosing"
                                    [] OTHER -> conn[c]]
      /\ Tell(In(conn, Active), "Close")
      /\ IF AnyIn(conn, {"Open"}) THEN ApiClosed ELSE UNCHANGED apiVars
  BY Zenon DEF CloseActive
<1>2. ASSUME NEW c \in Conns
      PROVE  /\ conn[c] = "Open" => conn'[c] = "Closing"
             /\ conn[c] = "Opening" => conn'[c] = "OpeningThenClosing"
             /\ conn[c] \notin Active => conn'[c] = conn[c]
  BY Zenon, <1>1 DEF Active
<1>3. conn \in [Conns -> ConnStates]
  BY Zenon DEF BooksInv, Functional
<1>4. conn' \in [Conns -> ConnStates]
  BY Zenon, <1>1, <1>3 DEF ConnStates
<1>5. ASSUME NEW c \in Conns, c \in In(conn, Active)
      PROVE  InStep(conn'[c], Sent(toHandler[c], handler[c], "Close"), handler[c], fromHandler[c])
  <2>1. conn[c] \in {"Opening", "Open"} /\ conn'[c] = Closes(conn[c])
    BY Zenon, <1>2, <1>5 DEF In, Active, Closes
  <2>2. InStep(conn[c], toHandler[c], handler[c], fromHandler[c])
    BY Zenon DEF BooksInv, LinkInStep
  <2> QED BY Zenon, <2>1, <2>2, InStepTellClose
<1>6. \A c \in Conns : c \notin In(conn, Active) => conn'[c] = conn[c]
  BY Zenon, <1>2 DEF In
<1>7. /\ RequestInv' /\ outSub' = outSub /\ Functional' /\ \A c \in Conns : LinkInStep(c)'
  BY Zenon, <1>1, <1>4, <1>5, <1>6, LinksTold
<1>8. UNCHANGED <<incoming, nextIncomingIndex, validations, abandoned>>
  BY Zenon DEF inVars
<1>9. peer' \in PeerRecord /\ peer'.state = "Disabled" /\ Sane'
  BY Zenon, PeerRecords DEF Sane
<1>10. AnyIn(conn, {"Open"}) <=> \E c \in Conns : conn[c] = "Open"
  BY Zenon DEF AnyIn, In
<1>11. numPeers' = 0 /\ apiSink' \in Conns \cup {"closed"}
  BY <1>1, <1>10 DEF BooksInv, RestTyped, Told, ApiClosed, apiVars
<1>12. RestTyped'
  BY Zenon, <1>7, <1>8, <1>9, <1>11 DEF BooksInv, RestTyped
<1>13. /\ \A c \in Conns : conn'[c] \notin {"Opening", "Open", "OpenDesiredByRemote"}
       /\ \E c \in Conns : conn'[c] # "none"
  <2>1. \A c \in Conns : conn[c] # "OpenDesiredByRemote"
    BY Zenon DEF BooksInv, Standing
  <2>2. PICK c \in Conns : conn[c] \in Active
    BY Zenon DEF BooksInv, Standing
  <2>3. conn'[c] # "none"
    BY Zenon, <1>2, <2>2 DEF Active
  <2>4. \A d \in Conns : conn'[d] \notin {"Opening", "Open", "OpenDesiredByRemote"}
    BY Zenon, <1>2, <2>1 DEF Active
  <2> QED BY Zenon, <2>3, <2>4
<1>14. Standing(peer.state, conn)' /\ Told(numPeers, conn)'
  BY Zenon, <1>9, <1>11, <1>13 DEF Standing, Told, Unconnected, Active
<1>15. Listed(order, conn)'
  <2>1. \A c \in Conns : conn[c] # "none" <=> conn'[c] # "none"
    BY Zenon, <1>2 DEF Active
  <2>2. Listed(order, conn')
    BY Zenon, <2>1, ListedKept DEF BooksInv
  <2> QED BY Zenon, <2>2
<1>16. Entries(incoming, peer, nextIncomingIndex)'
  <2>1. Entries(incoming, peer', nextIncomingIndex)
    BY Zenon, <1>9, EntriesAlone DEF BooksInv
  <2> QED BY Zenon, <1>8, <2>1
<1> QED BY Zenon, <1>7, <1>9, <1>12, <1>14, <1>15, <1>16 DEF BooksInv

(* Every connection the remote asks to open is told msg and goes to s. *)
LEMMA RemoteDecided ==
  ASSUME BooksInv, UNCHANGED <<handlerVars, fromHandler, order, delays, apiVars, nextIncomingIndex>>,
         validations' \in SUBSET (1..MaxIncoming), abandoned' \in SUBSET (1..MaxIncoming),
         incoming' \in SUBSET EntryRecord, failed' \subseteq Excepted,
         peer.state = "Incoming", NEW msg, NEW s,
         \/ msg = "Close" /\ s = "Closing" /\ peer' = Disabled(peer.backoff)
         \/ msg = "Open" /\ s = "Opening" /\ peer' = Enabled,
         conn' = [c \in Conns |-> IF conn[c] = "OpenDesiredByRemote" THEN s ELSE conn[c]],
         Tell(In(conn, {"OpenDesiredByRemote"}), msg),
         \A p : p.state # "Incoming" => Entries(incoming', p, nextIncomingIndex)
  PROVE  BooksInv' /\ Sane'
<1>1. conn \in [Conns -> ConnStates] /\ s \in ConnStates
  BY Zenon DEF BooksInv, Functional, ConnStates
<1>2. conn' \in [Conns -> ConnStates]
  BY Zenon, <1>1
<1>3. ASSUME NEW c \in Conns, c \in In(conn, {"OpenDesiredByRemote"})
      PROVE  InStep(conn'[c], Sent(toHandler[c], handler[c], msg), handler[c], fromHandler[c])
  <2>1. conn[c] = "OpenDesiredByRemote" /\ conn'[c] = s
    BY Zenon, <1>3 DEF In
  <2>2. InStep("OpenDesiredByRemote", toHandler[c], handler[c], fromHandler[c])
    BY Zenon, <2>1 DEF BooksInv, LinkInStep
  <2>3. CASE msg = "Open" /\ s = "Opening"
    BY Zenon, <2>1, <2>2, <2>3, InStepTellOpen
  <2>4. CASE msg = "Close" /\ s = "Closing"
    <3>1. Closes("OpenDesiredByRemote") = s
      BY Zenon, <2>4 DEF Closes
    <3> QED BY Zenon, <2>1, <2>2, <2>4, <3>1, InStepTellClose
  <2> QED BY Zenon, <2>3, <2>4
<1>4. \A c \in Conns : c \notin In(conn, {"OpenDesiredByRemote"}) => conn'[c] = conn[c]
  BY Zenon DEF In
<1>5. /\ RequestInv' /\ outSub' = outSub /\ Functional' /\ \A c \in Conns : LinkInStep(c)'
  BY Zenon, <1>2, <1>3, <1>4, LinksTold
<1>6. /\ peer' \in PeerRecord /\ Sane'
      /\ \/ msg = "Close" /\ s = "Closing" /\ peer'.state = "Disabled"
         \/ msg = "Open" /\ s = "Opening" /\ peer'.state = "Enabled"
  <2>1. peer.backoff \in BOOLEAN
    BY Zenon DEF BooksInv, RestTyped, PeerRecord
  <2> QED BY Zenon, <2>1, PeerRecords DEF Sane
<1>7. RestTyped'
  BY Zenon, <1>5, <1>6 DEF BooksInv, RestTyped, apiVars
<1>8. \A c \in Conns : conn[c] \notin Active
  BY Zenon DEF BooksInv, Standing
<1>9. PICK d \in Conns : conn[d] = "OpenDesiredByRemote"
  BY Zenon DEF BooksInv, Standing
<1>10. Standing(peer.state, conn)'
  BY Zenon, <1>6, <1>8, <1>9 DEF Standing, Unconnected, Active
<1>11. Listed(order, conn)'
  <2>1. \A c \in Conns : conn[c] # "none" <=> conn'[c] # "none"
    BY Zenon
  <2>2. Listed(order, conn')
    BY <2>1, ListedKept DEF BooksInv
  <2> QED BY Zenon, <2>2
<1>12. Told(numPeers, conn)'
  BY Zenon, <1>6, <1>8 DEF BooksInv, Told, apiVars, Active
<1>13. Entries(incoming, peer, nextIncomingIndex)'
  BY Zenon, <1>6
<1> QED BY Zenon, <1>5, <1>6, <1>7, <1>10, <1>11, <1>12, <1>13 DEF BooksInv

(* The request of the peer is over, or its answer has come. *)
LEMMA EntriesKilled ==
  ASSUME BooksInv, peer.state = "Incoming", KillAlive
  PROVE  /\ incoming' \in SUBSET EntryRecord
         /\ \A p : p.state # "Incoming" => Entries(incoming', p, nextIncomingIndex)
<1> DEFINE ids == {e.id : e \in AliveEntries}
           i == peer.index
<1>1. /\ \A e, f \in incoming : e.id = f.id => e = f
      /\ \A e \in incoming : e.id < nextIncomingIndex
      /\ \A e \in incoming : e.alive => e.id = i
      /\ [id |-> i, alive |-> TRUE] \in incoming
  BY Zenon DEF BooksInv, Entries
<1>2. incoming \in SUBSET EntryRecord
  BY Zenon DEF BooksInv, RestTyped
<1>3. i \in 1..MaxIncoming /\ i \in Nat
  BY <1>1, <1>2, BoundsNat DEF EntryRecord
<1>4. ids = {i}
  BY Zenon, <1>1 DEF AliveEntries
<1>5. Min(ids) = i
  <2>1. {i} \in SUBSET Nat /\ {i} # {}
    BY Zenon, <1>3
  <2>2. Min({i}) \in {i}
    BY Zenon, <2>1, MinInSet
  <2> HIDE DEF i
  <2> QED BY Zenon, <1>4, <2>2
<1>6. incoming' = (incoming \ {[id |-> i, alive |-> TRUE]}) \cup {[id |-> i, alive |-> FALSE]}
  BY Zenon, <1>5 DEF KillAlive
<1> HIDE DEF i, ids
<1>7. \A e \in incoming' : \/ e \in incoming /\ e.id # i /\ ~e.alive
                           \/ e = [id |-> i, alive |-> FALSE]
  BY Zenon, <1>1, <1>2, <1>6 DEF EntryRecord
<1>8. incoming' \in SUBSET EntryRecord
  <2>1. [id |-> i, alive |-> FALSE] \in EntryRecord
    BY Zenon, <1>3 DEF EntryRecord
  <2> HIDE DEF EntryRecord
  <2> QED BY Zenon, <1>2, <1>6, <2>1
<1>9. ASSUME NEW p, p.state # "Incoming" PROVE Entries(incoming', p, nextIncomingIndex)
  <2>1. i < nextIncomingIndex
    BY Zenon, <1>1
  <2>2. ASSUME NEW e \in incoming', NEW f \in incoming', e.id = f.id PROVE e = f
    <3> DEFINE dead == [id |-> i, alive |-> FALSE]
    <3>1. dead.id = i
      BY Zenon
    <3> HIDE DEF dead
    <3>2. /\ (e \in incoming /\ e.id # i) \/ e = dead
          /\ (f \in incoming /\ f.id # i) \/ f = dead
      BY Zenon, <1>7 DEF dead
    <3> QED BY Zenon, <1>1, <2>2, <3>1, <3>2
  <2>3. \A e \in incoming' : e.id < nextIncomingIndex /\ ~e.alive
    BY <1>1, <1>7, <2>1
  <2> QED BY Zenon, <1>9, <2>2, <2>3 DEF Entries
<1> QED BY Zenon, <1>8, <1>9

(* An answered request leaves `incoming`. *)
LEMMA EntriesAnswered ==
  ASSUME BooksInv, NEW i, incoming' = incoming \ {e \in incoming : e.id = i}
  PROVE  /\ incoming' \in SUBSET EntryRecord
         /\ \A e \in incoming : e.id = i /\ e.alive =>
              \A p : p.state # "Incoming" => Entries(incoming', p, nextIncomingIndex)
         /\ (\A e \in incoming : e.id = i => ~e.alive) =>
              Entries(incoming', peer, nextIncomingIndex)
<1>1. /\ \A e, f \in incoming : e.id = f.id => e = f
      /\ \A e \in incoming : e.id < nextIncomingIndex
      /\ \A e \in incoming : e.alive => peer.state = "Incoming" /\ e.id = peer.index
      /\ peer.state = "Incoming" => [id |-> peer.index, alive |-> TRUE] \in incoming
  BY Zenon DEF BooksInv, Entries
<1>2. incoming' \in SUBSET EntryRecord
  BY Zenon DEF BooksInv, RestTyped
<1>3. ASSUME NEW e \in incoming, e.id = i, e.alive, NEW p, p.state # "Incoming"
      PROVE  Entries(incoming', p, nextIncomingIndex)
  BY Zenon, <1>1, <1>3 DEF Entries
<1>4. ASSUME \A e \in incoming : e.id = i => ~e.alive
      PROVE  Entries(incoming', peer, nextIncomingIndex)
  BY Zenon, <1>1, <1>4 DEF Entries
<1> QED BY Zenon, <1>2, <1>3, <1>4
=============================================================================
