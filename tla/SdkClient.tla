------------------------------ MODULE SdkClient ------------------------------
(***************************************************************************)
(* The streaming client of the SDK (sdk/client.go): the handshake, the     *)
(* three pump goroutines of a connection, the supervisor that reconnects,  *)
(* the calls of the application and Close.                                 *)
(*                                                                         *)
(* Goroutines share the send queue, the delivery channel, the connection   *)
(* context and a wait group; each select is a choice between its cases     *)
(* that are ready.  The server is external: it answers a HELLO the way     *)
(* StreamHandler.Connect does and takes up subscriptions.                  *)
(*                                                                         *)
(* Abstracted: time (a delay or a tick may end at any moment), the errors  *)
(* channel, which never blocks a sender, and what frames carry.  Frames    *)
(* other than SUBSCRIBE (ACK, ACK_SET, NACK, PING, FLOW_HINT) differ in    *)
(* nothing the client looks at.  The application calls Connect until it    *)
(* succeeds, and Close once.                                               *)
(***************************************************************************)
EXTENDS Naturals, Sequences, SequencesExt

CONSTANTS
  Callers,      \* goroutines of the application
  Targets,      \* what SUBSCRIBE may ask for
  QueueCap,     \* capacity of sendCh: 100 in the code
  InboxCap,     \* capacity of deliveries: 100 in the code
  MaxBreaks,    \* bound on broken streams and on sessions the server drops
  MaxFails,     \* bound on failing attempts to reach the server
  None

ASSUME ClientAssumption ==
  /\ {QueueCap, InboxCap} \subseteq Nat \ {0}
  /\ {MaxBreaks, MaxFails} \subseteq Nat
  /\ None \notin Targets

VARIABLES
  link,        \* the stream: "none", "up" or "broken"
  connected,   \* Client.connected
  token,       \* Client.resumeToken: None, or whether the server still has it
  lastTargets, \* Client.lastTargets
  sendCh,      \* frames queued for sendPump
  deliveries,  \* how many frames wait for the application
  connDone,    \* connCtx is cancelled
  recv,        \* receivePump
  send,        \* sendPump,
  hand,        \*   and the frame it holds
  beat,        \* heartbeatPump
  overtaken,   \* history: Connect started its pumps when Close had waited for them
  sup,         \* the supervisor, or Connect before there is one,
  again,       \*   and the targets it subscribes again
  caller,      \* where each goroutine of the application is,
  request,     \*   and the frame it wants to send
  closing,     \* how far Close has come
  wire,        \* subscriptions under way to the server
  known,       \* subscriptions of the session the server has
  breaks, fails

pumpVars == <<connDone, recv, send, hand, beat, overtaken>>
callVars == <<caller, request, lastTargets>>
netVars == <<link, wire, known, breaks, fails>>
vars == <<connected, token, sendCh, deliveries, sup, again, closing,
          pumpVars, callVars, netVars>>

\* A frame is a SUBSCRIBE, named by its targets, or one of the others.
Frame == Targets \cup {"other"}

ClientTypeOK ==
  /\ link \in {"none", "up", "broken"}
  /\ connected \in BOOLEAN
  /\ token \in {None, "current", "stale"}
  /\ lastTargets \in Targets \cup {None}
  /\ sendCh \in Seq(Frame) /\ Len(sendCh) <= QueueCap
  /\ deliveries \in 0..InboxCap
  /\ connDone \in BOOLEAN
  /\ recv \in {"off", "recv", "deliver"}
  /\ send \in {"off", "take", "send", "panicked"}
  /\ hand \in Frame \cup {None}
  /\ send = "send" => hand \in Frame
  /\ beat \in {"off", "wait", "ping", "panicked"}
  /\ overtaken \in BOOLEAN
  /\ sup \in {"new", "dialled", "pumps", "none", "wait", "backoff", "dial", "targets",
             "subscribe", "start", "callback", "done"}
  /\ again \in Targets \cup {None}
  /\ caller \in [Callers -> {"idle", "store", "enqueue", "panicked"}]
  /\ request \in [Callers -> Frame \cup {None}]
  /\ \A p \in Callers : caller[p] = "enqueue" => request[p] \in Frame
  /\ closing \in {"open", "cancelled", "pumpsGone", "closed"}
  /\ wire \subseteq Targets
  /\ known \subseteq Targets
  /\ breaks \in 0..MaxBreaks
  /\ fails \in 0..MaxFails

\* NewClient
ClientInit ==
  /\ link = "none" /\ connected = FALSE /\ token = None /\ lastTargets = None
  /\ sendCh = <<>> /\ deliveries = 0
  /\ connDone = FALSE /\ recv = "off" /\ send = "off" /\ hand = None /\ beat = "off"
  /\ overtaken = FALSE
  /\ sup = "new" /\ again = None
  /\ caller = [p \in Callers |-> "idle"]
  /\ request = [p \in Callers |-> None]
  /\ closing = "open"
  /\ wire = {} /\ known = {}
  /\ breaks = 0 /\ fails = 0

Cancelled == closing # "open"            \* c.ctx
ConnOver == connDone \/ Cancelled        \* connCtx, a child of c.ctx
PumpsGone == recv = "off" /\ send = "off" /\ beat = "off"    \* connWg is zero
Room == Len(sendCh) < QueueCap
-----------------------------------------------------------------------------
(* doConnect *)

\* WELCOME: a new session, with a token that is kept.
Welcome ==
  /\ token = None
  /\ token' = "current"
  /\ known' = {}

\* RESUME_OK: the server has rotated the token, the client keeps the old one.
ResumeOk ==
  /\ token = "current"
  /\ token' = "stale"
  /\ UNCHANGED known

\* A stream is opened, HELLO answered and the stream taken into use.
Connected ==
  /\ ~Cancelled
  /\ Welcome \/ ResumeOk
  /\ connected' = TRUE
  /\ link' = "up" /\ wire' = {}
  /\ UNCHANGED <<breaks, fails>>

\* The server cannot be reached, answers ERROR, or answers RESUME_DENIED, a
\* frame doConnect does not expect: the connection is closed again, whatever
\* the server goes on to do.  The token is one the server has replaced, or the
\* document of its session was deleted when its server connected elsewhere.
ConnectFails ==
  /\ \/ /\ fails < MaxFails /\ fails' = fails + 1
        /\ UNCHANGED token \/ (token = "current" /\ token' = "stale")
     \/ (token = "stale" \/ Cancelled) /\ UNCHANGED <<token, fails>>
  /\ UNCHANGED <<connected, link, wire, known, breaks>>

\* startPumps
StartPumps ==
  /\ connDone' = FALSE
  /\ recv' = "recv" /\ send' = "take" /\ hand' = None /\ beat' = "wait"

ConnectFrame == UNCHANGED <<sendCh, deliveries, again, closing, callVars>>

\* Connect: a failure is returned and the application may try again.
Connect ==
  /\ sup = "new"
  /\ \/ Connected /\ sup' = "dialled"
     \/ ConnectFails /\ UNCHANGED sup
  /\ UNCHANGED pumpVars
  /\ ConnectFrame

\* Close does not wait for Connect: it may have passed its waits, and have
\* closed the channels, by the time the pumps are started.
StartFirst ==
  /\ sup = "dialled"
  /\ StartPumps
  /\ overtaken' = (closing \in {"pumpsGone", "closed"})
  /\ sup' = "pumps"
  /\ UNCHANGED <<connected, token, netVars>>
  /\ ConnectFrame

\* Connect returns, with a supervisor or, without AutoReconnect, without one.
Supervise ==
  /\ sup = "pumps"
  /\ sup' \in {"wait", "none"}
  /\ UNCHANGED <<connected, token, pumpVars, netVars>>
  /\ ConnectFrame
-----------------------------------------------------------------------------
(* The supervisor *)

SupFrame == UNCHANGED <<deliveries, closing, callVars>>

\* Faulty: only the pump that receives is waited for.
LostReceiver ==
  /\ sup = "wait" /\ recv = "off"
  /\ sup' = IF Cancelled THEN "done" ELSE "backoff"
  /\ connected' = (connected /\ Cancelled)
  /\ UNCHANGED <<token, sendCh, again, pumpVars, netVars>>
  /\ SupFrame

\* All pumps of the connection are gone.
Lost ==
  /\ sup = "wait" /\ PumpsGone
  /\ sup' = IF Cancelled THEN "done" ELSE "backoff"
  /\ connected' = (connected /\ Cancelled)
  /\ UNCHANGED <<token, sendCh, again, pumpVars, netVars>>
  /\ SupFrame

\* The delay is over, or the client closed.
Backoff ==
  /\ sup = "backoff"
  /\ sup' = IF Cancelled THEN "done" ELSE "dial"
  /\ UNCHANGED <<connected, token, sendCh, again, pumpVars, netVars>>
  /\ SupFrame

\* Faulty: the first failing attempt is the last.
DialOnce ==
  /\ sup = "dial"
  /\ \/ Connected /\ sup' = "targets"
     \/ ConnectFails /\ sup' = "done"
  /\ UNCHANGED <<sendCh, again, pumpVars>>
  /\ SupFrame

Dial ==
  /\ sup = "dial"
  /\ \/ Connected /\ sup' = "targets"
     \/ ConnectFails /\ sup' = "backoff"
  /\ UNCHANGED <<sendCh, again, pumpVars>>
  /\ SupFrame

\* Faulty: subscriptions are left to the server.
ForgetTargets ==
  /\ sup = "targets"
  /\ again' = None
  /\ sup' = "start"
  /\ UNCHANGED <<connected, token, sendCh, pumpVars, netVars>>
  /\ SupFrame

ReadTargets ==
  /\ sup = "targets"
  /\ again' = lastTargets
  /\ sup' = IF lastTargets = None THEN "start" ELSE "subscribe"
  /\ UNCHANGED <<connected, token, sendCh, pumpVars, netVars>>
  /\ SupFrame

\* Faulty: the wait for room ends only when there is room.
ResubscribeInsists ==
  /\ sup = "subscribe"
  /\ Room /\ sendCh' = Append(sendCh, again)
  /\ sup' = "start"
  /\ UNCHANGED <<connected, token, again, pumpVars, netVars>>
  /\ SupFrame

\* sendSubscribe: nothing drains the queue yet.
Resubscribe ==
  /\ sup = "subscribe"
  /\ \/ Room /\ sendCh' = Append(sendCh, again)
     \/ Cancelled /\ UNCHANGED sendCh
  /\ sup' = "start"
  /\ UNCHANGED <<connected, token, again, pumpVars, netVars>>
  /\ SupFrame

\* The pumps are started and OnReconnect is called.
Restart ==
  /\ sup = "start"
  /\ StartPumps
  /\ sup' = "callback" /\ again' = None
  /\ UNCHANGED <<connected, token, sendCh, overtaken, netVars>>
  /\ SupFrame

\* OnReconnect, code of the application, returns to the supervisor; without one
\* there is nothing to wait for.
CallbackReturns ==
  /\ sup = "callback"
  /\ sup' = "wait"
  /\ UNCHANGED <<connected, token, sendCh, again, pumpVars, netVars>>
  /\ SupFrame
-----------------------------------------------------------------------------
(* The pumps *)

PumpFrame ==
  UNCHANGED <<connected, token, sup, again, closing, overtaken, callVars, link, breaks, fails>>

\* A frame of the server: DELIVER goes to the application, the others end here.
Receive ==
  /\ recv = "recv" /\ link = "up" /\ ~Cancelled
  /\ recv' = "deliver"
  /\ UNCHANGED <<sendCh, deliveries, connDone, send, hand, beat, wire, known>>
  /\ PumpFrame

Deliver ==
  /\ recv = "deliver" /\ deliveries < InboxCap
  /\ deliveries' = deliveries + 1
  /\ recv' = "recv"
  /\ UNCHANGED <<sendCh, connDone, send, hand, beat, wire, known>>
  /\ PumpFrame

\* Recv fails, or the frame in hand is dropped; the other pumps are told.
ReceiveEnds ==
  /\ \/ recv = "recv" /\ (link = "broken" \/ Cancelled)
     \/ recv = "deliver" /\ ConnOver
  /\ recv' = "off" /\ connDone' = TRUE
  /\ UNCHANGED <<sendCh, deliveries, send, hand, beat, wire, known>>
  /\ PumpFrame

\* The select may prefer a queued frame to the end of the connection.
Take ==
  /\ send = "take" /\ sendCh # <<>>
  /\ send' = "send" /\ hand' = Head(sendCh) /\ sendCh' = Tail(sendCh)
  /\ UNCHANGED <<deliveries, connDone, recv, beat, wire, known>>
  /\ PumpFrame

Send ==
  /\ send = "send" /\ link = "up" /\ ~Cancelled
  /\ send' = "take" /\ hand' = None
  /\ wire' = wire \cup ({hand} \cap Targets)
  /\ UNCHANGED <<sendCh, deliveries, connDone, recv, beat, known>>
  /\ PumpFrame

\* A closed sendCh yields empty frames.
TakeClosed ==
  /\ send = "take" /\ sendCh = <<>> /\ closing = "closed"
  /\ send' = "send" /\ hand' = "other"
  /\ UNCHANGED <<sendCh, deliveries, connDone, recv, beat, wire, known>>
  /\ PumpFrame

\* A failing Send loses the frame, and reports it on errors: a panic once that
\* channel is closed.
SendEnds ==
  /\ \/ /\ send = "send" /\ (link = "broken" \/ Cancelled)
        /\ send' = IF closing = "closed" THEN "panicked" ELSE "off"
     \/ send = "take" /\ ConnOver /\ send' = "off"
  /\ hand' = None /\ connDone' = TRUE
  /\ UNCHANGED <<sendCh, deliveries, recv, beat, wire, known>>
  /\ PumpFrame

\* A tick, which the select may prefer to the end of the connection, and Ping.
Tick ==
  /\ beat = "wait"
  /\ beat' = IF connected THEN "ping" ELSE "wait"
  /\ UNCHANGED <<sendCh, deliveries, connDone, recv, send, hand, wire, known>>
  /\ PumpFrame

\* Faulty: the queue is not checked for room.
PingOverflows ==
  /\ beat = "ping"
  /\ sendCh' = Append(sendCh, "other")
  /\ beat' = "wait"
  /\ UNCHANGED <<deliveries, connDone, recv, send, hand, wire, known>>
  /\ PumpFrame

\* Ping waits for room in the queue or for the end of the client, not of the
\* connection.  With the channels closed the queue panics, or errors does.
Ping ==
  /\ beat = "ping"
  /\ \/ Room /\ closing # "closed" /\ sendCh' = Append(sendCh, "other") /\ beat' = "wait"
     \/ Cancelled /\ closing # "closed" /\ beat' = "wait" /\ UNCHANGED sendCh
     \/ closing = "closed" /\ beat' = "panicked" /\ UNCHANGED sendCh
  /\ UNCHANGED <<deliveries, connDone, recv, send, hand, wire, known>>
  /\ PumpFrame

BeatEnds ==
  /\ beat = "wait" /\ ConnOver
  /\ beat' = "off"
  /\ UNCHANGED <<sendCh, deliveries, connDone, recv, send, hand, wire, known>>
  /\ PumpFrame
-----------------------------------------------------------------------------
(* The application *)

CallFrame == UNCHANGED <<connected, token, sup, again, pumpVars, netVars>>

\* Ack, AckSet, Nack, Ping and FlowHint; ErrNotConnected changes nothing.
Call(p) ==
  /\ caller[p] = "idle" /\ connected
  /\ caller' = [caller EXCEPT ![p] = "enqueue"]
  /\ request' = [request EXCEPT ![p] = "other"]
  /\ UNCHANGED <<sendCh, deliveries, closing, lastTargets>>
  /\ CallFrame

Subscribe(p, t) ==
  /\ caller[p] = "idle" /\ connected
  /\ caller' = [caller EXCEPT ![p] = "store"]
  /\ request' = [request EXCEPT ![p] = t]
  /\ UNCHANGED <<sendCh, deliveries, closing, lastTargets>>
  /\ CallFrame

StoreTargets(p) ==
  /\ caller[p] = "store"
  /\ lastTargets' = request[p]
  /\ caller' = [caller EXCEPT ![p] = "enqueue"]
  /\ UNCHANGED <<sendCh, deliveries, closing, request>>
  /\ CallFrame

\* The frame is queued, or ErrSessionClosed returned.  Once the queue is closed
\* both cases of the select are ready, and the send panics.
Enqueue(p) ==
  /\ caller[p] = "enqueue"
  /\ \/ /\ Room /\ closing # "closed"
        /\ sendCh' = Append(sendCh, request[p])
        /\ caller' = [caller EXCEPT ![p] = "idle"]
     \/ /\ Cancelled
        /\ caller' = [caller EXCEPT ![p] = "idle"]
        /\ UNCHANGED sendCh
     \/ /\ closing = "closed"
        /\ caller' = [caller EXCEPT ![p] = "panicked"]
        /\ UNCHANGED sendCh
  /\ request' = [request EXCEPT ![p] = None]
  /\ UNCHANGED <<deliveries, closing, lastTargets>>
  /\ CallFrame

\* The application reads a delivery.
Consume ==
  /\ deliveries > 0
  /\ deliveries' = deliveries - 1
  /\ UNCHANGED <<sendCh, closing, callVars>>
  /\ CallFrame

\* cancel() ends the stream too, whose context is a child of c.ctx.
CloseCancels ==
  /\ closing = "open"
  /\ closing' = "cancelled"
  /\ link' = (IF link = "up" THEN "broken" ELSE link) /\ wire' = {}
  /\ UNCHANGED <<connected, token, sendCh, deliveries, sup, again, pumpVars, callVars,
                 known, breaks, fails>>

CloseWaits ==
  /\ closing = "cancelled" /\ PumpsGone
  /\ closing' = "pumpsGone"
  /\ UNCHANGED <<sendCh, deliveries, callVars>>
  /\ CallFrame

\* Faulty: the supervisor is not waited for.
CloseAtOnce ==
  /\ closing = "pumpsGone"
  /\ closing' = "closed"
  /\ UNCHANGED <<sendCh, deliveries, callVars>>
  /\ CallFrame

\* The supervisor, if one was started, has returned too: the channels are closed.
CloseEnds ==
  /\ closing = "pumpsGone" /\ sup \in {"new", "dialled", "pumps", "none", "done"}
  /\ closing' = "closed"
  /\ UNCHANGED <<sendCh, deliveries, callVars>>
  /\ CallFrame
-----------------------------------------------------------------------------
(* The network and the server *)

NetFrame == UNCHANGED <<connected, token, sendCh, deliveries, sup, again, closing, pumpVars,
                        callVars, fails>>

Break ==
  /\ link = "up" /\ breaks < MaxBreaks
  /\ breaks' = breaks + 1
  /\ link' = "broken" /\ wire' = {}
  /\ UNCHANGED known
  /\ NetFrame

TakeUp(t) ==
  /\ t \in wire
  /\ wire' = wire \ {t} /\ known' = known \cup {t}
  /\ UNCHANGED <<link, breaks>>
  /\ NetFrame
-----------------------------------------------------------------------------
Supervisor == Lost \/ Backoff \/ Dial \/ ReadTargets \/ Resubscribe \/ Restart
ReceivePump == Receive \/ Deliver \/ ReceiveEnds
SendPump == Take \/ TakeClosed \/ Send \/ SendEnds
HeartbeatPump == Tick \/ Ping \/ BeatEnds
Close == CloseWaits \/ CloseEnds

Next ==
  \/ Connect \/ StartFirst \/ Supervise \/ Supervisor \/ CallbackReturns
  \/ ReceivePump \/ SendPump \/ HeartbeatPump
  \/ \E p \in Callers :
       Call(p) \/ StoreTargets(p) \/ Enqueue(p) \/ \E t \in Targets : Subscribe(p, t)
  \/ Consume \/ CloseCancels \/ Close
  \/ Break \/ \E t \in Targets : TakeUp(t)

Spec == ClientInit /\ [][Next]_vars

\* Every goroutine that can go on does.  The end of a connection is a channel
\* that stays ready, so the heartbeat pump takes that case of its select in the
\* end, however often a tick is preferred.  The application need not do anything
\* but read its deliveries; its OnReconnect need not return.
Fairness ==
  /\ WF_vars(StartFirst \/ Supervise)
  /\ WF_vars(Supervisor)
  /\ WF_vars(ReceivePump) /\ WF_vars(SendPump)
  /\ WF_vars(HeartbeatPump) /\ SF_vars(BeatEnds)
  /\ WF_vars(Consume)
  /\ WF_vars(Close)

FairSpec == Spec /\ Fairness
-----------------------------------------------------------------------------
(* Properties *)

\* A connection is replaced only when no pump of the last one is left, so no
\* pump ever reads or writes the stream of another connection (supervisor waits
\* for connWg before doConnect).
PumpsAlone ==
  sup \in {"new", "dialled", "backoff", "dial", "targets", "subscribe", "start", "done"}
    => PumpsGone

\* When Close closes the channels no goroutine of the client is left that would
\* use them, and none ever panics, although the supervisor may start pumps while
\* Close waits.  The one exception is a Close that overtakes Connect between
\* doConnect and startPumps, which it does not wait for (client.go:122-125,
\* :618): the pumps of that Connect find the channels closed.
ClosedQuietly ==
  \/ overtaken
  \/ /\ closing = "closed" =>
          PumpsGone /\ sup \in {"new", "dialled", "pumps", "none", "wait", "done"}
     /\ "panicked" \notin {send, beat}

\* The targets subscribed last are at the server or on their way, whenever a
\* connection has its pumps, through any number of reconnects and lost frames.
SubscriptionKept ==
  /\ lastTargets # None /\ link = "up" /\ closing = "open"
  /\ sup \in {"dialled", "pumps", "none", "wait", "callback"}
  =>
    \/ lastTargets \in known \cup wire \cup {hand} \cup ToSet(sendCh)
    \/ \E p \in Callers : caller[p] = "enqueue" /\ request[p] = lastTargets

\* OnReconnect always returns to the supervisor.
CallbacksReturn == []<>(sup # "callback")

\* Close returns, whatever the goroutines are blocked on when it is called, if
\* OnReconnect does, which the supervisor calls and Close waits for: one that
\* blocks, or calls Close itself, keeps it (client.go:303-305, :619).
CloseReturns == CallbacksReturn => (closing = "cancelled" ~> closing = "closed")

\* What the comment on Client says, that with AutoReconnect the client
\* transparently re-establishes the stream on disconnection, as long as its
\* queue has room and OnReconnect returns.
Reconnects ==
  CallbacksReturn =>
    (link = "broken" ~> link = "up" \/ Cancelled \/ ~Room \/ sup = "none")

\* The extent to which Reconnects holds of this code: until the token the client
\* keeps is one that the server has replaced or forgotten (doConnect stores the
\* token of WELCOME, not the one of RESUME_OK, and keeps it when denied).
ReconnectsWithToken ==
  CallbacksReturn =>
    (link = "broken" ~> link = "up" \/ Cancelled \/ ~Room \/ sup = "none" \/ token = "stale")
=============================================================================
