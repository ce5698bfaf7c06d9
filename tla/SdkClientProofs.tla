--------------------------- MODULE SdkClientProofs ---------------------------
(* Invariance proofs for module SdkClient. *)
EXTENDS SdkClient, TLAPS

\* What the types rest on: there are targets to subscribe again or to store
\* where that is about to happen, sendPump holds a frame only to send it, and
\* before Connect has succeeded nothing was called.
Tidy ==
  /\ sup = "subscribe" => again \in Targets
  /\ \A p \in Callers : caller[p] = "store" => request[p] \in Targets
  /\ send # "send" => hand = None
  /\ sup = "new" => /\ ~connected /\ lastTargets = None
                    /\ \A p \in Callers : caller[p] = "idle"

TypeInv == ClientTypeOK /\ Tidy

\* The capacities and bounds are numbers.
LEMMA ConstantFacts ==
  /\ QueueCap \in Nat /\ QueueCap > 0 /\ InboxCap \in Nat /\ InboxCap > 0
  /\ MaxBreaks \in Nat /\ MaxFails \in Nat /\ None \notin Targets
<1>1. QueueCap \in Nat \ {0} /\ InboxCap \in Nat \ {0}
  BY ClientAssumption, Zenon DEF ClientAssumption
<1>2. MaxBreaks \in Nat /\ MaxFails \in Nat
  BY ClientAssumption, Zenon DEF ClientAssumption
<1> QED
  BY <1>1, <1>2, ClientAssumption DEF ClientAssumption

\* The types hold at first (NewClient).
LEMMA ClientTypeInit == ClientInit => TypeInv
<1> SUFFICES ASSUME ClientInit PROVE TypeInv
  OBVIOUS
<1>1. sendCh \in Seq(Frame) /\ Len(sendCh) <= QueueCap
  BY ConstantFacts DEF ClientInit
<1>2. /\ deliveries \in 0..InboxCap /\ breaks \in 0..MaxBreaks /\ fails \in 0..MaxFails
  BY ConstantFacts DEF ClientInit
<1> QED
  BY <1>1, <1>2 DEF ClientInit, ClientTypeOK, TypeInv, Tidy

\* What an attempt to reach the server leaves behind (doConnect).
LEMMA ConnectType ==
  ASSUME ClientTypeOK, Connected \/ ConnectFails
  PROVE  /\ connected' \in BOOLEAN /\ token' \in {None, "current", "stale"}
         /\ link' \in {"none", "up", "broken"} /\ wire' \subseteq Targets
         /\ known' \subseteq Targets /\ breaks' \in 0..MaxBreaks
         /\ fails' \in 0..MaxFails
<1>1. CASE Connected
  BY <1>1 DEF Connected, Welcome, ResumeOk, ClientTypeOK
<1>2. CASE ConnectFails
  <2>1. fails' \in 0..MaxFails
    BY <1>2, ConstantFacts DEF ConnectFails, ClientTypeOK
  <2> QED  BY <1>2, <2>1 DEF ConnectFails, ClientTypeOK
<1> QED  BY <1>1, <1>2

\* A frame more in a queue that has room.
LEMMA QueueType ==
  ASSUME ClientTypeOK, Room, NEW f \in Frame
  PROVE  Append(sendCh, f) \in Seq(Frame) /\ Len(Append(sendCh, f)) <= QueueCap
  BY ConstantFacts DEF ClientTypeOK, Room

\* Connecting and the supervisor keep the types (Connect, supervisor).
LEMMA SupervisorType ==
  ASSUME TypeInv, Connect \/ StartFirst \/ Supervise \/ Supervisor \/ CallbackReturns
  PROVE  TypeInv'
<1> USE DEF TypeInv, Tidy, SupFrame, ConnectFrame, pumpVars, callVars, netVars
<1>1. CASE Connect
  <2>1. CASE Connected /\ sup' = "dialled"
    BY <1>1, <2>1, ConnectType DEF Connect, ClientTypeOK
  <2>2. CASE ConnectFails /\ UNCHANGED sup
    <3>1. connected' = connected
      BY <2>2 DEF ConnectFails
    <3> QED  BY <1>1, <2>2, <3>1, ConnectType DEF Connect, ClientTypeOK
  <2> QED  BY <1>1, <2>1, <2>2 DEF Connect
<1>2. CASE Lost
  BY <1>2 DEF Lost, ClientTypeOK
<1>3. CASE Backoff
  BY <1>3 DEF Backoff, ClientTypeOK
<1>4. CASE Dial
  <2>1. Connected \/ ConnectFails
    BY <1>4 DEF Dial
  <2> QED  BY <1>4, <2>1, ConnectType DEF Dial, ClientTypeOK
<1>5. CASE ReadTargets
  BY <1>5 DEF ReadTargets, ClientTypeOK
<1>6. CASE Resubscribe
  <2>1. CASE Room /\ sendCh' = Append(sendCh, again)
    <3>1. again \in Frame
      BY <1>6 DEF Resubscribe, Frame
    <3> QED  BY <1>6, <2>1, <3>1, QueueType DEF Resubscribe, ClientTypeOK
  <2>2. CASE UNCHANGED sendCh
    BY <1>6, <2>2 DEF Resubscribe, ClientTypeOK
  <2> QED  BY <1>6, <2>1, <2>2 DEF Resubscribe
<1>7. CASE Restart
  BY <1>7, Zenon DEF Restart, StartPumps, ClientTypeOK
<1>8. CASE StartFirst
  <2>1. overtaken' \in BOOLEAN
    <3>1. overtaken' = (closing \in {"pumpsGone", "closed"})
      BY ONLY <1>8, Zenon DEF StartFirst
    <3> QED  BY ONLY <3>1
  <2> QED  BY <1>8, <2>1, Zenon DEF StartFirst, StartPumps, ClientTypeOK
<1>9. CASE Supervise
  BY <1>9 DEF Supervise, ClientTypeOK
<1>10. CASE CallbackReturns
  BY <1>10 DEF CallbackReturns, ClientTypeOK
<1> QED
  BY <1>1, <1>2, <1>3, <1>4, <1>5, <1>6, <1>7, <1>8, <1>9, <1>10 DEF Supervisor

\* The pumps keep the types (receivePump, sendPump, heartbeatPump).
LEMMA PumpType ==
  ASSUME TypeInv, ReceivePump \/ SendPump \/ HeartbeatPump
  PROVE  TypeInv'
<1> USE DEF TypeInv, Tidy, PumpFrame, callVars
<1>1. CASE Receive
  BY <1>1 DEF Receive, ClientTypeOK
<1>2. CASE Deliver
  <2>1. deliveries' \in 0..InboxCap
    BY <1>2, ConstantFacts DEF Deliver, ClientTypeOK
  <2> QED  BY <1>2, <2>1 DEF Deliver, ClientTypeOK
<1>3. CASE ReceiveEnds
  BY <1>3 DEF ReceiveEnds, ClientTypeOK
<1>4. CASE Take
  <2>1. /\ hand' \in Frame /\ sendCh' \in Seq(Frame) /\ Len(sendCh') <= QueueCap
    BY <1>4, ConstantFacts DEF Take, ClientTypeOK
  <2> QED  BY <1>4, <2>1 DEF Take, ClientTypeOK
<1>5. CASE Send
  BY <1>5 DEF Send, ClientTypeOK
<1>6. CASE SendEnds
  BY <1>6 DEF SendEnds, ClientTypeOK
<1>7. CASE Tick
  BY <1>7 DEF Tick, ClientTypeOK
<1>8. CASE Ping
  <2>1. CASE Room /\ sendCh' = Append(sendCh, "other")
    <3>1. "other" \in Frame
      BY DEF Frame
    <3> QED  BY <1>8, <2>1, <3>1, QueueType DEF Ping, ClientTypeOK
  <2>2. CASE UNCHANGED sendCh
    BY <1>8, <2>2 DEF Ping, ClientTypeOK
  <2> QED  BY <1>8, <2>1, <2>2 DEF Ping
<1>9. CASE BeatEnds
  BY <1>9 DEF BeatEnds, ClientTypeOK
<1>10. CASE TakeClosed
  <2>1. hand' \in Frame
    BY <1>10 DEF TakeClosed, Frame
  <2> QED  BY <1>10, <2>1 DEF TakeClosed, ClientTypeOK
<1> QED
  BY <1>1, <1>2, <1>3, <1>4, <1>5, <1>6, <1>7, <1>8, <1>9, <1>10
  DEF ReceivePump, SendPump, HeartbeatPump

\* The calls of the application keep the types.
LEMMA CallType ==
  ASSUME TypeInv, NEW p \in Callers,
         Call(p) \/ StoreTargets(p) \/ Enqueue(p) \/ \E t \in Targets : Subscribe(p, t)
  PROVE  TypeInv'
<1> USE DEF TypeInv, Tidy, CallFrame, pumpVars, netVars
<1>1. CASE Call(p)
  BY <1>1 DEF Call, ClientTypeOK, Frame
<1>2. CASE StoreTargets(p)
  BY <1>2 DEF StoreTargets, ClientTypeOK, Frame
<1>3. CASE Enqueue(p)
  <2>1. CASE Room /\ sendCh' = Append(sendCh, request[p])
    <3>1. request[p] \in Frame
      BY <1>3 DEF Enqueue, ClientTypeOK
    <3> QED  BY <1>3, <2>1, <3>1, QueueType DEF Enqueue, ClientTypeOK
  <2>2. CASE UNCHANGED sendCh
    BY <1>3, <2>2 DEF Enqueue, ClientTypeOK
  <2> QED  BY <1>3, <2>1, <2>2 DEF Enqueue
<1>4. ASSUME NEW t \in Targets, Subscribe(p, t)  PROVE TypeInv'
  <2>1. ClientTypeOK'
    BY <1>4, SMTT(60), SMTT(30) DEF Subscribe, ClientTypeOK, Frame
  <2>2. Tidy'
    BY <1>4, SMTT(60), SMTT(30) DEF Subscribe, ClientTypeOK
  <2> QED  BY <2>1, <2>2, Zenon
<1> QED
  BY <1>1, <1>2, <1>3, <1>4

\* Reading, closing, the network and the server keep the types.
LEMMA OtherType ==
  ASSUME TypeInv,
         \/ Consume \/ CloseCancels \/ Close
         \/ Break \/ \E t \in Targets : TakeUp(t)
  PROVE  TypeInv'
<1> USE DEF TypeInv, Tidy, CallFrame, NetFrame, pumpVars, callVars, netVars
<1>1. CASE Consume
  <2>1. deliveries' \in 0..InboxCap
    BY <1>1, ConstantFacts, SMTT(60), ZenonT(60) DEF Consume, ClientTypeOK
  <2> QED  BY <1>1, <2>1 DEF Consume, ClientTypeOK
<1>2. CASE Close
  <2>1. /\ closing' \in {"pumpsGone", "closed"}
        /\ UNCHANGED <<sendCh, deliveries, callVars>> /\ CallFrame
    BY ONLY <1>2, Zenon DEF Close, CloseWaits, CloseEnds
  <2> QED  BY <2>1 DEF ClientTypeOK
<1>3. CASE Break
  <2>1. breaks' \in 0..MaxBreaks
    BY <1>3, ConstantFacts DEF Break, ClientTypeOK
  <2> QED  BY <1>3, <2>1 DEF Break, ClientTypeOK
<1>5. CASE CloseCancels
  BY <1>5 DEF CloseCancels, ClientTypeOK
<1>4. ASSUME NEW t \in Targets, TakeUp(t)  PROVE TypeInv'
  BY <1>4 DEF TakeUp, ClientTypeOK
<1> QED
  BY <1>1, <1>2, <1>3, <1>4, <1>5

\* No step of the client leaves the types.
LEMMA TypeStep ==
  ASSUME TypeInv, [Next]_vars
  PROVE  TypeInv'
<1>1. CASE UNCHANGED vars
  BY <1>1 DEF vars, pumpVars, callVars, netVars, TypeInv, Tidy, ClientTypeOK
<1> QED
  BY <1>1, SupervisorType, PumpType, CallType, OtherType DEF Next

\* Client.connected, the queues, the pumps and the supervisor are well formed,
\* the queues within their capacities, in every run of the client.
THEOREM ClientTypeCorrect == Spec => []ClientTypeOK
<1>1. TypeInv /\ [Next]_vars => TypeInv'
  BY TypeStep
<1>2. TypeInv => ClientTypeOK
  BY DEF TypeInv
<1> QED
  BY <1>1, <1>2, ClientTypeInit, PTL DEF Spec
-----------------------------------------------------------------------------
(* The goroutines *)

\* A Close that has waited for the pumps, and not for Connect, finds none when
\* Connect is done unless Connect was overtaken.
Alone ==
  /\ PumpsAlone /\ ClosedQuietly
  /\ closing = "pumpsGone" /\ sup \in {"pumps", "none"} => overtaken \/ PumpsGone

\* Only startPumps starts pumps, and the supervisor is then waiting for them.
LEMMA AloneStep ==
  ASSUME TypeInv, Alone, [Next]_vars
  PROVE  Alone'
<1> USE DEF Alone, PumpsAlone, ClosedQuietly, PumpsGone
<1>1. CASE Connect \/ Supervise \/ CallbackReturns
  BY <1>1 DEF Connect, Connected, Supervise, CallbackReturns, ConnectFrame, SupFrame, Cancelled,
              pumpVars
<1>8. CASE StartFirst
  BY <1>8 DEF StartFirst, StartPumps, ConnectFrame
<1>2. CASE Supervisor
  <2>1. closing' = closing /\ overtaken' = overtaken
    BY <1>2 DEF Supervisor, Lost, Backoff, Dial, ReadTargets, Resubscribe, Restart, SupFrame,
                pumpVars
  <2>2. CASE Restart
    BY <1>2, <2>1, <2>2 DEF Restart, StartPumps
  <2>3. CASE ~Restart
    <3>1. UNCHANGED <<recv, send, beat>>
      BY <1>2, <2>3 DEF Supervisor, Lost, Backoff, Dial, ReadTargets, Resubscribe, pumpVars
    <3>2. sup # "wait" \/ (PumpsGone /\ (Cancelled => sup' = "done"))
      BY <1>2, <2>3 DEF Supervisor, Lost, Backoff, Dial, ReadTargets, Resubscribe
    <3>3. /\ sup \in {"wait", "backoff", "dial", "targets", "subscribe"}
          /\ sup' \in {"backoff", "dial", "targets", "subscribe", "start", "done"}
      BY <1>2, <2>3 DEF Supervisor, Lost, Backoff, Dial, ReadTargets, Resubscribe
    <3> QED  BY <2>1, <3>1, <3>2, <3>3 DEF Cancelled
  <2> QED  BY <2>2, <2>3
<1>3. CASE ReceivePump \/ SendPump \/ HeartbeatPump
  <2>1. UNCHANGED <<sup, closing, overtaken>> /\ ~PumpsGone
    BY <1>3 DEF ReceivePump, SendPump, HeartbeatPump, Receive, Deliver, ReceiveEnds, Take,
                TakeClosed, Send, SendEnds, Tick, Ping, BeatEnds, PumpFrame
  <2>2. "panicked" \in {send', beat'} => "panicked" \in {send, beat} \/ closing = "closed"
    BY <1>3 DEF ReceivePump, SendPump, HeartbeatPump, Receive, Deliver, ReceiveEnds, Take,
                TakeClosed, Send, SendEnds, Tick, Ping, BeatEnds
  <2> QED  BY <2>1, <2>2, ZenonT(60), SMTT(60) DEF TypeInv, ClientTypeOK
<1>4. ASSUME NEW p \in Callers,
             Call(p) \/ StoreTargets(p) \/ Enqueue(p) \/ \E t \in Targets : Subscribe(p, t)
      PROVE  Alone'
  BY <1>4 DEF Call, StoreTargets, Enqueue, Subscribe, CallFrame, pumpVars
<1>5. CASE Consume \/ CloseCancels \/ Close
  BY <1>5 DEF Consume, CloseCancels, Close, CloseWaits, CloseEnds, CallFrame, pumpVars
<1>6. CASE Break \/ \E t \in Targets : TakeUp(t)
  BY <1>6 DEF Break, TakeUp, NetFrame, pumpVars
<1>7. CASE UNCHANGED vars
  BY <1>7 DEF vars, pumpVars
<1> QED
  BY <1>1, <1>2, <1>3, <1>4, <1>5, <1>6, <1>7, <1>8 DEF Next

\* No pump runs in a client that has not connected.
LEMMA AloneInit == ClientInit => Alone
  BY DEF ClientInit, Alone, PumpsAlone, ClosedQuietly, PumpsGone

\* No pump of a connection is left when it is replaced, however the pumps end
\* and whatever blocks them (supervisor waits for connWg).
THEOREM PumpsAreAlone == Spec => []PumpsAlone
<1>1. TypeInv /\ Alone /\ [Next]_vars => TypeInv' /\ Alone'
  BY TypeStep, AloneStep
<1>2. Alone => PumpsAlone
  BY DEF Alone
<1> QED
  BY <1>1, <1>2, ClientTypeInit, AloneInit, PTL DEF Spec

\* Close closes the channels when no goroutine of the client can send on them,
\* and none ever panics, unless Close overtook Connect before its startPumps.
THEOREM ClosesQuietly == Spec => []ClosedQuietly
<1>1. TypeInv /\ Alone /\ [Next]_vars => TypeInv' /\ Alone'
  BY TypeStep, AloneStep
<1>2. Alone => ClosedQuietly
  BY DEF Alone
<1> QED
  BY <1>1, <1>2, ClientTypeInit, AloneInit, PTL DEF Spec
-----------------------------------------------------------------------------
(* Subscriptions *)

\* A queue loses nothing when a frame is added, or when its head is taken.
LEMMA QueueAdds ==
  ASSUME NEW S, NEW q \in Seq(S), NEW f \in S
  PROVE  ToSet(q) \subseteq ToSet(Append(q, f)) /\ f \in ToSet(Append(q, f))
<1> DEFINE p == Append(q, f)
<1>1. DOMAIN q = 1..Len(q) /\ DOMAIN p = 1..Len(q) + 1 /\ Len(q) \in Nat
  OBVIOUS
<1>2. (\A i \in 1..Len(q) : p[i] = q[i]) /\ p[Len(q) + 1] = f
  OBVIOUS
<1>3. DOMAIN q \subseteq DOMAIN p /\ Len(q) + 1 \in DOMAIN p
  BY <1>1
<1> HIDE DEF p
<1>4. ToSet(q) \subseteq ToSet(p) /\ f \in ToSet(p)
  BY <1>1, <1>2, <1>3, Zenon DEF ToSet
<1> QED  BY <1>4 DEF p

\* What was queued is the head of the queue or still queued.
LEMMA QueueTakes ==
  ASSUME NEW S, NEW q \in Seq(S), q # <<>>
  PROVE  ToSet(q) \subseteq ToSet(Tail(q)) \cup {Head(q)}
<1> SUFFICES ASSUME NEW i \in 1..Len(q)  PROVE q[i] \in ToSet(Tail(q)) \cup {Head(q)}
  BY DEF ToSet
<1>1. CASE i = 1
  BY <1>1
<1>2. CASE i # 1
  <2>1. i - 1 \in DOMAIN Tail(q) /\ Tail(q)[i - 1] = q[i]
    BY <1>2
  <2> QED  BY <2>1, Zenon DEF ToSet
<1> QED  BY <1>1, <1>2

\* The targets t are at the server, on their way, or about to be queued.
Underway(t) ==
  \/ t \in known \cup wire \cup {hand} \cup ToSet(sendCh)
  \/ \E p \in Callers : caller[p] = "enqueue" /\ request[p] = t

\* While the supervisor re-establishes a connection: from the moment it has
\* read the last targets, these or newer ones are under way.
Kept ==
  lastTargets # None /\ link = "up" /\ closing = "open" =>
    /\ sup = "subscribe" => again = lastTargets \/ Underway(lastTargets)
    /\ sup \in {"dialled", "pumps", "none", "start", "callback", "wait"}
         => Underway(lastTargets)

\* Kept is strong enough for SubscriptionKept.
LEMMA KeptSuffices == Kept => SubscriptionKept
  BY ZenonT(60), SMTT(60) DEF Kept, SubscriptionKept, Underway

\* Where a frame leaves the queue it is in sendPump's hand, then on the wire;
\* what a broken stream loses is subscribed again before the next has pumps.
LEMMA KeptStep ==
  ASSUME TypeInv, Alone, Kept, [Next]_vars
  PROVE  Kept'
<1> USE DEF Kept
<1>1. CASE Connect
  <2>1. lastTargets' = None
    BY <1>1 DEF Connect, ConnectFrame, callVars, TypeInv, Tidy
  <2> QED  BY <2>1
<1>10. CASE StartFirst \/ Supervise \/ CallbackReturns
  <2>1. hand' = hand
    BY <1>10 DEF StartFirst, Supervise, CallbackReturns, StartPumps, TypeInv, Tidy, Alone,
                 PumpsAlone, PumpsGone, pumpVars
  <2>2. /\ UNCHANGED <<lastTargets, closing, link, known, wire, sendCh, caller, request>>
        /\ sup \in {"dialled", "pumps", "callback"} /\ sup' # "subscribe"
    BY <1>10 DEF StartFirst, Supervise, CallbackReturns, ConnectFrame, SupFrame, callVars, netVars
  <2> QED  BY <2>1, <2>2 DEF Underway
<1>2. CASE Supervisor
  <2>1. UNCHANGED <<lastTargets, closing, caller, request>>
    BY <1>2 DEF Supervisor, Lost, Backoff, Dial, ReadTargets, Resubscribe, Restart, SupFrame,
                callVars
  <2>2. CASE Lost \/ Backoff \/ Dial
    BY <2>2 DEF Lost, Backoff, Dial
  <2>3. CASE ReadTargets
    BY <2>1, <2>3 DEF ReadTargets
  <2>4. CASE Resubscribe
    <3>1. UNCHANGED <<known, wire, hand, link>> /\ sup = "subscribe" /\ sup' = "start"
      BY <2>4 DEF Resubscribe, pumpVars, netVars
    <3>2. CASE Room /\ sendCh' = Append(sendCh, again)
      <4>1. again \in Frame /\ sendCh \in Seq(Frame)
        BY <3>1 DEF TypeInv, Tidy, ClientTypeOK, Frame
      <4>2. ToSet(sendCh) \subseteq ToSet(sendCh') /\ again \in ToSet(sendCh')
        BY <3>2, <4>1, QueueAdds
      <4> QED  BY <2>1, <3>1, <4>2 DEF Underway
    <3>3. CASE closing # "open"
      BY <2>1, <3>3
    <3> QED  BY <2>4, <3>2, <3>3 DEF Resubscribe, Cancelled
  <2>5. CASE Restart
    <3>1. hand' = hand
      BY <2>5 DEF Restart, StartPumps, TypeInv, Tidy, Alone, PumpsAlone, PumpsGone
    <3> QED  BY <2>1, <2>5, <3>1 DEF Restart, Underway, netVars
  <2> QED  BY <1>2, <2>2, <2>3, <2>4, <2>5 DEF Supervisor
<1>3. CASE ReceivePump \/ HeartbeatPump
  <2>1. /\ UNCHANGED <<lastTargets, closing, sup, again, link>>
        /\ UNCHANGED <<known, wire, hand, caller, request>>
    BY <1>3 DEF ReceivePump, HeartbeatPump, Receive, Deliver, ReceiveEnds, Tick, Ping, BeatEnds,
                PumpFrame, callVars
  <2>2. ToSet(sendCh) \subseteq ToSet(sendCh')
    <3>1. CASE sendCh' = Append(sendCh, "other")
      BY <3>1, QueueAdds DEF TypeInv, ClientTypeOK, Frame
    <3>2. CASE UNCHANGED sendCh
      BY <3>2
    <3> QED
      BY <1>3, <3>1, <3>2 DEF ReceivePump, HeartbeatPump, Receive, Deliver, ReceiveEnds, Tick,
                              Ping, BeatEnds
  <2> QED  BY <2>1, <2>2, SMTT(60), ZenonT(60) DEF Underway
<1>4. CASE SendPump
  <2>1. /\ UNCHANGED <<lastTargets, closing, sup, again, link, known, caller, request>>
    BY <1>4, ZenonT(60), SMTT(60) DEF SendPump, Take, TakeClosed, Send, SendEnds, PumpFrame, callVars
  <2>2. CASE Take
    <3>1. ToSet(sendCh) \subseteq ToSet(sendCh') \cup {hand'} /\ hand = None
      BY <2>2, QueueTakes DEF Take, TypeInv, Tidy, ClientTypeOK
    <3> QED  BY <2>1, <2>2, <3>1 DEF Underway, Take
  <2>3. CASE Send
    BY <2>1, <2>3 DEF Underway, Send, TypeInv, ClientTypeOK
  <2>4. CASE SendEnds
    BY <2>1, <2>4 DEF Underway, SendEnds, TypeInv, Tidy, Cancelled
  <2>5. CASE TakeClosed
    BY <2>1, <2>5 DEF TakeClosed
  <2> QED  BY <1>4, <2>2, <2>3, <2>4, <2>5 DEF SendPump
<1>5. ASSUME NEW p \in Callers,
             Call(p) \/ StoreTargets(p) \/ Enqueue(p) \/ \E t \in Targets : Subscribe(p, t)
      PROVE  Kept'
  <2>1. UNCHANGED <<closing, sup, again, link, known, wire, hand>>
    BY <1>5, ZenonT(60), SMTT(60)
    DEF Call, StoreTargets, Enqueue, Subscribe, CallFrame, pumpVars, netVars
  <2>2. CASE Call(p) \/ \E t \in Targets : Subscribe(p, t)
    <3>1. /\ UNCHANGED <<sendCh, lastTargets>> /\ caller[p] = "idle"
          /\ \A r \in Callers \ {p} : caller'[r] = caller[r] /\ request'[r] = request[r]
      BY <2>2 DEF Call, Subscribe, TypeInv, ClientTypeOK
    <3> QED  BY <2>1, <3>1 DEF Underway
  <2>3. CASE StoreTargets(p)
    BY <2>1, <2>3 DEF StoreTargets, Underway, TypeInv, ClientTypeOK
  <2>4. CASE Enqueue(p)
    <3>1. CASE closing = "open"
      <4>1. sendCh' = Append(sendCh, request[p]) /\ caller' = [caller EXCEPT ![p] = "idle"]
        BY <2>4, <3>1 DEF Enqueue, Cancelled
      <4>2. ToSet(sendCh) \subseteq ToSet(sendCh') /\ request[p] \in ToSet(sendCh')
        BY <2>4, <4>1, QueueAdds DEF Enqueue, TypeInv, ClientTypeOK
      <4> QED  BY <2>1, <2>4, <4>1, <4>2 DEF Enqueue, Underway, TypeInv, ClientTypeOK
    <3>2. CASE closing # "open"
      BY <2>1, <3>2, SMTT(60), ZenonT(60)
    <3> QED  BY <3>1, <3>2
  <2> QED  BY <1>5, <2>2, <2>3, <2>4, SMTT(60), ZenonT(60)
<1>6. CASE Consume \/ CloseCancels \/ Close
  BY <1>6 DEF Consume, CloseCancels, Close, CloseWaits, CloseEnds, CallFrame, pumpVars, callVars,
              netVars, Underway
<1>7. CASE Break
  BY <1>7, SMTT(60), ZenonT(60) DEF Break
<1>8. CASE \E t \in Targets : TakeUp(t)
  BY <1>8, SMTT(60), ZenonT(60) DEF TakeUp, NetFrame, pumpVars, callVars, Underway
<1>9. CASE UNCHANGED vars
  BY <1>9 DEF vars, pumpVars, callVars, netVars, Underway
<1> QED
  BY <1>1, <1>2, <1>3, <1>4, <1>5, <1>6, <1>7, <1>8, <1>9, <1>10 DEF Next

\* The targets subscribed last are at the server or on their way whenever a
\* connection has its pumps, for any capacity of the queue, any callers and any
\* number of reconnects (sendSubscribe before startPumps).
THEOREM SubscriptionsAreKept == Spec => []SubscriptionKept
<1>1. ClientInit => Kept
  BY DEF ClientInit, Kept
<1>2. TypeInv /\ Alone /\ Kept /\ [Next]_vars => TypeInv' /\ Alone' /\ Kept'
  BY TypeStep, AloneStep, KeptStep
<1> QED
  BY <1>1, <1>2, ClientTypeInit, AloneInit, KeptSuffices, PTL DEF Spec
=============================================================================
