---------------------------- MODULE DeliveryProofs ----------------------------
(***************************************************************************)
(* Proofs for module Delivery: types, the limit on what is in flight, the  *)
(* order of frames, and that the counters never count more than is in      *)
(* flight and what has leaked.                                             *)
(***************************************************************************)
EXTENDS Delivery, MailboxProofs

\* What the types rest on: the variables of DeliverToSession are clear until it
\* runs, and the ACK handler decrements only by a positive distance.
LoopTidy ==
  /\ loopPc \in {"idle", "fetch"} => batch = {} /\ rest = {} /\ kept = {}
  /\ loopPc # "count" => counted = 0
  /\ ackPc = "decrement" => ack.seq > prev

TypeInv == DeliveryTypeOK /\ LoopTidy

\* A frame made of envelopes of a finite set is a sequence of them, as long as
\* the set is large (batchByQoS loses and adds nothing).
LEMMA FrameFacts ==
  ASSUME NEW S, IsFiniteSet(S), NEW f \in Frames(S)
  PROVE  f \in Seq(S) /\ Len(f) = Cardinality(S) /\ Cardinality(S) \in Nat
<1>1. Cardinality(S) \in Nat
  BY FS_CardinalityType
<1>2. f \in [1..Cardinality(S) -> S]
  BY DEF Frames
<1> QED  BY <1>1, <1>2

\* The types hold when the Spine and the client start.
LEMMA DeliveryTypeInit == DeliveryInit => TypeInv
<1> SUFFICES ASSUME DeliveryInit PROVE TypeInv
  OBVIOUS
<1>1. MailboxTypeOK
  BY MailboxTypeInit DEF DeliveryInit
<1>2. IsFiniteSet(batch)
  BY FS_EmptySet DEF DeliveryInit, LoopInit
<1> QED
  BY <1>1, <1>2 DEF DeliveryInit, LoopInit, TypeInv, LoopTidy, DeliveryTypeOK, NoAck, QoS

\* The state a connection begins with is well typed.
LEMMA ResetType ==
  ASSUME LoopReset
  PROVE  /\ inflight' \in [QoS -> Nat] /\ upTo' \in [Mailboxes -> Nat]
         /\ loopPc' = "idle" /\ todo' = {} /\ mb' = None /\ start' = 0
         /\ batch' = {} /\ IsFiniteSet(batch') /\ rest' = {} /\ kept' = {}
         /\ frame' = <<>> /\ counted' = 0 /\ sent' = <<>> /\ got' = 0
         /\ acks' = <<>> /\ ackPc' = "recv" /\ ack' = NoAck /\ prev' = 0 /\ dec' = {}
         /\ leaked' = {}
  BY FS_EmptySet, SMTT(60), ZenonT(60) DEF LoopReset

\* The loop, the ack handler and the client of a new connection are well typed.
LEMMA ResetKeepsType ==
  ASSUME LoopReset, MailboxTypeOK', cursor' \in [Mailboxes -> Nat], savedSubs' \subseteq Mailboxes,
         conn' \in {"down", "up", "broken"}, connects' \in Nat, subs' \subseteq Mailboxes,
         lingering' \subseteq Ack, received' \subseteq Envelope, skipped' \subseteq Envelope
  PROVE  TypeInv'
<1>1. /\ loopPc' \in {"idle", "fetch", "filter", "count"} /\ todo' \subseteq Mailboxes
      /\ mb' \in Mailboxes \cup {None} /\ (loopPc' # "idle" => mb' \in Mailboxes)
      /\ batch' \subseteq Envelope /\ rest' \subseteq batch' /\ kept' \subseteq batch'
      /\ ackPc' \in {"recv", "update", "decrement"} /\ ack' \in Ack \cup {NoAck}
      /\ (ackPc' # "recv" => ack' \in Ack) /\ dec' \subseteq QoS /\ leaked' \subseteq Envelope
  BY ResetType, Zenon
<1>2. /\ start' \in Nat /\ frame' \in Seq(Envelope) /\ counted' \in 0..Len(frame')
      /\ sent' \in Seq(Seq(Envelope)) /\ got' \in 0..Len(sent') /\ acks' \in Seq(Ack)
      /\ prev' \in Nat
  BY ResetType
<1>3. LoopTidy'
  BY ResetType, Zenon DEF LoopTidy
<1> QED  BY ResetType, <1>1, <1>2, <1>3, Zenon DEF TypeInv, DeliveryTypeOK

\* Connections, breaks, crashes and subscriptions keep the types.
LEMMA SessionType ==
  ASSUME TypeInv, SessionStep
  PROVE  TypeInv'
<1> USE DEF TypeInv, LoopTidy, DeliveryTypeOK
<1>1. ASSUME NEW resumed \in BOOLEAN, Connect(resumed)
      PROVE  TypeInv'
  <2>1. MailboxTypeOK'
    BY <1>1, MailboxTypeStep DEF Connect
  <2>2. lingering' \subseteq Ack
    BY <1>1 DEF Connect
  <2>3. LoopReset
    BY <1>1, Zenon DEF Connect
  <2>4. /\ connects' \in Nat /\ subs' \subseteq Mailboxes /\ savedSubs' \subseteq Mailboxes
        /\ conn' \in {"down", "up", "broken"} /\ cursor' \in [Mailboxes -> Nat]
    BY <1>1 DEF Connect
  <2> QED
    BY <1>1, <2>1, <2>2, <2>3, <2>4, ResetKeepsType, Zenon DEF Connect
<1>2. CASE Break
  <2>1. MailboxTypeOK'
    BY <1>2, MailboxTypeStep DEF Break
  <2> QED
    BY <1>2, <2>1 DEF Break, loopVars, ackVars, clientVars
<1>3. CASE Crash
  <2>1. MailboxTypeOK'
    BY <1>3, MailboxTypeStep DEF Crash, MailboxStep
  <2>2. LoopReset
    BY <1>3 DEF Crash
  <2> QED
    BY <1>3, <2>1, <2>2, ResetKeepsType, Zenon DEF Crash
<1>4. ASSUME NEW S \in SUBSET Mailboxes, Subscribe(S)
      PROVE  TypeInv'
  <2>1. MailboxTypeOK'
    BY <1>4, MailboxTypeStep DEF Subscribe
  <2> QED
    BY <1>4, <2>1 DEF Subscribe, AddSubscription, UpdateSubscriptions, loopVars, ackVars, clientVars
<1> QED
  BY <1>1, <1>2, <1>3, <1>4, Zenon DEF SessionStep

\* The loop leaves the store, the ACK handler, the session and the client alone.
LEMMA LoopFrameType ==
  ASSUME TypeInv, LoopFrame
  PROVE  /\ MailboxTypeOK' /\ UNCHANGED <<cursor, lingering>>
         /\ UNCHANGED <<acks, ackPc, ack, prev, dec>>
         /\ UNCHANGED <<conn, connects, subs, savedSubs>>
         /\ UNCHANGED <<got, received>>
<1>1. UNCHANGED mailboxVars
  BY DEF LoopFrame
<1>2. MailboxTypeOK'
  BY <1>1, MailboxTypeStep DEF TypeInv, DeliveryTypeOK
<1> QED
  BY <1>2 DEF LoopFrame, ackVars, sessionVars, clientVars

\* Everything sent or counted is an envelope.
LEMMA CountedType ==
  ASSUME TypeInv
  PROVE  Counted \subseteq Envelope
<1>1. sent \in Seq(Seq(Envelope)) /\ frame \in Seq(Envelope) /\ counted \in 0..Len(frame)
  BY Zenon DEF TypeInv, DeliveryTypeOK
<1>2. \A f \in Seq(Envelope) : Content(f) \subseteq Envelope
  <2>1. \A f \in Seq(Envelope) : \A i \in DOMAIN f : f[i] \in Envelope
    OBVIOUS
  <2> QED  BY <2>1, Zenon DEF Content
<1>3. \A i \in DOMAIN sent : sent[i] \in Seq(Envelope)
  BY ONLY <1>1
<1>4. \A i \in 1..counted : frame[i] \in Envelope
  BY ONLY <1>1
<1> QED  BY <1>2, <1>3, <1>4, Zenon DEF Counted

\* Whatever GetAckPositions yields is a position.
LEMMA PositionType ==
  ASSUME TypeInv, NEW m \in Mailboxes
  PROVE  GetAckPositions(m) \subseteq Nat
<1>1. cursor[m] \in Nat /\ 0 \in Nat
  BY DEF TypeInv, DeliveryTypeOK
<1>2. CASE DbErrors
  BY <1>1, <1>2 DEF GetAckPositions
<1>3. CASE ~DbErrors
  BY <1>1, <1>3 DEF GetAckPositions
<1> QED  BY <1>2, <1>3

\* Every step of the delivery loop (deliveryLoop, deliverFromMailbox,
\* DeliverToSession) keeps the types.
LEMMA LoopType ==
  ASSUME TypeInv, LoopStep
  PROVE  TypeInv'
<1> USE DEF TypeInv, LoopTidy, DeliveryTypeOK
<1>0. LoopFrame
  BY Zenon DEF LoopStep, Wake, ReadCursor, ReadCursorFails, Fetch, FetchNothing,
         Filter, AllFiltered, Group, Count, Send, SendFails
<1>a. MailboxTypeOK' /\ UNCHANGED <<cursor, lingering, acks, ackPc, ack, prev, dec,
                                    conn, connects, subs, savedSubs, got, received>>
  BY <1>0, LoopFrameType
<1>b. IsFiniteSet({})
  BY FS_EmptySet
<1>1. CASE Wake
  BY <1>1, <1>a DEF Wake
<1>2. ASSUME NEW m \in Mailboxes, ReadCursor(m)
      PROVE  TypeInv'
  BY <1>2, <1>a, PositionType, SMTT(60), ZenonT(60) DEF ReadCursor, Most
<1>3. ASSUME NEW m \in Mailboxes, ReadCursorFails(m)
      PROVE  TypeInv'
  BY <1>3, <1>a DEF ReadCursorFails
<1>4. CASE Fetch
  <2>1. batch' \subseteq Envelope /\ rest' = batch' /\ batch' \subseteq envelopes
    BY <1>4 DEF Fetch, Fetchable, MailboxTypeOK
  <2>2. IsFiniteSet(batch')
    BY <2>1, FS_Subset DEF MailboxTypeOK
  <2>3. kept' = {} /\ kept' \subseteq batch' /\ counted' = 0
    BY <1>4 DEF Fetch
  <2> QED  BY <1>4, <1>a, <2>1, <2>2, <2>3, ZenonT(60), SMTT(60) DEF Fetch
<1>5. CASE FetchNothing
  BY <1>5, <1>a, <1>b DEF FetchNothing, Return
<1>6. ASSUME NEW e \in rest, Filter(e)
      PROVE  TypeInv'
  <2>1. rest' \subseteq batch' /\ kept' \subseteq batch' /\ batch' = batch
    BY <1>6 DEF Filter
  <2> QED  BY <1>6, <1>a, <2>1 DEF Filter
<1>7. CASE AllFiltered
  BY <1>7, <1>a, <1>b DEF AllFiltered, Return
<1>8. CASE Group
  <2>1. IsFiniteSet(kept)
    BY FS_Subset
  <2>2. frame' \in Seq(kept) /\ Len(frame') \in Nat
    BY <1>8, <2>1, FrameFacts DEF Group
  <2>3. frame' \in Seq(Envelope) /\ counted' = 0 /\ counted' \in 0..Len(frame')
    BY <1>8, <2>2 DEF Group
  <2> QED  BY <1>8, <1>a, <2>3 DEF Group
<1>9. CASE Count
  <2> DEFINE q == QoSOf[frame[counted + 1].id]
  <2>1. counted' \in 0..Len(frame') /\ inflight' = [inflight EXCEPT ![q] = inflight[q] + 1]
    BY <1>9 DEF Count, IncrementInflight
  <2> HIDE DEF q
  <2>2. inflight' \in [QoS -> Nat]
    <3>0. inflight \in [QoS -> Nat]
      OBVIOUS
    <3>1. CASE q \in QoS
      <4>1. inflight[q] + 1 \in Nat
        BY <3>0, <3>1
      <4> QED  BY ONLY <2>1, <3>0, <4>1, Zenon
    <3>2. CASE q \notin QoS
      <4>1. \A r \in QoS : inflight'[r] = inflight[r]
        BY ONLY <2>1, <3>0, <3>2
      <4>2. inflight' = [r \in QoS |-> inflight'[r]]
        BY ONLY <2>1, <3>0, Zenon
      <4> QED  BY ONLY <3>0, <4>1, <4>2
    <3> QED  BY <3>1, <3>2
  <2>3. leaked' \subseteq Envelope
    <3>1. /\ frame \in Seq(Envelope) /\ counted \in 0..Len(frame) /\ counted < Len(frame)
          /\ leaked \subseteq Envelope
          /\ leaked' = leaked \cup {e \in {frame[counted + 1]} : e.seq <= cursor[e.mb]}
      BY <1>9, Zenon DEF Count
    <3>2. frame[counted + 1] \in Envelope
      BY ONLY <3>1
    <3> QED  BY <3>1, <3>2, Zenon
  <2> QED  BY <1>9, <1>a, <2>1, <2>2, <2>3, ZenonT(60) DEF Count, IncrementInflight
<1>10. CASE Send
  <2>1. sent' \in Seq(Seq(Envelope)) /\ got' \in 0..Len(sent')
    BY <1>10, <1>a DEF Send
  <2>2. upTo' \in [Mailboxes -> Nat]
    BY <1>10 DEF Send, Most, Envelope
  <2>3. skipped' \subseteq Envelope
    BY <1>10 DEF Send
  <2>4. /\ loopPc' = "idle" /\ todo' = todo /\ mb' = None /\ start' \in Nat
        /\ batch' = {} /\ rest' = {} /\ kept' = {} /\ inflight' = inflight /\ leaked' = leaked
        /\ frame' \in Seq(Envelope) /\ counted' = 0 /\ counted' \in 0..Len(frame')
    BY ONLY <1>10 DEF Send, Return
  <2> QED  BY <1>a, <1>b, <2>1, <2>2, <2>3, <2>4, ZenonT(60)
<1>11. CASE SendFails
  BY <1>11, <1>a, <1>b DEF SendFails, Return
<1> QED
  BY <1>1, <1>2, <1>3, <1>4, <1>5, <1>6, <1>7, <1>8, <1>9, <1>10, <1>11, ZenonT(60) DEF LoopStep

\* Every step of the ACK handler (HandleCumulativeAck, handleClientFrame) keeps
\* the types; the counters stay natural numbers by the floor of DecrementInflight.
LEMMA AckType ==
  ASSUME TypeInv, AckStep
  PROVE  TypeInv'
<1> USE DEF TypeInv, LoopTidy, DeliveryTypeOK
<1>0. AckFrame
  BY DEF AckStep, AckRead, AckUpdate, AckUpdateFails, AckDecrement, LingeringAck
<1>a. UNCHANGED <<upTo, sent, skipped, loopPc, todo, mb, start, batch, rest, kept,
                  frame, counted, conn, connects, subs, savedSubs, got, received>>
  BY <1>0 DEF AckFrame, loopVars, sessionVars, clientVars
<1>b. MailboxTypeOK'
  BY <1>0, MailboxTypeStep DEF AckFrame
<1>c. Passed \subseteq Envelope
  BY CountedType, Zenon DEF Passed
<1>d. ASSUME NEW a \in Ack, Advance(a) \/ UNCHANGED cursor
      PROVE  cursor' \in [Mailboxes -> Nat]
  <2>1. cursor \in [Mailboxes -> Nat] /\ a.mb \in Mailboxes /\ a.seq \in Nat
    BY DEF Ack
  <2> QED  BY ONLY <1>d, <2>1 DEF Advance, Most
<1>1. CASE AckRead
  <2>1. Head(acks) \in Ack /\ Tail(acks) \in Seq(Ack)
    BY <1>1 DEF AckRead
  <2>2. prev' \in Nat
    BY <1>1, <2>1, PositionType, Zenon DEF AckRead, Ack
  <2> QED  BY <1>1, <1>a, <1>b, <2>1, <2>2, ZenonT(60), SMTT(60) DEF AckRead
<1>2. CASE AckUpdate
  <2>1. cursor' \in [Mailboxes -> Nat]
    BY <1>2 DEF AckUpdate, Advance, Most, Ack
  <2>2. CASE ack.seq > prev
    BY <1>2, <1>a, <1>b, <2>1, <2>2, SMTT(60), ZenonT(60) DEF AckUpdate
  <2>3. CASE ~(ack.seq > prev)
    <3>1. /\ ackPc' = "recv" /\ ack' = NoAck /\ prev' = 0 /\ dec' = {}
          /\ UNCHANGED <<inflight, leaked, acks, lingering>>
      BY <1>2, <2>3, Zenon DEF AckUpdate, AckDone
    <3>2. /\ ackPc' \in {"recv", "update", "decrement"} /\ ack' \in Ack \cup {NoAck}
          /\ (ackPc' # "recv" => ack' \in Ack) /\ dec' \subseteq QoS /\ prev' \in Nat
      BY <3>1
    <3> QED  BY <1>a, <1>b, <2>1, <3>1, <3>2, ZenonT(60)
  <2> QED  BY <2>2, <2>3, Zenon
<1>3. CASE AckUpdateFails
  <2>1. /\ ackPc' = "recv" /\ ack' = NoAck /\ prev' = 0 /\ dec' = {}
        /\ leaked' = leaked \cup Passed /\ UNCHANGED <<inflight, acks, lingering>>
    BY <1>3, Zenon DEF AckUpdateFails, AckDone
  <2>2. /\ ackPc' \in {"recv", "update", "decrement"} /\ ack' \in Ack \cup {NoAck}
        /\ (ackPc' # "recv" => ack' \in Ack) /\ dec' \subseteq QoS /\ prev' \in Nat
    BY ONLY <2>1
  <2>3. ack \in Ack /\ (Advance(ack) \/ UNCHANGED cursor)
    BY <1>3 DEF AckUpdateFails
  <2>4. cursor' \in [Mailboxes -> Nat]
    BY <1>d, <2>3
  <2>5. leaked' \subseteq Envelope
    BY <1>c, <2>1, Zenon
  <2> QED  BY <1>a, <1>b, <2>1, <2>2, <2>4, <2>5, ZenonT(60)
<1>4. ASSUME NEW q \in QoS, AckDecrement(q)
      PROVE  TypeInv'
  <2>1. inflight' \in [QoS -> Nat]
    <3>1. /\ inflight \in [QoS -> Nat] /\ ack \in Ack /\ prev \in Nat
          /\ inflight' = [inflight EXCEPT ![q] = Most(0, @ - (ack.seq - prev))]
      BY <1>4, Zenon DEF AckDecrement, DecrementInflight
    <3>2. ack.seq \in Nat
      BY ONLY <3>1 DEF Ack
    <3> QED  BY ONLY <3>1, <3>2 DEF Most
  <2>2. CASE dec = {q}
    <3>1. /\ ackPc' = "recv" /\ ack' = NoAck /\ prev' = 0 /\ dec' = {}
          /\ UNCHANGED <<cursor, leaked, acks, lingering>>
      BY <1>4, <2>2, Zenon DEF AckDecrement, AckDone
    <3>2. /\ ackPc' \in {"recv", "update", "decrement"} /\ ack' \in Ack \cup {NoAck}
          /\ (ackPc' # "recv" => ack' \in Ack) /\ dec' \subseteq QoS /\ prev' \in Nat
      BY ONLY <3>1
    <3> QED  BY <1>a, <1>b, <2>1, <3>1, <3>2, ZenonT(60)
  <2>3. CASE dec # {q}
    BY <1>4, <1>a, <1>b, <2>1, <2>3, SMTT(60), ZenonT(60) DEF AckDecrement
  <2> QED  BY <2>2, <2>3, Zenon
<1>5. ASSUME NEW a \in lingering, LingeringAck(a)
      PROVE  TypeInv'
  <2>1. cursor' \in [Mailboxes -> Nat]
    BY <1>d, <1>5, Zenon DEF LingeringAck
  <2>2. leaked' \subseteq Envelope
    BY <1>c, <1>5, Zenon DEF LingeringAck
  <2>3. lingering' \subseteq Ack /\ UNCHANGED <<inflight, acks, ackPc, ack, prev, dec>>
    BY <1>5 DEF LingeringAck, ackVars
  <2> QED  BY <1>a, <1>b, <2>1, <2>2, <2>3, ZenonT(60)
<1> QED
  BY <1>1, <1>2, <1>3, <1>4, <1>5, Zenon DEF AckStep

\* Receiving a frame and sending an ACK keep the types.
LEMMA ClientType ==
  ASSUME TypeInv, ClientStep
  PROVE  TypeInv'
<1> USE DEF TypeInv, LoopTidy, DeliveryTypeOK
<1>1. CASE ClientReceive
  <2>1. MailboxTypeOK'
    BY <1>1, MailboxTypeStep DEF ClientReceive
  <2>2. sent[got + 1] \in Seq(Envelope) /\ got' \in 0..Len(sent')
    BY <1>1 DEF ClientReceive
  <2>3. Content(sent[got + 1]) \subseteq Envelope
    <3> DEFINE f == sent[got + 1]
    <3>1. f \in Seq(Envelope)
      BY <2>2
    <3> HIDE DEF f
    <3>2. \A i \in DOMAIN f : f[i] \in Envelope
      BY ONLY <3>1
    <3>3. Content(f) \subseteq Envelope
      BY ONLY <3>2 DEF Content
    <3> QED  BY ONLY <3>3 DEF f
  <2> QED
    BY <1>1, <2>1, <2>2, <2>3, Zenon DEF ClientReceive, loopVars, ackVars, sessionVars
<1>2. ASSUME NEW e \in received, ClientAck(e)
      PROVE  TypeInv'
  <2>1. MailboxTypeOK'
    BY <1>2, MailboxTypeStep DEF ClientAck
  <2>2. [mb |-> e.mb, seq |-> e.seq] \in Ack
    BY Zenon DEF Ack, Envelope
  <2>3. acks' \in Seq(Ack)
    BY <1>2, <2>2 DEF ClientAck
  <2> QED
    BY <1>2, <2>1, <2>3 DEF ClientAck, loopVars, sessionVars, clientVars
<1> QED  BY <1>1, <1>2, Zenon DEF ClientStep

\* ACK_SET, NACK and FLOW_HINT change nothing.
LEMMA OtherFrameIdle == OtherFrame => UNCHANGED vars
  BY DEF OtherFrame, HandleSelectiveAck, HandleNack, HandleBackpressure

\* Every step of the system keeps TypeInv.
LEMMA TypeStep ==
  ASSUME TypeInv, [Next]_vars
  PROVE  TypeInv'
<1>1. CASE MailboxNext /\ UNCHANGED deliveryVars
  <2>1. MailboxTypeOK'
    BY <1>1, MailboxTypeStep DEF TypeInv, DeliveryTypeOK, MailboxStep
  <2> QED
    BY <1>1, <2>1 DEF TypeInv, LoopTidy, DeliveryTypeOK, deliveryVars, loopVars,
                      ackVars, sessionVars, clientVars
<1>2. CASE UNCHANGED vars
  <2>1. MailboxTypeOK'
    BY <1>2, MailboxTypeStep DEF TypeInv, DeliveryTypeOK, vars
  <2> QED
    BY <1>2, <2>1 DEF TypeInv, LoopTidy, DeliveryTypeOK, vars, deliveryVars, loopVars,
                      ackVars, sessionVars, clientVars
<1> QED
  BY <1>1, <1>2, OtherFrameIdle, SessionType, LoopType, AckType, ClientType DEF Next

\* Every reachable state is well formed, for any mailboxes, limits and numbers
\* of connections; in particular no inflight counter becomes negative.
THEOREM DeliveryTypeCorrect == Spec => []DeliveryTypeOK
<1>1. TypeInv => DeliveryTypeOK
  BY DEF TypeInv
<1> QED  BY <1>1, DeliveryTypeInit, TypeStep, PTL DEF Spec

-----------------------------------------------------------------------------
(* Flow control.  The loop reads the counters once, to compute its fetch     *)
(* limit, and counts what it sends several steps later.  In between only the *)
(* ACK handler touches the counters, and downwards: what was fetched and is  *)
(* not yet counted still fits under the limit.                               *)

RoomForBatch ==
  /\ loopPc = "filter" => Total + Cardinality(batch) <= MaxInflightTotal
  /\ loopPc = "count" => Total + (Len(frame) - counted) <= MaxInflightTotal

FlowInv == TypeInv /\ InflightBounded /\ RoomForBatch

\* GetTotalInflight is a natural number.
LEMMA TotalType == TypeInv => Total \in Nat
  BY DEF TypeInv, DeliveryTypeOK, Total, QoS

\* The total of the flow counters stays a number.
LEMMA TotalTypeNext == TypeInv' => Total' \in Nat
<1>1. TypeInv' => inflight' \in [QoS -> Nat]
  BY Zenon DEF TypeInv, DeliveryTypeOK
<1>2. inflight' \in [QoS -> Nat] => Total' \in Nat
  BY DEF Total, QoS
<1> QED  BY <1>1, <1>2, Zenon

\* A step that lowers the counters or leaves them, and does not touch the
\* batch or ends it, keeps the room.
LEMMA FlowQuiet ==
  ASSUME FlowInv, TypeInv', Total' <= Total,
         \/ loopPc' \in {"idle", "fetch"}
         \/ UNCHANGED <<loopPc, batch, frame, counted>>
  PROVE  FlowInv'
<1>1. Total \in Nat /\ Total' \in Nat
  BY TotalType, TotalTypeNext DEF FlowInv
<1>2. IsFiniteSet(batch) /\ Cardinality(batch) \in Nat
  BY FS_CardinalityType DEF FlowInv, TypeInv, DeliveryTypeOK
<1>3. Len(frame) \in Nat /\ counted \in Nat
  BY DEF FlowInv, TypeInv, DeliveryTypeOK
<1>4. MaxInflightTotal \in Nat
  BY DeliveryAssumption
<1> QED
  BY <1>1, <1>2, <1>3, <1>4 DEF FlowInv, InflightBounded, RoomForBatch

\* Fetching takes no more than the room that is left.
LEMMA FlowFetch ==
  ASSUME FlowInv, TypeInv', Fetch
  PROVE  FlowInv'
<1>1. Total \in Nat /\ MaxInflightTotal \in Nat /\ BatchLimit \in Nat
  BY TotalType, DeliveryAssumption, SMTT(60), ZenonT(60) DEF FlowInv
<1>2. IsFiniteSet(Fetchable)
  BY FS_Subset, Zenon DEF Fetchable, FlowInv, TypeInv, DeliveryTypeOK, MailboxTypeOK
<1>3. Cardinality(Fetchable) \in Nat
  BY <1>2, FS_CardinalityType
<1>4. Cardinality(batch')
        = Least(Least(MaxInflightTotal - Total, BatchLimit), Cardinality(Fetchable))
  BY Zenon DEF Fetch, Fetched
<1>5. Total < MaxInflightTotal /\ Total' = Total /\ loopPc' = "filter"
  BY DEF Fetch, Total
<1>6. Cardinality(batch') \in Nat /\ Total + Cardinality(batch') <= MaxInflightTotal
  BY <1>1, <1>3, <1>4, <1>5 DEF Least
<1> QED
  BY <1>1, <1>5, <1>6 DEF FlowInv, InflightBounded, RoomForBatch

\* The frame is at most as long as the batch, so it fits too.
LEMMA FlowGroup ==
  ASSUME FlowInv, TypeInv', Group
  PROVE  FlowInv'
<1>1. Total \in Nat /\ MaxInflightTotal \in Nat
  BY TotalType, DeliveryAssumption DEF FlowInv
<1>2. IsFiniteSet(batch) /\ IsFiniteSet(kept) /\ kept \subseteq batch
  BY FS_Subset, Zenon DEF FlowInv, TypeInv, DeliveryTypeOK
<1>3. /\ Cardinality(kept) \in Nat /\ Cardinality(batch) \in Nat
      /\ Cardinality(kept) <= Cardinality(batch)
  BY <1>2, FS_CardinalityType, FS_Subset
<1>4. Len(frame') = Cardinality(kept)
  BY <1>2, FrameFacts DEF Group
<1>5. /\ Total' = Total /\ loopPc = "filter" /\ loopPc' = "count"
      /\ counted' = counted /\ counted = 0
  BY DEF Group, Total, FlowInv, TypeInv, LoopTidy
<1> QED
  BY <1>1, <1>3, <1>4, <1>5 DEF FlowInv, InflightBounded, RoomForBatch

\* Counting an envelope uses up one place of the room reserved for it.
LEMMA FlowCount ==
  ASSUME FlowInv, TypeInv', Count
  PROVE  FlowInv'
<1> DEFINE q == QoSOf[frame[counted + 1].id]
<1>1. Total \in Nat /\ Total' \in Nat /\ MaxInflightTotal \in Nat
  BY TotalType, TotalTypeNext, DeliveryAssumption DEF FlowInv
<1>2. inflight' = [inflight EXCEPT ![q] = inflight[q] + 1]
  BY DEF Count, IncrementInflight
<1> HIDE DEF q
<1>3. inflight \in [QoS -> Nat] /\ Len(frame) \in Nat /\ counted \in Nat
  <2>1. inflight \in [QoS -> Nat] /\ frame \in Seq(Envelope) /\ counted \in 0..Len(frame)
    BY SMTT(60), ZenonT(60) DEF FlowInv, TypeInv, DeliveryTypeOK
  <2> QED  BY ONLY <2>1
<1>4. /\ loopPc = "count" /\ loopPc' = "count" /\ frame' = frame
      /\ counted < Len(frame) /\ counted' = counted + 1
  BY DEF Count, IncrementInflight
<1>5. Total' <= Total + 1
  <2>1. \A r \in QoS : inflight'[r] = IF r = q THEN inflight[r] + 1 ELSE inflight[r]
    BY ONLY <1>2, <1>3
  <2> QED  BY ONLY <1>3, <2>1 DEF Total, QoS
<1> QED
  BY <1>1, <1>3, <1>4, <1>5 DEF FlowInv, InflightBounded, RoomForBatch

\* DecrementInflight lowers a counter, since the distance is positive.
LEMMA FlowDecrement ==
  ASSUME FlowInv, TypeInv', NEW q \in QoS, AckDecrement(q)
  PROVE  FlowInv'
<1>1. /\ inflight \in [QoS -> Nat] /\ ack.seq \in Nat /\ prev \in Nat
      /\ ack.seq > prev
  BY DEF AckDecrement, FlowInv, TypeInv, LoopTidy, DeliveryTypeOK, Ack
<1>2. \A r \in QoS : inflight'[r] \in Nat /\ inflight'[r] <= inflight[r]
  BY <1>1 DEF AckDecrement, DecrementInflight, Most
<1>3. Total' <= Total
  BY <1>1, <1>2 DEF Total, QoS
<1>4. UNCHANGED <<loopPc, batch, frame, counted>>
  BY DEF AckDecrement, AckFrame, loopVars
<1> QED  BY <1>3, <1>4, FlowQuiet, SMTT(60), ZenonT(60)

\* Every step keeps FlowInv.
LEMMA FlowStep ==
  ASSUME FlowInv, [Next]_vars
  PROVE  FlowInv'
<1>0. TypeInv' /\ Total \in Nat
  BY TypeStep, TotalType DEF FlowInv
<1>1. ASSUME UNCHANGED <<inflight, loopPc, batch, frame, counted>>
      PROVE  FlowInv'
  <2>1. Total' <= Total
    BY <1>0, <1>1 DEF Total
  <2> QED  BY <1>0, <1>1, <2>1, FlowQuiet
<1>2. ASSUME inflight' = inflight, loopPc' \in {"idle", "fetch"}
      PROVE  FlowInv'
  <2>1. Total' <= Total
    BY <1>0, <1>2 DEF Total
  <2> QED  BY <1>0, <1>2, <2>1, FlowQuiet
<1>3. ASSUME LoopReset
      PROVE  FlowInv'
  <2>1. Total' = 0 /\ loopPc' = "idle"
    BY <1>3 DEF LoopReset, Total, QoS
  <2> QED  BY <1>0, <2>1, FlowQuiet
<1>4. CASE MailboxNext /\ UNCHANGED deliveryVars
  BY <1>1, <1>4, ZenonT(60), SMTT(60) DEF deliveryVars, loopVars
<1>5. CASE SessionStep
  BY <1>1, <1>3, <1>5 DEF SessionStep, Connect, Break, Crash, Subscribe, loopVars
<1>6. CASE LoopStep
  <2>1. CASE Fetch \/ Group \/ Count
    BY <1>0, <2>1, FlowFetch, FlowGroup, FlowCount
  <2>2. CASE Wake \/ \E m \in Mailboxes : ReadCursorFails(m)
    BY <1>1, <2>2 DEF Wake, ReadCursorFails
  <2>3. CASE \E e \in rest : Filter(e)
    BY <1>1, <2>3 DEF Filter
  <2>4. CASE \E m \in Mailboxes : ReadCursor(m)
    BY <1>2, <2>4 DEF ReadCursor
  <2>5. CASE FetchNothing \/ AllFiltered \/ Send \/ SendFails
    BY <1>2, <2>5 DEF FetchNothing, AllFiltered, Send, SendFails, Return
  <2> QED  BY <1>6, <2>1, <2>2, <2>3, <2>4, <2>5 DEF LoopStep
<1>7. CASE AckStep
  <2>1. CASE \E q \in QoS : AckDecrement(q)
    BY <1>0, <2>1, FlowDecrement, ZenonT(60), SMTT(60)
  <2>2. CASE AckRead \/ AckUpdate \/ AckUpdateFails
    BY <1>1, <2>2 DEF AckRead, AckUpdate, AckUpdateFails, AckFrame, loopVars
  <2>3. CASE \E a \in lingering : LingeringAck(a)
    BY <1>1, <2>3, ZenonT(60), SMTT(60) DEF LingeringAck, AckFrame, loopVars
  <2> QED  BY <1>7, <2>1, <2>2, <2>3 DEF AckStep
<1>8. CASE ClientStep
  BY <1>1, <1>8 DEF ClientStep, ClientReceive, ClientAck, loopVars
<1>9. CASE UNCHANGED vars
  BY <1>1, <1>9 DEF vars, deliveryVars, loopVars
<1> QED
  BY <1>4, <1>5, <1>6, <1>7, <1>8, <1>9, OtherFrameIdle DEF Next

\* A session begins with its counters at 0.
LEMMA FlowInitially == DeliveryInit => FlowInv
<1> SUFFICES ASSUME DeliveryInit PROVE FlowInv
  OBVIOUS
<1>1. Total = 0 /\ loopPc = "idle"
  BY DEF DeliveryInit, LoopInit, Total, QoS
<1> QED
  BY <1>1, DeliveryTypeInit, DeliveryAssumption DEF FlowInv, InflightBounded, RoomForBatch

\* The inflight counters never admit more than max_inflight_total, for any
\* limits, batch size, mailboxes and interleaving with the ACK handler.
THEOREM InflightIsBounded == Spec => []InflightBounded
<1>1. FlowInv /\ [Next]_vars => FlowInv'
  BY FlowStep
<1>2. FlowInv => InflightBounded
  BY DEF FlowInv
<1> QED  BY <1>1, <1>2, FlowInitially, PTL DEF Spec
-----------------------------------------------------------------------------
(* The order of the frames of a connection *)

\* A frame holds the envelopes it was made of (batchByQoS).
LEMMA FrameContent ==
  ASSUME NEW S, NEW f \in Frames(S)
  PROVE  Content(f) = S
<1>1. f \in [1..Cardinality(S) -> S] /\ \A e \in S : \E i \in DOMAIN f : f[i] = e
  BY DEF Frames
<1> QED  BY <1>1, ZenonT(60), SMTT(60) DEF Content

\* One more frame goes after those sent before.
LEMMA AppendFacts ==
  ASSUME NEW T, NEW s \in Seq(T), NEW f \in T
  PROVE  /\ Len(Append(s, f)) = Len(s) + 1 /\ Len(s) \in Nat
         /\ Append(s, f)[Len(s) + 1] = f
         /\ \A k \in 1..Len(s) : Append(s, f)[k] = s[k]
  OBVIOUS

\* Within a connection deliveredUpTo is above everything sent, and what is
\* being sent is above deliveredUpTo.
SentBelow ==
  /\ \A k \in DOMAIN sent : \A e \in Content(sent[k]) : e.seq <= upTo[e.mb]
  /\ loopPc # "idle" => upTo[mb] <= start
  /\ loopPc \in {"filter", "count"} => \A e \in batch : e.mb = mb /\ start < e.seq
  /\ loopPc = "count" => Content(frame) \subseteq batch

OrderInv == TypeInv /\ SentBelow /\ FramesAscend

\* A step that touches neither the frames sent nor the batch being sent.
LEMMA OrderQuiet ==
  ASSUME OrderInv, TypeInv', UNCHANGED <<sent, upTo>>,
         loopPc' = "idle" \/ UNCHANGED <<loopPc, mb, start, batch, frame>>
  PROVE  OrderInv'
<1>1. FramesAscend'
  BY DEF OrderInv, FramesAscend
<1>2. SentBelow'
  BY Zenon DEF OrderInv, SentBelow
<1> QED  BY <1>1, <1>2 DEF OrderInv

\* A new connection begins without frames.
LEMMA OrderReset ==
  ASSUME TypeInv', LoopReset
  PROVE  OrderInv'
<1>1. sent' = <<>> /\ loopPc' = "idle"
  BY DEF LoopReset
<1>2. DOMAIN sent' = {}
  BY ONLY <1>1
<1>3. SentBelow' /\ FramesAscend'
  BY <1>1, <1>2, Zenon DEF SentBelow, FramesAscend
<1> QED  BY <1>3, Zenon DEF OrderInv

\* Positions above the cursor and above deliveredUpTo are fetched.
LEMMA OrderFetch ==
  ASSUME OrderInv, TypeInv', Fetch \/ \E m \in Mailboxes : ReadCursor(m)
  PROVE  OrderInv'
<1>1. UNCHANGED <<sent, upTo>>
  BY Zenon DEF Fetch, ReadCursor
<1>2. FramesAscend' /\ \A k \in DOMAIN sent' : \A e \in Content(sent'[k]) : e.seq <= upTo'[e.mb]
  <2>1. sent' = sent /\ upTo' = upTo /\ FramesAscend /\ SentBelow
    BY <1>1, Zenon DEF OrderInv
  <2>2. FramesAscend'
    BY ONLY <2>1 DEF FramesAscend
  <2>3. \A k \in DOMAIN sent' : \A e \in Content(sent'[k]) : e.seq <= upTo'[e.mb]
    BY ONLY <2>1 DEF SentBelow
  <2> QED  BY <2>2, <2>3, Zenon
<1>3. CASE Fetch
  <2>1. /\ loopPc = "fetch" /\ loopPc' = "filter" /\ UNCHANGED <<mb, start>>
        /\ batch' \subseteq Fetchable
    BY <1>3, ZenonT(60), SMTT(60) DEF Fetch
  <2>2. upTo'[mb'] <= start'
    BY <1>1, <2>1 DEF OrderInv, SentBelow
  <2>3. \A e \in batch' : e.mb = mb' /\ start' < e.seq
    <3>1. \A e \in envelopes : e.seq \in Nat
      BY ZenonT(60) DEF OrderInv, TypeInv, DeliveryTypeOK, MailboxTypeOK, Envelope
    <3>2. start \in Nat
      BY Zenon DEF OrderInv, TypeInv, DeliveryTypeOK
    <3> QED  BY <2>1, <3>1, <3>2, SMTT(60), ZenonT(60) DEF Fetchable
  <2> QED  BY <1>2, <2>1, <2>2, <2>3 DEF OrderInv, SentBelow
<1>4. ASSUME NEW m \in Mailboxes, ReadCursor(m)
      PROVE  OrderInv'
  <2>1. /\ loopPc' = "fetch" /\ mb' = m
        /\ \E seq \in GetAckPositions(m) : start' = Most(seq, upTo[m])
    BY <1>4, SMTT(60), ZenonT(60) DEF ReadCursor
  <2>2. upTo[m] \in Nat /\ GetAckPositions(m) \subseteq Nat
    BY PositionType, Zenon DEF OrderInv, TypeInv, DeliveryTypeOK
  <2>3. upTo'[mb'] <= start'
    BY <1>1, <2>1, <2>2 DEF Most
  <2> QED  BY <1>2, <2>1, <2>3 DEF OrderInv, SentBelow
<1> QED  BY <1>3, <1>4, ZenonT(60), SMTT(60)

\* A frame holds envelopes of the batch.
LEMMA OrderGroup ==
  ASSUME OrderInv, TypeInv', Group
  PROVE  OrderInv'
<1>1. /\ UNCHANGED <<sent, upTo, mb, start, batch, kept>>
      /\ loopPc = "filter" /\ loopPc' = "count" /\ Content(frame') = kept
  BY FrameContent DEF Group
<1>2. kept \subseteq batch
  BY DEF OrderInv, TypeInv, DeliveryTypeOK
<1>3. FramesAscend'
  BY <1>1 DEF OrderInv, FramesAscend
<1>4. SentBelow'
  BY <1>1, <1>2 DEF OrderInv, SentBelow
<1> QED  BY <1>3, <1>4 DEF OrderInv

\* The frame sent is above everything sent before, and deliveredUpTo follows it.
LEMMA OrderSend ==
  ASSUME OrderInv, TypeInv', Send
  PROVE  OrderInv'
<1>0. /\ sent \in Seq(Seq(Envelope)) /\ frame \in Seq(Envelope)
      /\ upTo \in [Mailboxes -> Nat] /\ mb \in Mailboxes /\ start \in Nat
      /\ batch \subseteq Envelope
  BY ZenonT(60) DEF OrderInv, TypeInv, DeliveryTypeOK, Send
<1>1. /\ loopPc = "count" /\ loopPc' = "idle" /\ sent' = Append(sent, frame)
      /\ \E top \in batch :
           /\ \A e \in batch : e.seq <= top.seq
           /\ upTo' = [upTo EXCEPT ![mb] = Most(upTo[mb], top.seq)]
  BY ZenonT(60) DEF Send, Return
<1>2. /\ Content(frame) \subseteq batch /\ upTo[mb] <= start
      /\ \A e \in batch : e.mb = mb /\ start < e.seq
  BY <1>1, Zenon DEF OrderInv, SentBelow
<1>3. /\ Len(sent') = Len(sent) + 1 /\ Len(sent) \in Nat /\ sent'[Len(sent) + 1] = frame
      /\ \A k \in 1..Len(sent) : sent'[k] = sent[k]
  BY <1>0, <1>1, AppendFacts
<1>4. DOMAIN sent = 1..Len(sent) /\ DOMAIN sent' = 1..(Len(sent) + 1)
  BY <1>0, <1>1, <1>3
<1>5. /\ \A m \in Mailboxes : upTo[m] \in Nat /\ upTo'[m] \in Nat /\ upTo[m] <= upTo'[m]
      /\ \A e \in batch : e.seq \in Nat /\ e.seq <= upTo'[mb]
  BY <1>0, <1>1 DEF Most, Envelope
<1>6. ASSUME NEW k \in 1..Len(sent), NEW e \in Content(sent[k])
      PROVE  e.mb \in Mailboxes /\ e.seq \in Nat /\ e.seq <= upTo[e.mb]
  <2>1. e \in Envelope
    <3> DEFINE f == sent[k]
    <3>1. f \in Seq(Envelope) /\ e \in Content(f)
      BY <1>0, <1>6
    <3> HIDE DEF f
    <3>2. \A i \in DOMAIN f : f[i] \in Envelope
      BY <3>1
    <3> QED  BY <3>1, <3>2 DEF Content
  <2>2. e.seq <= upTo[e.mb]
    BY <1>4, <1>6 DEF OrderInv, SentBelow
  <2> QED  BY <2>1, <2>2 DEF Envelope
<1>7. ASSUME NEW k \in DOMAIN sent', NEW e \in Content(sent'[k])
      PROVE  e.seq <= upTo'[e.mb]
  <2>1. CASE k = Len(sent) + 1
    BY <1>2, <1>3, <1>5, <1>7, <2>1, SMTT(60), ZenonT(60)
  <2>2. CASE k \in 1..Len(sent)
    <3>1. e \in Content(sent[k])
      BY <1>3, <1>7, <2>2, SMTT(60), ZenonT(60)
    <3> QED  BY <1>5, <1>6, <2>2, <3>1, SMTT(60), ZenonT(60)
  <2> QED  BY <1>3, <1>4, <2>1, <2>2
<1>8. ASSUME NEW i \in DOMAIN sent', NEW j \in DOMAIN sent', i < j,
             NEW e \in Content(sent'[i]), NEW f \in Content(sent'[j]), e.mb = f.mb
      PROVE  e.seq < f.seq
  <2>1. i \in 1..Len(sent) /\ e \in Content(sent[i])
    BY <1>3, <1>4, <1>8, SMTT(60), ZenonT(60)
  <2>2. CASE j = Len(sent) + 1
    <3>1. f \in batch
      BY <1>2, <1>3, <1>8, <2>2, SMTT(60), ZenonT(60)
    <3>2. e.seq <= upTo[mb] /\ e.seq \in Nat
      BY <1>2, <1>6, <1>8, <2>1, <3>1, ZenonT(60)
    <3>3. start < f.seq /\ f.seq \in Nat
      BY <1>2, <1>5, <3>1, ZenonT(60)
    <3> QED  BY <1>0, <1>2, <1>5, <3>2, <3>3, SMTT(60), ZenonT(60)
  <2>3. CASE j \in 1..Len(sent)
    <3>1. f \in Content(sent[j])
      BY <1>3, <1>8, <2>3
    <3> QED  BY <1>4, <1>8, <2>1, <2>3, <3>1 DEF OrderInv, FramesAscend
  <2> QED  BY <1>3, <1>4, <2>2, <2>3, SMTT(60), SMTT(30)
<1>9. SentBelow'
  BY <1>1, <1>7 DEF SentBelow
<1>10. FramesAscend'
  BY <1>8 DEF FramesAscend
<1> QED  BY <1>9, <1>10, SMTT(60), ZenonT(60) DEF OrderInv

\* Every step keeps OrderInv.
LEMMA OrderStep ==
  ASSUME OrderInv, [Next]_vars
  PROVE  OrderInv'
<1>1. TypeInv'
  BY TypeStep DEF OrderInv
<1>2. CASE MailboxNext /\ UNCHANGED deliveryVars
  BY <1>1, <1>2, OrderQuiet DEF deliveryVars, loopVars
<1>3. CASE SessionStep
  <2>1. CASE \E resumed \in BOOLEAN : Connect(resumed)
    BY <1>1, <2>1, OrderReset DEF Connect
  <2>2. CASE Crash
    BY <1>1, <2>2, OrderReset DEF Crash
  <2>3. CASE Break \/ \E S \in SUBSET Mailboxes : Subscribe(S)
    BY <1>1, <2>3, OrderQuiet DEF Break, Subscribe, loopVars
  <2> QED  BY <1>3, <2>1, <2>2, <2>3 DEF SessionStep
<1>4. CASE LoopStep
  <2>1. CASE Wake \/ (\E m \in Mailboxes : ReadCursorFails(m))
          \/ (\E e \in rest : Filter(e)) \/ Count
    BY <1>1, <2>1, OrderQuiet DEF Wake, ReadCursorFails, Filter, Count
  <2>2. CASE FetchNothing \/ AllFiltered \/ SendFails
    BY <1>1, <2>2, OrderQuiet DEF FetchNothing, AllFiltered, SendFails, Return
  <2> QED
    BY <1>1, <1>4, <2>1, <2>2, OrderFetch, OrderGroup, OrderSend, ZenonT(60), SMTT(60) DEF LoopStep
<1>5. CASE AckStep
  <2>1. AckFrame
    BY <1>5, SMTT(60), ZenonT(60)
    DEF AckStep, AckRead, AckUpdate, AckUpdateFails, AckDecrement, LingeringAck
  <2> QED  BY <1>1, <2>1, OrderQuiet DEF AckFrame, loopVars
<1>6. CASE ClientStep
  BY <1>1, <1>6, OrderQuiet, ZenonT(60) DEF ClientStep, ClientReceive, ClientAck, loopVars
<1>7. CASE UNCHANGED vars
  BY <1>1, <1>7, OrderQuiet DEF vars, deliveryVars, loopVars
<1> QED
  BY <1>2, <1>3, <1>4, <1>5, <1>6, <1>7, OtherFrameIdle DEF Next

\* Within a connection nothing is sent twice and the positions of a mailbox
\* ascend from frame to frame, for any limits and batch sizes and whatever the
\* cursor reads yield meanwhile (deliveredUpTo in deliverFromMailbox).
THEOREM FramesAreAscending == Spec => []FramesAscend
<1>1. DeliveryInit => OrderInv
  <2> SUFFICES ASSUME DeliveryInit PROVE OrderInv
    OBVIOUS
  <2>1. sent = <<>> /\ loopPc = "idle"
    BY DEF DeliveryInit, LoopInit
  <2> QED  BY <2>1, DeliveryTypeInit DEF OrderInv, SentBelow, FramesAscend
<1>2. OrderInv => FramesAscend
  BY DEF OrderInv
<1> QED  BY <1>1, <1>2, OrderStep, PTL DEF Spec

-----------------------------------------------------------------------------
(* The counters *)

\* The envelopes of the first k frames.
Carried(s, k) == UNION {Content(s[j]) : j \in 1..k}

\* One more frame carries its envelopes and leaves the frames before it alone.
LEMMA CarriedAppend ==
  ASSUME NEW T, NEW s \in Seq(T), NEW f \in T
  PROVE  /\ Len(Append(s, f)) = Len(s) + 1 /\ Len(s) \in Nat
         /\ Append(s, f)[Len(s) + 1] = f
         /\ \A k \in 1..Len(s) : Append(s, f)[k] = s[k]
         /\ \A k \in 0..Len(s) : Carried(Append(s, f), k) = Carried(s, k)
         /\ Carried(Append(s, f), Len(s) + 1) = Carried(s, Len(s)) \cup Content(f)
<1>1. /\ Len(Append(s, f)) = Len(s) + 1 /\ Len(s) \in Nat
      /\ Append(s, f)[Len(s) + 1] = f
      /\ \A k \in 1..Len(s) : Append(s, f)[k] = s[k]
  BY AppendFacts
<1>2. ASSUME NEW k \in 0..Len(s)
      PROVE  Carried(Append(s, f), k) = Carried(s, k)
  <2>1. \A j \in 1..k : Append(s, f)[j] = s[j]
    BY <1>1
  <2>2. \A j \in 1..k : Content(Append(s, f)[j]) = Content(s[j])
    BY <2>1, Zenon
  <2> QED  BY <2>2, Zenon DEF Carried
<1>3. 1..(Len(s) + 1) = 1..Len(s) \cup {Len(s) + 1}
  BY <1>1
<1>4. \A j \in 1..Len(s) : Content(Append(s, f)[j]) = Content(s[j])
  BY <1>1, Zenon
<1>5. Content(Append(s, f)[Len(s) + 1]) = Content(f)
  BY <1>1, Zenon
<1>6. ASSUME NEW e
      PROVE  e \in Carried(Append(s, f), Len(s) + 1)
               <=> e \in Carried(s, Len(s)) \cup Content(f)
  BY <1>3, <1>4, <1>5, Zenon DEF Carried
<1> QED  BY <1>1, <1>2, <1>6

\* Delivery changes the store only by steps of the store.
LEMMA StoreSteps == [Next]_vars => [MailboxStep]_mailboxVars
<1> SUFFICES ASSUME [Next]_vars PROVE [MailboxStep]_mailboxVars
  OBVIOUS
<1>1. CASE SessionStep
  BY <1>1, SMTT(60), ZenonT(60) DEF SessionStep, Connect, Break, Crash, Subscribe, MailboxStep
<1>2. CASE LoopStep
  BY <1>2, Zenon
  DEF LoopStep, Wake, ReadCursor, ReadCursorFails, Fetch, FetchNothing,
      Filter, AllFiltered, Group, Count, Send, SendFails, LoopFrame
<1>3. CASE AckStep
  BY <1>3 DEF AckStep, AckRead, AckUpdate, AckUpdateFails, AckDecrement, LingeringAck, AckFrame
<1>4. CASE ClientStep
  BY <1>4 DEF ClientStep, ClientReceive, ClientAck
<1>5. CASE UNCHANGED vars
  BY <1>5 DEF vars
<1> QED
  BY <1>1, <1>2, <1>3, <1>4, <1>5, OtherFrameIdle DEF Next, MailboxStep

SentOnes == Carried(sent, Len(sent))
CountedOnes == {frame[i] : i \in 1..counted}

\* An ACK that moved the cursor over e has yet to be taken off counter q.
Settling(q, e) == q \in dec /\ e.mb = ack.mb /\ prev < e.seq /\ e.seq <= ack.seq

\* What counter q may count.
Owed(q) ==
  {e \in SentOnes \cup CountedOnes :
     QoSOf[e.id] = q /\ (e.seq > cursor[e.mb] \/ Settling(q, e) \/ e \in leaked)}

OnePlace(S) == \A e, f \in S : e.mb = f.mb /\ e.seq = f.seq => e = f

\* The handler starts from a position no higher than the cursor.
PrevBelow ==
  /\ ackPc = "update" => prev <= cursor[ack.mb]
  /\ ackPc # "decrement" => dec = {}

\* Everything sent or about to be has a position of its own.
Places ==
  /\ IsFiniteSet(SentOnes)
  /\ OnePlace(SentOnes)
  /\ OnePlace(batch)
  /\ loopPc = "count" => frame \in Frames(kept)

CountersOwed == \A q \in QoS : inflight[q] <= Cardinality(Owed(q))

\* SendFails drops what was counted, and only Connect brings conn up again.
SettleInv ==
  /\ OrderInv
  /\ OnePlace(envelopes)
  /\ conn = "up" => PrevBelow /\ Places /\ CountersOwed

\* The unique index on (mailbox_id, seq).
LEMMA OnePlaceStep ==
  ASSUME OnePlace(envelopes), [MailboxStep]_mailboxVars
  PROVE  OnePlace(envelopes')
<1>1. ASSUME envelopes' \subseteq envelopes
      PROVE  OnePlace(envelopes')
  BY <1>1, Zenon DEF OnePlace
<1>2. ASSUME NEW p \in Publishers, InsertOne(p)
      PROVE  OnePlace(envelopes')
  <2>1. envelopes' = envelopes \cup {Pending(p)} /\ KeysFree(Pending(p))
    BY <1>2, Zenon DEF InsertOne
  <2>2. \A f \in envelopes : f.mb = Pending(p).mb => f.seq # Pending(p).seq
    BY <2>1, Zenon DEF KeysFree
  <2> HIDE DEF Pending
  <2> QED  BY <2>1, <2>2, Zenon DEF OnePlace
<1>3. envelopes' \subseteq envelopes \/ \E p \in Publishers : InsertOne(p)
  <2>1. CASE MailboxNext
    <3>1. CASE \E p \in Publishers, i \in Ids, T \in TargetSets : Publish(p, i, T)
      BY <3>1, Zenon DEF Publish
    <3>2. CASE \E p \in Publishers : PublisherStep(p)
      BY <3>2, Zenon
      DEF PublisherStep, AllocSeq, AllocFails, InsertFails, PublishReturns, Reply
    <3>3. CASE \E m \in Mailboxes : ClearDelete(m) \/ ClearReset(m) \/ ClearFails(m)
      BY <3>3 DEF ClearDelete, ClearReset, ClearFails
    <3>4. CASE \E m \in Mailboxes, X \in SUBSET Expiring : PurgeExpired(m, X)
      BY <3>4 DEF PurgeExpired
    <3> QED  BY <2>1, <3>1, <3>2, <3>3, <3>4, Zenon DEF MailboxNext
  <2>2. CASE MailboxCrash
    BY <2>2, Zenon DEF MailboxCrash
  <2>3. CASE UNCHANGED mailboxVars
    BY <2>3, Zenon DEF mailboxVars
  <2> QED  BY <2>1, <2>2, <2>3, Zenon DEF MailboxStep
<1> QED  BY <1>1, <1>2, <1>3, Zenon

\* Who makes a step, and what it leaves alone.
LEMMA Sides ==
  ASSUME [Next]_vars
  PROVE  \/ UNCHANGED deliveryVars
         \/ SessionStep
         \/ LoopStep /\ LoopFrame
         \/ AckStep /\ AckFrame
         \/ ClientStep
<1>1. CASE LoopStep
  BY <1>1, Zenon DEF LoopStep, Wake, ReadCursor, ReadCursorFails, Fetch, FetchNothing,
         Filter, AllFiltered, Group, Count, Send, SendFails
<1>2. CASE AckStep
  BY <1>2, Zenon DEF AckStep, AckRead, AckUpdate, AckUpdateFails, AckDecrement, LingeringAck
<1>3. CASE OtherFrame \/ UNCHANGED vars
  BY <1>3, OtherFrameIdle, Zenon DEF vars
<1> QED  BY <1>1, <1>2, <1>3, Zenon DEF Next

\* A frame holds each envelope once.
LEMMA FrameOnce ==
  ASSUME NEW S, IsFiniteSet(S), NEW f \in Frames(S), NEW i \in 1..Len(f), NEW j \in 1..Len(f),
         f[i] = f[j]
  PROVE  i = j
<1>1. Len(f) = Cardinality(S) /\ Cardinality(S) \in Nat
  BY FrameFacts
<1>2. f \in [1..Cardinality(S) -> S] /\ \A e \in S : \E k \in 1..Cardinality(S) : f[k] = e
  BY DEF Frames
<1>3. f \in Surjection(1..Cardinality(S), S)
  BY <1>2 DEF Surjection
<1>4. IsFiniteSet(1..Cardinality(S)) /\ Cardinality(1..Cardinality(S)) = Cardinality(S)
  BY <1>1, FS_Interval
<1>5. f \in Injection(1..Cardinality(S), S)
  BY <1>3, <1>4, FS_SurjSameCardinalityImpliesInj
<1> QED  BY <1>1, <1>5 DEF Injection, IsInjective

\* Between two positions there are no more envelopes than positions.
LEMMA SpanBound ==
  ASSUME NEW S, OnePlace(S), NEW m, NEW a \in Nat, NEW b \in Nat, a <= b,
         \A e \in S : e.mb = m /\ e.seq \in Nat /\ a < e.seq /\ e.seq <= b
  PROVE  IsFiniteSet(S) /\ Cardinality(S) <= b - a
<1> DEFINE T == (a + 1)..b
           f == [e \in S |-> e.seq]
<1>1. IsFiniteSet(T) /\ Cardinality(T) <= b - a
  BY FS_Interval
<1>2. f \in [S -> T]
  BY SMTT(60), ZenonT(60)
<1>3. \A e, g \in S : f[e] = f[g] => e = g
  BY DEF OnePlace
<1> HIDE DEF T, f
<1>4. f \in Injection(S, T)
  BY <1>2, <1>3, Zenon DEF Injection, IsInjective
<1>5. Cardinality(S) <= Cardinality(T) /\ IsFiniteSet(S)
  BY <1>1, <1>4, FS_Injection
<1>6. Cardinality(S) \in Nat /\ Cardinality(T) \in Nat
  BY <1>1, <1>5, FS_CardinalityType
<1> QED  BY <1>1, <1>5, <1>6

\* What is counted and not sent is part of the frame being counted.
LEMMA CountedFacts ==
  ASSUME OrderInv
  PROVE  /\ CountedOnes \subseteq batch
         /\ loopPc # "count" => CountedOnes = {}
         /\ loopPc = "count" /\ counted = Len(frame) => CountedOnes = Content(frame)
<1>0. /\ loopPc # "count" => counted = 0
      /\ frame \in Seq(Envelope) /\ counted \in 0..Len(frame)
  BY Zenon DEF OrderInv, TypeInv, DeliveryTypeOK, LoopTidy
<1>1. DOMAIN frame = 1..Len(frame) /\ 1..counted \subseteq 1..Len(frame)
  BY <1>0
<1>2. CountedOnes \subseteq Content(frame)
  BY <1>1, Zenon DEF CountedOnes, Content
<1>3. ASSUME loopPc # "count"
      PROVE  CountedOnes = {}
  <2>1. 1..counted = {}
    BY <1>0, <1>3
  <2> QED  BY <2>1 DEF CountedOnes
<1>4. loopPc = "count" => Content(frame) \subseteq batch
  BY DEF OrderInv, SentBelow
<1>5. counted = Len(frame) => CountedOnes = Content(frame)
  BY <1>1, Zenon DEF CountedOnes, Content
<1> QED  BY <1>2, <1>3, <1>4, <1>5, Zenon

\* What is no more than something no more than k is no more than k.
LEMMA Through ==
  ASSUME NEW i \in Nat, NEW j \in Nat, NEW k \in Nat, i <= j, j <= k
  PROVE  i <= k
OBVIOUS

\* What is in flight is finite and consists of envelopes.
LEMMA OwedFinite ==
  ASSUME OrderInv, Places, NEW q
  PROVE  /\ IsFiniteSet(SentOnes \cup CountedOnes)
         /\ SentOnes \cup CountedOnes \subseteq Envelope
         /\ IsFiniteSet(Owed(q)) /\ Cardinality(Owed(q)) \in Nat
<1>1. IsFiniteSet(batch) /\ batch \subseteq Envelope /\ sent \in Seq(Seq(Envelope))
  BY Zenon DEF OrderInv, TypeInv, DeliveryTypeOK
<1>2. CountedOnes \subseteq batch
  BY CountedFacts
<1>3. IsFiniteSet(CountedOnes)
  BY <1>1, <1>2, FS_Subset
<1>4. IsFiniteSet(SentOnes \cup CountedOnes)
  BY <1>3, FS_Union DEF Places
<1>5. Owed(q) \subseteq SentOnes \cup CountedOnes
  BY DEF Owed
<1>6. IsFiniteSet(Owed(q))
  BY <1>4, <1>5, FS_Subset
<1>7. SentOnes \subseteq Envelope
  <2>1. ASSUME NEW k \in 1..Len(sent)
        PROVE  Content(sent[k]) \subseteq Envelope
    <3>1. sent[k] \in Seq(Envelope)
      BY <1>1
    <3>2. \A s \in Seq(Envelope) : \A i \in DOMAIN s : s[i] \in Envelope
      OBVIOUS
    <3> QED  BY <3>1, <3>2, Zenon DEF Content
  <2> QED  BY <2>1, Zenon DEF SentOnes, Carried
<1> QED  BY <1>1, <1>2, <1>4, <1>6, <1>7, FS_CardinalityType

\* What is being sent lies above what was sent.
LEMMA SentBelowBatch ==
  ASSUME OrderInv, Places, loopPc = "count", NEW e \in SentOnes, NEW f \in batch, e.mb = f.mb
  PROVE  e.seq # f.seq
<1>1. f.mb = mb /\ start < f.seq /\ upTo[mb] <= start
  BY Zenon DEF OrderInv, SentBelow
<1>2. /\ sent \in Seq(Seq(Envelope)) /\ batch \subseteq Envelope /\ mb \in Mailboxes
      /\ upTo \in [Mailboxes -> Nat] /\ start \in Nat
  BY Zenon DEF OrderInv, TypeInv, DeliveryTypeOK
<1>3. e.seq <= upTo[e.mb]
  <2>1. DOMAIN sent = 1..Len(sent)
    BY <1>2
  <2> QED  BY <2>1, Zenon DEF OrderInv, SentBelow, SentOnes, Carried
<1>4. e.seq \in Nat /\ f.seq \in Nat
  BY <1>2, OwedFinite DEF Envelope
<1> QED  BY <1>1, <1>2, <1>3, <1>4

\* Nothing in flight shares its position with another.
LEMMA OwedOnePlace ==
  ASSUME OrderInv, Places
  PROVE  OnePlace(SentOnes \cup CountedOnes)
<1>1. CASE loopPc # "count"
  BY <1>1, CountedFacts DEF Places
<1>2. CASE loopPc = "count"
  <2>1. CountedOnes \subseteq batch
    BY CountedFacts
  <2>2. ASSUME NEW e \in SentOnes, NEW f \in CountedOnes, e.mb = f.mb
        PROVE  e.seq # f.seq
    BY <1>2, <2>1, <2>2, SentBelowBatch
  <2>3. OnePlace(CountedOnes) /\ OnePlace(SentOnes)
    BY <2>1, Zenon DEF Places, OnePlace
  <2> QED  BY <2>2, <2>3, ZenonT(60) DEF OnePlace
<1> QED  BY <1>1, <1>2

\* A connection begins with nothing sent, counted or acknowledged.
LEMMA SettleConnect ==
  ASSUME LoopReset
  PROVE  (PrevBelow /\ Places /\ CountersOwed)'
<1>1. sent' = <<>> /\ counted' = 0 /\ batch' = {} /\ loopPc' = "idle"
  BY Zenon DEF LoopReset
<1>2. ackPc' = "recv" /\ dec' = {} /\ inflight' = [q \in QoS |-> 0]
  BY Zenon DEF LoopReset
<1>3. SentOnes' = {}
  BY <1>1 DEF SentOnes, Carried
<1>4. PrevBelow'
  BY <1>2 DEF PrevBelow
<1>5. Places'
  BY <1>1, <1>3, FS_EmptySet DEF Places, OnePlace
<1>6. ASSUME NEW q \in QoS
      PROVE  inflight'[q] <= Cardinality(Owed(q)')
  <2>1. CountedOnes' = {}
    BY <1>1 DEF CountedOnes
  <2>2. Owed(q)' = {}
    BY <1>3, <2>1, Zenon DEF Owed
  <2> QED  BY <1>2, <2>2, FS_EmptySet
<1> QED  BY <1>4, <1>5, <1>6, Zenon DEF CountersOwed

\* A step that leaves counters, cursors, ACKs and frames alone.
LEMMA SettleQuiet ==
  ASSUME OrderInv, OrderInv', PrevBelow, Places, CountersOwed,
         UNCHANGED <<inflight, leaked, cursor, sent, ackPc, ack, prev, dec>>,
         \/ UNCHANGED <<loopPc, batch, kept, frame, counted>>
         \/ loopPc # "count" /\ loopPc' # "count" /\ OnePlace(batch')
  PROVE  (PrevBelow /\ Places /\ CountersOwed)'
<1>1. SentOnes' = SentOnes
  BY Zenon DEF SentOnes
<1>2. PrevBelow'
  BY <1>1, ZenonT(60) DEF PrevBelow
<1>3. Places'
  BY <1>1, Zenon DEF Places
<1>4. CountedOnes' = CountedOnes
  <2>1. CASE UNCHANGED <<frame, counted>>
    BY <2>1, Zenon DEF CountedOnes
  <2>2. CASE loopPc # "count" /\ loopPc' # "count"
    <3>1. CountedOnes = {}
      BY <2>2, CountedFacts
    <3>2. loopPc' # "count" => counted' = 0
      BY Zenon DEF OrderInv, TypeInv, LoopTidy
    <3>3. CountedOnes' = {}
      BY <2>2, <3>2 DEF CountedOnes
    <3> QED  BY <3>1, <3>3
  <2> QED  BY <2>1, <2>2, Zenon
<1>5. \A q : Owed(q)' = Owed(q)
  BY <1>1, <1>4, ZenonT(60) DEF Owed, Settling
<1> QED  BY <1>2, <1>3, <1>5, Zenon DEF CountersOwed

\* DeliverToSession counts one more envelope.
LEMMA SettleCount ==
  ASSUME OrderInv, OrderInv', PrevBelow, Places, CountersOwed, Count
  PROVE  (PrevBelow /\ Places /\ CountersOwed)'
<1> DEFINE x == frame[counted + 1]
<1>0. /\ loopPc = "count" /\ counted < Len(frame) /\ counted' = counted + 1
      /\ IncrementInflight(QoSOf[x.id])
      /\ leaked' = leaked \cup {e \in {x} : e.seq <= cursor[e.mb]}
      /\ UNCHANGED <<upTo, sent, loopPc, batch, kept, frame>> /\ LoopFrame
  BY Zenon DEF Count
<1>1. UNCHANGED <<cursor, ackPc, ack, prev, dec>>
  BY <1>0, Zenon DEF LoopFrame, ackVars
<1>2. SentOnes' = SentOnes
  BY <1>0, Zenon DEF SentOnes
<1>3. PrevBelow' /\ Places'
  BY <1>0, <1>1, <1>2, ZenonT(60) DEF PrevBelow, Places
<1>4. /\ frame \in Seq(Envelope) /\ counted \in 0..Len(frame) /\ kept \subseteq batch
      /\ IsFiniteSet(batch) /\ batch \subseteq Envelope /\ inflight \in [QoS -> Nat]
      /\ cursor \in [Mailboxes -> Nat] /\ upTo \in [Mailboxes -> Nat]
      /\ mb \in Mailboxes /\ start \in Nat
  BY <1>0, Zenon DEF OrderInv, TypeInv, DeliveryTypeOK
<1>5. x \in Envelope /\ counted + 1 \in 1..Len(frame) /\ counted \in Nat
  BY <1>0, <1>4
<1>6. x \in batch /\ x.mb = mb /\ start < x.seq /\ upTo[mb] <= start
  <2>1. x \in Content(frame)
    BY <1>4, <1>5 DEF Content
  <2> QED  BY <1>0, <2>1, Zenon DEF OrderInv, SentBelow
<1>7. x.seq \in Nat /\ cursor[x.mb] \in Nat /\ x.seq > upTo[x.mb]
  <2>1. x.seq \in Nat /\ cursor[mb] \in Nat /\ upTo[mb] \in Nat
    BY <1>4, <1>5, Zenon DEF Envelope
  <2> QED  BY <1>4, <1>6, <2>1
<1>8. x \notin SentOnes
  <2>1. \A k \in DOMAIN sent : \A e \in Content(sent[k]) : e.seq <= upTo[e.mb]
    BY Zenon DEF OrderInv, SentBelow
  <2>2. DOMAIN sent = 1..Len(sent)
    <3>1. sent \in Seq(Seq(Envelope))
      BY Zenon DEF OrderInv, TypeInv, DeliveryTypeOK
    <3> QED  BY ONLY <3>1
  <2>3. ~(x.seq <= upTo[x.mb])
    BY <1>4, <1>6, <1>7
  <2> HIDE DEF x
  <2> QED  BY <2>1, <2>2, <2>3, Zenon DEF SentOnes, Carried
<1>9. x \notin CountedOnes
  <2>1. IsFiniteSet(kept) /\ frame \in Frames(kept)
    BY <1>0, <1>4, FS_Subset DEF Places
  <2>2. ASSUME NEW i \in 1..counted, frame[i] = x
        PROVE  FALSE
    <3>1. i \in 1..Len(frame) /\ i # counted + 1
      BY <1>4, <1>5, <2>2
    <3> QED  BY <1>5, <2>1, <2>2, <3>1, FrameOnce
  <2> QED  BY <2>2, Zenon DEF CountedOnes
<1>10. CountedOnes' = CountedOnes \cup {x}
  <2>1. 1..(counted + 1) = 1..counted \cup {counted + 1}
    BY <1>5
  <2> QED  BY <1>0, <2>1, Zenon DEF CountedOnes
<1> HIDE DEF x
<1>a. leaked \subseteq leaked' /\ leaked' \subseteq leaked \cup {x}
      /\ (x.seq > cursor[x.mb] \/ x \in leaked')
  <2>1. x.seq > cursor[x.mb] \/ x.seq <= cursor[x.mb]
    BY ONLY <1>7
  <2> QED  BY <1>0, <2>1, Zenon
<1>11. ASSUME NEW q \in QoS
       PROVE  inflight'[q] <= Cardinality(Owed(q)')
  <2>0. inflight[q] <= Cardinality(Owed(q)) /\ IsFiniteSet(Owed(q)) /\ Cardinality(Owed(q)) \in Nat
    BY OwedFinite DEF CountersOwed
  <2>1. CASE QoSOf[x.id] = q
    <3>1. Owed(q)' = Owed(q) \cup {x}
      BY <1>1, <1>2, <1>a, <1>10, <2>1, ZenonT(60) DEF Owed, Settling
    <3>2. x \notin Owed(q)
      BY <1>8, <1>9, Zenon DEF Owed
    <3>3. Cardinality(Owed(q)') = Cardinality(Owed(q)) + 1
      BY <2>0, <3>1, <3>2, FS_AddElement
    <3>4. inflight'[q] = inflight[q] + 1
      BY <1>0, <1>4, <2>1 DEF IncrementInflight
    <3> QED  BY <1>4, <2>0, <3>3, <3>4
  <2>2. CASE QoSOf[x.id] # q
    <3>1. Owed(q)' = Owed(q)
      BY <1>1, <1>2, <1>a, <1>10, <2>2, ZenonT(60) DEF Owed, Settling
    <3>2. inflight'[q] = inflight[q]
      BY <1>0, <1>4, <2>2 DEF IncrementInflight
    <3> QED  BY <2>0, <3>1, <3>2
  <2> QED  BY <2>1, <2>2
<1> QED  BY <1>3, <1>11, Zenon DEF CountersOwed

\* SendMsg: what was counted becomes what was sent, above all sent before.
LEMMA SettleSend ==
  ASSUME OrderInv, OrderInv', PrevBelow, Places, CountersOwed, Send
  PROVE  (PrevBelow /\ Places /\ CountersOwed)'
<1>0. /\ loopPc = "count" /\ counted = Len(frame) /\ sent' = Append(sent, frame)
      /\ UNCHANGED <<inflight, leaked>> /\ LoopFrame /\ Return
  BY Zenon DEF Send
<1>1. UNCHANGED <<cursor, ackPc, ack, prev, dec>>
  BY <1>0, Zenon DEF LoopFrame, ackVars
<1>2. loopPc' = "idle" /\ batch' = {} /\ counted' = 0
  BY <1>0, Zenon DEF Return
<1>3. /\ sent \in Seq(Seq(Envelope)) /\ frame \in Seq(Envelope)
      /\ IsFiniteSet(batch) /\ batch \subseteq Envelope
  BY <1>0, Zenon DEF OrderInv, TypeInv, DeliveryTypeOK
<1>4. SentOnes' = SentOnes \cup Content(frame)
  <2>1. /\ Len(sent') = Len(sent) + 1
        /\ Carried(sent', Len(sent) + 1) = Carried(sent, Len(sent)) \cup Content(frame)
    BY <1>0, <1>3, CarriedAppend
  <2> QED  BY <2>1, Zenon DEF SentOnes
<1>7. PrevBelow'
  BY <1>1, Zenon DEF PrevBelow
<1>8. Content(frame) \subseteq batch
  BY <1>0, Zenon DEF OrderInv, SentBelow
<1>9. ASSUME NEW e \in SentOnes, NEW f \in Content(frame), e.mb = f.mb
      PROVE  e.seq # f.seq
  BY <1>0, <1>8, <1>9, SentBelowBatch
<1>10. Places'
  <2>1. IsFiniteSet(Content(frame))
    BY <1>3, <1>8, FS_Subset
  <2>2. IsFiniteSet(SentOnes')
    BY <1>4, <2>1, FS_Union DEF Places
  <2>3. OnePlace(SentOnes')
    <3>1. OnePlace(Content(frame)) /\ OnePlace(SentOnes)
      BY <1>8, Zenon DEF Places, OnePlace
    <3> QED  BY <1>4, <1>9, <3>1, ZenonT(60) DEF OnePlace
  <2> QED  BY <1>2, <2>2, <2>3 DEF Places, OnePlace
<1>11. CountedOnes' = {} /\ CountedOnes = Content(frame)
  BY <1>0, <1>2, CountedFacts DEF CountedOnes
<1>12. \A q : Owed(q)' = Owed(q)
  BY <1>0, <1>1, <1>4, <1>11, ZenonT(60) DEF Owed, Settling
<1> QED  BY <1>0, <1>7, <1>10, <1>12, Zenon DEF CountersOwed

\* The delivery loop.
LEMMA SettleLoop ==
  ASSUME OrderInv, OrderInv', OnePlace(envelopes), PrevBelow, Places, CountersOwed,
         conn = "up", LoopStep, LoopFrame
  PROVE  (PrevBelow /\ Places /\ CountersOwed)'
<1>1. UNCHANGED <<cursor, ackPc, ack, prev, dec>>
  BY Zenon DEF LoopFrame, ackVars
<1>2. ASSUME UNCHANGED <<inflight, leaked, sent, loopPc, batch, kept, frame, counted>>
      PROVE  (PrevBelow /\ Places /\ CountersOwed)'
  BY <1>1, <1>2, SettleQuiet, Zenon
<1>3. ASSUME UNCHANGED <<inflight, leaked, sent>>, loopPc # "count", loopPc' # "count",
             OnePlace(batch')
      PROVE  (PrevBelow /\ Places /\ CountersOwed)'
  BY <1>1, <1>3, SettleQuiet, Zenon
<1>4. OnePlace(batch) /\ OnePlace({})
  BY Zenon DEF Places, OnePlace
<1>5. CASE Wake \/ \E m \in Mailboxes : ReadCursorFails(m)
  BY <1>2, <1>5, Zenon DEF Wake, ReadCursorFails
<1>6. CASE \E m \in Mailboxes : ReadCursor(m)
  BY <1>3, <1>4, <1>6, Zenon DEF ReadCursor
<1>7. CASE \E e \in rest : Filter(e)
  BY <1>3, <1>4, <1>7, Zenon DEF Filter
<1>8. CASE FetchNothing \/ AllFiltered
  <2>1. UNCHANGED <<inflight, leaked, sent>> /\ loopPc # "count" /\ loopPc' = "idle" /\ batch' = {}
    BY <1>8, Zenon DEF FetchNothing, AllFiltered, Return
  <2> QED  BY <1>3, <1>4, <2>1, Zenon
<1>9. CASE Fetch
  <2>1. batch' \subseteq envelopes
    BY <1>9 DEF Fetch, Fetchable
  <2>2. OnePlace(batch')
    BY <2>1, Zenon DEF OnePlace
  <2>3. UNCHANGED <<inflight, leaked, sent>> /\ loopPc # "count" /\ loopPc' # "count"
    BY <1>9, Zenon DEF Fetch
  <2> QED  BY <1>3, <2>2, <2>3
<1>10. CASE Group
  <2>1. /\ UNCHANGED <<inflight, leaked, sent, batch, kept, counted>> /\ loopPc = "filter"
        /\ frame' \in Frames(kept)
    BY <1>10, Zenon DEF Group
  <2>2. SentOnes' = SentOnes
    BY <2>1, Zenon DEF SentOnes
  <2>3. counted = 0
    BY <2>1 DEF OrderInv, TypeInv, LoopTidy
  <2>4. CountedOnes = {} /\ CountedOnes' = {}
    BY <2>1, <2>3 DEF CountedOnes
  <2>5. \A q : Owed(q)' = Owed(q)
    BY <1>1, <2>1, <2>2, <2>4, ZenonT(60) DEF Owed, Settling
  <2>6. PrevBelow' /\ Places'
    BY <1>1, <2>1, <2>2, ZenonT(60) DEF PrevBelow, Places
  <2> QED  BY <2>1, <2>5, <2>6, Zenon DEF CountersOwed
<1>11. CASE SendFails
  BY <1>11 DEF SendFails
<1> QED
  BY <1>5, <1>6, <1>7, <1>8, <1>9, <1>10, <1>11, SettleCount, SettleSend, Zenon DEF LoopStep

\* What the ACK handler leaves alone, and what it works on.
LEMMA AckLeaves ==
  ASSUME OrderInv, AckFrame
  PROVE  /\ UNCHANGED <<sent, loopPc, batch, kept, frame, counted>>
         /\ SentOnes' = SentOnes /\ CountedOnes' = CountedOnes /\ (Places => Places')
         /\ cursor \in [Mailboxes -> Nat]
         /\ inflight \in [QoS -> Nat] /\ prev \in Nat
         /\ (ackPc # "recv" => ack.mb \in Mailboxes /\ ack.seq \in Nat)
<1>1. UNCHANGED <<sent, loopPc, batch, kept, frame, counted>>
  BY Zenon DEF AckFrame, loopVars
<1>2. SentOnes' = SentOnes /\ CountedOnes' = CountedOnes
  BY <1>1, Zenon DEF SentOnes, CountedOnes
<1>3. Places => Places'
  BY <1>1, <1>2, Zenon DEF Places
<1>4. /\ cursor \in [Mailboxes -> Nat]
      /\ inflight \in [QoS -> Nat] /\ prev \in Nat /\ (ackPc # "recv" => ack \in Ack)
  BY Zenon DEF OrderInv, TypeInv, DeliveryTypeOK
<1>5. ackPc # "recv" => ack.mb \in Mailboxes /\ ack.seq \in Nat
  BY <1>4, Zenon DEF Ack
<1> QED  BY <1>1, <1>2, <1>3, <1>4, <1>5, Zenon

\* AckRead: the next ACK, with the position before it.
LEMMA SettleRead ==
  ASSUME OrderInv, PrevBelow, Places, CountersOwed, AckRead, AckFrame
  PROVE  (PrevBelow /\ Places /\ CountersOwed)'
<1>1. /\ ackPc = "recv" /\ acks # <<>> /\ ack' = Head(acks)
      /\ prev' \in GetAckPositions(Head(acks).mb) /\ ackPc' = "update"
      /\ UNCHANGED <<cursor, inflight, leaked, dec>>
  BY Zenon DEF AckRead
<1>2. dec = {}
  BY <1>1 DEF PrevBelow
<1>3. acks \in Seq(Ack)
  BY Zenon DEF OrderInv, TypeInv, DeliveryTypeOK
<1>4. Head(acks) \in Ack
  BY <1>1, <1>3
<1>5. prev' <= cursor[ack'.mb]
  <2>1. Head(acks).mb \in Mailboxes
    BY <1>4 DEF Ack
  <2>2. cursor[Head(acks).mb] \in Nat
    BY <2>1, AckLeaves
  <2>3. prev' = cursor[Head(acks).mb] \/ prev' = 0
    BY <1>1 DEF GetAckPositions
  <2> QED  BY <1>1, <2>2, <2>3
<1>6. PrevBelow'
  BY <1>1, <1>2, <1>5, Zenon DEF PrevBelow
<1>7. \A q : Owed(q)' = Owed(q)
  BY <1>1, <1>2, AckLeaves, ZenonT(60) DEF Owed, Settling
<1> QED  BY <1>1, <1>6, <1>7, AckLeaves, Zenon DEF CountersOwed

\* AckUpdate: what the cursor passes over is still to be taken off.
LEMMA SettleUpdate ==
  ASSUME OrderInv, OrderInv', PrevBelow, Places, CountersOwed, AckUpdate, AckFrame
  PROVE  (PrevBelow /\ Places /\ CountersOwed)'
<1>1. /\ ackPc = "update" /\ Advance(ack) /\ UNCHANGED <<inflight, leaked>>
      /\ IF ack.seq > prev
           THEN ackPc' = "decrement" /\ dec' = QoS /\ UNCHANGED <<ack, prev>>
           ELSE ackPc' = "recv" /\ dec' = {}
  BY Zenon DEF AckUpdate, AckDone
<1>2. dec = {} /\ prev <= cursor[ack.mb]
  BY <1>1, Zenon DEF PrevBelow
<1>3. /\ ack.mb \in Mailboxes /\ ack.seq \in Nat /\ prev \in Nat
      /\ cursor \in [Mailboxes -> Nat]
  BY <1>1, AckLeaves, Zenon
<1>4. /\ cursor'[ack.mb] = (IF cursor[ack.mb] <= ack.seq THEN ack.seq ELSE cursor[ack.mb])
      /\ \A m \in Mailboxes \ {ack.mb} : cursor'[m] = cursor[m]
  BY <1>1, <1>3 DEF Advance, Most
<1>6. PrevBelow'
  BY <1>1, Zenon DEF PrevBelow
<1>7. Places'
  BY AckLeaves
<1>8. ASSUME NEW q \in QoS
      PROVE  inflight'[q] <= Cardinality(Owed(q)')
  <2>1. ASSUME NEW e \in Owed(q)
        PROVE  e \in Owed(q)'
    <3>0. CASE e \in leaked
      BY <1>1, <2>1, <3>0, AckLeaves, Zenon DEF Owed
    <3> SUFFICES ASSUME e \notin leaked PROVE e \in Owed(q)'
      BY <3>0
    <3>1. /\ e \in SentOnes \cup CountedOnes /\ QoSOf[e.id] = q /\ e.seq > cursor[e.mb]
      BY <1>2, Zenon DEF Owed, Settling
    <3>2. e.mb \in Mailboxes /\ e.seq \in Nat
      BY <3>1, OwedFinite DEF Envelope
    <3>3. \/ e.seq > cursor'[e.mb]
          \/ q \in dec' /\ e.mb = ack'.mb /\ prev' < e.seq /\ e.seq <= ack'.seq
      <4>1. CASE e.mb # ack.mb
        BY <1>4, <3>1, <3>2, <4>1, Zenon
      <4>2. CASE e.mb = ack.mb /\ e.seq > ack.seq
        BY <1>3, <1>4, <3>1, <3>2, <4>2
      <4>3. CASE e.mb = ack.mb /\ e.seq <= ack.seq
        <5>1. prev < e.seq /\ ack.seq > prev
          <6>1. /\ ack.seq \in Nat /\ prev \in Nat /\ cursor[ack.mb] \in Nat /\ e.seq \in Nat
                /\ prev <= cursor[ack.mb] /\ e.seq > cursor[ack.mb] /\ e.seq <= ack.seq
            BY ONLY <1>2, <1>3, <3>1, <3>2, <4>3, Zenon
          <6> QED  BY ONLY <6>1
        <5> QED  BY <1>1, <4>3, <5>1, Zenon
      <4>4. e.seq > ack.seq \/ e.seq <= ack.seq
        BY ONLY <1>3, <3>2
      <4> QED  BY ONLY <4>1, <4>2, <4>3, <4>4, Zenon
    <3> QED  BY <3>1, <3>3, AckLeaves, Zenon DEF Owed, Settling
  <2>2. IsFiniteSet(Owed(q)) /\ Cardinality(Owed(q)) \in Nat
    BY OwedFinite
  <2>3. IsFiniteSet(Owed(q)')
    <3>1. IsFiniteSet(SentOnes \cup CountedOnes)
      BY OwedFinite
    <3>2. Owed(q)' \subseteq SentOnes \cup CountedOnes
      BY AckLeaves, Zenon DEF Owed
    <3> QED  BY <3>1, <3>2, FS_Subset
  <2>4. Cardinality(Owed(q)) <= Cardinality(Owed(q)') /\ Cardinality(Owed(q)') \in Nat
    BY <2>1, <2>3, FS_Subset, FS_CardinalityType
  <2>5. inflight'[q] <= Cardinality(Owed(q)) /\ inflight'[q] \in Nat
    BY <1>1, AckLeaves DEF CountersOwed
  <2> QED  BY <2>2, <2>4, <2>5
<1> QED  BY <1>6, <1>7, <1>8, Zenon DEF CountersOwed

\* DecrementInflight: there are no more envelopes between the two positions
\* than the distance that is taken off.
LEMMA SettleDecrement ==
  ASSUME OrderInv, PrevBelow, Places, CountersOwed, NEW q \in QoS, AckDecrement(q), AckFrame
  PROVE  (PrevBelow /\ Places /\ CountersOwed)'
<1>1. /\ ackPc = "decrement" /\ q \in dec /\ DecrementInflight(q, ack.seq - prev)
      /\ UNCHANGED <<cursor, leaked>>
      /\ \/ dec = {q} /\ ackPc' = "recv" /\ dec' = {}
         \/ dec # {q} /\ dec' = dec \ {q} /\ UNCHANGED <<ackPc, ack, prev>>
  BY Zenon DEF AckDecrement, AckDone
<1>2. /\ ack.mb \in Mailboxes /\ ack.seq \in Nat /\ prev \in Nat /\ inflight \in [QoS -> Nat]
  BY <1>1, AckLeaves, Zenon
<1>3. ack.seq > prev
  BY <1>1 DEF OrderInv, TypeInv, LoopTidy
<1>4. PrevBelow'
  BY <1>1, AckLeaves, ZenonT(60) DEF PrevBelow
<1>5. \A r \in QoS : Owed(r) \ {e \in Owed(r) : r = q /\ Settling(q, e)} \subseteq Owed(r)'
  <2>1. ASSUME NEW r \in QoS, NEW e \in Owed(r), ~(r = q /\ Settling(q, e))
        PROVE  e \in Owed(r)'
    <3>1. CASE e.seq > cursor[e.mb] \/ e \in leaked
      BY <1>1, <2>1, <3>1, AckLeaves, Zenon DEF Owed
    <3>2. CASE Settling(r, e)
      <4>1. r # q /\ r \in dec
        BY <2>1, <3>2, Zenon DEF Settling
      <4>2. r \in dec' /\ UNCHANGED <<ack, prev>>
        BY <1>1, <4>1
      <4>3. Settling(r, e)'
        BY <3>2, <4>2, Zenon DEF Settling
      <4> QED  BY <1>1, <2>1, <4>3, AckLeaves, Zenon DEF Owed
    <3> QED  BY <2>1, <3>1, <3>2, Zenon DEF Owed
  <2> QED  BY <2>1, Zenon
<1>6. ASSUME NEW r \in QoS
      PROVE  inflight'[r] <= Cardinality(Owed(r)')
  <2> DEFINE Taken == {e \in Owed(r) : r = q /\ Settling(q, e)}
  <2>1. IsFiniteSet(Owed(r)) /\ Cardinality(Owed(r)) \in Nat /\ inflight[r] <= Cardinality(Owed(r))
    BY OwedFinite DEF CountersOwed
  <2>2. IsFiniteSet(Owed(r)') /\ Cardinality(Owed(r)') \in Nat
    <3>1. IsFiniteSet(SentOnes \cup CountedOnes)
      BY OwedFinite
    <3>2. Owed(r)' \subseteq SentOnes \cup CountedOnes
      BY AckLeaves, Zenon DEF Owed
    <3> QED  BY <3>1, <3>2, FS_Subset, FS_CardinalityType
  <2>3. Taken \subseteq Owed(r) /\ Owed(r) \ Taken \subseteq Owed(r)'
    BY <1>5
  <2>4. CASE r # q
    <3>1. Owed(r) \subseteq Owed(r)'
      BY <2>3, <2>4
    <3>2. Cardinality(Owed(r)) <= Cardinality(Owed(r)')
      BY <2>2, <3>1, FS_Subset
    <3>3. inflight'[r] = inflight[r] /\ inflight[r] \in Nat
      BY <1>1, <1>2, <2>4 DEF DecrementInflight
    <3> QED  BY <2>1, <2>2, <3>2, <3>3, Through, Zenon
  <2>5. CASE r = q
    <3>1. OnePlace(SentOnes \cup CountedOnes) /\ SentOnes \cup CountedOnes \subseteq Envelope
      BY OwedOnePlace, OwedFinite
    <3>2. OnePlace(Taken)
      BY <3>1, Zenon DEF OnePlace, Owed
    <3>3. \A e \in Taken : e.mb = ack.mb /\ e.seq \in Nat /\ prev < e.seq /\ e.seq <= ack.seq
      <4>1. \A e \in Taken : e \in Envelope
        BY <3>1, Zenon DEF Owed
      <4> QED  BY <4>1, Zenon DEF Envelope, Settling
    <3>4. prev <= ack.seq
      BY <1>2, <1>3
    <3> HIDE DEF Taken
    <3>5. IsFiniteSet(Taken) /\ Cardinality(Taken) <= ack.seq - prev /\ Cardinality(Taken) \in Nat
      BY <1>2, <3>2, <3>3, <3>4, SpanBound, FS_CardinalityType
    <3>6. Owed(r) \subseteq Owed(r)' \cup Taken
      BY <2>3
    <3>7. /\ IsFiniteSet(Owed(r)' \cup Taken)
          /\ Cardinality(Owed(r)' \cup Taken) <= Cardinality(Owed(r)') + Cardinality(Taken)
      <4>1. IsFiniteSet(Owed(r)' \cap Taken)
        BY <3>5, FS_Subset
      <4>2. Cardinality(Owed(r)' \cap Taken) \in Nat
        BY <4>1, FS_CardinalityType
      <4>3. /\ IsFiniteSet(Owed(r)' \cup Taken)
            /\ Cardinality(Owed(r)' \cup Taken)
                 = Cardinality(Owed(r)') + Cardinality(Taken) - Cardinality(Owed(r)' \cap Taken)
        BY <2>2, <3>5, FS_Union
      <4> QED  BY <2>2, <3>5, <4>2, <4>3
    <3>8. /\ Cardinality(Owed(r)) <= Cardinality(Owed(r)' \cup Taken)
          /\ Cardinality(Owed(r)' \cup Taken) \in Nat
      BY <3>6, <3>7, FS_Subset, FS_CardinalityType
    <3>9. Cardinality(Owed(r)) <= Cardinality(Owed(r)') + (ack.seq - prev)
      BY <1>2, <2>1, <2>2, <3>5, <3>7, <3>8
    <3>10. inflight'[r] = Most(0, inflight[r] - (ack.seq - prev)) /\ inflight[r] \in Nat
      BY <1>1, <1>2, <2>5 DEF DecrementInflight
    <3> QED  BY <1>2, <2>1, <2>2, <3>9, <3>10 DEF Most
  <2> QED  BY <2>4, <2>5
<1> QED  BY <1>4, <1>6, AckLeaves, Zenon DEF CountersOwed

\* Everything sent or counted, by frame.
LEMMA CountedParts ==
  ASSUME TypeInv
  PROVE  Counted = SentOnes \cup CountedOnes
<1>1. DOMAIN sent = 1..Len(sent)
  <2>1. sent \in Seq(Seq(Envelope))
    BY Zenon DEF TypeInv, DeliveryTypeOK
  <2> QED  BY ONLY <2>1
<1>2. SentOnes = UNION {Content(sent[i]) : i \in 1..Len(sent)}
  BY Zenon DEF SentOnes, Carried
<1>3. UNION {Content(sent[i]) : i \in DOMAIN sent} = SentOnes
  <2> DEFINE over(D) == UNION {Content(sent[i]) : i \in D}
  <2>1. over(DOMAIN sent) = over(1..Len(sent))
    <3> HIDE DEF over
    <3> QED  BY <1>1
  <2> QED  BY <1>2, <2>1, Zenon
<1> QED  BY <1>3, Zenon DEF Counted, CountedOnes

\* A cursor that moves and leaves the counters alone: what it passes has leaked.
LEMMA SettlePassed ==
  ASSUME OrderInv, OrderInv', PrevBelow, Places, CountersOwed, AckFrame,
         NEW a \in Ack, Advance(a) \/ UNCHANGED cursor,
         leaked' = leaked \cup Passed, inflight' = inflight,
         \/ ackPc' = "recv" /\ dec = {} /\ dec' = {}
         \/ UNCHANGED <<ackPc, ack, prev, dec>>
  PROVE  (PrevBelow /\ Places /\ CountersOwed)'
<1>1. cursor \in [Mailboxes -> Nat] /\ a.mb \in Mailboxes /\ a.seq \in Nat /\ prev \in Nat
      /\ (ackPc # "recv" => ack.mb \in Mailboxes)
  BY AckLeaves, Zenon DEF Ack
<1>2. \A m \in Mailboxes : cursor'[m] \in Nat /\ cursor[m] <= cursor'[m]
  BY ONLY <1>1, Advance(a) \/ UNCHANGED cursor DEF Advance, Most
<1>3. PrevBelow'
  <2>1. CASE ackPc' = "recv" /\ dec' = {}
    BY <2>1 DEF PrevBelow
  <2>2. CASE UNCHANGED <<ackPc, ack, prev, dec>>
    <3>1. ASSUME ackPc = "update"
          PROVE  prev <= cursor'[ack.mb]
      <4>1. prev <= cursor[ack.mb] /\ ack.mb \in Mailboxes
        BY <1>1, <3>1, Zenon DEF PrevBelow
      <4>2. cursor[ack.mb] \in Nat /\ cursor'[ack.mb] \in Nat /\ cursor[ack.mb] <= cursor'[ack.mb]
        BY <1>1, <1>2, <4>1
      <4> QED  BY <1>1, <4>1, <4>2, Through
    <3> QED  BY <2>2, <3>1, Zenon DEF PrevBelow
  <2> QED  BY <2>1, <2>2, Zenon
<1>4. ASSUME NEW q \in QoS
      PROVE  inflight'[q] <= Cardinality(Owed(q)')
  <2>1. ASSUME NEW e \in Owed(q)
        PROVE  e \in Owed(q)'
    <3>1. e \in SentOnes \cup CountedOnes /\ QoSOf[e.id] = q
      BY Zenon DEF Owed
    <3>2. e.mb \in Mailboxes /\ e.seq \in Nat
      BY <3>1, OwedFinite DEF Envelope
    <3>3. CASE e \in leaked
      BY <3>1, <3>3, AckLeaves, Zenon DEF Owed
    <3>4. CASE Settling(q, e)
      <4>1. q \in dec
        BY <3>4, Zenon DEF Settling
      <4>2. UNCHANGED <<ack, prev, dec>>
        BY <4>1, Zenon
      <4>3. Settling(q, e)'
        BY <3>4, <4>2, Zenon DEF Settling
      <4> QED  BY <3>1, <4>3, AckLeaves, Zenon DEF Owed
    <3>5. CASE e.seq > cursor[e.mb]
      <4>1. e.seq > cursor'[e.mb] \/ (cursor[e.mb] < e.seq /\ e.seq <= cursor'[e.mb])
        <5>1. e.seq \in Nat /\ cursor[e.mb] \in Nat /\ cursor'[e.mb] \in Nat
          BY <1>1, <1>2, <3>2
        <5> QED  BY ONLY <3>5, <5>1
      <4>2. e \in Counted
        BY <3>1, CountedParts DEF OrderInv
      <4>3. e.seq > cursor'[e.mb] \/ e \in leaked'
        BY <4>1, <4>2, Zenon DEF Passed
      <4> QED  BY <3>1, <4>3, AckLeaves, Zenon DEF Owed
    <3> QED  BY <3>3, <3>4, <3>5, Zenon DEF Owed
  <2>2. IsFiniteSet(Owed(q)) /\ Cardinality(Owed(q)) \in Nat
    BY OwedFinite
  <2>3. Places'
    BY AckLeaves
  <2>4. IsFiniteSet(Owed(q)')
    <3>1. IsFiniteSet(SentOnes \cup CountedOnes)
      BY OwedFinite
    <3>2. Owed(q)' \subseteq SentOnes \cup CountedOnes
      BY AckLeaves, Zenon DEF Owed
    <3> QED  BY <3>1, <3>2, FS_Subset
  <2>5. Cardinality(Owed(q)) <= Cardinality(Owed(q)') /\ Cardinality(Owed(q)') \in Nat
    BY <2>1, <2>4, FS_Subset, FS_CardinalityType
  <2>6. inflight'[q] <= Cardinality(Owed(q)) /\ inflight'[q] \in Nat
    BY AckLeaves DEF CountersOwed
  <2> QED  BY <2>2, <2>5, <2>6
<1> QED  BY <1>3, <1>4, AckLeaves, Zenon DEF CountersOwed

\* The ACK handler.
LEMMA SettleAck ==
  ASSUME OrderInv, OrderInv', PrevBelow, Places, CountersOwed, AckStep, AckFrame
  PROVE  (PrevBelow /\ Places /\ CountersOwed)'
<1>0. (ackPc # "recv" => ack \in Ack) /\ lingering \subseteq Ack
  BY Zenon DEF OrderInv, TypeInv, DeliveryTypeOK
<1>1. CASE AckUpdateFails
  <2>1. /\ ackPc = "update" /\ ackPc' = "recv" /\ dec' = {} /\ inflight' = inflight
        /\ (Advance(ack) \/ UNCHANGED cursor) /\ leaked' = leaked \cup Passed
    BY <1>1, Zenon DEF AckUpdateFails, AckDone
  <2>2. dec = {} /\ ack \in Ack
    BY <1>0, <2>1 DEF PrevBelow
  <2> QED  BY <2>1, <2>2, SettlePassed, Zenon
<1>2. ASSUME NEW a \in lingering, LingeringAck(a)
      PROVE  (PrevBelow /\ Places /\ CountersOwed)'
  <2>1. /\ (Advance(a) \/ UNCHANGED cursor) /\ leaked' = leaked \cup Passed
        /\ inflight' = inflight /\ UNCHANGED <<ackPc, ack, prev, dec>>
    BY <1>2, Zenon DEF LingeringAck, ackVars
  <2>2. a \in Ack
    BY <1>0, Zenon
  <2> QED  BY <2>1, <2>2, SettlePassed, Zenon
<1> QED  BY <1>1, <1>2, SettleRead, SettleUpdate, SettleDecrement, Zenon DEF AckStep

\* Every step keeps SettleInv.
LEMMA SettleStep ==
  ASSUME SettleInv, [Next]_vars
  PROVE  SettleInv'
<1>1. OrderInv /\ OnePlace(envelopes)
  BY Zenon DEF SettleInv
<1>2. OrderInv'
  BY <1>1, OrderStep
<1>3. OnePlace(envelopes')
  BY <1>1, StoreSteps, OnePlaceStep
<1>4. ASSUME conn' = "up"
      PROVE  (PrevBelow /\ Places /\ CountersOwed)'
  <2>1. CASE \E resumed \in BOOLEAN : Connect(resumed)
    BY <2>1, SettleConnect, Zenon DEF Connect
  <2>2. ASSUME UNCHANGED conn
        PROVE  conn = "up" /\ PrevBelow /\ Places /\ CountersOwed
    BY <1>4, <2>2, Zenon DEF SettleInv
  <2>3. ASSUME UNCHANGED <<conn, inflight, leaked, cursor, sent, ackPc, ack, prev, dec>>,
               UNCHANGED <<loopPc, batch, kept, frame, counted>>
        PROVE  (PrevBelow /\ Places /\ CountersOwed)'
    BY <1>1, <1>2, <2>2, <2>3, SettleQuiet, Zenon
  <2>4. CASE Break \/ Crash
    BY <1>4, <2>4 DEF Break, Crash
  <2>5. CASE \E S \in SUBSET Mailboxes : Subscribe(S)
    BY <2>3, <2>5, Zenon DEF Subscribe, loopVars, ackVars
  <2>6. CASE UNCHANGED deliveryVars
    BY <2>3, <2>6, Zenon DEF deliveryVars, loopVars, ackVars, sessionVars
  <2>7. CASE LoopStep /\ LoopFrame
    BY <1>1, <1>2, <2>2, <2>7, SettleLoop, Zenon DEF LoopFrame, sessionVars
  <2>8. CASE AckStep /\ AckFrame
    BY <1>1, <1>2, <2>2, <2>8, SettleAck, Zenon DEF AckFrame, sessionVars
  <2>9. CASE ClientStep
    BY <2>3, <2>9, ZenonT(60)
    DEF ClientStep, ClientReceive, ClientAck, loopVars, ackVars, sessionVars
  <2> QED
    BY <2>1, <2>4, <2>5, <2>6, <2>7, <2>8, <2>9, Sides, Zenon DEF SessionStep
<1> QED  BY <1>2, <1>3, <1>4, Zenon DEF SettleInv

\* On any connection no QoS counter is ever higher than the number of envelopes
\* in flight and leaked, for any limits, batch sizes and mailboxes, although the
\* ACK handler lowers the counters after the cursor while the loop raises them
\* and handlers of lost streams move the cursor too (HandleCumulativeAck,
\* DecrementInflight, DeliverToSession).
THEOREM CountersAreHonest == Spec => []CountersHonest
<1>1. DeliveryInit => SettleInv
  <2> SUFFICES ASSUME DeliveryInit PROVE SettleInv
    OBVIOUS
  <2>1. sent = <<>> /\ loopPc = "idle" /\ conn = "down"
    BY DEF DeliveryInit, LoopInit
  <2>2. envelopes = {}
    BY DEF DeliveryInit, MailboxInit
  <2>3. OrderInv
    BY <2>1, DeliveryTypeInit DEF OrderInv, SentBelow, FramesAscend
  <2> QED  BY <2>1, <2>2, <2>3 DEF SettleInv, OnePlace
<1>2. SettleInv => CountersHonest
  <2> SUFFICES ASSUME SettleInv, conn = "up", ackPc # "decrement", NEW q \in QoS
               PROVE  inflight[q] <= Cardinality(InFlight(q))
    BY Zenon DEF CountersHonest
  <2>1. PrevBelow /\ CountersOwed /\ OrderInv
    BY Zenon DEF SettleInv
  <2>2. dec = {} /\ inflight[q] <= Cardinality(Owed(q))
    BY <2>1, Zenon DEF PrevBelow, CountersOwed
  <2>3. Counted = SentOnes \cup CountedOnes
    BY <2>1, CountedParts DEF OrderInv
  <2>4. \A e : ~Settling(q, e)
    BY <2>2 DEF Settling
  <2>5. Owed(q) = InFlight(q)
    BY <2>3, <2>4, Zenon DEF Owed, InFlight
  <2> QED  BY <2>2, <2>5
<1> QED  BY <1>1, <1>2, SettleStep, PTL DEF Spec
=============================================================================
