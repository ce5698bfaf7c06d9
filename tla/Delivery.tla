------------------------------- MODULE Delivery -------------------------------
(***************************************************************************)
(* Delivery of one server's mailboxes over its stream: the delivery loop   *)
(* of the session, flow control, the handler of cumulative ACKs and the    *)
(* persisted cursors, above the mailbox store of module Mailbox.           *)
(*                                                                         *)
(* Two goroutines of the Spine share a session: the delivery loop, whose   *)
(* steps are cut at every database call and every use of the inflight      *)
(* counters, and the receive loop of the stream, which handles one frame   *)
(* at a time.  The client receives frames in order and may acknowledge     *)
(* anything it has received, also after a reconnect.  Connections break    *)
(* and the server crashes; frames under way are then lost.                 *)
(*                                                                         *)
(* Abstracted: payloads; the wake-up channel and the ticker (the loop may  *)
(* poll at any time); the heartbeat time a PING stores, which nothing      *)
(* reads.  Sessions of one server follow one another here; their overlap   *)
(* belongs to session management.                                          *)
(***************************************************************************)
EXTENDS Mailbox, Sequences

CONSTANTS
  MaxInflightTotal,  \* flow_control.max_inflight_total
  MaxInflight,       \* max_inflight_command, _control and _telemetry
  BatchLimit,        \* envelopes fetched at once: 100 in the code
  MaxConnects,       \* bound on the number of connections
  MaxAcks            \* bound on the ACK frames under way

ASSUME DeliveryAssumption ==
  /\ MaxInflightTotal \in Nat
  /\ MaxInflight \in [QoS -> Nat]
  /\ BatchLimit \in Nat \ {0}
  /\ MaxConnects \in Nat
  /\ MaxAcks \in Nat

VARIABLES
  cursor,     \* last_acked_seq per mailbox, persisted
  savedSubs,  \* the subscriptions of the session document, persisted
  conn,       \* "down", "up" or "broken"
  connects,   \* number of connections made
  subs,       \* session.Subscriptions
  inflight,   \* session.InflightByQoS
  upTo,       \* deliveredUpTo, local to the delivery loop
  loopPc,     \* where the delivery loop is
  todo,       \* subscribed mailboxes still to be polled in this round
  mb,         \* deliverFromMailbox: the mailbox,
  start,      \*   startSeq,
  batch,      \*   the envelopes fetched,
  rest,       \* DeliverToSession: those not yet checked against the limits,
  kept,       \*   those within the limits,
  frame,      \*   the DELIVER frame being built
  counted,    \*   and how many of its envelopes are counted as inflight
  sent,       \* DELIVER frames sent on this connection, in order
  got,        \* how many of them the client has received
  acks,       \* ACK frames under way to the server
  ackPc,      \* where the receive loop is
  ack,        \* the ACK frame it handles
  prev,       \* prevSeq of HandleCumulativeAck
  dec,        \* the QoS counters it has still to decrement
  lingering,  \* ACKs still being stored by handlers of lost connections
  received,   \* every envelope the client has received
  skipped,    \* history: envelopes passed over by the per-QoS limits
  leaked      \* history: envelopes of this connection that stay counted for good

loopVars == <<loopPc, todo, mb, start, batch, rest, kept, frame, counted>>
ackVars == <<acks, ackPc, ack, prev, dec>>
sessionVars == <<conn, connects, subs, savedSubs>>
clientVars == <<got, received>>
deliveryVars ==
  <<cursor, inflight, leaked, upTo, sent, lingering, skipped,
    loopVars, ackVars, sessionVars, clientVars>>
vars == <<mailboxVars, deliveryVars>>

Ack == [mb : Mailboxes, seq : Nat]
NoAck == [mb |-> None, seq |-> 0]

\* The frames made of a set of envelopes: batchByQoS keeps the order of the
\* envelopes inside a QoS, and the map it is yields the QoS in any order.
Frames(S) ==
  {f \in [1..Cardinality(S) -> S] :
     /\ \A e \in S : \E i \in DOMAIN f : f[i] = e
     /\ \A i, j \in DOMAIN f :
          i < j /\ QoSOf[f[i].id] = QoSOf[f[j].id] => f[i].seq < f[j].seq
     /\ \A i, j, k \in DOMAIN f :
          i < j /\ j < k /\ QoSOf[f[i].id] = QoSOf[f[k].id]
            => QoSOf[f[j].id] = QoSOf[f[i].id]}

Content(f) == {f[i] : i \in DOMAIN f}

\* GetTotalInflight
Total == inflight["COMMAND"] + inflight["CONTROL"] + inflight["TELEMETRY"]

\* The envelopes counted on this connection: sent, or about to be.
Counted ==
  (UNION {Content(sent[i]) : i \in DOMAIN sent}) \cup {frame[i] : i \in 1..counted}

Least(a, b) == IF a <= b THEN a ELSE b
Most(a, b) == IF a <= b THEN b ELSE a

DeliveryTypeOK ==
  /\ MailboxTypeOK
  /\ cursor \in [Mailboxes -> Nat]
  /\ savedSubs \subseteq Mailboxes
  /\ conn \in {"down", "up", "broken"}
  /\ connects \in Nat
  /\ subs \subseteq Mailboxes
  /\ inflight \in [QoS -> Nat]
  /\ upTo \in [Mailboxes -> Nat]
  /\ loopPc \in {"idle", "fetch", "filter", "count"}
  /\ todo \subseteq Mailboxes
  /\ mb \in Mailboxes \cup {None}
  /\ loopPc # "idle" => mb \in Mailboxes
  /\ start \in Nat
  /\ batch \subseteq Envelope /\ IsFiniteSet(batch)
  /\ rest \subseteq batch
  /\ kept \subseteq batch
  /\ frame \in Seq(Envelope)
  /\ counted \in 0..Len(frame)
  /\ sent \in Seq(Seq(Envelope))
  /\ got \in 0..Len(sent)
  /\ acks \in Seq(Ack)
  /\ ackPc \in {"recv", "update", "decrement"}
  /\ ack \in Ack \cup {NoAck}
  /\ ackPc # "recv" => ack \in Ack
  /\ prev \in Nat
  /\ dec \subseteq QoS
  /\ lingering \subseteq Ack
  /\ received \subseteq Envelope
  /\ skipped \subseteq Envelope
  /\ leaked \subseteq Envelope
-----------------------------------------------------------------------------
(* The session *)

LoopInit ==
  /\ inflight = [q \in QoS |-> 0]
  /\ upTo = [m \in Mailboxes |-> 0]
  /\ loopPc = "idle" /\ todo = {} /\ mb = None /\ start = 0
  /\ batch = {} /\ rest = {} /\ kept = {} /\ frame = <<>> /\ counted = 0
  /\ sent = <<>> /\ got = 0
  /\ acks = <<>> /\ ackPc = "recv" /\ ack = NoAck /\ prev = 0 /\ dec = {}
  /\ leaked = {}

\* Faulty: deliveredUpTo outlives the connection.
LoopResetKeepsUpTo ==
  /\ inflight' = [q \in QoS |-> 0]
  /\ UNCHANGED upTo
  /\ loopPc' = "idle" /\ todo' = {} /\ mb' = None /\ start' = 0
  /\ batch' = {} /\ rest' = {} /\ kept' = {} /\ frame' = <<>> /\ counted' = 0
  /\ sent' = <<>> /\ got' = 0
  /\ acks' = <<>> /\ ackPc' = "recv" /\ ack' = NoAck /\ prev' = 0 /\ dec' = {}
  /\ leaked' = {}

\* The same state, entered by a step: nothing of a session but its document
\* survives its connection.
LoopReset ==
  /\ inflight' = [q \in QoS |-> 0]
  /\ upTo' = [m \in Mailboxes |-> 0]
  /\ loopPc' = "idle" /\ todo' = {} /\ mb' = None /\ start' = 0
  /\ batch' = {} /\ rest' = {} /\ kept' = {} /\ frame' = <<>> /\ counted' = 0
  /\ sent' = <<>> /\ got' = 0
  /\ acks' = <<>> /\ ackPc' = "recv" /\ ack' = NoAck /\ prev' = 0 /\ dec' = {}
  /\ leaked' = {}

DeliveryInit ==
  /\ MailboxInit
  /\ LoopInit
  /\ cursor = [m \in Mailboxes |-> 0]
  /\ savedSubs = {} /\ subs = {}
  /\ conn = "down" /\ connects = 0
  /\ lingering = {}
  /\ received = {}
  /\ skipped = {}

\* A new stream: RESUME_OK takes up the subscriptions of the document, WELCOME
\* begins a session without any.  Either way the runtime state is fresh.  The
\* handler of the lost stream may still be about to store an ACK.
Connect(resumed) ==
  /\ conn # "up"
  /\ connects < MaxConnects
  /\ conn' = "up"
  /\ connects' = connects + 1
  /\ subs' = IF resumed THEN savedSubs ELSE {}
  /\ savedSubs' = subs'
  /\ lingering' = IF ackPc = "update" THEN lingering \cup {ack} ELSE lingering
  /\ LoopReset
  /\ UNCHANGED <<mailboxVars, cursor, received, skipped>>

\* The stream breaks: from here on SendMsg and Recv fail, and what is under way
\* does not arrive.
Break ==
  /\ conn = "up"
  /\ conn' = "broken"
  /\ acks' = <<>>
  /\ UNCHANGED <<mailboxVars, cursor, inflight, leaked, upTo, sent, lingering, skipped,
                 loopVars, ackPc, ack, prev, dec, connects, subs, savedSubs, clientVars>>

\* The server process dies and only the database is left.
Crash ==
  /\ MailboxCrash
  /\ conn' = "down"
  /\ subs' = {}
  /\ lingering' = {}
  /\ LoopReset
  /\ UNCHANGED <<cursor, savedSubs, connects, received, skipped>>

\* Mailboxes the session has are not added again.
AddSubscription(S) == subs' = subs \cup S

UpdateSubscriptions == savedSubs' = subs'

\* HandleSubscribe: the session first, then its document, which may fail.
Subscribe(S) ==
  /\ conn = "up"
  /\ ackPc = "recv"
  /\ AddSubscription(S)
  /\ \/ UpdateSubscriptions
     \/ DbErrors /\ UNCHANGED savedSubs
  /\ UNCHANGED <<mailboxVars, cursor, inflight, leaked, upTo, sent, lingering, skipped,
                 loopVars, ackVars, conn, connects, clientVars>>
-----------------------------------------------------------------------------
(* The delivery loop *)

\* What every step of the loop leaves alone.
LoopFrame ==
  UNCHANGED <<mailboxVars, cursor, lingering, ackVars, sessionVars, clientVars>>

\* A new round over the subscriptions, on a signal or on the ticker.
Wake ==
  /\ conn # "down"
  /\ loopPc = "idle" /\ todo = {} /\ subs # {}
  /\ todo' = subs
  /\ UNCHANGED <<inflight, leaked, upTo, sent, skipped, loopPc, mb, start, batch, rest,
                 kept, frame, counted>>
  /\ LoopFrame

\* deliverFromMailbox returns, whatever it was doing.
Return ==
  /\ loopPc' = "idle" /\ mb' = None /\ start' = 0
  /\ batch' = {} /\ rest' = {} /\ kept' = {} /\ frame' = <<>> /\ counted' = 0
  /\ UNCHANGED todo

\* The position GetAckPositions may yield for m.  When the iteration over the
\* cursors breaks off, the error is not looked at and the missing position
\* counts as 0.
GetAckPositions(m) == {cursor[m]} \cup (IF DbErrors THEN {0} ELSE {})

\* The higher of the cursor and deliveredUpTo.
ReadCursor(m) ==
  /\ loopPc = "idle" /\ m \in todo
  /\ todo' = todo \ {m}
  /\ mb' = m
  /\ \E seq \in GetAckPositions(m) : start' = Most(seq, upTo[m])
  /\ loopPc' = "fetch"
  /\ UNCHANGED <<inflight, leaked, upTo, sent, skipped, batch, rest, kept, frame, counted>>
  /\ LoopFrame

\* GetAckPositions fails: on to the next mailbox.
ReadCursorFails(m) ==
  /\ DbErrors
  /\ loopPc = "idle" /\ m \in todo
  /\ todo' = todo \ {m}
  /\ UNCHANGED <<inflight, leaked, upTo, sent, skipped, loopPc, mb, start, batch, rest,
                 kept, frame, counted>>
  /\ LoopFrame

Fetchable == {e \in envelopes : e.mb = mb /\ e.seq > start}

\* F is what FetchEnvelopes returns: the lowest positions, up to limit.
Fetched(F, limit) ==
  /\ Cardinality(F) = Least(limit, Cardinality(Fetchable))
  /\ \A e \in F, g \in Fetchable \ F : e.seq < g.seq

\* Faulty: what is in flight is not taken off the limit.
FetchFullBatch ==
  /\ loopPc = "fetch"
  /\ Total < MaxInflightTotal
  /\ \E F \in SUBSET Fetchable \ {{}} :
       /\ Fetched(F, Least(MaxInflightTotal, BatchLimit))
       /\ batch' = F
       /\ rest' = F
  /\ loopPc' = "filter"
  /\ UNCHANGED <<inflight, leaked, upTo, sent, skipped, todo, mb, start, kept, frame,
                 counted>>
  /\ LoopFrame

\* The total is read before the query starts.  Only the ACK handler changes it
\* in between, and nothing it changes is seen by the query, so the two are one
\* step.
Fetch ==
  /\ loopPc = "fetch"
  /\ Total < MaxInflightTotal
  /\ \E F \in SUBSET Fetchable \ {{}} :
       /\ Fetched(F, Least(MaxInflightTotal - Total, BatchLimit))
       /\ batch' = F
       /\ rest' = F
  /\ loopPc' = "filter"
  /\ UNCHANGED <<inflight, leaked, upTo, sent, skipped, todo, mb, start, kept, frame,
                 counted>>
  /\ LoopFrame

\* The flow-control limit is reached, there is nothing new, or the query fails.
FetchNothing ==
  /\ loopPc = "fetch"
  /\ DbErrors \/ Total >= MaxInflightTotal \/ Fetchable = {}
  /\ Return
  /\ UNCHANGED <<inflight, leaked, upTo, sent, skipped>>
  /\ LoopFrame

\* UNSPECIFIED has no limit of its own in the switch: its limit is 0.
WithinLimit(e) ==
  /\ QoSOf[e.id] \in QoS
  /\ inflight[QoSOf[e.id]] < MaxInflight[QoSOf[e.id]]

\* DeliverToSession: the next envelope is kept or passed over.
Filter(e) ==
  /\ loopPc = "filter"
  /\ e \in rest
  /\ \A f \in rest : e.seq <= f.seq
  /\ rest' = rest \ {e}
  /\ kept' = IF WithinLimit(e) THEN kept \cup {e} ELSE kept
  /\ UNCHANGED <<inflight, leaked, upTo, sent, skipped, loopPc, todo, mb, start, batch,
                 frame, counted>>
  /\ LoopFrame

\* Faulty: deliveredUpTo moves although nothing was sent.
AllFilteredAdvances ==
  /\ loopPc = "filter"
  /\ rest = {} /\ kept = {}
  /\ \E top \in batch :
       /\ \A e \in batch : e.seq <= top.seq
       /\ upTo' = [upTo EXCEPT ![mb] = Most(@, top.seq)]
  /\ Return
  /\ UNCHANGED <<inflight, leaked, sent, skipped>>
  /\ LoopFrame

\* Nothing is within the limits: no frame, and deliveredUpTo stays.
AllFiltered ==
  /\ loopPc = "filter"
  /\ rest = {} /\ kept = {}
  /\ Return
  /\ UNCHANGED <<inflight, leaked, upTo, sent, skipped>>
  /\ LoopFrame

Group ==
  /\ loopPc = "filter"
  /\ rest = {} /\ kept # {}
  /\ frame' \in Frames(kept)
  /\ loopPc' = "count"
  /\ UNCHANGED <<inflight, leaked, upTo, sent, skipped, todo, mb, start, batch, rest,
                 kept, counted>>
  /\ LoopFrame

IncrementInflight(q) == inflight' = [inflight EXCEPT ![q] = @ + 1]

\* Envelope by envelope.  One at or below the cursor, which has moved since the
\* loop read it, is not taken off again.
Count ==
  /\ loopPc = "count"
  /\ counted < Len(frame)
  /\ counted' = counted + 1
  /\ IncrementInflight(QoSOf[frame[counted + 1].id])
  /\ leaked' = leaked \cup
       {e \in {frame[counted + 1]} : e.seq <= cursor[e.mb]}
  /\ UNCHANGED <<upTo, sent, skipped, loopPc, todo, mb, start, batch, rest,
                 kept, frame>>
  /\ LoopFrame

\* Faulty: deliveredUpTo stays behind what was sent.
SendForgets ==
  /\ loopPc = "count" /\ counted = Len(frame)
  /\ conn = "up"
  /\ sent' = Append(sent, frame)
  /\ skipped' = skipped \cup (batch \ kept)
  /\ Return
  /\ UNCHANGED <<inflight, leaked, upTo>>
  /\ LoopFrame

\* SendMsg succeeds and deliveredUpTo moves past everything fetched, the
\* envelopes that were passed over included.
Send ==
  /\ loopPc = "count" /\ counted = Len(frame)
  /\ conn = "up"
  /\ sent' = Append(sent, frame)
  /\ \E top \in batch :
       /\ \A e \in batch : e.seq <= top.seq
       /\ upTo' = [upTo EXCEPT ![mb] = Most(@, top.seq)]
  /\ skipped' = skipped \cup (batch \ kept)
  /\ Return
  /\ UNCHANGED <<inflight, leaked>>
  /\ LoopFrame

\* SendMsg fails; the envelopes stay counted.
SendFails ==
  /\ loopPc = "count" /\ counted = Len(frame)
  /\ conn = "broken"
  /\ Return
  /\ UNCHANGED <<inflight, leaked, upTo, sent, skipped>>
  /\ LoopFrame
-----------------------------------------------------------------------------
(* The receive loop: handleClientFrame *)

AckFrame ==
  UNCHANGED <<mailboxVars, upTo, sent, skipped, loopVars, sessionVars, clientVars>>

\* HandleCumulativeAck reads the previous position; an error counts as 0.
AckRead ==
  /\ conn = "up"
  /\ ackPc = "recv" /\ acks # <<>>
  /\ ack' = Head(acks)
  /\ acks' = Tail(acks)
  /\ prev' \in GetAckPositions(Head(acks).mb)
  /\ ackPc' = "update"
  /\ UNCHANGED <<cursor, inflight, leaked, dec, lingering>>
  /\ AckFrame

AckDone == ackPc' = "recv" /\ ack' = NoAck /\ prev' = 0 /\ dec' = {}

\* UpdateAckPosition: $max, so a cursor never goes back.
Advance(a) == cursor' = [cursor EXCEPT ![a.mb] = Most(@, a.seq)]

\* Faulty: the counters are never decremented.
AckUpdateOnly ==
  /\ ackPc = "update"
  /\ Advance(ack)
  /\ AckDone
  /\ UNCHANGED <<inflight, leaked, acks, lingering>>
  /\ AckFrame

AckUpdate ==
  /\ ackPc = "update"
  /\ Advance(ack)
  /\ IF ack.seq > prev
       THEN ackPc' = "decrement" /\ dec' = QoS /\ UNCHANGED <<ack, prev>>
       ELSE AckDone
  /\ UNCHANGED <<inflight, leaked, acks, lingering>>
  /\ AckFrame

\* What a cursor passes in this step without anyone lowering the counters.
Passed == {e \in Counted : cursor[e.mb] < e.seq /\ e.seq <= cursor'[e.mb]}

\* UpdateAckPosition returns an error, with the update made or not (an answer
\* that is lost): PROCESSING_ERROR to the client, and no counter is lowered.
AckUpdateFails ==
  /\ DbErrors
  /\ ackPc = "update"
  /\ Advance(ack) \/ UNCHANGED cursor
  /\ leaked' = leaked \cup Passed
  /\ AckDone
  /\ UNCHANGED <<inflight, acks, lingering>>
  /\ AckFrame

\* Faulty: without the floor at zero.
AckDecrementUnfloored(q) ==
  /\ ackPc = "decrement" /\ q \in dec
  /\ q = "CONTROL" => "COMMAND" \notin dec
  /\ q = "TELEMETRY" => dec = {q}
  /\ inflight' = [inflight EXCEPT ![q] = @ - (ack.seq - prev)]
  /\ IF dec = {q} THEN AckDone ELSE dec' = dec \ {q} /\ UNCHANGED <<ackPc, ack, prev>>
  /\ UNCHANGED <<cursor, leaked, acks, lingering>>
  /\ AckFrame

\* Floored at zero.
DecrementInflight(q, n) == inflight' = [inflight EXCEPT ![q] = Most(0, @ - n)]

\* By the distance, on the three counters in turn.
AckDecrement(q) ==
  /\ ackPc = "decrement" /\ q \in dec
  /\ q = "CONTROL" => "COMMAND" \notin dec
  /\ q = "TELEMETRY" => dec = {q}
  /\ DecrementInflight(q, ack.seq - prev)
  /\ IF dec = {q} THEN AckDone ELSE dec' = dec \ {q} /\ UNCHANGED <<ackPc, ack, prev>>
  /\ UNCHANGED <<cursor, leaked, acks, lingering>>
  /\ AckFrame

\* The handler of a lost connection stores its ACK, or fails to.  The counters
\* it lowers are those of the lost session.
LingeringAck(a) ==
  /\ a \in lingering
  /\ lingering' = lingering \ {a}
  /\ Advance(a) \/ UNCHANGED cursor
  /\ leaked' = leaked \cup Passed
  /\ UNCHANGED <<inflight, ackVars>>
  /\ AckFrame

\* ACK_SET is refused, a NACK and a FLOW_HINT are logged.
HandleSelectiveAck == UNCHANGED vars
HandleNack == UNCHANGED vars
HandleBackpressure == UNCHANGED vars

OtherFrame ==
  /\ conn = "up"
  /\ ackPc = "recv"
  /\ HandleSelectiveAck \/ HandleNack \/ HandleBackpressure
-----------------------------------------------------------------------------
(* The client *)

ClientReceive ==
  /\ conn = "up"
  /\ got < Len(sent)
  /\ got' = got + 1
  /\ received' = received \cup Content(sent[got + 1])
  /\ UNCHANGED <<mailboxVars, cursor, inflight, leaked, upTo, sent, lingering, skipped,
                 loopVars, ackVars, sessionVars>>

\* The client acknowledges an envelope it has received, now or earlier.
ClientAck(e) ==
  /\ conn = "up"
  /\ e \in received
  /\ Len(acks) < MaxAcks
  /\ acks' = Append(acks, [mb |-> e.mb, seq |-> e.seq])
  /\ UNCHANGED <<mailboxVars, cursor, inflight, leaked, upTo, sent, lingering, skipped,
                 loopVars, ackPc, ack, prev, dec, sessionVars, clientVars>>
-----------------------------------------------------------------------------
SessionStep ==
  \/ \E resumed \in BOOLEAN : Connect(resumed)
  \/ Break
  \/ Crash
  \/ \E S \in SUBSET Mailboxes : Subscribe(S)

LoopStep ==
  \/ Wake
  \/ \E m \in Mailboxes : ReadCursor(m) \/ ReadCursorFails(m)
  \/ Fetch
  \/ FetchNothing
  \/ \E e \in rest : Filter(e)
  \/ AllFiltered
  \/ Group
  \/ Count
  \/ Send
  \/ SendFails

AckStep ==
  \/ AckRead
  \/ AckUpdate
  \/ AckUpdateFails
  \/ \E q \in QoS : AckDecrement(q)
  \/ \E a \in lingering : LingeringAck(a)

ClientStep ==
  \/ ClientReceive
  \/ \E e \in received : ClientAck(e)

Next ==
  \/ MailboxNext /\ UNCHANGED deliveryVars
  \/ SessionStep
  \/ LoopStep
  \/ AckStep
  \/ OtherFrame
  \/ ClientStep

Spec == DeliveryInit /\ [][Next]_vars

\* The client acknowledges the newest envelope it has received of m.
ClientAckNewest(m) ==
  \E e \in received :
    /\ e.mb = m /\ e.seq > cursor[m]
    /\ \A f \in received : f.mb = m => f.seq <= e.seq
    /\ ClientAck(e)

\* The goroutines of a session run and the stream transports what is sent
\* (weak fairness).  Errors of the database are transient, whichever mailbox
\* they hit, and the client, which may also repeat old ACKs, comes round to
\* acknowledging what it has received (strong fairness).
Fairness ==
  /\ WF_vars(LoopStep)
  /\ WF_vars(AckStep)
  /\ WF_vars(ClientReceive)
  /\ \A m \in Mailboxes :
       /\ SF_vars(ReadCursor(m))
       /\ SF_vars(mb = m /\ Fetch)
       /\ SF_vars(ack.mb = m /\ ack.seq > cursor[m] /\ AckUpdate)
       /\ SF_vars(ClientAckNewest(m))

FairSpec == Spec /\ Fairness
-----------------------------------------------------------------------------
(* Properties *)

\* The counters never admit more than max_inflight_total, although the loop
\* computes its fetch limit, filters and counts in separate steps and the ACK
\* handler changes the counters in between (deliverFromMailbox,
\* DeliverToSession, DecrementInflight).
InflightBounded == Total <= MaxInflightTotal

\* What the counters may count: envelopes sent on this connection, or about to
\* be, that no cursor covers, and those that are counted for good.
InFlight(q) ==
  {e \in Counted : QoSOf[e.id] = q /\ (e.seq > cursor[e.mb] \/ e \in leaked)}

\* No counter is ever higher than what is in flight, so that acknowledging
\* everything opens the flow control again, although the handler lowers all
\* three counters by how far the cursor moved, after the cursor itself, while
\* the loop goes on counting (HandleCumulativeAck, DeliverToSession).  The only
\* envelopes that stay counted are those the cursor passed by an update that
\* was answered with an error or by the handler of a lost stream, or had passed
\* before they were sent: see delivery_leak.
CountersHonest ==
  conn = "up" /\ ackPc # "decrement" =>
    \A q \in QoS : inflight[q] <= Cardinality(InFlight(q))

\* What the ack cursor stands for (a cumulative ACK "implies all seq <=
\* seq_acked are processed"): an envelope at or below the cursor of its
\* mailbox reached the client.
AtLeastOnce ==
  \A e \in envelopes : e.seq <= cursor[e.mb] => e \in received

\* The exact extent to which AtLeastOnce holds of this code: an envelope that
\* was acknowledged unseen is one that the per-QoS limits passed over in a
\* batch (deliverFromMailbox moves deliveredUpTo past the whole batch) or one
\* that was inserted below a position already taken (AppendEnvelope is not
\* atomic, ClearMailbox restarts the numbers).  Broken connections, crashes,
\* failing database calls and stale ACKs never lose one by themselves.
LossExplained ==
  \A e \in envelopes :
    e.seq <= cursor[e.mb] => e \in received \cup skipped \cup late

\* Within a connection the loop never goes back: an envelope of a later frame
\* is above every envelope of its mailbox in an earlier frame, so nothing in
\* flight is delivered twice (the purpose of deliveredUpTo).
FramesAscend ==
  \A i, j \in DOMAIN sent : i < j =>
    \A e \in Content(sent[i]), f \in Content(sent[j]) :
      e.mb = f.mb => e.seq < f.seq

\* On a connection that stays up with every mailbox subscribed, what is stored
\* is received in the end: the inflight counters always open again
\* (SPEC 6: delivery of COMMAND and CONTROL is at-least-once).
EventuallyReceived ==
  <>[](conn = "up" /\ subs = Mailboxes) =>
    \A i \in Ids : (\E e \in envelopes : e.id = i) ~> (\E e \in received : e.id = i)

\* The exact extent to which EventuallyReceived holds of this code: what is
\* stored is received in the end, through failing database calls and repeated
\* ACKs, unless an envelope of the connection is counted for good (a cursor
\* passed it and HandleCumulativeAck did not lower the counters for it).
ReceivedUnlessLeaked ==
  <>[](conn = "up" /\ subs = Mailboxes /\ leaked = {}) =>
    \A i \in Ids : (\E e \in envelopes : e.id = i) ~> (\E e \in received : e.id = i)

\* The promise of module DurableLog, read off the state of this module.
Promise == INSTANCE DurableLog WITH
  Boxes <- Mailboxes, Entry <- Envelope,
  log <- envelopes, born <- published, seen <- received, acked <- cursor

\* Where appends are not interleaved and no QoS has a limit below the total,
\* this code keeps the promise of DurableLog, through lost connections,
\* crashes, database errors and stale ACKs.
KeepsPromise == Promise!LogSpec
=============================================================================
