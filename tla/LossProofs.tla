------------------------------ MODULE LossProofs ------------------------------
(***************************************************************************)
(* A position of a mailbox on its way from the delivery loop to the        *)
(* client, back in an ACK and into the cursor stands for everything stored *)
(* up to it: proofs for module Delivery of LossExplained, and that         *)
(* Delivery implements DurableLog where nothing is inserted late and no    *)
(* QoS has a limit below the total.                                        *)
(***************************************************************************)
EXTENDS DeliveryProofs

-----------------------------------------------------------------------------
(* What a position stands for on its way to the client and back *)

\* Everything of mailbox m in the store E up to position n is in K, and what
\* is still to be inserted up to n counts as late: a position of m at least
\* as high was taken before (P is what was ever inserted).
Covered(E, P, K, m, n) ==
  /\ n = 0 \/ \E f \in P : f.mb = m /\ n <= f.seq
  /\ \A e \in E : e.mb = m /\ e.seq <= n => e \in K

Accounted == received \cup skipped \cup late

OnTheWay == Accounted \cup Carried(sent, Len(sent))

StoreInv ==
  /\ envelopes \subseteq published
  /\ \A e \in published : e.seq > 0
  /\ \A p \in Publishers : pub[p].pc = "insert" => pub[p].seq > 0

CursorsCovered ==
  \A m \in Mailboxes : Covered(envelopes, published, Accounted, m, cursor[m])

\* An ACK under way, being stored, or left behind by a lost connection.
AcksCovered ==
  /\ \A i \in DOMAIN acks :
       Covered(envelopes, published, Accounted, acks[i].mb, acks[i].seq)
  /\ ackPc = "update" => Covered(envelopes, published, Accounted, ack.mb, ack.seq)
  /\ \A a \in lingering : Covered(envelopes, published, Accounted, a.mb, a.seq)

ReceivedCovered ==
  \A e \in received :
    e \in published /\ Covered(envelopes, published, Accounted, e.mb, e.seq)

\* The envelopes of a frame cover their mailbox together with the frames
\* before it.
SentCovered ==
  /\ \A k \in DOMAIN sent : \A e \in Content(sent[k]) :
       /\ e \in published
       /\ Covered(envelopes, published, Accounted \cup Carried(sent, k), e.mb, e.seq)
  /\ \A k \in 1..got : Content(sent[k]) \subseteq received

LoopCovered ==
  /\ \A m \in Mailboxes : Covered(envelopes, published, OnTheWay, m, upTo[m])
  /\ loopPc # "idle" => Covered(envelopes, published, OnTheWay, mb, start)
  /\ loopPc \in {"filter", "count"} => \A e \in batch :
       /\ e \in published /\ e.mb = mb
       /\ Covered(envelopes, published, OnTheWay \cup batch, mb, e.seq)
  /\ loopPc = "count" => Content(frame) = kept

LossInv ==
  /\ TypeInv /\ StoreInv
  /\ CursorsCovered /\ AcksCovered /\ ReceivedCovered /\ SentCovered /\ LoopCovered

-----------------------------------------------------------------------------
(* The store *)

\* What the steps of the store do: nothing inserted is forgotten, and an
\* insert at or below a position taken before is late.
StoreMoves ==
  /\ published \subseteq published' /\ late \subseteq late'
  /\ \A e \in envelopes' :
       \/ e \in envelopes
       \/ /\ e.seq \in Nat /\ e.seq > 0
          /\ (\E f \in published : f.mb = e.mb /\ e.seq <= f.seq) => e \in late'

\* Every step of the store is one that StoreMoves allows.
LEMMA StoreStep ==
  ASSUME MailboxTypeOK, StoreInv, [MailboxStep]_mailboxVars
  PROVE  StoreMoves /\ StoreInv'
<1> USE DEF StoreInv, StoreMoves
<1>0. pub \in [Publishers -> Job] /\ nextSeq \in [Mailboxes -> Nat \ {0}]
  BY DEF MailboxTypeOK
<1>1. ASSUME UNCHANGED <<published, late>>, envelopes' \subseteq envelopes,
             \A p \in Publishers : pub'[p] = pub[p] \/ pub'[p].pc # "insert" \/ pub'[p].seq > 0
      PROVE  StoreMoves /\ StoreInv'
  BY <1>1, ZenonT(60)
<1>2. ASSUME NEW p \in Publishers, NEW i \in Ids, NEW T \in TargetSets, Publish(p, i, T)
      PROVE  StoreMoves /\ StoreInv'
  <2>1. \A q \in Publishers : pub'[q] = pub[q] \/ pub'[q].pc # "insert"
    BY <1>0, <1>2 DEF Publish, NewJob
  <2> QED  BY <1>1, <1>2, <2>1 DEF Publish
<1>3. ASSUME NEW p \in Publishers, NEW m \in Mailboxes, AllocSeq(p, m)
      PROVE  StoreMoves /\ StoreInv'
  <2>1. nextSeq[m] > 0 /\ pub[p] \in Job
    BY <1>0
  <2>2. \A q \in Publishers : pub'[q] = pub[q] \/ pub'[q].seq > 0
    BY <1>0, <1>3, <2>1 DEF AllocSeq, Job
  <2> QED  BY <1>1, <1>3, <2>2 DEF AllocSeq
<1>4. ASSUME NEW p \in Publishers, NEW m \in Mailboxes, AllocFails(p, m)
      PROVE  StoreMoves /\ StoreInv'
  <2>1. \A q \in Publishers : pub'[q] = pub[q] \/ pub'[q].pc # "insert"
    BY <1>0, <1>4 DEF AllocFails, Job
  <2> QED  BY <1>1, <1>4, <2>1 DEF AllocFails
<1>5. ASSUME NEW p \in Publishers, InsertOne(p)
      PROVE  StoreMoves /\ StoreInv'
  <2>1. pub[p] \in Job /\ pub[p].pc = "insert" /\ pub[p].seq > 0
    BY <1>0, <1>5 DEF InsertOne
  <2>2. PICK e : e = Pending(p)
    OBVIOUS
  <2>3. e.seq \in Nat /\ e.seq > 0
    BY <2>1, <2>2 DEF Pending, Job
  <2>4. /\ envelopes' = envelopes \cup {e} /\ published' = published \cup {e}
        /\ late' = IF Overtaken(e) THEN late \cup {e} ELSE late
    BY <1>5, <2>2 DEF InsertOne
  <2>5. \A q \in Publishers : pub'[q] = pub[q] \/ pub'[q].pc # "insert"
    BY <1>0, <1>5, <2>1 DEF InsertOne, Job
  <2>6. late \subseteq late' /\ (Overtaken(e) => e \in late')
    BY <2>4
  <2> QED  BY <2>3, <2>4, <2>5, <2>6 DEF Overtaken
<1>6. ASSUME NEW p \in Publishers, InsertFails(p) \/ PublishReturns(p) \/ Reply(p)
      PROVE  StoreMoves /\ StoreInv'
  <2>0. pub[p] \in Job
    BY <1>0
  <2>1. pub'[p].pc # "insert" /\ \A q \in Publishers \ {p} : pub'[q] = pub[q]
    <3>1. CASE InsertFails(p)
      BY <1>0, <2>0, <3>1 DEF InsertFails, Job
    <3>2. CASE PublishReturns(p)
      BY <1>0, <2>0, <3>2 DEF PublishReturns, Job
    <3>3. CASE Reply(p)
      BY <1>0, <2>0, <3>3 DEF Reply, IdleJob
    <3> QED  BY <1>6, <3>1, <3>2, <3>3
  <2>2. UNCHANGED <<envelopes, published, late>>
    BY <1>6 DEF InsertFails, PublishReturns, Reply
  <2> QED  BY <1>1, <2>1, <2>2
<1>7. ASSUME NEW m \in Mailboxes, ClearDelete(m) \/ ClearReset(m) \/ ClearFails(m)
      PROVE  StoreMoves /\ StoreInv'
  BY <1>1, <1>7 DEF ClearDelete, ClearReset, ClearFails
<1>8. ASSUME NEW m \in Mailboxes, NEW X \in SUBSET Expiring, PurgeExpired(m, X)
      PROVE  StoreMoves /\ StoreInv'
  BY <1>1, <1>8 DEF PurgeExpired
<1>9. CASE MailboxCrash
  <2>1. \A q \in Publishers : pub'[q].pc # "insert"
    BY <1>9 DEF MailboxCrash, IdleJob
  <2> QED  BY <1>1, <1>9, <2>1, ZenonT(60) DEF MailboxCrash
<1>10. CASE UNCHANGED mailboxVars
  BY <1>1, <1>10, ZenonT(60) DEF mailboxVars
<1> QED
  BY <1>2, <1>3, <1>4, <1>5, <1>6, <1>7, <1>8, <1>9, <1>10
     DEF MailboxStep, MailboxNext, PublisherStep

-----------------------------------------------------------------------------
(* What a step that does not touch it leaves covered *)

\* A covered position stays covered under a step of the store: what is new at
\* or below a position taken before is late.
LEMMA Carry ==
  ASSUME MailboxTypeOK, StoreMoves, NEW K, NEW L, K \subseteq L, late' \subseteq L,
         NEW m, NEW n \in Nat, Covered(envelopes, published, K, m, n)
  PROVE  Covered(envelopes', published', L, m, n)
<1>1. \A f \in published : f.seq \in Nat
  BY DEF MailboxTypeOK, Envelope
<1>2. n = 0 \/ \E f \in published' : f.mb = m /\ n <= f.seq
  BY DEF Covered, StoreMoves
<1>3. ASSUME NEW e \in envelopes', e.mb = m, e.seq <= n, e \notin envelopes
      PROVE  e \in late'
  <2>1. e.seq \in Nat /\ e.seq > 0
    BY <1>3 DEF StoreMoves
  <2>2. PICK f \in published : f.mb = m /\ n <= f.seq
    BY <1>3, <2>1 DEF Covered
  <2>3. e.seq <= f.seq
    BY <1>1, <1>3, <2>1, <2>2
  <2> QED  BY <1>3, <2>2, <2>3 DEF StoreMoves
<1>4. ASSUME NEW e \in envelopes', e.mb = m, e.seq <= n
      PROVE  e \in L
  <2>1. CASE e \in envelopes
    BY <1>4, <2>1 DEF Covered
  <2>2. CASE e \notin envelopes
    BY <1>3, <1>4, <2>2
  <2> QED  BY <2>1, <2>2
<1> QED  BY <1>2, <1>4 DEF Covered

\* Nothing that is accounted for is forgotten.
Keeps == StoreMoves /\ received \subseteq received' /\ skipped \subseteq skipped'

\* What is accounted for stays so, and a late insert is accounted for.
LEMMA KeepsAccounted ==
  ASSUME Keeps
  PROVE  Accounted \subseteq Accounted' /\ late' \subseteq Accounted'
  BY DEF Keeps, StoreMoves, Accounted

\* The cursors stay covered by a step that does not store one.
LEMMA CursorsStay ==
  ASSUME LossInv, Keeps, UNCHANGED cursor
  PROVE  CursorsCovered'
<1>1. MailboxTypeOK /\ StoreMoves /\ cursor \in [Mailboxes -> Nat]
  BY DEF LossInv, TypeInv, DeliveryTypeOK, Keeps
<1>2. ASSUME NEW m \in Mailboxes
      PROVE  Covered(envelopes', published', Accounted', m, cursor'[m])
  <2>1. Covered(envelopes, published, Accounted, m, cursor[m]) /\ cursor[m] \in Nat
    BY <1>1 DEF LossInv, CursorsCovered
  <2> QED  BY <1>1, <2>1, KeepsAccounted, Carry
<1> QED  BY <1>2 DEF CursorsCovered

\* The coverage of a set of ACKs.
AcksIn(E, P, K, S) == \A a \in S : Covered(E, P, K, a.mb, a.seq)

Underway == {acks[i] : i \in DOMAIN acks} \cup lingering
              \cup (IF ackPc = "update" THEN {ack} ELSE {})

\* AcksCovered says that the ACKs under way are covered.
LEMMA UnderwayCovered ==
  /\ AcksCovered <=> AcksIn(envelopes, published, Accounted, Underway)
  /\ AcksCovered' <=> AcksIn(envelopes', published', Accounted', Underway')
  BY ZenonT(60) DEF AcksCovered, AcksIn, Underway

\* The ACKs under way have the type of an ACK.
LEMMA UnderwayType == TypeInv => Underway \subseteq Ack
  BY DEF TypeInv, DeliveryTypeOK, Underway

\* ACKs under way stay covered, and a new one is covered if it is for an
\* envelope that was received.
LEMMA AcksStay ==
  ASSUME LossInv, Keeps, \A a \in Underway' \ Underway :
           \E e \in received : a.mb = e.mb /\ a.seq = e.seq
  PROVE  AcksCovered'
<1>1. MailboxTypeOK /\ StoreMoves /\ Underway \subseteq Ack /\ received \subseteq Envelope
  BY UnderwayType, Zenon DEF LossInv, TypeInv, DeliveryTypeOK, Keeps
<1>2. ASSUME NEW a \in Underway'
      PROVE  a.seq \in Nat /\ Covered(envelopes, published, Accounted, a.mb, a.seq)
  <2>1. CASE a \in Underway
    <3>1. a.seq \in Nat
      BY <1>1, <2>1 DEF Ack
    <3>2. AcksIn(envelopes, published, Accounted, Underway)
      BY UnderwayCovered DEF LossInv
    <3> QED  BY <2>1, <3>1, <3>2 DEF AcksIn
  <2>2. CASE a \notin Underway
    <3>1. PICK e \in received : a.mb = e.mb /\ a.seq = e.seq
      BY <2>2
    <3>2. e.seq \in Nat
      BY <1>1 DEF Envelope
    <3> QED  BY <3>1, <3>2 DEF LossInv, ReceivedCovered
  <2> QED  BY <2>1, <2>2
<1>3. ASSUME NEW a \in Underway'
      PROVE  Covered(envelopes', published', Accounted', a.mb, a.seq)
  BY <1>1, <1>2, KeepsAccounted, Carry, ZenonT(60)
<1>4. AcksIn(envelopes', published', Accounted', Underway')
  BY <1>3 DEF AcksIn
<1> QED  BY <1>4, UnderwayCovered

\* What the client received stays covered until it receives more.
LEMMA ReceivedStays ==
  ASSUME LossInv, Keeps, UNCHANGED received
  PROVE  ReceivedCovered'
<1>1. MailboxTypeOK /\ StoreMoves /\ received \subseteq Envelope
  BY DEF LossInv, TypeInv, DeliveryTypeOK, Keeps
<1>2. ASSUME NEW e \in received'
      PROVE  e \in published' /\ Covered(envelopes', published', Accounted', e.mb, e.seq)
  <2>1. /\ e \in published /\ e.seq \in Nat
        /\ Covered(envelopes, published, Accounted, e.mb, e.seq)
    BY <1>1 DEF LossInv, ReceivedCovered, Envelope
  <2>2. e \in published'
    BY <1>1, <2>1 DEF StoreMoves
  <2> QED  BY <1>1, <2>1, <2>2, KeepsAccounted, Carry
<1> QED  BY <1>2 DEF ReceivedCovered

\* The frames of the connection stay covered until another is sent.
LEMMA SentStays ==
  ASSUME LossInv, Keeps, UNCHANGED <<sent, got>>
  PROVE  SentCovered'
<1>1. MailboxTypeOK /\ StoreMoves /\ received \subseteq received'
  BY DEF LossInv, TypeInv, DeliveryTypeOK, Keeps
<1>2. ASSUME NEW k \in DOMAIN sent', NEW e \in Content(sent'[k])
      PROVE  /\ e \in published'
             /\ Covered(envelopes', published', Accounted' \cup Carried(sent', k), e.mb, e.seq)
  <2>1. /\ e \in published
        /\ Covered(envelopes, published, Accounted \cup Carried(sent, k), e.mb, e.seq)
    BY <1>2 DEF LossInv, SentCovered
  <2>2. e \in published' /\ e.seq \in Nat
    BY <1>1, <2>1 DEF StoreMoves, MailboxTypeOK, Envelope
  <2>3. /\ Accounted \cup Carried(sent, k) \subseteq Accounted' \cup Carried(sent', k)
        /\ late' \subseteq Accounted' \cup Carried(sent', k)
    BY KeepsAccounted
  <2> QED  BY <1>1, <2>1, <2>2, <2>3, Carry
<1>3. \A k \in 1..got' : Content(sent'[k]) \subseteq received'
  BY <1>1 DEF LossInv, SentCovered
<1> QED  BY <1>2, <1>3 DEF SentCovered

\* The positions the delivery loop works with stay covered: deliveredUpTo, the
\* position a fetch starts from and those of the batch.
LEMMA PositionsStay ==
  ASSUME LossInv, Keeps, OnTheWay \subseteq OnTheWay'
  PROVE  /\ \A m \in Mailboxes : Covered(envelopes', published', OnTheWay', m, upTo[m])
         /\ loopPc # "idle" => Covered(envelopes', published', OnTheWay', mb, start)
         /\ loopPc \in {"filter", "count"} => \A e \in batch :
              /\ e \in published' /\ e.mb = mb
              /\ Covered(envelopes', published', OnTheWay' \cup batch, mb, e.seq)
<1>1. /\ MailboxTypeOK /\ StoreMoves /\ upTo \in [Mailboxes -> Nat] /\ start \in Nat
      /\ batch \subseteq Envelope
  BY ZenonT(60) DEF LossInv, TypeInv, DeliveryTypeOK, Keeps
<1>2. late' \subseteq OnTheWay'
  BY KeepsAccounted DEF OnTheWay
<1>3. LoopCovered
  BY DEF LossInv
<1>4. ASSUME NEW m \in Mailboxes
      PROVE  Covered(envelopes', published', OnTheWay', m, upTo[m])
  <2>1. Covered(envelopes, published, OnTheWay, m, upTo[m]) /\ upTo[m] \in Nat
    BY <1>1, <1>3 DEF LoopCovered
  <2> QED  BY <1>1, <1>2, <2>1, Carry
<1>5. ASSUME loopPc # "idle"
      PROVE  Covered(envelopes', published', OnTheWay', mb, start)
  <2>1. Covered(envelopes, published, OnTheWay, mb, start)
    BY <1>3, <1>5 DEF LoopCovered
  <2> QED  BY <1>1, <1>2, <2>1, Carry
<1>6. ASSUME loopPc \in {"filter", "count"}, NEW e \in batch
      PROVE  /\ e \in published' /\ e.mb = mb
             /\ Covered(envelopes', published', OnTheWay' \cup batch, mb, e.seq)
  <2>1. /\ e \in published /\ e.mb = mb /\ e.seq \in Nat
        /\ Covered(envelopes, published, OnTheWay \cup batch, mb, e.seq)
    BY <1>1, <1>3, <1>6, Zenon DEF LoopCovered, Envelope
  <2>2. e \in published'
    BY <1>1, <2>1 DEF StoreMoves
  <2>3. OnTheWay \cup batch \subseteq OnTheWay' \cup batch /\ late' \subseteq OnTheWay' \cup batch
    BY <1>2
  <2> QED  BY <1>1, <2>1, <2>2, <2>3, Carry
<1> QED  BY <1>4, <1>5, <1>6

\* What is on the way stays so as long as the frames of the connection do.
LEMMA OnTheWayStays ==
  ASSUME Keeps, UNCHANGED sent
  PROVE  OnTheWay \subseteq OnTheWay'
  BY KeepsAccounted DEF OnTheWay

\* The positions of the delivery loop stay covered while it does not move.
LEMMA LoopStays ==
  ASSUME LossInv, Keeps, UNCHANGED sent,
         UNCHANGED <<upTo, loopPc, mb, start, batch, kept, frame>>
  PROVE  LoopCovered'
<1>1. OnTheWay \subseteq OnTheWay'
  BY OnTheWayStays
<1>2. loopPc' = "count" => Content(frame') = kept'
  BY DEF LossInv, LoopCovered
<1> QED  BY <1>1, <1>2, PositionsStay DEF LoopCovered

\* deliverFromMailbox returns without having sent anything.
LEMMA ReturnCovered ==
  ASSUME LossInv, Keeps, UNCHANGED <<sent, upTo>>, loopPc' = "idle"
  PROVE  LoopCovered'
<1>1. OnTheWay \subseteq OnTheWay'
  BY OnTheWayStays
<1> QED  BY <1>1, PositionsStay DEF LoopCovered

\* A step that leaves the store alone keeps what is known of it.
LEMMA StoreIdle ==
  ASSUME LossInv, UNCHANGED mailboxVars, received \subseteq received',
         skipped \subseteq skipped'
  PROVE  StoreInv' /\ Keeps
  BY StoreStep DEF LossInv, TypeInv, DeliveryTypeOK, Keeps

-----------------------------------------------------------------------------
(* LossInv, step by step *)

\* Publishers, the operator and expiry.
LEMMA LossMailbox ==
  ASSUME LossInv, TypeInv', MailboxStep, UNCHANGED deliveryVars
  PROVE  LossInv'
<1>1. UNCHANGED <<cursor, upTo, sent, got, lingering, received, skipped, acks, ackPc, ack,
                  loopPc, mb, start, batch, kept, frame>>
  BY ZenonT(60), SMTT(60) DEF deliveryVars, loopVars, ackVars, clientVars
<1>2. StoreInv' /\ Keeps
  BY <1>1, StoreStep DEF LossInv, TypeInv, DeliveryTypeOK, Keeps
<1>3. Underway' = Underway
  BY <1>1 DEF Underway
<1> QED
  BY <1>1, <1>2, <1>3, CursorsStay, AcksStay, ReceivedStays, SentStays, LoopStays, Zenon DEF LossInv

\* Nothing is stored at or below 0, where a session begins.
LEMMA NothingAtZero ==
  ASSUME StoreInv, MailboxTypeOK, NEW K, NEW m
  PROVE  Covered(envelopes, published, K, m, 0)
  BY DEF StoreInv, MailboxTypeOK, Envelope, Covered

\* A new stream or a new process: what was on the way is lost, and the loop
\* starts again from the cursors.
LEMMA LossReset ==
  ASSUME LossInv, TypeInv', StoreInv', Keeps, LoopReset, UNCHANGED <<cursor, received>>,
         Underway' \subseteq Underway
  PROVE  LossInv'
<1>1. /\ upTo' = [m \in Mailboxes |-> 0] /\ loopPc' = "idle"
      /\ sent' = <<>> /\ got' = 0
  BY DEF LoopReset
<1>2. LoopCovered'
  <2>1. \A m \in Mailboxes : Covered(envelopes', published', OnTheWay', m, 0)
    <3>1. \A e \in envelopes' : e.seq \in Nat /\ e.seq > 0
      BY DEF StoreInv, TypeInv, DeliveryTypeOK, MailboxTypeOK, Envelope
    <3> QED  BY <3>1 DEF Covered
  <2> QED  BY <1>1, <2>1 DEF LoopCovered
<1>3. SentCovered'
  BY <1>1 DEF SentCovered
<1> QED
  BY <1>2, <1>3, CursorsStay, AcksStay, ReceivedStays DEF LossInv

\* Connections, breaks, crashes and subscriptions.
LEMMA LossSession ==
  ASSUME LossInv, TypeInv', SessionStep
  PROVE  LossInv'
<1>1. ASSUME NEW resumed \in BOOLEAN, Connect(resumed)
      PROVE  LossInv'
  <2>1. StoreInv' /\ Keeps
    BY <1>1, StoreIdle DEF Connect
  <2>2. Underway' \subseteq Underway
    <3>1. acks' = <<>> /\ ackPc' = "recv"
      BY <1>1 DEF Connect, LoopReset
    <3>2. lingering' = IF ackPc = "update" THEN lingering \cup {ack} ELSE lingering
      BY <1>1 DEF Connect
    <3> QED  BY <3>1, <3>2 DEF Underway
  <2> QED  BY <1>1, <2>1, <2>2, LossReset DEF Connect
<1>2. CASE Crash
  <2>1. StoreInv' /\ Keeps
    <3>1. MailboxStep /\ UNCHANGED <<received, skipped>>
      BY <1>2, Zenon DEF Crash, MailboxStep
    <3>2. MailboxTypeOK /\ StoreInv
      BY Zenon DEF LossInv, TypeInv, DeliveryTypeOK
    <3>3. StoreMoves /\ StoreInv'
      BY <3>1, <3>2, StoreStep, Zenon
    <3> QED  BY <3>1, <3>3, Zenon DEF Keeps
  <2>2. Underway' \subseteq Underway
    BY ONLY <1>2 DEF Crash, LoopReset, Underway
  <2> QED  BY <1>2, <2>1, <2>2, LossReset, SMTT(60), ZenonT(60) DEF Crash
<1>3. CASE Break \/ \E S \in SUBSET Mailboxes : Subscribe(S)
  <2>1. UNCHANGED <<mailboxVars, cursor, upTo, sent, got, lingering, received, skipped,
                    ackPc, ack, loopPc, mb, start, batch, kept, frame>>
    BY <1>3, SMTT(60), ZenonT(60) DEF Break, Subscribe, loopVars, ackVars, clientVars
  <2>2. StoreInv' /\ Keeps
    BY <2>1, StoreIdle, Zenon
  <2>3. acks' = acks \/ acks' = <<>>
    BY ONLY <1>3, Zenon DEF Break, Subscribe, ackVars
  <2>4. Underway' \subseteq Underway
    BY ONLY <2>1, <2>3 DEF Underway
  <2> QED
    BY <2>1, <2>2, <2>4, CursorsStay, AcksStay, ReceivedStays, SentStays, LoopStays DEF LossInv
<1> QED  BY <1>1, <1>2, <1>3, Zenon DEF SessionStep

\* FetchEnvelopes returns the lowest positions above start: with what is
\* covered up to start, the batch covers each of its positions.
LEMMA FetchCovered ==
  ASSUME LossInv, Fetch
  PROVE  \A e \in batch' :
           /\ e \in published /\ e.mb = mb
           /\ Covered(envelopes, published, OnTheWay \cup batch', mb, e.seq)
<1>1. /\ batch' \subseteq Fetchable
      /\ \A e \in batch', g \in Fetchable \ batch' : e.seq < g.seq
  BY Zenon DEF Fetch, Fetched
<1>2. /\ envelopes \subseteq published /\ start \in Nat
      /\ \A e \in envelopes : e.seq \in Nat
      /\ Covered(envelopes, published, OnTheWay, mb, start)
  BY DEF LossInv, StoreInv, TypeInv, DeliveryTypeOK, MailboxTypeOK, Envelope, LoopCovered, Fetch
<1>3. ASSUME NEW e \in batch'
      PROVE  /\ e \in published /\ e.mb = mb
             /\ Covered(envelopes, published, OnTheWay \cup batch', mb, e.seq)
  <2>1. e \in envelopes /\ e \in published /\ e.mb = mb /\ e.seq \in Nat
    BY <1>1, <1>2 DEF Fetchable
  <2>2. ASSUME NEW g \in envelopes, g.mb = mb, g.seq <= e.seq
        PROVE  g \in OnTheWay \cup batch'
    <3>1. CASE g.seq <= start
      BY <1>2, <2>2, <3>1 DEF Covered
    <3>2. CASE ~(g.seq <= start)
      <4>1. g \in Fetchable
        BY <1>2, <2>2, <3>2 DEF Fetchable
      <4> QED  BY <1>1, <1>2, <2>1, <2>2, <4>1
    <3> QED  BY <3>1, <3>2
  <2>3. \E f \in published : f.mb = mb /\ e.seq <= f.seq
    BY <2>1
  <2> QED  BY <2>1, <2>2, <2>3 DEF Covered
<1> QED  BY <1>3

\* deliveredUpTo moves past the whole batch: its envelopes are in the frame
\* sent or are noted as passed over.
LEMMA LossSend ==
  ASSUME LossInv, TypeInv', StoreInv', Keeps, Send
  PROVE  SentCovered' /\ LoopCovered'
<1>0. /\ sent \in Seq(Seq(Envelope)) /\ frame \in Seq(Envelope)
      /\ upTo \in [Mailboxes -> Nat] /\ mb \in Mailboxes
      /\ batch \subseteq Envelope /\ kept \subseteq batch /\ got \in 0..Len(sent)
  BY ZenonT(60) DEF LossInv, TypeInv, DeliveryTypeOK, Send
<1>1. /\ loopPc = "count" /\ loopPc' = "idle" /\ sent' = Append(sent, frame)
      /\ skipped' = skipped \cup (batch \ kept) /\ got' = got /\ received' = received
  BY DEF Send, Return, LoopFrame, clientVars
<1>2. Content(frame) = kept
  BY <1>1 DEF LossInv, LoopCovered
<1>3. /\ Len(sent') = Len(sent) + 1 /\ Len(sent) \in Nat /\ sent'[Len(sent) + 1] = frame
      /\ \A k \in 1..Len(sent) : sent'[k] = sent[k]
      /\ \A k \in 0..Len(sent) : Carried(sent', k) = Carried(sent, k)
      /\ Carried(sent', Len(sent) + 1) = Carried(sent, Len(sent)) \cup kept
  <2>1. /\ Len(Append(sent, frame)) = Len(sent) + 1 /\ Len(sent) \in Nat
        /\ Append(sent, frame)[Len(sent) + 1] = frame
        /\ \A k \in 1..Len(sent) : Append(sent, frame)[k] = sent[k]
        /\ \A k \in 0..Len(sent) : Carried(Append(sent, frame), k) = Carried(sent, k)
        /\ Carried(Append(sent, frame), Len(sent) + 1) = Carried(sent, Len(sent)) \cup Content(frame)
    <3> DEFINE T == Seq(Envelope)
    <3>1. sent \in Seq(T) /\ frame \in T
      BY <1>0, Zenon
    <3> HIDE DEF T
    <3> QED  BY ONLY <3>1, CarriedAppend
  <2> QED  BY ONLY <1>1, <1>2, <2>1, Zenon
<1>4. Accounted \subseteq Accounted' /\ late' \subseteq Accounted'
        /\ batch \ kept \subseteq Accounted'
  BY <1>1, KeepsAccounted DEF Accounted
<1>5. /\ OnTheWay' = Accounted' \cup Carried(sent, Len(sent)) \cup kept
      /\ OnTheWay \subseteq OnTheWay' /\ batch \subseteq OnTheWay'
  BY <1>3, <1>4, SMTT(60), ZenonT(60) DEF OnTheWay
<1>6. /\ \A m \in Mailboxes : Covered(envelopes', published', OnTheWay', m, upTo[m])
      /\ \A e \in batch :
           /\ e \in published' /\ e.mb = mb
           /\ Covered(envelopes', published', OnTheWay', mb, e.seq)
  <2>1. OnTheWay' \cup batch = OnTheWay'
    BY <1>5
  <2> QED  BY <1>1, <1>5, <2>1, PositionsStay, ZenonT(60)
<1>7. LoopCovered'
  <2>1. PICK top \in batch : upTo' = [upTo EXCEPT ![mb] = Most(upTo[mb], top.seq)]
    BY ZenonT(60) DEF Send
  <2>2. ASSUME NEW m \in Mailboxes
        PROVE  Covered(envelopes', published', OnTheWay', m, upTo'[m])
    <3>1. upTo'[m] = upTo[m] \/ (m = mb /\ upTo'[m] = top.seq)
      BY <1>0, <2>1 DEF Most
    <3> QED  BY <1>6, <3>1, ZenonT(60), SMTT(60)
  <2> QED  BY <1>1, <2>2 DEF LoopCovered
<1>8. ASSUME NEW k \in DOMAIN sent', NEW e \in Content(sent'[k])
      PROVE  /\ e \in published'
             /\ Covered(envelopes', published', Accounted' \cup Carried(sent', k), e.mb, e.seq)
  <2>0. k \in 1..(Len(sent) + 1)
    BY <1>1, <1>3, <1>0, SMTT(60), ZenonT(60)
  <2>1. CASE k = Len(sent) + 1
    <3>1. e \in batch
      BY <1>0, <1>2, <1>3, <1>8, <2>1
    <3>2. Accounted' \cup Carried(sent', k) = OnTheWay'
      BY <1>3, <2>1 DEF OnTheWay
    <3> QED  BY <1>6, <3>1, <3>2, Zenon
  <2>2. CASE k \in 1..Len(sent)
    <3>1. e \in Content(sent[k]) /\ Carried(sent', k) = Carried(sent, k) /\ k \in DOMAIN sent
      BY <1>0, <1>3, <1>8, <2>2
    <3>2. /\ e \in published
          /\ Covered(envelopes, published, Accounted \cup Carried(sent, k), e.mb, e.seq)
      BY <3>1, ZenonT(60) DEF LossInv, SentCovered
    <3>3. MailboxTypeOK /\ StoreMoves
      BY DEF LossInv, TypeInv, DeliveryTypeOK, Keeps
    <3>4. e \in published' /\ e.seq \in Nat
      BY <3>2, <3>3 DEF StoreMoves, MailboxTypeOK, Envelope
    <3>5. /\ Accounted \cup Carried(sent, k) \subseteq Accounted' \cup Carried(sent', k)
          /\ late' \subseteq Accounted' \cup Carried(sent', k)
      BY <1>4, <3>1
    <3> QED  BY <3>2, <3>3, <3>4, <3>5, Carry
  <2> QED  BY <1>3, <2>0, <2>1, <2>2
<1>9. \A k \in 1..got' : Content(sent'[k]) \subseteq received'
  <2>1. \A k \in 1..got : k \in 1..Len(sent)
    BY <1>0, <1>3
  <2> QED  BY <1>1, <1>3, <2>1 DEF LossInv, SentCovered
<1> QED  BY <1>7, <1>8, <1>9, Zenon DEF SentCovered

\* The delivery loop.
LEMMA LossLoop ==
  ASSUME LossInv, TypeInv', LoopStep
  PROVE  LossInv'
<1>1. LoopFrame /\ skipped \subseteq skipped'
  BY Zenon DEF LoopStep, Wake, ReadCursor, ReadCursorFails, Fetch, FetchNothing,
         Filter, AllFiltered, Group, Count, Send, SendFails
<1>2. UNCHANGED <<mailboxVars, cursor, lingering, acks, ackPc, ack, got, received>>
  BY <1>1 DEF LoopFrame, ackVars, clientVars
<1>3. StoreInv' /\ Keeps /\ Underway' = Underway
  BY <1>1, <1>2, StoreIdle DEF Underway
<1>4. CursorsCovered' /\ AcksCovered' /\ ReceivedCovered'
  BY <1>2, <1>3, CursorsStay, AcksStay, ReceivedStays
<1> SUFFICES SentCovered' /\ LoopCovered'
  BY <1>3, <1>4, ZenonT(60), SMTT(60) DEF LossInv
<1>5. ASSUME UNCHANGED sent
      PROVE  /\ SentCovered' /\ OnTheWay \subseteq OnTheWay'
             /\ \A m \in Mailboxes : Covered(envelopes', published', OnTheWay', m, upTo[m])
  BY <1>2, <1>3, <1>5, SentStays, OnTheWayStays, PositionsStay
<1>6. CASE Wake \/ (\E m \in Mailboxes : ReadCursorFails(m)) \/ Count
  <2>1. UNCHANGED <<sent, upTo, loopPc, mb, start, batch, kept, frame>>
    BY <1>6, Zenon DEF Wake, ReadCursorFails, Count
  <2> QED  BY <1>3, <1>5, <2>1, LoopStays
<1>7. CASE FetchNothing \/ AllFiltered \/ SendFails
  <2>1. UNCHANGED <<sent, upTo>> /\ loopPc' = "idle"
    BY <1>7, ZenonT(60), SMTT(60) DEF FetchNothing, AllFiltered, SendFails, Return
  <2> QED  BY <1>3, <1>5, <2>1, ReturnCovered
<1>8. ASSUME NEW m \in Mailboxes, ReadCursor(m)
      PROVE  SentCovered' /\ LoopCovered'
  <2>1. UNCHANGED <<sent, upTo>> /\ loopPc' = "fetch" /\ mb' = m
    BY <1>8 DEF ReadCursor
  <2>2. PICK seq \in GetAckPositions(m) : start' = Most(seq, upTo[m])
    BY <1>8 DEF ReadCursor
  <2>3. Covered(envelopes', published', OnTheWay', m, seq)
    <3>1. CASE seq = cursor[m]
      <4>1. Covered(envelopes', published', Accounted', m, cursor'[m])
        BY <1>4 DEF CursorsCovered
      <4>2. Accounted' \subseteq OnTheWay'
        BY DEF OnTheWay
      <4> QED  BY <1>2, <3>1, <4>1, <4>2 DEF Covered
    <3>2. CASE seq = 0
      <4>1. \A e \in envelopes' : e.seq \in Nat /\ e.seq > 0
        BY <1>3 DEF StoreInv, TypeInv, DeliveryTypeOK, MailboxTypeOK, Envelope
      <4> QED  BY <3>2, <4>1, SMTT(60), ZenonT(60) DEF Covered
    <3>3. seq = cursor[m] \/ seq = 0
      BY <2>2 DEF GetAckPositions
    <3> QED  BY <3>1, <3>2, <3>3
  <2>4. start' = seq \/ start' = upTo[m]
    BY <2>2 DEF Most
  <2>5. Covered(envelopes', published', OnTheWay', mb', start')
    BY <1>5, <2>1, <2>3, <2>4, SMTT(60), ZenonT(60)
  <2> QED  BY <1>5, <2>1, <2>5 DEF LoopCovered
<1>9. CASE Fetch
  <2>1. UNCHANGED <<sent, upTo, mb, start>> /\ loopPc = "fetch" /\ loopPc' = "filter"
    BY <1>9 DEF Fetch
  <2>2. UNCHANGED <<envelopes, published>>
    BY <1>2, ZenonT(60), SMTT(60) DEF mailboxVars
  <2>3. Covered(envelopes', published', OnTheWay', mb', start')
    BY <1>3, <1>5, <2>1, PositionsStay
  <2>4. ASSUME NEW e \in batch'
        PROVE  /\ e \in published' /\ e.mb = mb'
               /\ Covered(envelopes', published', OnTheWay' \cup batch', mb', e.seq)
    <3>1. /\ e \in published /\ e.mb = mb
          /\ Covered(envelopes, published, OnTheWay \cup batch', mb, e.seq)
      BY <1>9, FetchCovered, SMTT(60), ZenonT(60)
    <3>2. OnTheWay \cup batch' \subseteq OnTheWay' \cup batch'
      BY <1>5, <2>1
    <3> QED  BY <2>1, <2>2, <3>1, <3>2 DEF Covered
  <2> QED  BY <1>5, <2>1, <2>3, <2>4 DEF LoopCovered
<1>10. CASE (\E e \in rest : Filter(e)) \/ Group
  <2>1. UNCHANGED <<sent, upTo, mb, start, batch>> /\ loopPc = "filter"
    BY <1>10 DEF Filter, Group
  <2>2. loopPc' \in {"filter", "count"} /\ (loopPc' = "count" => Content(frame') = kept')
    <3>1. CASE \E e \in rest : Filter(e)
      BY <3>1 DEF Filter
    <3>2. CASE Group
      BY <3>2, FrameContent DEF Group
    <3> QED  BY <1>10, <3>1, <3>2
  <2> QED  BY <1>3, <1>5, <2>1, <2>2, PositionsStay DEF LoopCovered
<1>11. CASE Send
  BY <1>3, <1>11, LossSend
<1> QED
  BY <1>6, <1>7, <1>8, <1>9, <1>10, <1>11, Zenon DEF LoopStep

\* The ACK handler: a cursor moves to the position of an ACK, which is covered.
LEMMA LossAck ==
  ASSUME LossInv, TypeInv', AckStep
  PROVE  LossInv'
<1>1. AckFrame
  BY DEF AckStep, AckRead, AckUpdate, AckUpdateFails, AckDecrement, LingeringAck
<1>2. UNCHANGED <<mailboxVars, upTo, sent, got, received, skipped,
                  loopPc, mb, start, batch, kept, frame>>
  BY <1>1 DEF AckFrame, loopVars, clientVars
<1>3. StoreInv' /\ Keeps
  BY <1>2, StoreIdle
<1>4. ReceivedCovered' /\ SentCovered' /\ LoopCovered'
  BY <1>2, <1>3, ReceivedStays, SentStays, LoopStays
<1>5. ASSUME NEW a \in Underway, Advance(a)
      PROVE  CursorsCovered'
  <2>1. /\ cursor \in [Mailboxes -> Nat] /\ a \in Ack /\ MailboxTypeOK /\ StoreMoves
    BY <1>3, UnderwayType, ZenonT(60) DEF LossInv, TypeInv, DeliveryTypeOK, Keeps
  <2>2. Covered(envelopes, published, Accounted, a.mb, a.seq) /\ a.seq \in Nat
    BY <2>1, UnderwayCovered DEF LossInv, AcksIn, Ack
  <2>3. ASSUME NEW m \in Mailboxes
        PROVE  Covered(envelopes', published', Accounted', m, cursor'[m])
    <3>1. cursor'[m] = cursor[m] \/ (m = a.mb /\ cursor'[m] = a.seq)
      BY <1>5, <2>1 DEF Advance, Most
    <3>2. Covered(envelopes, published, Accounted, m, cursor'[m]) /\ cursor'[m] \in Nat
      BY <2>1, <2>2, <3>1 DEF LossInv, CursorsCovered
    <3> QED  BY <1>3, <2>1, <3>2, KeepsAccounted, Carry
  <2> QED  BY <2>3, SMTT(60), ZenonT(60) DEF CursorsCovered
<1>6. Underway' \subseteq Underway
  <2>1. CASE AckRead
    <3>1. acks \in Seq(Ack) /\ acks # <<>>
      BY <2>1 DEF AckRead, LossInv, TypeInv, DeliveryTypeOK
    <3>2. \A i \in DOMAIN Tail(acks) : i + 1 \in DOMAIN acks /\ Tail(acks)[i] = acks[i + 1]
      BY <3>1
    <3>3. 1 \in DOMAIN acks /\ Head(acks) = acks[1]
      BY <3>1
    <3>4. acks' = Tail(acks) /\ ack' = Head(acks) /\ lingering' = lingering
      BY <2>1, SMTT(60), ZenonT(60) DEF AckRead
    <3> QED  BY ONLY <3>2, <3>3, <3>4 DEF Underway
  <2>2. CASE AckUpdate \/ AckUpdateFails \/ \E q \in QoS : AckDecrement(q)
    <3>1. acks' = acks /\ lingering' = lingering /\ ackPc' # "update"
      BY <2>2, SMTT(60), ZenonT(60) DEF AckUpdate, AckUpdateFails, AckDecrement, AckDone
    <3> QED  BY <3>1, SMTT(60), ZenonT(60) DEF Underway
  <2>3. CASE \E a \in lingering : LingeringAck(a)
    BY <2>3, SMTT(60), ZenonT(60) DEF LingeringAck, ackVars, Underway
  <2> QED  BY <2>1, <2>2, <2>3, SMTT(60), ZenonT(60) DEF AckStep
<1>7. AcksCovered'
  BY <1>3, <1>6, AcksStay
<1>8. CursorsCovered'
  <2>1. UNCHANGED cursor \/ \E a \in Underway : Advance(a)
    BY DEF AckStep, AckRead, AckUpdate, AckUpdateFails, AckDecrement, LingeringAck, Underway
  <2> QED  BY <1>3, <1>5, <2>1, CursorsStay, SMTT(60), ZenonT(60)
<1> QED  BY <1>3, <1>4, <1>7, <1>8 DEF LossInv

\* The client: the frames up to the one it receives are received, so what
\* they cover is accounted for.
LEMMA LossClient ==
  ASSUME LossInv, TypeInv', ClientStep
  PROVE  LossInv'
<1>1. UNCHANGED <<mailboxVars, cursor, upTo, sent, lingering, skipped, ackPc, ack,
                  loopPc, mb, start, batch, kept, frame>>
  BY Zenon DEF ClientStep, ClientReceive, ClientAck, loopVars, ackVars
<1>2. received \subseteq received'
  BY Zenon DEF ClientStep, ClientReceive, ClientAck, clientVars
<1>3. StoreInv' /\ Keeps
  BY <1>1, <1>2, StoreIdle
<1>4. CursorsCovered' /\ LoopCovered'
  BY <1>1, <1>3, CursorsStay, LoopStays
<1>5. CASE ClientReceive
  <2>1. /\ got \in Nat /\ got + 1 \in DOMAIN sent /\ got' = got + 1 /\ acks' = acks
        /\ received' = received \cup Content(sent[got + 1])
    <3>1. got \in 0..Len(sent) /\ sent \in Seq(Seq(Envelope))
      BY Zenon DEF LossInv, TypeInv, DeliveryTypeOK
    <3>2. /\ got < Len(sent) /\ got' = got + 1 /\ acks' = acks
          /\ received' = received \cup Content(sent[got + 1])
      BY <1>5, Zenon DEF ClientReceive, ackVars
    <3> QED  BY ONLY <3>1, <3>2
  <2>2. \A k \in 1..got' : Content(sent[k]) \subseteq received'
    <3>1. \A k \in 1..got' : k \in 1..got \/ k = got + 1
      BY <2>1
    <3> QED  BY <2>1, <3>1 DEF LossInv, SentCovered
  <2>3. ReceivedCovered'
    <3>1. MailboxTypeOK /\ StoreMoves /\ received \subseteq Envelope
      BY <1>3 DEF LossInv, TypeInv, DeliveryTypeOK, Keeps
    <3>2. Carried(sent, got + 1) \subseteq Accounted'
      BY <2>1, <2>2 DEF Carried, Accounted
    <3>3. ASSUME NEW e \in received'
          PROVE  e \in published' /\ Covered(envelopes', published', Accounted', e.mb, e.seq)
      <4>1. PICK K : /\ K \subseteq Accounted' /\ e \in published
                     /\ Covered(envelopes, published, K, e.mb, e.seq)
        <5>1. CASE e \in received
          <6>1. Accounted \subseteq Accounted'
            BY <1>3, KeepsAccounted
          <6> QED  BY <5>1, <6>1 DEF LossInv, ReceivedCovered
        <5>2. CASE e \in Content(sent[got + 1])
          <6>1. Accounted \cup Carried(sent, got + 1) \subseteq Accounted'
            BY <1>3, <3>2, KeepsAccounted
          <6>2. /\ e \in published
                /\ Covered(envelopes, published, Accounted \cup Carried(sent, got + 1), e.mb, e.seq)
            BY <2>1, <5>2 DEF LossInv, SentCovered
          <6> QED  BY <6>1, <6>2
        <5> QED  BY <2>1, <3>3, <5>1, <5>2
      <4>2. e \in published' /\ e.seq \in Nat
        BY <3>1, <4>1 DEF StoreMoves, MailboxTypeOK, Envelope
      <4>3. late' \subseteq Accounted'
        BY DEF Accounted
      <4> QED  BY <3>1, <4>1, <4>2, <4>3, Carry
    <3> QED  BY <3>3, ZenonT(60), SMTT(60) DEF ReceivedCovered
  <2>4. SentCovered'
    <3>1. ASSUME NEW k \in DOMAIN sent', NEW e \in Content(sent'[k])
          PROVE  /\ e \in published'
                 /\ Covered(envelopes', published', Accounted' \cup Carried(sent', k), e.mb, e.seq)
      <4>1. /\ e \in published
            /\ Covered(envelopes, published, Accounted \cup Carried(sent, k), e.mb, e.seq)
        BY <1>1, <3>1, ZenonT(60) DEF LossInv, SentCovered
      <4>2. MailboxTypeOK /\ StoreMoves
        BY <1>3 DEF LossInv, TypeInv, DeliveryTypeOK, Keeps
      <4>3. e \in published' /\ e.seq \in Nat
        BY <4>1, <4>2 DEF StoreMoves, MailboxTypeOK, Envelope
      <4>4. /\ Accounted \cup Carried(sent, k) \subseteq Accounted' \cup Carried(sent', k)
            /\ late' \subseteq Accounted' \cup Carried(sent', k)
        BY <1>1, <1>3, KeepsAccounted
      <4> QED  BY <4>1, <4>2, <4>3, <4>4, Carry
    <3> QED  BY <1>1, <2>2, <3>1, Zenon DEF SentCovered
  <2>5. AcksCovered'
    <3>1. Underway' = Underway
      BY <1>1, <2>1 DEF Underway
    <3> QED  BY <1>3, <3>1, AcksStay, SMTT(60), ZenonT(60)
  <2> QED  BY <1>3, <1>4, <2>3, <2>4, <2>5, SMTT(60), ZenonT(60) DEF LossInv
<1>6. ASSUME NEW e \in received, ClientAck(e)
      PROVE  LossInv'
  <2>1. UNCHANGED <<got, received>>
    BY <1>6, ZenonT(60), SMTT(60) DEF ClientAck, clientVars
  <2>2. \A a \in Underway' \ Underway : a.mb = e.mb /\ a.seq = e.seq
    <3>1. acks \in Seq(Ack) /\ [mb |-> e.mb, seq |-> e.seq] \in Ack
      BY ZenonT(60) DEF LossInv, TypeInv, DeliveryTypeOK, Ack, Envelope
    <3>2. acks' = Append(acks, [mb |-> e.mb, seq |-> e.seq])
      BY <1>6 DEF ClientAck
    <3>3. \A i \in DOMAIN acks' : (i \in DOMAIN acks /\ acks'[i] = acks[i])
                                    \/ acks'[i] = [mb |-> e.mb, seq |-> e.seq]
      <4> DEFINE a == [mb |-> e.mb, seq |-> e.seq]
      <4>1. acks \in Seq(Ack) /\ a \in Ack /\ acks' = Append(acks, a)
        BY <3>1, <3>2
      <4> HIDE DEF a
      <4>2. \A i \in DOMAIN acks' : (i \in DOMAIN acks /\ acks'[i] = acks[i]) \/ acks'[i] = a
        BY ONLY <4>1
      <4> QED  BY <4>2 DEF a
    <3> QED  BY <1>1, <3>3, SMTT(60), ZenonT(60) DEF Underway
  <2>3. AcksCovered'
    BY <1>3, <2>2, AcksStay
  <2>4. ReceivedCovered' /\ SentCovered'
    BY <1>1, <1>3, <2>1, ReceivedStays, SentStays
  <2> QED  BY <1>3, <1>4, <2>3, <2>4 DEF LossInv
<1> QED  BY <1>5, <1>6, Zenon DEF ClientStep

\* Every step keeps LossInv.
LEMMA LossStep ==
  ASSUME LossInv, [Next]_vars
  PROVE  LossInv'
<1>1. TypeInv'
  BY TypeStep DEF LossInv
<1>2. CASE UNCHANGED vars
  <2>1. UNCHANGED <<mailboxVars, cursor, upTo, sent, got, lingering, received, skipped,
                    acks, ackPc, ack, loopPc, mb, start, batch, kept, frame>>
    BY <1>2 DEF vars, deliveryVars, loopVars, ackVars, clientVars
  <2>2. StoreInv' /\ Keeps /\ Underway' = Underway
    BY <2>1, StoreIdle, Zenon DEF Underway
  <2> QED
    BY <1>1, <2>1, <2>2, CursorsStay, AcksStay, ReceivedStays, SentStays, LoopStays, ZenonT(60)
    DEF LossInv
<1> QED
  BY <1>1, <1>2, OtherFrameIdle, LossMailbox, LossSession, LossLoop, LossAck, LossClient
     DEF Next, MailboxStep

\* Nothing is stored, sent or acknowledged when the Spine starts.
LEMMA LossInitially == DeliveryInit => LossInv
<1> SUFFICES ASSUME DeliveryInit PROVE LossInv
  BY ZenonT(60), SMTT(60)
<1>1. /\ envelopes = {} /\ published = {} /\ received = {} /\ sent = <<>> /\ got = 0
      /\ acks = <<>> /\ ackPc = "recv" /\ lingering = {} /\ loopPc = "idle"
      /\ cursor = [m \in Mailboxes |-> 0] /\ upTo = [m \in Mailboxes |-> 0]
      /\ \A p \in Publishers : pub[p].pc = "idle"
  BY DEF DeliveryInit, LoopInit, MailboxInit, IdleJob
<1>2. CursorsCovered /\ AcksCovered
  <2>1. \A m : Covered(envelopes, published, Accounted, m, 0)
    BY <1>1, ZenonT(60) DEF Covered
  <2>2. CursorsCovered
    BY <1>1, <2>1, SMTT(60), ZenonT(60) DEF CursorsCovered
  <2>3. AcksCovered
    BY <1>1, SMTT(60), ZenonT(60) DEF AcksCovered
  <2> QED  BY <2>2, <2>3
<1>4. ReceivedCovered /\ StoreInv
  BY <1>1, SMTT(60), ZenonT(60) DEF ReceivedCovered, StoreInv
<1>3. SentCovered /\ LoopCovered
  <2>1. \A m : Covered(envelopes, published, OnTheWay, m, 0)
    BY <1>1, ZenonT(60) DEF Covered
  <2>2. LoopCovered
    BY <1>1, <2>1, SMTT(60), ZenonT(60) DEF LoopCovered
  <2>3. DOMAIN sent = {} /\ 1..got = {}
    BY <1>1
  <2>4. SentCovered
    BY <2>3, ZenonT(60) DEF SentCovered
  <2> QED  BY <2>2, <2>4
<1> QED  BY <1>2, <1>3, <1>4, DeliveryTypeInit DEF LossInv

\* Whatever is at or below a cursor was received, was passed over by the
\* per-QoS limits in a batch, or was inserted below a position already taken:
\* for any mailboxes, publishers, limits and clears, through lost connections,
\* crashes, failing database calls and stale ACKs (deliverFromMailbox,
\* HandleCumulativeAck, UpdateAckPosition).
THEOREM LossIsExplained == Spec => []LossExplained
<1>1. LossInv => LossExplained
  <2> SUFFICES ASSUME LossInv, NEW e \in envelopes, e.seq <= cursor[e.mb]
               PROVE  e \in received \cup skipped \cup late
    BY SMTT(60), ZenonT(60) DEF LossExplained
  <2>1. e.mb \in Mailboxes
    BY DEF LossInv, TypeInv, DeliveryTypeOK, MailboxTypeOK, Envelope
  <2> QED  BY <2>1 DEF LossInv, CursorsCovered, Covered, Accounted
<1> QED  BY <1>1, LossInitially, LossStep, PTL DEF Spec

-----------------------------------------------------------------------------
(* Delivery implements DurableLog *)

\* No two appends to a mailbox are between their two writes.
AppendsApart ==
  \A p, q \in Publishers :
    pub[p].pc = "insert" /\ pub[q].pc = "insert" /\ pub[p].mb = pub[q].mb => p = q

\* Nothing is inserted late and nothing is passed over.
NothingLost ==
  /\ late = {} /\ skipped = {}
  /\ \A p \in Publishers : pub[p].pc = "insert" =>
       \A e \in published : e.mb = pub[p].mb => e.seq < pub[p].seq
  /\ loopPc = "filter" => batch \subseteq rest \cup kept
  /\ loopPc = "count" => batch \subseteq kept

\* The positions of the mailboxes stay those of one envelope each while they
\* are delivered and acknowledged (AppendEnvelope under deliveryLoop).
THEOREM DeliveredPositionsDistinct == Spec => []PositionsDistinct
<1>1. DeliveryInit => PositionsInv
  BY PositionsInitially DEF DeliveryInit
<1>2. PositionsInv /\ [Next]_vars => PositionsInv'
  BY StoreSteps, PositionsStep
<1>3. PositionsInv => PositionsDistinct
  BY DEF PositionsInv
<1> QED  BY <1>1, <1>2, <1>3, PTL DEF Spec

\* Every envelope has a QoS, and no QoS has a limit below the total.
AmpleLimits ==
  /\ \A i \in Ids : QoSOf[i] \in QoS
  /\ \A q \in QoS : MaxInflight[q] >= MaxInflightTotal

\* LossInv gives Commit its guard, FlowInv the room that keeps the filter from
\* passing anything over, PositionsInv the order of the numbers handed out.
PromiseInv == LossInv /\ FlowInv /\ PositionsInv /\ NothingLost

\* A new number is above all those in the store.
NumbersAbove(P, J) ==
  \A p \in Publishers : J[p].pc = "insert" =>
    \A e \in P : e.mb = J[p].mb => e.seq < J[p].seq

\* In a mailbox that is not cleared, with appends that do not overlap, nothing
\* is inserted late.
LEMMA NothingLate ==
  ASSUME PositionsInv, Clearable = {}, AppendsApart, late = {},
         NumbersAbove(published, pub), [MailboxStep]_mailboxVars
  PROVE  late' = {} /\ NumbersAbove(published', pub')
<1>0. /\ pub \in [Publishers -> Job] /\ nextSeq \in [Mailboxes -> Nat \ {0}]
      /\ \A e \in published : e.seq \in Nat /\ e.mb \in Mailboxes
  BY DEF PositionsInv, MailboxTypeOK, Envelope
<1>1. ASSUME UNCHANGED <<published, late>>,
             \A p \in Publishers : pub'[p] = pub[p] \/ pub'[p].pc # "insert"
      PROVE  late' = {} /\ NumbersAbove(published', pub')
  BY <1>1 DEF NumbersAbove
<1>2. ASSUME NEW p \in Publishers, NEW i \in Ids, NEW T \in TargetSets, Publish(p, i, T)
      PROVE  late' = {} /\ NumbersAbove(published', pub')
  <2>1. \A q \in Publishers : pub'[q] = pub[q] \/ pub'[q].pc # "insert"
    BY <1>0, <1>2 DEF Publish, NewJob
  <2> QED  BY <1>1, <1>2, <2>1 DEF Publish
<1>3. ASSUME NEW p \in Publishers, NEW m \in Mailboxes, AllocSeq(p, m)
      PROVE  late' = {} /\ NumbersAbove(published', pub')
  <2>1. pub[p] \in Job
    BY <1>0
  <2>2. /\ pub'[p].mb = m /\ pub'[p].seq = nextSeq[m]
        /\ \A q \in Publishers \ {p} : pub'[q] = pub[q]
        /\ UNCHANGED <<published, late>>
    BY <1>0, <1>3, <2>1 DEF AllocSeq, Job
  <2>3. \A e \in published : e.mb = m => e.seq < nextSeq[m]
    BY DEF PositionsInv, NumbersBelow
  <2> QED  BY <2>2, <2>3 DEF NumbersAbove
<1>4. ASSUME NEW p \in Publishers, NEW m \in Mailboxes, AllocFails(p, m)
      PROVE  late' = {} /\ NumbersAbove(published', pub')
  <2>1. \A q \in Publishers : pub'[q] = pub[q] \/ pub'[q].pc # "insert"
    BY <1>0, <1>4 DEF AllocFails, Job
  <2> QED  BY <1>1, <1>4, <2>1 DEF AllocFails
<1>5. ASSUME NEW p \in Publishers, InsertOne(p)
      PROVE  late' = {} /\ NumbersAbove(published', pub')
  <2>1. pub[p] \in Job /\ pub[p].pc = "insert"
    BY <1>0, <1>5 DEF InsertOne
  <2>2. PICK e : e = Pending(p)
    OBVIOUS
  <2>3. e.seq = pub[p].seq /\ e.mb = pub[p].mb /\ e.seq \in Nat
    BY <2>1, <2>2 DEF Pending, Job
  <2>4. /\ published' = published \cup {e}
        /\ late' = IF Overtaken(e) THEN late \cup {e} ELSE late
    BY <1>5, <2>2 DEF InsertOne
  <2>5. ~Overtaken(e)
    <3>1. \A f \in published : f.mb = e.mb => f.seq < e.seq /\ f.seq \in Nat
      BY <1>0, <2>1, <2>3, Zenon DEF NumbersAbove
    <3> QED  BY <2>3, <3>1 DEF Overtaken
  <2>6. pub'[p].pc = "append" /\ \A q \in Publishers \ {p} : pub'[q] = pub[q]
    BY <1>0, <1>5, <2>1 DEF InsertOne, Job
  <2>7. \A q \in Publishers \ {p} : pub[q].pc = "insert" => pub[q].mb # e.mb
    BY <2>1, <2>3 DEF AppendsApart
  <2> QED  BY <2>4, <2>5, <2>6, <2>7 DEF NumbersAbove
<1>6. ASSUME NEW p \in Publishers, InsertFails(p) \/ PublishReturns(p) \/ Reply(p)
      PROVE  late' = {} /\ NumbersAbove(published', pub')
  <2>0. pub[p] \in Job
    BY <1>0
  <2>1. pub'[p].pc # "insert" /\ \A q \in Publishers \ {p} : pub'[q] = pub[q]
    <3>1. CASE InsertFails(p)
      BY <1>0, <2>0, <3>1 DEF InsertFails, Job
    <3>2. CASE PublishReturns(p)
      BY <1>0, <2>0, <3>2 DEF PublishReturns, Job
    <3>3. CASE Reply(p)
      BY <1>0, <2>0, <3>3 DEF Reply, IdleJob
    <3> QED  BY <1>6, <3>1, <3>2, <3>3
  <2>2. UNCHANGED <<published, late>>
    BY <1>6 DEF InsertFails, PublishReturns, Reply
  <2> QED  BY <1>1, <2>1, <2>2
<1>7. ASSUME NEW m \in Mailboxes, ClearDelete(m) \/ ClearReset(m) \/ ClearFails(m)
      PROVE  late' = {} /\ NumbersAbove(published', pub')
  BY <1>1, <1>7 DEF ClearDelete, ClearReset, ClearFails
<1>8. ASSUME NEW m \in Mailboxes, NEW X \in SUBSET Expiring, PurgeExpired(m, X)
      PROVE  late' = {} /\ NumbersAbove(published', pub')
  BY <1>1, <1>8 DEF PurgeExpired
<1>9. CASE MailboxCrash
  <2>1. \A q \in Publishers : pub'[q].pc # "insert"
    BY <1>9 DEF MailboxCrash, IdleJob
  <2> QED  BY <1>1, <1>9, <2>1, Zenon DEF MailboxCrash
<1>10. CASE UNCHANGED mailboxVars
  BY <1>1, <1>10 DEF mailboxVars
<1> QED
  BY <1>2, <1>3, <1>4, <1>5, <1>6, <1>7, <1>8, <1>9, <1>10
     DEF MailboxStep, MailboxNext, PublisherStep

\* What is fetched has room under the total, so under ample limits the filter
\* keeps all of it (DeliverToSession).
LEMMA NothingFiltered ==
  ASSUME FlowInv, AmpleLimits, NEW e \in rest, loopPc = "filter"
  PROVE  WithinLimit(e)
<1>1. /\ inflight \in [QoS -> Nat] /\ e \in batch /\ IsFiniteSet(batch) /\ e.id \in Ids
      /\ Total + Cardinality(batch) <= MaxInflightTotal
  BY DEF FlowInv, RoomForBatch, TypeInv, DeliveryTypeOK, Envelope
<1>2. Cardinality(batch) \in Nat /\ Cardinality(batch) # 0
  BY <1>1, FS_CardinalityType, FS_EmptySet
<1>3. MaxInflightTotal \in Nat /\ MaxInflight \in [QoS -> Nat]
  BY DeliveryAssumption
<1>4. \A q \in QoS : inflight[q] \in Nat /\ inflight[q] <= Total /\ Total \in Nat
  BY <1>1 DEF Total, QoS
<1>5. ASSUME NEW q \in QoS
      PROVE  inflight[q] < MaxInflight[q]
  <2>1. MaxInflight[q] \in Nat /\ MaxInflight[q] >= MaxInflightTotal
    BY <1>3 DEF AmpleLimits
  <2>2. inflight[q] \in Nat /\ inflight[q] <= Total /\ Total \in Nat
    BY <1>4
  <2> QED  BY ONLY <1>1, <1>2, <1>3, <2>1, <2>2
<1> QED  BY <1>1, <1>5, Zenon DEF WithinLimit, AmpleLimits

\* The loop passes nothing over.
LEMMA NothingSkipped ==
  ASSUME PromiseInv, TypeInv', AmpleLimits, [Next]_vars
  PROVE  /\ skipped' = {}
         /\ loopPc' = "filter" => batch' \subseteq rest' \cup kept'
         /\ loopPc' = "count" => batch' \subseteq kept'
<1>0. skipped = {}
  BY DEF PromiseInv, NothingLost
<1>1. ASSUME UNCHANGED <<skipped, loopPc, batch, rest, kept>>
      PROVE  /\ skipped' = {}
             /\ loopPc' = "filter" => batch' \subseteq rest' \cup kept'
             /\ loopPc' = "count" => batch' \subseteq kept'
  BY <1>1 DEF PromiseInv, NothingLost
<1>2. ASSUME UNCHANGED skipped, loopPc' \in {"idle", "fetch"}
      PROVE  /\ skipped' = {}
             /\ loopPc' = "filter" => batch' \subseteq rest' \cup kept'
             /\ loopPc' = "count" => batch' \subseteq kept'
  BY <1>0, <1>2
<1>3. CASE MailboxNext /\ UNCHANGED deliveryVars
  BY <1>1, <1>3, SMTT(60), ZenonT(60) DEF deliveryVars, loopVars
<1>4. CASE SessionStep
  BY <1>1, <1>2, <1>4, Zenon
  DEF SessionStep, Connect, Break, Crash, Subscribe, LoopReset, loopVars
<1>5. CASE LoopStep
  <2>1. CASE Wake \/ (\E m \in Mailboxes : ReadCursorFails(m)) \/ Count
    BY <1>1, <2>1 DEF Wake, ReadCursorFails, Count
  <2>2. CASE FetchNothing \/ AllFiltered \/ SendFails \/ \E m \in Mailboxes : ReadCursor(m)
    BY <1>2, <2>2 DEF FetchNothing, AllFiltered, SendFails, Return, ReadCursor
  <2>3. CASE Fetch
    BY <1>0, <2>3 DEF Fetch
  <2>4. ASSUME NEW e \in rest, Filter(e)
        PROVE  /\ skipped' = {}
               /\ loopPc' = "filter" => batch' \subseteq rest' \cup kept'
               /\ loopPc' = "count" => batch' \subseteq kept'
    <3>1. WithinLimit(e)
      BY <2>4, NothingFiltered DEF Filter, PromiseInv
    <3>2. /\ loopPc = "filter" /\ UNCHANGED <<skipped, loopPc, batch>>
          /\ rest' = rest \ {e} /\ kept' = kept \cup {e}
      BY <2>4, <3>1 DEF Filter
    <3> QED  BY <3>2 DEF PromiseInv, NothingLost
  <2>5. CASE Group
    BY <2>5 DEF Group, PromiseInv, NothingLost
  <2>6. CASE Send
    BY <2>6 DEF Send, Return, PromiseInv, NothingLost
  <2> QED  BY <1>5, <2>1, <2>2, <2>3, <2>4, <2>5, <2>6 DEF LoopStep
<1>6. CASE AckStep
  <2>1. AckFrame
    BY <1>6 DEF AckStep, AckRead, AckUpdate, AckUpdateFails, AckDecrement, LingeringAck
  <2> QED  BY <1>1, <2>1 DEF AckFrame, loopVars
<1>7. CASE ClientStep
  BY <1>1, <1>7, ZenonT(60) DEF ClientStep, ClientReceive, ClientAck, loopVars
<1>8. CASE UNCHANGED vars
  BY <1>1, <1>8 DEF vars, deliveryVars, loopVars
<1> QED
  BY <1>3, <1>4, <1>5, <1>6, <1>7, <1>8, OtherFrameIdle DEF Next

\* Every step keeps PromiseInv.
LEMMA PromiseStep ==
  ASSUME PromiseInv, Clearable = {}, AmpleLimits, AppendsApart, [Next]_vars
  PROVE  PromiseInv'
<1>1. LossInv' /\ FlowInv' /\ PositionsInv'
  BY LossStep, FlowStep, StoreSteps, PositionsStep DEF PromiseInv
<1>2. late' = {} /\ NumbersAbove(published', pub')
  BY StoreSteps, NothingLate DEF PromiseInv, NothingLost, NumbersAbove
<1>3. /\ skipped' = {}
      /\ loopPc' = "filter" => batch' \subseteq rest' \cup kept'
      /\ loopPc' = "count" => batch' \subseteq kept'
  BY <1>1, NothingSkipped DEF FlowInv
<1>4. NothingLost'
  BY <1>2, <1>3 DEF NothingLost, NumbersAbove
<1> QED  BY <1>1, <1>4 DEF PromiseInv

\* Nothing is late or passed over when the Spine starts.
LEMMA PromiseInitially == DeliveryInit => PromiseInv
<1> SUFFICES ASSUME DeliveryInit PROVE PromiseInv
  OBVIOUS
<1>1. /\ late = {} /\ skipped = {} /\ loopPc = "idle"
      /\ \A p \in Publishers : pub[p].pc = "idle"
  BY DEF DeliveryInit, LoopInit, MailboxInit, IdleJob
<1>2. LossInv /\ FlowInv /\ PositionsInv
  BY LossInitially, FlowInitially, PositionsInitially DEF DeliveryInit
<1> QED  BY <1>1, <1>2 DEF PromiseInv, NothingLost

\* Each step of Delivery is a step of DurableLog or leaves its variables alone.
LEMMA PromiseMap ==
  ASSUME PromiseInv, PromiseInv', [Next]_vars
  PROVE  [Promise!LogNext]_(Promise!logVars)
<1> USE DEF Promise!logVars
<1>0. /\ pub \in [Publishers -> Job] /\ cursor \in [Mailboxes -> Nat]
      /\ Underway \subseteq Ack
  BY UnderwayType, Zenon DEF PromiseInv, LossInv, TypeInv, DeliveryTypeOK, MailboxTypeOK
<1>1. ASSUME UNCHANGED <<envelopes, published, received, cursor>>
      PROVE  [Promise!LogNext]_(Promise!logVars)
  BY <1>1
<1>2. ASSUME envelopes' \subseteq envelopes, UNCHANGED <<published, received, cursor>>
      PROVE  Promise!LogNext
  BY <1>2 DEF Promise!LogNext, Promise!Remove
<1>3. ASSUME NEW p \in Publishers, InsertOne(p), UNCHANGED <<received, cursor>>
      PROVE  Promise!LogNext
  <2>1. pub[p] \in Job /\ pub[p].pc = "insert" /\ pub[p].id \in Ids /\ pub[p].mb \in Mailboxes
    BY <1>0, <1>3 DEF InsertOne, PromiseInv, PositionsInv, MailboxTypeOK
  <2>2. PICK e : e = Pending(p)
    OBVIOUS
  <2>3. e \in Envelope /\ e.mb = pub[p].mb /\ e.seq = pub[p].seq
    <3>1. pub[p].seq \in Nat
      BY <2>1, ZenonT(60), SMTT(60) DEF Job
    <3> QED  BY <2>1, <2>2, <3>1, Zenon DEF Pending, Envelope
  <2>4. \A f \in published : f.mb = e.mb => f.seq < e.seq
    BY <2>1, <2>3 DEF PromiseInv, NothingLost
  <2>5. envelopes' = envelopes \cup {e} /\ published' = published \cup {e}
    BY <1>3, <2>2 DEF InsertOne
  <2>6. Promise!AppendEntry(e)
    BY <1>3, <2>3, <2>4, <2>5, ZenonT(60), SMTT(60) DEF Promise!AppendEntry
  <2> QED  BY <2>5, <2>6 DEF Promise!LogNext
<1>4. ASSUME NEW a \in Underway, Advance(a), UNCHANGED <<envelopes, published, received>>
      PROVE  [Promise!LogNext]_(Promise!logVars)
  <2>1. a.mb \in Mailboxes /\ a.seq \in Nat
    BY <1>0 DEF Ack
  <2>2. cursor' = [cursor EXCEPT ![a.mb] = Most(cursor[a.mb], a.seq)]
    BY <1>4 DEF Advance
  <2>3. CASE a.seq <= cursor[a.mb]
    <3>1. Most(cursor[a.mb], a.seq) = cursor[a.mb]
      BY <1>0, <2>1, <2>3 DEF Most
    <3>2. cursor' = cursor
      BY <1>0, <2>1, <2>2, <3>1
    <3> QED  BY <1>1, <1>4, <3>2
  <2>4. CASE ~(a.seq <= cursor[a.mb])
    <3>1. cursor'[a.mb] = a.seq /\ cursor'[a.mb] > cursor[a.mb]
      BY <1>0, <2>1, <2>2, <2>4 DEF Most
    <3>2. cursor' = [cursor EXCEPT ![a.mb] = cursor'[a.mb]]
      BY <1>0, <2>1, <2>2, <3>1, ZenonT(60)
    <3>3. \A e \in envelopes' : e.mb = a.mb /\ e.seq <= cursor'[a.mb] => e \in received'
      <4>1. Covered(envelopes', published', Accounted', a.mb, cursor'[a.mb])
        BY <2>1 DEF PromiseInv, LossInv, CursorsCovered
      <4>2. Accounted' = received'
        BY ZenonT(60), SMTT(60) DEF Accounted, PromiseInv, NothingLost
      <4> QED  BY <4>1, <4>2 DEF Covered
    <3>4. Promise!Commit(a.mb)
      BY <1>4, <3>1, <3>2, <3>3 DEF Promise!Commit
    <3> QED  BY <2>1, <3>4 DEF Promise!LogNext
  <2> QED  BY <2>3, <2>4
<1>5. CASE MailboxNext /\ UNCHANGED deliveryVars
  <2>0. UNCHANGED <<received, cursor>>
    BY <1>5 DEF deliveryVars, clientVars
  <2>1. CASE \E p \in Publishers, i \in Ids, T \in TargetSets : Publish(p, i, T)
    BY <1>1, <2>0, <2>1 DEF Publish
  <2>2. ASSUME NEW p \in Publishers, PublisherStep(p)
        PROVE  [Promise!LogNext]_(Promise!logVars)
    <3>1. CASE InsertOne(p)
      BY <1>3, <2>0, <3>1
    <3>2. CASE ~InsertOne(p)
      BY <1>1, <2>0, <2>2, <3>2, ZenonT(60)
         DEF PublisherStep, AllocSeq, AllocFails, InsertFails, PublishReturns, Reply
    <3> QED  BY <3>1, <3>2
  <2>3. CASE \E m \in Mailboxes : ClearDelete(m) \/ ClearReset(m) \/ ClearFails(m)
    BY <1>2, <2>0, <2>3 DEF ClearDelete, ClearReset, ClearFails
  <2>4. CASE \E m \in Mailboxes, X \in SUBSET Expiring : PurgeExpired(m, X)
    BY <1>2, <2>0, <2>4, ZenonT(60), SMTT(60) DEF PurgeExpired
  <2> QED  BY <1>5, <2>1, <2>2, <2>3, <2>4 DEF MailboxNext
<1>6. CASE SessionStep
  BY <1>1, <1>6
  DEF SessionStep, Connect, Break, Crash, Subscribe, MailboxCrash, mailboxVars, clientVars
<1>7. CASE LoopStep
  <2>1. LoopFrame
    BY <1>7, ZenonT(60) DEF LoopStep, Wake, ReadCursor, ReadCursorFails, Fetch, FetchNothing,
                Filter, AllFiltered, Group, Count, Send, SendFails
  <2> QED  BY <1>1, <2>1 DEF LoopFrame, mailboxVars, clientVars
<1>8. CASE AckStep
  <2>1. AckFrame
    BY <1>8 DEF AckStep, AckRead, AckUpdate, AckUpdateFails, AckDecrement, LingeringAck
  <2>2. UNCHANGED <<envelopes, published, received>>
    BY <2>1 DEF AckFrame, mailboxVars, clientVars
  <2>3. UNCHANGED cursor \/ \E a \in Underway : Advance(a)
    BY <1>8 DEF AckStep, AckRead, AckUpdate, AckUpdateFails, AckDecrement, LingeringAck, Underway
  <2> QED  BY <1>1, <1>4, <2>2, <2>3
<1>9. CASE ClientStep
  <2>1. UNCHANGED <<envelopes, published, cursor>>
    BY <1>9, ZenonT(60) DEF ClientStep, ClientReceive, ClientAck, mailboxVars
  <2>2. CASE ClientReceive
    <3>1. received \subseteq received'
      BY <2>2 DEF ClientReceive
    <3>2. received' \subseteq published'
      BY DEF PromiseInv, LossInv, ReceivedCovered
    <3>3. Promise!See
      BY <2>1, <3>1, <3>2 DEF Promise!See
    <3> QED  BY <3>3 DEF Promise!LogNext
  <2>3. CASE \E e \in received : ClientAck(e)
    BY <1>1, <2>1, <2>3 DEF ClientAck, clientVars
  <2> QED  BY <1>9, <2>2, <2>3, SMTT(60), ZenonT(60) DEF ClientStep
<1>10. CASE UNCHANGED vars
  BY <1>1, <1>10 DEF vars, mailboxVars, deliveryVars, clientVars
<1> QED
  BY <1>5, <1>6, <1>7, <1>8, <1>9, <1>10, OtherFrameIdle DEF Next

\* Where no mailbox is cleared, no QoS has a limit below the total and the
\* appends to a mailbox do not overlap, delivery implements DurableLog for any
\* mailboxes, publishers and bounds: a cursor never passes an envelope the
\* client has not received, through lost connections, crashes, failing database
\* calls and stale ACKs (deliverFromMailbox, HandleCumulativeAck).
THEOREM PromiseIsKept ==
  ASSUME Clearable = {}, AmpleLimits
  PROVE  Spec /\ []AppendsApart => KeepsPromise
<1>1. DeliveryInit => Promise!LogInit
  BY DEF DeliveryInit, MailboxInit, Promise!LogInit
<1>2. PromiseInv /\ AppendsApart /\ [Next]_vars => PromiseInv'
  BY PromiseStep
<1>3. PromiseInv /\ PromiseInv' /\ [Next]_vars => [Promise!LogNext]_(Promise!logVars)
  BY PromiseMap
<1> QED
  BY <1>1, <1>2, <1>3, PromiseInitially, PTL DEF Spec, KeepsPromise, Promise!LogSpec

\* With a single Publish call at a time appends never overlap, and the hypothesis
\* on them is met.  The server runs Publish calls concurrently and the shipped
\* limits are not ample (config.yaml.example, max_inflight_command is below
\* max_inflight_total): this says which settings the promise needs, not that
\* deployments have them.
THEOREM OnePublisherKeepsPromise ==
  ASSUME Clearable = {}, AmpleLimits, \A p, q \in Publishers : p = q
  PROVE  Spec => KeepsPromise
<1>1. AppendsApart
  BY DEF AppendsApart
<1>2. Spec => []AppendsApart
  BY <1>1, PTL
<1> QED  BY <1>2, PromiseIsKept, PTL

\* Under the same conditions everything at or below a cursor was received: a
\* cumulative ACK never covers an envelope the client has not seen.
THEOREM AckedWasReceived ==
  ASSUME Clearable = {}, AmpleLimits
  PROVE  Spec /\ []AppendsApart => []AtLeastOnce
<1>1. PromiseInv => AtLeastOnce
  <2> SUFFICES ASSUME PromiseInv, NEW e \in envelopes, e.seq <= cursor[e.mb]
               PROVE  e \in received
    BY ZenonT(60), SMTT(60) DEF AtLeastOnce
  <2>1. e.mb \in Mailboxes
    BY DEF PromiseInv, LossInv, TypeInv, DeliveryTypeOK, MailboxTypeOK, Envelope
  <2> QED
    BY <2>1 DEF PromiseInv, LossInv, NothingLost, CursorsCovered, Covered, Accounted
<1>2. PromiseInv /\ AppendsApart /\ [Next]_vars => PromiseInv'
  BY PromiseStep
<1> QED  BY <1>1, <1>2, PromiseInitially, PTL DEF Spec
=============================================================================
