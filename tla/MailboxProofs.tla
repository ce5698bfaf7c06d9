---------------------------- MODULE MailboxProofs ----------------------------
(* Invariance proofs for module Mailbox: types, positions, and what a      *)
(* successful Publish is worth.                                            *)
EXTENDS Mailbox, FiniteSetTheorems, TLAPS

MailboxStep == MailboxNext \/ MailboxCrash

\* The same for targets that resolve to any mailboxes.
OpenStep ==
  \/ \E p \in Publishers, i \in Ids, T \in SUBSET Mailboxes : Publish(p, i, T)
  \/ \E p \in Publishers : PublisherStep(p)
  \/ \E m \in Mailboxes : ClearDelete(m) \/ ClearReset(m) \/ ClearFails(m)
  \/ \E m \in Mailboxes, X \in SUBSET Expiring : PurgeExpired(m, X)
  \/ MailboxCrash

\* TargetSets are sets of mailboxes.
LEMMA StepIsOpen == [MailboxStep]_mailboxVars => [OpenStep]_mailboxVars
  BY MailboxAssumption DEF MailboxStep, MailboxNext, OpenStep, MailboxAssumption

\* The idle job is a job.
LEMMA IdleJobType == IdleJob \in Job
  BY DEF IdleJob, Job, PubState

\* Replacing the job of one call by a job that satisfies the type invariant.
LEMMA JobUpdate ==
  ASSUME MailboxTypeOK, NEW p \in Publishers, NEW j \in Job,
         j.pc # "idle" => j.id \in Ids,
         j.pc = "insert" => j.mb \in Mailboxes,
         pub' = [pub EXCEPT ![p] = j]
  PROVE  /\ pub' \in [Publishers -> Job]
         /\ \A q \in Publishers :
              /\ pub'[q].pc # "idle" => pub'[q].id \in Ids
              /\ pub'[q].pc = "insert" => pub'[q].mb \in Mailboxes
  BY DEF MailboxTypeOK

\* Every step of a Publish call (Publish, AppendEnvelope) keeps the types.
LEMMA PublisherType ==
  ASSUME MailboxTypeOK, NEW p \in Publishers,
         \/ \E i \in Ids, T \in SUBSET Mailboxes : Publish(p, i, T)
         \/ PublisherStep(p)
  PROVE  MailboxTypeOK'
<1> USE MailboxAssumption
<1>0. pub[p] \in Job
  BY DEF MailboxTypeOK
<1>1. ASSUME NEW i \in Ids, NEW T \in SUBSET Mailboxes, Publish(p, i, T)
      PROVE  MailboxTypeOK'
  <2>1. NewJob(i, T) \in Job /\ NewJob(i, T).pc = "append" /\ NewJob(i, T).id \in Ids
    BY DEF NewJob, Job, PubState
  <2> QED
    BY <1>1, <2>1, JobUpdate DEF Publish, MailboxTypeOK
<1>2. ASSUME NEW m \in Mailboxes, AllocSeq(p, m)
      PROVE  MailboxTypeOK'
  <2> DEFINE j == [pub[p] EXCEPT !.pc = "insert", !.mb = m, !.seq = nextSeq[m],
                                 !.todo = pub[p].todo \ {m}]
  <2>1. nextSeq[m] \in Nat /\ pub[p].id \in Ids
    BY <1>2 DEF AllocSeq, MailboxTypeOK
  <2>2. j \in Job /\ j.id \in Ids /\ j.mb \in Mailboxes
    BY <1>0, <2>1, Zenon DEF Job, PubState
  <2>3. pub' = [pub EXCEPT ![p] = j]
    BY <1>2 DEF AllocSeq
  <2> HIDE DEF j
  <2> QED
    BY <1>2, <2>2, <2>3, JobUpdate DEF AllocSeq, MailboxTypeOK
<1>3. ASSUME NEW m \in Mailboxes, AllocFails(p, m)
      PROVE  MailboxTypeOK'
  BY <1>3 DEF AllocFails, Job, PubState, MailboxTypeOK
<1>4. CASE InsertOne(p)
  <2> DEFINE j == [pub[p] EXCEPT !.pc = "append", !.mb = None, !.seq = 0,
                                 !.stored = pub[p].stored \cup {pub[p].mb}]
  <2>1. pub[p].id \in Ids /\ pub[p].mb \in Mailboxes
    BY <1>4 DEF InsertOne, MailboxTypeOK
  <2>2. Pending(p) \in Envelope
    BY <1>0, <2>1 DEF Pending, Envelope, Job
  <2>3. IsFiniteSet(envelopes')
    BY <1>4, FS_AddElement DEF InsertOne, MailboxTypeOK
  <2>4. j \in Job /\ j.pc = "append" /\ j.id \in Ids
    BY <1>0, <2>1, ZenonT(60) DEF Job, PubState
  <2>5. pub' = [pub EXCEPT ![p] = j]
    BY <1>4 DEF InsertOne
  <2> HIDE DEF j
  <2> QED
    BY <1>4, <2>2, <2>3, <2>4, <2>5, JobUpdate DEF InsertOne, MailboxTypeOK
<1>5. CASE InsertFails(p)
  <2> DEFINE j == [pub[p] EXCEPT !.pc = "append", !.mb = None, !.seq = 0]
  <2>1. pub[p].id \in Ids
    BY <1>5 DEF InsertFails, MailboxTypeOK
  <2>2. j \in Job /\ j.pc = "append" /\ j.id \in Ids
    BY <1>0, <2>1 DEF Job, PubState
  <2>3. pub' = [pub EXCEPT ![p] = j]
    BY <1>5 DEF InsertFails
  <2> HIDE DEF j
  <2> QED
    BY <1>5, <2>2, <2>3, JobUpdate DEF InsertFails, MailboxTypeOK
<1>6. CASE PublishReturns(p)
  BY <1>6 DEF PublishReturns, Job, PubState, MailboxTypeOK
<1>7. CASE Reply(p)
  BY <1>7, IdleJobType DEF Reply, IdleJob, MailboxTypeOK
<1> QED
  BY <1>1, <1>2, <1>3, <1>4, <1>5, <1>6, <1>7 DEF PublisherStep

\* The operator's commands and a crash keep the types.
LEMMA OperatorType ==
  ASSUME MailboxTypeOK,
         \/ \E m \in Mailboxes : ClearDelete(m) \/ ClearReset(m) \/ ClearFails(m)
         \/ \E m \in Mailboxes, X \in SUBSET Expiring : PurgeExpired(m, X)
         \/ MailboxCrash
  PROVE  MailboxTypeOK'
<1> USE MailboxAssumption DEF MailboxTypeOK
<1>1. ASSUME NEW m \in Mailboxes, ClearDelete(m)
      PROVE  MailboxTypeOK'
  <2>1. IsFiniteSet(envelopes')
    BY <1>1, FS_Subset DEF ClearDelete
  <2> QED  BY <1>1, <2>1 DEF ClearDelete
<1>2. ASSUME NEW m \in Mailboxes, ClearReset(m) \/ ClearFails(m)
      PROVE  MailboxTypeOK'
  BY <1>2 DEF ClearReset, ClearFails
<1>3. ASSUME NEW m \in Mailboxes, NEW X \in SUBSET Expiring, PurgeExpired(m, X)
      PROVE  MailboxTypeOK'
  <2>1. IsFiniteSet(envelopes')
    BY <1>3, FS_Subset DEF PurgeExpired
  <2> QED  BY <1>3, <2>1 DEF PurgeExpired
<1>4. CASE MailboxCrash
  BY <1>4, IdleJobType DEF MailboxCrash, IdleJob
<1> QED
  BY <1>1, <1>2, <1>3, <1>4

\* The types of the mailbox store are kept by every step.
LEMMA MailboxTypeOpen ==
  ASSUME MailboxTypeOK, [OpenStep]_mailboxVars
  PROVE  MailboxTypeOK'
<1>1. CASE OpenStep
  BY <1>1, PublisherType, OperatorType DEF OpenStep
<1>2. CASE UNCHANGED mailboxVars
  BY <1>2 DEF mailboxVars, MailboxTypeOK
<1> QED
  BY <1>1, <1>2

\* Every step of the store preserves its types.
LEMMA MailboxTypeStep ==
  ASSUME MailboxTypeOK, [MailboxStep]_mailboxVars
  PROVE  MailboxTypeOK'
  BY MailboxTypeOpen, StepIsOpen

\* A new store is well formed.
LEMMA MailboxTypeInit == MailboxInit => MailboxTypeOK
<1> SUFFICES ASSUME MailboxInit PROVE MailboxTypeOK
  OBVIOUS
<1>1. IsFiniteSet(envelopes)
  BY FS_EmptySet DEF MailboxInit
<1> QED
  BY <1>1, IdleJobType DEF MailboxInit, MailboxTypeOK, IdleJob

\* The store and the Publish calls are well formed in every reachable state,
\* for any number of mailboxes, publishers and envelopes.
THEOREM MailboxTypeCorrect == MailboxSpec => []MailboxTypeOK
  BY MailboxTypeInit, MailboxTypeStep, PTL DEF MailboxSpec, MailboxStep
-----------------------------------------------------------------------------
(* Positions.  PositionsDistinct is not inductive by itself: a new number     *)
(* could be one that was handed out before.  In a mailbox that is never       *)
(* cleared every number handed out stays below next_seq.                      *)

Inserting(p, m) == pub[p].pc = "insert" /\ pub[p].mb = m

NumbersBelow ==
  /\ clearing \subseteq Clearable
  /\ \A m \in Mailboxes \ Clearable :
       /\ \A e \in published : e.mb = m => e.seq < nextSeq[m]
       /\ \A p \in Publishers : Inserting(p, m) => pub[p].seq < nextSeq[m]

PositionsInv == MailboxTypeOK /\ NumbersBelow /\ PositionsDistinct

\* A step that takes no number and inserts nothing keeps the positions, since
\* it can only end appends that were under way.
LEMMA PositionsQuiet ==
  ASSUME PositionsInv, UNCHANGED published,
         clearing' \subseteq Clearable,
         \A m \in Mailboxes \ Clearable : nextSeq'[m] = nextSeq[m],
         \A p \in Publishers : pub'[p] = pub[p] \/ pub'[p].pc # "insert"
  PROVE  NumbersBelow' /\ PositionsDistinct'
  BY DEF PositionsInv, NumbersBelow, PositionsDistinct, Inserting

\* Taking a number ($inc): it is above all that were handed out before.
LEMMA PositionsAlloc ==
  ASSUME PositionsInv, NEW p \in Publishers, NEW m \in Mailboxes, AllocSeq(p, m)
  PROVE  NumbersBelow' /\ PositionsDistinct'
<1>1. /\ pub'[p].mb = m /\ pub'[p].seq = nextSeq[m]
      /\ \A q \in Publishers \ {p} : pub'[q] = pub[q]
      /\ UNCHANGED <<published, clearing>>
  <2>1. pub \in [Publishers -> Job] /\ pub[p] \in Job
    BY DEF PositionsInv, MailboxTypeOK
  <2> QED  BY <2>1 DEF AllocSeq, PositionsInv, Job, PubState
<1>2. /\ nextSeq'[m] = nextSeq[m] + 1
      /\ \A n \in Mailboxes \ {m} : nextSeq'[n] = nextSeq[n]
  BY DEF AllocSeq, PositionsInv, MailboxTypeOK
<1>3. /\ \A n \in Mailboxes : nextSeq[n] \in Nat
      /\ \A e \in published : e.seq \in Nat /\ e.mb \in Mailboxes
      /\ \A q \in Publishers : pub[q].seq \in Nat
  BY DEF PositionsInv, MailboxTypeOK, Job, Envelope
<1>4. NumbersBelow'
  BY <1>1, <1>2, <1>3 DEF PositionsInv, NumbersBelow, Inserting
<1>5. PositionsDistinct'
  BY <1>1, <1>2, <1>3 DEF PositionsInv, NumbersBelow, PositionsDistinct, Inserting
<1> QED  BY <1>4, <1>5

\* Inserting under a number: nobody else was given it.
LEMMA PositionsInsert ==
  ASSUME PositionsInv, NEW p \in Publishers, InsertOne(p)
  PROVE  NumbersBelow' /\ PositionsDistinct'
<1>1. /\ pub'[p].pc = "append"
      /\ \A q \in Publishers \ {p} : pub'[q] = pub[q]
      /\ UNCHANGED <<nextSeq, clearing>>
  <2>1. pub \in [Publishers -> Job] /\ pub[p] \in Job
    BY DEF PositionsInv, MailboxTypeOK
  <2> QED  BY <2>1 DEF InsertOne, Job, PubState
<1>2. PICK e : /\ e = Pending(p) /\ e.mb = pub[p].mb /\ e.seq = pub[p].seq
               /\ published' = published \cup {e}
  BY DEF InsertOne, Pending
<1>3. pub[p].pc = "insert"
  BY DEF InsertOne
<1>4. NumbersBelow'
  BY <1>1, <1>2, <1>3 DEF PositionsInv, NumbersBelow, Inserting
<1>5. PositionsDistinct'
  BY <1>1, <1>2, <1>3 DEF PositionsInv, PositionsDistinct
<1> QED  BY <1>4, <1>5

\* Every step keeps PositionsInv.
LEMMA PositionsOpen ==
  ASSUME PositionsInv, [OpenStep]_mailboxVars
  PROVE  PositionsInv'
<1> USE MailboxAssumption
<1>0. MailboxTypeOK /\ MailboxTypeOK' /\ clearing \subseteq Clearable
  BY MailboxTypeOpen DEF PositionsInv, NumbersBelow
<1> SUFFICES NumbersBelow' /\ PositionsDistinct'
  BY <1>0 DEF PositionsInv
<1>1. ASSUME NEW p \in Publishers, NEW i \in Ids,
             NEW T \in SUBSET Mailboxes, Publish(p, i, T)
      PROVE  NumbersBelow' /\ PositionsDistinct'
  <2>1. \A q \in Publishers : pub'[q] = pub[q] \/ pub'[q].pc # "insert"
    BY <1>0, <1>1 DEF Publish, MailboxTypeOK, NewJob
  <2> QED  BY <1>0, <1>1, <2>1, PositionsQuiet DEF Publish
<1>2. ASSUME NEW p \in Publishers, NEW m \in Mailboxes, AllocFails(p, m)
      PROVE  NumbersBelow' /\ PositionsDistinct'
  <2>1. \A q \in Publishers : pub'[q] = pub[q] \/ pub'[q].pc # "insert"
    BY <1>0, <1>2 DEF AllocFails, MailboxTypeOK, Job
  <2> QED  BY <1>0, <1>2, <2>1, PositionsQuiet DEF AllocFails
<1>3. ASSUME NEW p \in Publishers,
             InsertFails(p) \/ PublishReturns(p) \/ Reply(p)
      PROVE  NumbersBelow' /\ PositionsDistinct'
  <2>0. pub \in [Publishers -> Job] /\ pub[p] \in Job
    BY <1>0 DEF MailboxTypeOK
  <2>1. pub'[p].pc # "insert" /\ \A q \in Publishers \ {p} : pub'[q] = pub[q]
    <3>1. CASE InsertFails(p)
      BY <2>0, <3>1 DEF InsertFails, Job
    <3>2. CASE PublishReturns(p)
      BY <2>0, <3>2 DEF PublishReturns, Job
    <3>3. CASE Reply(p)
      BY <2>0, <3>3 DEF Reply, IdleJob
    <3> QED  BY <1>3, <3>1, <3>2, <3>3
  <2> QED
    BY <1>0, <1>3, <2>1, PositionsQuiet DEF InsertFails, PublishReturns, Reply
<1>4. ASSUME NEW m \in Mailboxes, ClearDelete(m) \/ ClearReset(m) \/ ClearFails(m)
      PROVE  NumbersBelow' /\ PositionsDistinct'
  <2>1. \A n \in Mailboxes \ Clearable : nextSeq'[n] = nextSeq[n]
    BY <1>0, <1>4 DEF ClearDelete, ClearReset, ClearFails, MailboxTypeOK
  <2> QED
    BY <1>0, <1>4, <2>1, PositionsQuiet DEF ClearDelete, ClearReset, ClearFails
<1>5. ASSUME NEW m \in Mailboxes, NEW X \in SUBSET Expiring, PurgeExpired(m, X)
      PROVE  NumbersBelow' /\ PositionsDistinct'
  BY <1>0, <1>5, PositionsQuiet DEF PurgeExpired
<1>6. CASE MailboxCrash
  <2>1. \A q \in Publishers : pub'[q].pc # "insert"
    BY <1>6 DEF MailboxCrash, IdleJob
  <2>2. nextSeq' = nextSeq /\ published' = published /\ clearing' \subseteq Clearable
    BY <1>6 DEF MailboxCrash
  <2> QED  BY <2>1, <2>2, PositionsQuiet
<1>7. CASE UNCHANGED mailboxVars
  <2>1. pub' = pub /\ nextSeq' = nextSeq /\ published' = published /\ clearing' = clearing
    BY <1>7 DEF mailboxVars
  <2> QED  BY <1>0, <2>1, PositionsQuiet
<1> QED
  BY <1>1, <1>2, <1>3, <1>4, <1>5, <1>6, <1>7, PositionsAlloc, PositionsInsert
     DEF OpenStep, PublisherStep

\* Every step of the store preserves PositionsInv.
LEMMA PositionsStep ==
  ASSUME PositionsInv, [MailboxStep]_mailboxVars
  PROVE  PositionsInv'
  BY PositionsOpen, StepIsOpen

\* An empty store has no positions.
LEMMA PositionsInitially == MailboxInit => PositionsInv
<1> SUFFICES ASSUME MailboxInit PROVE PositionsInv
  OBVIOUS
<1>1. published = {} /\ clearing = {} /\ \A p \in Publishers : pub[p].pc = "idle"
  BY DEF MailboxInit, IdleJob
<1> QED
  BY <1>1, MailboxTypeInit DEF PositionsInv, NumbersBelow, PositionsDistinct, Inserting

\* In a mailbox that is never cleared a position belongs to one envelope for
\* good, for any number of publishers, envelopes, failures and crashes
\* (AppendEnvelope's $inc and InsertOne are separate writes).
THEOREM PositionsAreDistinct == MailboxSpec => []PositionsDistinct
<1>1. PositionsInv /\ [MailboxStep]_mailboxVars => PositionsInv'
  BY PositionsStep
<1>2. PositionsInv => PositionsDistinct
  BY DEF PositionsInv
<1> QED  BY <1>1, <1>2, PositionsInitially, PTL DEF MailboxSpec, MailboxStep
-----------------------------------------------------------------------------
(* What Success: true is worth when no database call fails *)

CopyIn(P, i, m) == \E e \in P : e.id = i /\ e.mb = m
CopyOf(P, i) == \E e \in P : e.id = i

\* A Publish call that has returned has inserted the envelope into every
\* mailbox it counts as stored.  Of the other mailboxes it was resolved to,
\* those that an operator does not clear lack it because the envelope_id index
\* had a copy already.
SuccessExplained ==
  \A p \in Publishers : pub[p].pc = "done" =>
    /\ \A m \in pub[p].stored : CopyIn(published, pub[p].id, m)
    /\ \A m \in pub[p].targets \ Clearable : m \in pub[p].stored \/ CopyOf(published, pub[p].id)

\* What a call owes, on the way to that.
CallExplained(P, j) ==
  /\ \A m \in j.stored : CopyIn(P, j.id, m)
  /\ \A m \in j.targets \ Clearable :
       m \in j.todo \/ (j.pc = "insert" /\ m = j.mb) \/ m \in j.stored \/ CopyOf(P, j.id)
  /\ j.pc = "done" => j.todo = {}

SuccessInv ==
  /\ PositionsInv
  /\ envelopes \subseteq published
  /\ \A p \in Publishers : CallExplained(published, pub[p])

\* What was inserted stays known: a call that does not move stays explained.
LEMMA ExplainedStays ==
  ASSUME NEW j, NEW P, NEW Q, CallExplained(P, j), P \subseteq Q
  PROVE  CallExplained(Q, j)
<1>1. \A i, m : CopyIn(P, i, m) => CopyIn(Q, i, m)
  BY Zenon DEF CopyIn
<1>2. \A i : CopyOf(P, i) => CopyOf(Q, i)
  BY Zenon DEF CopyOf
<1> QED  BY <1>1, <1>2, Zenon DEF CallExplained

\* InsertOne fails without a database error: a copy of the envelope is stored,
\* since nobody else was given the position.
LEMMA DuplicateKnown ==
  ASSUME SuccessInv, ~DbErrors, NEW p \in Publishers, InsertFails(p),
         pub[p].mb \notin Clearable
  PROVE  CopyOf(published, pub[p].id)
<1>1. pub[p].pc = "insert" /\ ~KeysFree(Pending(p))
  BY Zenon DEF InsertFails
<1>2. pub[p].mb \in Mailboxes
  BY <1>1, Zenon DEF SuccessInv, PositionsInv, MailboxTypeOK
<1>3. Pending(p).id = pub[p].id /\ Pending(p).mb = pub[p].mb /\ Pending(p).seq = pub[p].seq
  BY DEF Pending
<1>4. PICK f \in envelopes : f.id = pub[p].id \/ (f.mb = pub[p].mb /\ f.seq = pub[p].seq)
  BY <1>1, <1>3, Zenon DEF KeysFree
<1>5. f \in published
  BY <1>4 DEF SuccessInv
<1>6. ~(f.mb = pub[p].mb /\ f.seq = pub[p].seq)
  BY <1>1, <1>2, <1>5, Zenon DEF SuccessInv, PositionsInv, PositionsDistinct
<1> QED  BY <1>4, <1>5, <1>6, Zenon DEF CopyOf

\* Every step of one Publish call keeps the call explained.
LEMMA CallStep ==
  ASSUME SuccessInv, ~DbErrors, NEW p \in Publishers, PublisherStep(p)
  PROVE  CallExplained(published', pub'[p])
<1>1. pub \in [Publishers -> Job] /\ pub[p] \in Job /\ CallExplained(published, pub[p])
  BY Zenon DEF SuccessInv, PositionsInv, MailboxTypeOK
<1>2. ASSUME NEW m \in Mailboxes, AllocSeq(p, m)
      PROVE  CallExplained(published', pub'[p])
  <2>1. /\ pub'[p].pc = "insert" /\ pub'[p].mb = m /\ pub'[p].todo = pub[p].todo \ {m}
        /\ pub'[p].id = pub[p].id /\ pub'[p].targets = pub[p].targets
        /\ pub'[p].stored = pub[p].stored /\ published' = published /\ pub[p].pc = "append"
    BY <1>1, <1>2 DEF AllocSeq, Job
  <2>2. CallExplained(published', pub[p])
    BY <1>1, <2>1, ExplainedStays
  <2> QED  BY <1>1, <2>1, <2>2 DEF CallExplained, CopyIn, CopyOf
<1>3. CASE InsertOne(p)
  <2>1. /\ pub'[p].pc = "append" /\ pub'[p].todo = pub[p].todo
        /\ pub'[p].id = pub[p].id /\ pub'[p].targets = pub[p].targets
        /\ pub'[p].stored = pub[p].stored \cup {pub[p].mb} /\ pub[p].pc = "insert"
        /\ published' = published \cup {Pending(p)}
    BY <1>1, <1>3 DEF InsertOne, Job
  <2>2. CallExplained(published', pub[p])
    BY <1>1, <2>1, ExplainedStays
  <2>3. CopyIn(published', pub[p].id, pub[p].mb)
    <3>1. Pending(p).id = pub[p].id /\ Pending(p).mb = pub[p].mb
      BY DEF Pending
    <3> QED  BY <2>1, <3>1, Zenon DEF CopyIn
  <2> QED  BY <2>1, <2>2, <2>3 DEF CallExplained, CopyIn, CopyOf
<1>4. CASE InsertFails(p)
  <2>1. /\ pub'[p].pc = "append" /\ pub'[p].todo = pub[p].todo
        /\ pub'[p].id = pub[p].id /\ pub'[p].targets = pub[p].targets
        /\ pub'[p].stored = pub[p].stored /\ pub[p].pc = "insert" /\ published' = published
    BY <1>1, <1>4 DEF InsertFails, Job
  <2>2. pub[p].mb \in Clearable \/ CopyOf(published, pub[p].id)
    BY <1>4, DuplicateKnown
  <2> QED  BY <1>1, <2>1, <2>2 DEF CallExplained, CopyIn, CopyOf
<1>5. CASE PublishReturns(p)
  <2>1. /\ pub'[p].pc = "done" /\ pub'[p].todo = {} /\ pub[p].todo = {}
        /\ pub'[p].id = pub[p].id /\ pub'[p].targets = pub[p].targets
        /\ pub'[p].stored = pub[p].stored /\ pub[p].pc = "append" /\ published' = published
    BY <1>1, <1>5 DEF PublishReturns, Job
  <2> QED  BY <1>1, <2>1 DEF CallExplained, CopyIn, CopyOf
<1>6. CASE Reply(p)
  <2>1. pub'[p].stored = {} /\ pub'[p].targets = {} /\ pub'[p].pc = "idle"
    BY <1>1, <1>6 DEF Reply, IdleJob
  <2> QED  BY <2>1 DEF CallExplained
<1> QED  BY <1>2, <1>3, <1>4, <1>5, <1>6, Zenon DEF PublisherStep, AllocFails

\* Every step of a store whose database calls do not fail keeps SuccessInv.
LEMMA SuccessStep ==
  ASSUME SuccessInv, ~DbErrors, [MailboxStep]_mailboxVars
  PROVE  SuccessInv'
<1>1. PositionsInv'
  BY PositionsStep DEF SuccessInv
<1>2. pub \in [Publishers -> Job] /\ \A q \in Publishers : CallExplained(published, pub[q])
  BY Zenon DEF SuccessInv, PositionsInv, MailboxTypeOK
<1>3. ASSUME envelopes' \subseteq envelopes, UNCHANGED published
      PROVE  envelopes' \subseteq published'
  BY <1>3 DEF SuccessInv
<1>4. ASSUME NEW p \in Publishers, \A q \in Publishers \ {p} : pub'[q] = pub[q],
             CallExplained(published', pub'[p]), published \subseteq published',
             envelopes' \subseteq published'
      PROVE  SuccessInv'
  <2>1. \A q \in Publishers \ {p} : CallExplained(published', pub[q])
    BY <1>2, <1>4, ExplainedStays
  <2>2. \A q \in Publishers : CallExplained(published', pub'[q])
    BY <1>4, <2>1, Zenon
  <2> QED  BY <1>1, <1>4, <2>2, Zenon DEF SuccessInv
<1>5. ASSUME NEW p \in Publishers, NEW i \in Ids, NEW T \in TargetSets, Publish(p, i, T)
      PROVE  SuccessInv'
  <2>1. pub'[p] = NewJob(i, T) /\ \A q \in Publishers \ {p} : pub'[q] = pub[q]
    BY <1>2, <1>5 DEF Publish
  <2>2. CallExplained(published', pub'[p])
    BY <2>1 DEF CallExplained, NewJob
  <2> QED  BY <1>3, <1>4, <1>5, <2>1, <2>2, Zenon DEF Publish
<1>6. ASSUME NEW p \in Publishers, PublisherStep(p)
      PROVE  SuccessInv'
  <2>1. CallExplained(published', pub'[p])
    BY <1>6, CallStep
  <2>2. \A q \in Publishers \ {p} : pub'[q] = pub[q]
    BY <1>2, <1>6
    DEF PublisherStep, AllocSeq, AllocFails, InsertOne, InsertFails, PublishReturns, Reply
  <2>3. \/ UNCHANGED <<envelopes, published>>
        \/ envelopes' = envelopes \cup {Pending(p)} /\ published' = published \cup {Pending(p)}
    BY <1>6, Zenon
    DEF PublisherStep, AllocSeq, AllocFails, InsertOne, InsertFails, PublishReturns, Reply
  <2>4. published \subseteq published' /\ envelopes' \subseteq published'
    BY <2>3 DEF SuccessInv
  <2> QED  BY <1>4, <2>1, <2>2, <2>4
<1>7. ASSUME UNCHANGED <<pub, published>>, envelopes' \subseteq envelopes
      PROVE  SuccessInv'
  <2>1. \A q \in Publishers : CallExplained(published', pub[q])
    BY <1>2, <1>7, ExplainedStays
  <2>2. \A q \in Publishers : CallExplained(published', pub'[q])
    BY <1>7, <2>1, Zenon
  <2> QED  BY <1>1, <1>3, <1>7, <2>2, Zenon DEF SuccessInv
<1>8. ASSUME NEW m \in Mailboxes, ClearDelete(m) \/ ClearReset(m) \/ ClearFails(m)
      PROVE  SuccessInv'
  BY <1>7, <1>8 DEF ClearDelete, ClearReset, ClearFails
<1>9. ASSUME NEW m \in Mailboxes, NEW X \in SUBSET Expiring, PurgeExpired(m, X)
      PROVE  SuccessInv'
  BY <1>7, <1>9 DEF PurgeExpired
<1>10. CASE MailboxCrash
  <2>1. \A q \in Publishers : pub'[q] = IdleJob
    BY <1>10 DEF MailboxCrash
  <2>2. CallExplained(published', IdleJob)
    BY DEF CallExplained, IdleJob
  <2>3. \A q \in Publishers : CallExplained(published', pub'[q])
    BY <2>1, <2>2, Zenon
  <2> QED  BY <1>1, <1>3, <1>10, <2>3, Zenon DEF SuccessInv, MailboxCrash
<1>11. CASE UNCHANGED mailboxVars
  BY <1>7, <1>11 DEF mailboxVars
<1> QED
  BY <1>5, <1>6, <1>8, <1>9, <1>10, <1>11, Zenon DEF MailboxStep, MailboxNext

\* When no database call fails, Success: true means that the envelope is in
\* every mailbox counted as stored and that any other mailbox the call was
\* resolved to lacks it only because of a copy stored before, for any number of
\* publishers, targets and retries, crashes in between and mailboxes cleared
\* meanwhile (Publish goes on after a failed AppendEnvelope).
THEOREM SuccessIsExplained == ~DbErrors => (MailboxSpec => []SuccessExplained)
<1> SUFFICES ASSUME ~DbErrors PROVE MailboxSpec => []SuccessExplained
  OBVIOUS
<1>1. MailboxInit => SuccessInv
  <2> SUFFICES ASSUME MailboxInit PROVE SuccessInv
    OBVIOUS
  <2>1. envelopes = {} /\ \A p \in Publishers : pub[p] = IdleJob
    BY DEF MailboxInit
  <2>2. CallExplained(published, IdleJob)
    BY DEF CallExplained, IdleJob
  <2>3. \A p \in Publishers : CallExplained(published, pub[p])
    BY <2>1, <2>2, Zenon
  <2> QED  BY <2>1, <2>3, PositionsInitially DEF SuccessInv
<1>2. SuccessInv /\ [MailboxStep]_mailboxVars => SuccessInv'
  BY SuccessStep
<1>3. SuccessInv => SuccessExplained
  BY DEF SuccessInv, CallExplained, SuccessExplained
<1> QED  BY <1>1, <1>2, <1>3, PTL DEF MailboxSpec, MailboxStep
=============================================================================
