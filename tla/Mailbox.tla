------------------------------- MODULE Mailbox -------------------------------
(***************************************************************************)
(* The mailbox store of the Spine and the publishers that append to it.    *)
(*                                                                         *)
(* A mailbox is a document with a counter next_seq; its envelopes live in  *)
(* a second collection.  AppendEnvelope takes a sequence number with one   *)
(* atomic $inc and inserts the envelope with a separate write, so the      *)
(* steps of concurrent publishers, of the operator's ClearOutbox and of a  *)
(* server crash interleave between the two.  The collection has two unique *)
(* indexes: (mailbox_id, seq) and envelope_id.                             *)
(*                                                                         *)
(* Abstracted: an envelope is its id, its mailbox and its seq; its QoS and *)
(* whether it carries an expiry are attributes of the id; target           *)
(* resolution is the choice of the set of mailboxes it returns.            *)
(***************************************************************************)
EXTENDS Integers, FiniteSets

CONSTANTS
  Mailboxes,   \* mailbox ids
  TargetSets,  \* the sets of mailboxes the targets of a request resolve to
  Publishers,  \* concurrent Publish calls
  Ids,         \* envelope ids
  QoSOf,       \* QoSOf[i] is the QoS of the envelope with id i
  Expiring,    \* the ids that carry an expires_at_ms
  DbErrors,    \* whether database calls may fail
  MaxCalls,    \* bound on the Publish calls
  Clearable,   \* the mailboxes an operator may clear
  MaxSeq,      \* MaxSeq[m] bounds the sequence numbers m hands out
  None         \* no id, no mailbox

QoS == {"COMMAND", "CONTROL", "TELEMETRY"}

ASSUME MailboxAssumption ==
  /\ QoSOf \in [Ids -> QoS \cup {"UNSPECIFIED"}]
  /\ TargetSets \subseteq SUBSET Mailboxes
  /\ Expiring \subseteq Ids
  /\ Clearable \subseteq Mailboxes
  /\ MaxSeq \in [Mailboxes -> Nat]
  /\ DbErrors \in BOOLEAN
  /\ MaxCalls \in Nat
  /\ None \notin Ids \cup Mailboxes

VARIABLES
  nextSeq,    \* mailboxes.next_seq
  envelopes,  \* the envelopes collection
  pub,        \* the state of each Publish call
  calls,      \* number of Publish calls made
  clearing,   \* mailboxes whose ClearMailbox has deleted but not yet reset
  published,  \* history: every envelope ever inserted
  late        \* history: envelopes inserted at or below an earlier position

mailboxVars == <<nextSeq, envelopes, pub, calls, clearing, published, late>>

Envelope == [id : Ids, mb : Mailboxes, seq : Nat]

IdleJob ==
  [pc |-> "idle", id |-> None, targets |-> {}, todo |-> {},
   mb |-> None, seq |-> 0, stored |-> {}]

NewJob(i, T) ==
  [pc |-> "append", id |-> i, targets |-> T, todo |-> T,
   mb |-> None, seq |-> 0, stored |-> {}]

PubState == {"idle", "append", "insert", "done"}

Job ==
  [pc : PubState, id : Ids \cup {None}, targets : SUBSET Mailboxes,
   todo : SUBSET Mailboxes, mb : Mailboxes \cup {None}, seq : Nat,
   stored : SUBSET Mailboxes]

MailboxTypeOK ==
  /\ nextSeq \in [Mailboxes -> Nat \ {0}]
  /\ envelopes \subseteq Envelope /\ IsFiniteSet(envelopes)
  /\ pub \in [Publishers -> Job]
  /\ \A p \in Publishers :
       /\ pub[p].pc # "idle" => pub[p].id \in Ids
       /\ pub[p].pc = "insert" => pub[p].mb \in Mailboxes
  /\ calls \in Nat
  /\ clearing \subseteq Mailboxes
  /\ published \subseteq Envelope
  /\ late \subseteq published

MailboxInit ==
  /\ nextSeq = [m \in Mailboxes |-> 1]
  /\ envelopes = {}
  /\ pub = [p \in Publishers |-> IdleJob]
  /\ calls = 0
  /\ clearing = {}
  /\ published = {}
  /\ late = {}
-----------------------------------------------------------------------------
(* Publish *)

\* ResolveTargets has returned the mailboxes T of the request.  Nothing stops
\* a caller from publishing an id again (a retry after a lost response).
Publish(p, i, T) ==
  /\ pub[p].pc = "idle"
  /\ calls < MaxCalls
  /\ calls' = calls + 1
  /\ pub' = [pub EXCEPT ![p] = NewJob(i, T)]
  /\ UNCHANGED <<nextSeq, envelopes, clearing, published, late>>

\* Faulty: next_seq is read with a FindOne and increased by a later update, so a
\* publisher that comes in between reads the number again.
AllocSeqTorn(p, m) ==
  LET held == {pub[q].seq : q \in {q \in Publishers : pub[q].pc = "insert" /\ pub[q].mb = m}}
  IN /\ pub[p].pc = "append"
     /\ m \in pub[p].todo
     /\ nextSeq[m] <= MaxSeq[m]
     /\ nextSeq' = [nextSeq EXCEPT ![m] = @ + 1]
     /\ \E n \in {nextSeq[m]} \cup held :
          pub' = [pub EXCEPT ![p] =
                    [pub[p] EXCEPT !.pc = "insert", !.mb = m, !.seq = n,
                                   !.todo = pub[p].todo \ {m}]]
     /\ UNCHANGED <<envelopes, calls, clearing, published, late>>

\* FindOneAndUpdate with $inc: the first half of AppendEnvelope.
AllocSeq(p, m) ==
  /\ pub[p].pc = "append"
  /\ m \in pub[p].todo
  /\ nextSeq[m] <= MaxSeq[m]
  /\ nextSeq' = [nextSeq EXCEPT ![m] = @ + 1]
  /\ pub' = [pub EXCEPT ![p] =
                [pub[p] EXCEPT !.pc = "insert", !.mb = m, !.seq = nextSeq[m],
                               !.todo = pub[p].todo \ {m}]]
  /\ UNCHANGED <<envelopes, calls, clearing, published, late>>

\* FindOneAndUpdate fails: Publish logs the error and goes on.
AllocFails(p, m) ==
  /\ DbErrors
  /\ pub[p].pc = "append"
  /\ m \in pub[p].todo
  /\ pub' = [pub EXCEPT ![p].todo = pub[p].todo \ {m}]
  /\ UNCHANGED <<nextSeq, envelopes, calls, clearing, published, late>>

Pending(p) == [id |-> pub[p].id, mb |-> pub[p].mb, seq |-> pub[p].seq]

\* The two unique indexes of the envelopes collection.
KeysFree(e) ==
  \A f \in envelopes : f.id # e.id /\ (f.mb = e.mb => f.seq # e.seq)

\* e goes in at or below a position that was taken before it.
Overtaken(e) == \E f \in published : f.mb = e.mb /\ e.seq <= f.seq

\* InsertOne succeeds: the second half of AppendEnvelope.
InsertOne(p) ==
  /\ pub[p].pc = "insert"
  /\ KeysFree(Pending(p))
  /\ envelopes' = envelopes \cup {Pending(p)}
  /\ published' = published \cup {Pending(p)}
  /\ late' = IF Overtaken(Pending(p)) THEN late \cup {Pending(p)} ELSE late
  /\ pub' = [pub EXCEPT ![p] =
                [pub[p] EXCEPT !.pc = "append", !.mb = None, !.seq = 0,
                               !.stored = pub[p].stored \cup {pub[p].mb}]]
  /\ UNCHANGED <<nextSeq, calls, clearing>>

\* InsertOne fails, on a duplicate key or on a database error: the sequence
\* number is gone, Publish logs the error and goes on.
InsertFails(p) ==
  /\ pub[p].pc = "insert"
  /\ DbErrors \/ ~KeysFree(Pending(p))
  /\ pub' = [pub EXCEPT ![p] =
                [pub[p] EXCEPT !.pc = "append", !.mb = None, !.seq = 0]]
  /\ UNCHANGED <<nextSeq, envelopes, calls, clearing, published, late>>

\* NotifyDeliveryLoops, then Success: true whatever was stored.  (The wake-up
\* of a delivery loop is never awaited: the loop also polls on a ticker.)
PublishReturns(p) ==
  /\ pub[p].pc = "append"
  /\ pub[p].todo = {}
  /\ pub' = [pub EXCEPT ![p].pc = "done"]
  /\ UNCHANGED <<nextSeq, envelopes, calls, clearing, published, late>>

Reply(p) ==
  /\ pub[p].pc = "done"
  /\ pub' = [pub EXCEPT ![p] = IdleJob]
  /\ UNCHANGED <<nextSeq, envelopes, calls, clearing, published, late>>
-----------------------------------------------------------------------------
(* The operator *)

\* ClearMailbox: DeleteMany ...
ClearDelete(m) ==
  /\ m \in Clearable \ clearing
  /\ envelopes' = {e \in envelopes : e.mb # m}
  /\ clearing' = clearing \cup {m}
  /\ UNCHANGED <<nextSeq, pub, calls, published, late>>

\* ... then UpdateOne resets next_seq ...
ClearReset(m) ==
  /\ m \in clearing
  /\ nextSeq' = [nextSeq EXCEPT ![m] = 1]
  /\ clearing' = clearing \ {m}
  /\ UNCHANGED <<envelopes, pub, calls, published, late>>

\* ... or fails, with the envelopes already deleted.
ClearFails(m) ==
  /\ DbErrors
  /\ m \in clearing
  /\ clearing' = clearing \ {m}
  /\ UNCHANGED <<nextSeq, envelopes, pub, calls, published, late>>

\* DeleteExpired: X is the set of ids whose expiry has passed by now.
PurgeExpired(m, X) ==
  /\ envelopes' = {e \in envelopes : e.mb # m \/ e.id \notin X}
  /\ envelopes' # envelopes
  /\ UNCHANGED <<nextSeq, pub, calls, clearing, published, late>>

\* The server process dies: calls in progress end where they are.
MailboxCrash ==
  /\ pub' = [p \in Publishers |-> IdleJob]
  /\ clearing' = {}
  /\ UNCHANGED <<nextSeq, envelopes, calls, published, late>>
-----------------------------------------------------------------------------
PublisherStep(p) ==
  \/ \E m \in Mailboxes : AllocSeq(p, m) \/ AllocFails(p, m)
  \/ InsertOne(p)
  \/ InsertFails(p)
  \/ PublishReturns(p)
  \/ Reply(p)

MailboxNext ==
  \/ \E p \in Publishers, i \in Ids, T \in TargetSets : Publish(p, i, T)
  \/ \E p \in Publishers : PublisherStep(p)
  \/ \E m \in Mailboxes : ClearDelete(m) \/ ClearReset(m) \/ ClearFails(m)
  \/ \E m \in Mailboxes, X \in SUBSET Expiring : PurgeExpired(m, X)

MailboxSpec ==
  MailboxInit /\ [][MailboxNext \/ MailboxCrash]_mailboxVars
-----------------------------------------------------------------------------
(* Properties *)

\* A position of a mailbox that is never cleared belongs to one envelope for
\* good: whatever publishers, failed inserts and crashes do between the $inc
\* and the InsertOne of AppendEnvelope, no other envelope was, is or can
\* still be inserted there.  Cursors, which are positions, rely on it.
PositionsDistinct ==
  \A m \in Mailboxes \ Clearable :
    /\ \A e, f \in published :
         e.mb = m /\ f.mb = m /\ e.seq = f.seq => e = f
    /\ \A p \in Publishers : pub[p].pc = "insert" /\ pub[p].mb = m =>
         /\ \A e \in published : e.mb = m => e.seq # pub[p].seq
         /\ \A q \in Publishers \ {p} :
              pub[q].pc = "insert" /\ pub[q].mb = m => pub[q].seq # pub[p].seq

\* When Publish reports Success: true, the envelope was appended to each of
\* the resolved mailboxes (publish_service.go:74-77).
SuccessMeansStored ==
  \A p \in Publishers : pub[p].pc = "done" => pub[p].stored = pub[p].targets
=============================================================================
