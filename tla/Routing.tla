------------------------------- MODULE Routing -------------------------------
(***************************************************************************)
(* From targets to mailboxes.  Publish and SUBSCRIBE both pass their       *)
(* targets to ResolveTargets, which finds the mailbox of each target or    *)
(* creates it.  GetOrCreateMailbox is a FindOne, an InsertOne of a         *)
(* document with a fresh uuid and, when the insert fails, a FindOne again: *)
(* resolvers of one target race, and the unique index on (target_type,     *)
(* target_id, org_id) decides.  A resolved Publish goes on in module       *)
(* Mailbox.                                                                *)
(*                                                                         *)
(* The callers are programs built on the SDK and mspinectl, which makes    *)
(* one target of its flags.                                                *)
(*                                                                         *)
(* Abstracted: the retention policy and the timestamps of a mailbox,       *)
(* deliver_role, which nothing reads, and payloads.                        *)
(***************************************************************************)
EXTENDS Mailbox, Sequences

CONSTANTS
  Requests,     \* the sequences of wire targets programs send
  Commands,     \* the targets given to mspinectl: a word, an id and an org
  Subscribers,  \* servers whose stream may send SUBSCRIBE
  MaxBusy       \* bound on the calls under way at once

Single == {"SERVER", "ORG", "SERVICE", "CLUSTER"}

TargetType == Single \cup {"BROADCAST", "UNSPECIFIED"}

ASSUME RoutingAssumption ==
  /\ Commands \subseteq [type : STRING, id : STRING, org : STRING]
  /\ \A q \in Requests : q \in Seq([type : STRING, id : STRING, org : STRING])
  /\ Publishers \cap Subscribers = {}
  /\ MaxBusy \in Nat
  /\ None \notin [type : TargetType, id : STRING, org : STRING]

VARIABLES
  doc,        \* mailboxes collection: the target of each mailbox, or None
  res,        \* the state of each ResolveTargets call: had, a history, are the
              \* mailboxes there were when it began, without those passed over
  subscribed  \* session.Subscriptions of each subscriber

routingVars == <<doc, res, subscribed>>

Resolvers == Publishers \cup Subscribers

Idle == [pc |-> "idle", req |-> <<>>, left |-> <<>>, new |-> None,
         got |-> {}, had |-> {}]

Existing == {m \in Mailboxes : doc[m] # None}

Asked(r) == {res[r].req[i] : i \in DOMAIN res[r].req}

RoutingInit ==
  /\ doc = [m \in Mailboxes |-> None]
  /\ res = [r \in Resolvers |-> Idle]
  /\ subscribed = [s \in Subscribers |-> {}]
-----------------------------------------------------------------------------
(* Requests *)

\* mspinectl spells the type of a target in any case; an unknown word fails
\* the command before anything is sent.
parseUMSTargetType(s) ==
  CASE s \in {"server", "SERVER"} -> "TARGET_TYPE_SERVER"
    [] s \in {"cluster", "CLUSTER"} -> "TARGET_TYPE_CLUSTER"
    [] s \in {"org", "ORG"} -> "TARGET_TYPE_ORG"
    [] s \in {"service", "SERVICE"} -> "TARGET_TYPE_SERVICE"
    [] s \in {"broadcast", "BROADCAST"} -> "TARGET_TYPE_BROADCAST"
    [] OTHER -> "error"

\* Likewise the QoS of what it publishes, which the server turns back.
parseQoS(s) ==
  CASE s \in {"command", "COMMAND"} -> "QOS_COMMAND"
    [] s \in {"control", "CONTROL"} -> "QOS_CONTROL"
    [] s \in {"telemetry", "TELEMETRY"} -> "QOS_TELEMETRY"
    [] OTHER -> "error"

protoToQoS(q) ==
  CASE q = "QOS_COMMAND" -> "COMMAND"
    [] q = "QOS_CONTROL" -> "CONTROL"
    [] q = "QOS_TELEMETRY" -> "TELEMETRY"
    [] OTHER -> "UNSPECIFIED"

\* The handlers turn the wire type into the type the store keeps.
protoTargetTypeToTypes(t) ==
  CASE t = "TARGET_TYPE_SERVER" -> "SERVER"
    [] t = "TARGET_TYPE_CLUSTER" -> "CLUSTER"
    [] t = "TARGET_TYPE_ORG" -> "ORG"
    [] t = "TARGET_TYPE_SERVICE" -> "SERVICE"
    [] t = "TARGET_TYPE_BROADCAST" -> "BROADCAST"
    [] OTHER -> "UNSPECIFIED"

Converted(q) ==
  [i \in DOMAIN q |->
     [q[i] EXCEPT !.type = protoTargetTypeToTypes(q[i].type)]]

\* The calls under way; a subscriber's is over once it is resolved.
Busy ==
  {r \in Resolvers :
     res[r].pc \notin (IF r \in Subscribers THEN {"idle", "done"} ELSE {"idle"})}

\* A request is taken up by its handler.
Request(r, q) ==
  /\ r \notin Busy
  /\ Cardinality(Busy) < MaxBusy
  /\ res' = [res EXCEPT ![r] = [Idle EXCEPT !.pc = "find", !.req = Converted(q),
                                            !.left = Converted(q), !.had = Existing]]
  /\ UNCHANGED <<doc, subscribed, mailboxVars>>

\* Publisher.Publish of the SDK, received by PublishHandler.Publish.
SdkPublish(p, q) == calls < MaxCalls /\ Request(p, q)

\* A SUBSCRIBE frame of a stream.
SubscribeFrame(s, q) == Request(s, q)

\* mspinectl publish and subscribe send one target, or nothing at all.
newPublishCmd(p, w) ==
  /\ parseUMSTargetType(w.type) # "error"
  /\ SdkPublish(p, <<[w EXCEPT !.type = parseUMSTargetType(w.type)]>>)

newSubscribeCmd(s, w) ==
  /\ parseUMSTargetType(w.type) # "error"
  /\ SubscribeFrame(s, <<[w EXCEPT !.type = parseUMSTargetType(w.type)]>>)
-----------------------------------------------------------------------------
(* ResolveTargets *)

Target(r) == Head(res[r].left)

\* The target is resolved to the mailboxes S, and those in missed are passed
\* over; ids seen before are not repeated.
Resolve(r, S, missed) ==
  res' = [res EXCEPT ![r] =
            [res[r] EXCEPT !.pc = "find", !.left = Tail(res[r].left), !.new = None,
                           !.got = res[r].got \cup S, !.had = res[r].had \ missed]]

\* The call returns an error; what it has created stays.
ResolveFails(r) ==
  /\ res' = [res EXCEPT ![r] = Idle]
  /\ UNCHANGED <<doc, subscribed, mailboxVars>>

Of(t) == {m \in Mailboxes : doc[m] = t}

Unused == {m \in Mailboxes \ Existing : \A r \in Resolvers : res[r].new # m}

FindOne(r) ==
  /\ res[r].pc = "find" /\ res[r].left # <<>>
  /\ Target(r).type \in Single
  /\ \/ \E m \in Of(Target(r)) : Resolve(r, {m}, {})
     \/ /\ Of(Target(r)) = {}
        /\ \E m \in Unused : res' = [res EXCEPT ![r] =
                               [res[r] EXCEPT !.pc = "insert", !.new = m]]
  /\ UNCHANGED <<doc, subscribed, mailboxVars>>

\* Faulty: the index on the target is not unique.
InsertMailboxTwice(r) ==
  /\ res[r].pc = "insert"
  /\ doc' = [doc EXCEPT ![res[r].new] = Target(r)]
  /\ Resolve(r, {res[r].new}, {})
  /\ UNCHANGED <<subscribed, mailboxVars>>

InsertMailbox(r) ==
  /\ res[r].pc = "insert"
  /\ Of(Target(r)) = {}
  /\ doc' = [doc EXCEPT ![res[r].new] = Target(r)]
  /\ Resolve(r, {res[r].new}, {})
  /\ UNCHANGED <<subscribed, mailboxVars>>

\* Faulty: the new mailbox is returned although it was not inserted.
InsertMailboxFailsUnseen(r) ==
  /\ res[r].pc = "insert"
  /\ DbErrors \/ Of(Target(r)) # {}
  /\ Resolve(r, {res[r].new}, {})
  /\ UNCHANGED <<doc, subscribed, mailboxVars>>

\* A duplicate key, or a database error.
InsertMailboxFails(r) ==
  /\ res[r].pc = "insert"
  /\ DbErrors \/ Of(Target(r)) # {}
  /\ res' = [res EXCEPT ![r] = [res[r] EXCEPT !.pc = "again", !.new = None]]
  /\ UNCHANGED <<doc, subscribed, mailboxVars>>

FindAgain(r) ==
  /\ res[r].pc = "again"
  /\ \E m \in Of(Target(r)) : Resolve(r, {m}, {})
  /\ UNCHANGED <<doc, subscribed, mailboxVars>>

FindFails(r) ==
  /\ res[r].pc \in {"find", "again"} /\ res[r].left # <<>>
  /\ \/ DbErrors
     \/ /\ res[r].pc = "again"
        /\ Of(Target(r)) = {}
  /\ ResolveFails(r)

\* Faulty: the mailboxes of every org.
resolveBroadcastTargetAnyOrg(r) ==
  /\ res[r].pc = "find" /\ res[r].left # <<>>
  /\ Target(r).type = "BROADCAST"
  /\ Resolve(r, Existing, {})
  /\ UNCHANGED <<doc, subscribed, mailboxVars>>

\* Every mailbox of the org, whatever its type.  A row that cannot be decoded
\* is skipped and a cursor that fails ends the loop; neither is an error, and
\* what was read until then is returned.
resolveBroadcastTarget(r) ==
  /\ res[r].pc = "find" /\ res[r].left # <<>>
  /\ Target(r).type = "BROADCAST"
  /\ LET all == {m \in Existing : doc[m].org = Target(r).org}
     IN \E missed \in IF DbErrors THEN SUBSET all ELSE {{}} :
          Resolve(r, all \ missed, missed)
  /\ UNCHANGED <<doc, subscribed, mailboxVars>>

Unsupported(r) ==
  /\ res[r].pc = "find" /\ res[r].left # <<>>
  /\ Target(r).type = "UNSPECIFIED"
  /\ ResolveFails(r)
-----------------------------------------------------------------------------
(* What the callers do with the mailboxes *)

Resolved(r) ==
  /\ res[r].pc = "find" /\ res[r].left = <<>>
  /\ res' = [res EXCEPT ![r] = [res[r] EXCEPT !.pc = "done"]]

PublishResolved(p, i) ==
  /\ Resolved(p)
  /\ Publish(p, i, res[p].got)
  /\ UNCHANGED <<doc, subscribed>>

\* HandleSubscribe: the session subscribes to the mailboxes it has not got.
HandleSubscribe(s) ==
  /\ Resolved(s)
  /\ subscribed' = [subscribed EXCEPT ![s] = @ \cup res[s].got]
  /\ UNCHANGED <<doc, mailboxVars>>

\* A Publish call goes on in module Mailbox until it has returned.
PublishGoesOn(p) ==
  /\ PublisherStep(p)
  /\ res' = IF pub'[p].pc = "idle" THEN [res EXCEPT ![p] = Idle] ELSE res
  /\ UNCHANGED <<doc, subscribed>>

\* The server process dies: mailboxes stay, calls and sessions do not.
RoutingCrash ==
  /\ MailboxCrash
  /\ res' = [r \in Resolvers |-> Idle]
  /\ subscribed' = [s \in Subscribers |-> {}]
  /\ UNCHANGED doc
-----------------------------------------------------------------------------
ResolverStep(r) ==
  \/ FindOne(r)
  \/ InsertMailbox(r)
  \/ InsertMailboxFails(r)
  \/ FindAgain(r)
  \/ FindFails(r)
  \/ resolveBroadcastTarget(r)
  \/ Unsupported(r)

Call ==
  \/ \E p \in Publishers : \/ \E q \in Requests : SdkPublish(p, q)
                           \/ \E w \in Commands : newPublishCmd(p, w)
  \/ \E s \in Subscribers : \/ \E q \in Requests : SubscribeFrame(s, q)
                            \/ \E w \in Commands : newSubscribeCmd(s, w)

RoutingStep ==
  \/ \E r \in Resolvers : ResolverStep(r)
  \/ \E p \in Publishers, i \in Ids : PublishResolved(p, i)
  \/ \E s \in Subscribers : HandleSubscribe(s)
  \/ \E p \in Publishers : PublishGoesOn(p)
-----------------------------------------------------------------------------
(* Properties *)

\* A publisher and a subscriber that name the same target meet in one
\* mailbox, however their GetOrCreateMailbox calls, and those of others,
\* interleave: otherwise what is published is stored where nobody reads.
PublisherMeetsSubscriber ==
  \A p \in Publishers, s \in Subscribers :
    res[p].pc = "done" /\ res[s].pc = "done" =>
      \A t \in Asked(p) \cap Asked(s) :
        t.type \in Single =>
          \E m \in res[p].got \cap res[s].got : Of(t) = {m}

\* ResolveTargets returns the mailboxes its targets address and no other:
\* one for each target, and for a broadcast, mailboxes of its org only and
\* all that existed when the request came, save those whose rows a database
\* error kept from being read, which the call does not report
\* (target_resolver.go:19-64, :95-103).
AddressedExactly ==
  \A r \in Resolvers : res[r].pc = "done" =>
    /\ \A m \in res[r].got : \E t \in Asked(r) :
         IF t.type = "BROADCAST" THEN doc[m].org = t.org ELSE doc[m] = t
    /\ \A t \in Asked(r) :
         IF t.type = "BROADCAST"
         THEN {m \in res[r].had : doc[m].org = t.org} \subseteq res[r].got
         ELSE Of(t) \cap res[r].got # {}
=============================================================================
