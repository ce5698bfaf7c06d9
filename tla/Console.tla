------------------------------- MODULE Console -------------------------------
(***************************************************************************)
(* The operator's console: the mspinectl commands on cursors and mailboxes *)
(* and the admin services behind them, beside the publishers, subscribers  *)
(* and acknowledgements that work on the same collections.                 *)
(*                                                                         *)
(* `cursors get` reads the cursor and then the mailbox; `cursors list` and *)
(* `mailboxes list-envelopes` show one page, and an operator who wants     *)
(* them all issues them again from where the page ended.  One operator is  *)
(* followed through commands and listings; what others reset, delete and   *)
(* purge meanwhile is a step of its own.                                   *)
(*                                                                         *)
(* Abstracted: flags cobra insists on are given; output formats; the       *)
(* total ListCursors counts beside the page; `mspinectl ack` opens a       *)
(* stream of its own, whose HELLO is a matter of module Session.           *)
(***************************************************************************)
EXTENDS Routing, FiniteSetsExt

CONSTANTS
  Order,       \* all <<server, mailbox>> pairs in the order of their ids
  Limit,       \* --limit of a listing
  Positions,   \* the values of --seq of cursors reset and of ack
  MaxCommands  \* bound on the commands and listings of the operator

Key == Subscribers \X Mailboxes

ASSUME ConsoleAssumption ==
  /\ Order \in Seq(Key)
  /\ \A k \in Key : \E i \in DOMAIN Order : Order[i] = k
  /\ \A i, j \in DOMAIN Order : Order[i] = Order[j] => i = j
  /\ "cursors" \notin Mailboxes
  /\ Limit \in Nat
  /\ Positions \subseteq Nat
  /\ MaxCommands \in Nat

VARIABLES
  cursors,  \* the cursors collection: last_acked_seq by server and mailbox
  cmd,      \* the command under way
  pages,    \* a listing, page by page
  commands  \* number of commands and listings started

consoleVars == <<cursors, cmd, pages, commands>>
spineVars == <<mailboxVars, routingVars>>

Verb == {"get", "reset", "delete-server", "ack", "show", "clear-outbox",
         "purge-expired"}

NoCommand == [pc |-> "idle", verb |-> None, key |-> None, seq |-> 0,
              last |-> 0, next |-> 0, waiting |-> 0]
NoListing == [pc |-> "off", what |-> None, offset |-> 0, seen |-> {}, kept |-> {}]

ConsoleTypeOK ==
  /\ MailboxTypeOK
  /\ doc \in [Mailboxes -> [type : Single, id : STRING, org : STRING] \cup {None}]
  /\ \A r \in Resolvers :
       /\ res[r].pc \in {"idle", "find", "insert", "again", "done"}
       /\ res[r].new # None => res[r].new \in Mailboxes \ Existing
       /\ res[r].got \subseteq Existing
  /\ subscribed \in [Subscribers -> SUBSET Existing]
  /\ DOMAIN cursors \subseteq Key
  /\ \A k \in DOMAIN cursors : cursors[k] \in Nat
  /\ cmd.pc \in {"idle", "call", "read", "clear", "shown"}
  /\ pages.pc \in {"off", "on", "end"}
  /\ pages.what \in {None, "cursors"} \cup Mailboxes

ConsoleInit ==
  /\ MailboxInit
  /\ RoutingInit
  /\ cursors = <<>>
  /\ cmd = NoCommand
  /\ pages = NoListing
  /\ commands = 0
-----------------------------------------------------------------------------
(* Acknowledgements *)

SetCursor(k, n) ==
  cursors' = [x \in DOMAIN cursors \cup {k} |-> IF x = k THEN n ELSE cursors[x]]

\* An upsert with $max.
UpdateAckPosition(k, n) ==
  SetCursor(k, IF k \in DOMAIN cursors /\ cursors[k] > n THEN cursors[k] ELSE n)

\* A subscriber acknowledges what it was sent, as mspinectl subscribe does
\* for each envelope with --auto-ack.
AutoAck(s, e) ==
  /\ e \in published
  /\ e.mb \in subscribed[s]
  /\ UpdateAckPosition(<<s, e.mb>>, e.seq)
  /\ UNCHANGED <<cmd, pages, commands, spineVars>>
-----------------------------------------------------------------------------
(* Commands *)

\* Calls, commands and listings under way, which MaxBusy bounds together.
Active == Cardinality(Busy) + (IF cmd.pc = "idle" THEN 0 ELSE 1)
                            + (IF pages.pc = "off" THEN 0 ELSE 1)

\* The operator starts a command or a listing.
Begin ==
  /\ Active < MaxBusy
  /\ commands < MaxCommands
  /\ commands' = commands + 1

\* The operator types a command, about a mailbox that exists if any.  Without --yes
\* a command that changes something asks first (ConfirmOrSkip), and one that
\* is declined ends there.
Type(v, k, n) ==
  /\ cmd.pc = "idle"
  /\ k[2] \in Existing \cup {None}
  /\ Begin
  /\ cmd' = [NoCommand EXCEPT !.pc = "call", !.verb = v, !.key = k, !.seq = n]
  /\ UNCHANGED <<cursors, pages, spineVars>>

cursorsGetCmd(k) == Type("get", k, 0)

cursorsResetCmd(k, n) == Type("reset", k, n)

cursorsDeleteServerCmd(s) == Type("delete-server", <<s, None>>, 0)

\* Any position may be acknowledged.
newAckCmd(k, n) == Type("ack", k, n)

mailboxesGetCmd(k) == Type("show", k, 0)

mailboxesClearOutboxCmd(k) == k[2] \in Clearable /\ Type("clear-outbox", k, 0)

mailboxesPurgeExpiredCmd(k) == Type("purge-expired", k, 0)

Called(v) == cmd.pc = "call" /\ cmd.verb = v

\* The command ends, with an error or with output nothing depends on.
Ends == cmd' = NoCommand

\* The first database call of the command fails.
CallFails ==
  /\ DbErrors
  /\ cmd.pc = "call"
  /\ Ends
  /\ UNCHANGED <<cursors, pages, commands, spineVars>>

\* The output is read and the console is free again.
CommandEnds ==
  /\ cmd.pc = "shown"
  /\ Ends
  /\ UNCHANGED <<cursors, pages, commands, spineVars>>

\* cursors get: first the cursor ...
GetCursor ==
  /\ Called("get")
  /\ IF cmd.key \in DOMAIN cursors
     THEN cmd' = [cmd EXCEPT !.pc = "read", !.last = cursors[cmd.key]]
     ELSE Ends
  /\ UNCHANGED <<cursors, pages, commands, spineVars>>

\* The envelopes above the position last of a mailbox.
Above(m, last) == {e \in envelopes : e.mb = m /\ e.seq > last}

\* ... then the mailbox; when it cannot be read next_seq is shown as 0.
GetMailbox ==
  /\ cmd.pc = "read"
  /\ \E n \in {nextSeq[cmd.key[2]]} \cup (IF DbErrors THEN {0} ELSE {}) :
       cmd' = [cmd EXCEPT !.pc = "shown", !.next = n,
                 !.waiting = Cardinality(Above(cmd.key[2], cmd.last))]
  /\ UNCHANGED <<cursors, pages, commands, spineVars>>

\* mailboxes get: the mailbox alone.
MailboxDetail ==
  /\ Called("show")
  /\ cmd' = [cmd EXCEPT !.pc = "shown", !.next = nextSeq[cmd.key[2]],
                        !.waiting = Cardinality(Above(cmd.key[2], 0))]
  /\ UNCHANGED <<cursors, pages, commands, spineVars>>

\* Faulty: the subtraction that computes inflight starts one too low.
InflightShort == IF cmd.next > cmd.last + 1 THEN cmd.next - cmd.last - 2 ELSE 0

\* The inflight count cursors get shows, an unsigned number in the code.
Inflight == IF cmd.next > cmd.last THEN cmd.next - cmd.last - 1 ELSE 0

\* A $set, without upsert: an error when no cursor matches.
ResetCursor(k, n) == k \in DOMAIN cursors /\ SetCursor(k, n)

\* cursors reset.
Reset ==
  /\ Called("reset")
  /\ \/ ResetCursor(cmd.key, cmd.seq)
     \/ cmd.key \notin DOMAIN cursors /\ UNCHANGED cursors
  /\ Ends
  /\ UNCHANGED <<pages, commands, spineVars>>

\* The ACK of mspinectl ack reaches the database.
AckCommand ==
  /\ Called("ack")
  /\ UpdateAckPosition(cmd.key, cmd.seq)
  /\ Ends
  /\ UNCHANGED <<pages, commands, spineVars>>

\* Rows after the deleted ones move up in a listing of the cursors.
DeleteServerCursors(s) ==
  LET left == {k \in DOMAIN cursors : k[1] # s} IN
    /\ cursors' = [k \in left |-> cursors[k]]
    /\ pages' = IF pages.what = "cursors" /\ left # DOMAIN cursors
                THEN [pages EXCEPT !.kept = {}]
                ELSE pages

\* cursors delete-server.
DeleteServer ==
  /\ Called("delete-server")
  /\ DeleteServerCursors(cmd.key[1])
  /\ Ends
  /\ UNCHANGED <<commands, spineVars>>

\* Of the rows a listing of the mailbox m began with, the deleted ones are gone.
KeepsListing(m) ==
  pages' = IF pages.what = m THEN [pages EXCEPT !.kept = pages.kept \cap envelopes']
                             ELSE pages

\* mailboxes clear-outbox: both writes of ClearMailbox.
ClearOutbox ==
  /\ \/ /\ Called("clear-outbox")
        /\ ClearDelete(cmd.key[2])
        /\ cmd' = [cmd EXCEPT !.pc = "clear"]
        /\ KeepsListing(cmd.key[2])
     \/ /\ cmd.pc = "clear"
        /\ ClearReset(cmd.key[2]) \/ ClearFails(cmd.key[2])
        /\ Ends
        /\ UNCHANGED pages
  /\ UNCHANGED <<cursors, commands, routingVars>>

\* mailboxes purge-expired: there may be nothing to purge.
PurgeExpiredCmd ==
  /\ Called("purge-expired")
  /\ \/ /\ \E X \in SUBSET Expiring : PurgeExpired(cmd.key[2], X)
        /\ KeepsListing(cmd.key[2])
     \/ UNCHANGED <<mailboxVars, pages>>
  /\ Ends
  /\ UNCHANGED <<cursors, commands, routingVars>>

\* Another operator resets a cursor, deletes those of a server or purges a
\* mailbox, perhaps between the two reads of cursors get.
OtherOperator ==
  /\ Active < MaxBusy
  /\ commands < MaxCommands
  /\ commands' = commands + 1
  /\ \/ \E k \in Key, n \in Positions : ResetCursor(k, n) /\ UNCHANGED <<pages, mailboxVars>>
     \/ \E s \in Subscribers : DeleteServerCursors(s) /\ UNCHANGED mailboxVars
     \/ \E m \in Mailboxes, X \in SUBSET Expiring :
          PurgeExpired(m, X) /\ KeepsListing(m) /\ UNCHANGED cursors
  /\ UNCHANGED <<cmd, routingVars>>
-----------------------------------------------------------------------------
(* cursors list and mailboxes list-envelopes *)

\* Without --limit a page has 50 rows.
PageSize == IF Limit = 0 THEN 50 ELSE Limit

\* Faulty: sorted by server_id only, so rows of a server come in any order.
RowOrdersByServer ==
  {o \in [DOMAIN Order -> Key] :
     /\ \A i \in DOMAIN Order : o[i][1] = Order[i][1]
     /\ \A i, j \in DOMAIN Order : o[i] = o[j] => i = j}

\* The orders in which Find may return the rows: the sort key is unique.
RowOrders == {Order}

\* The number of the i-th key of o among the rows there are.
RowNumber(o, i) == Cardinality({j \in 1..i : o[j] \in DOMAIN cursors})

\* With skip and limit, the rows from one number to another.
FindRows(o, skip, limit) ==
  {o[i] : i \in {j \in DOMAIN o : /\ o[j] \in DOMAIN cursors
                                /\ skip < RowNumber(o, j)
                                /\ RowNumber(o, j) <= skip + limit}}

StartListing(what, rows) ==
  /\ pages.pc = "off"
  /\ Begin
  /\ pages' = [NoListing EXCEPT !.pc = "on", !.what = what, !.kept = rows]
  /\ UNCHANGED <<cursors, cmd, spineVars>>

cursorsListCmd == StartListing("cursors", DOMAIN cursors)

mailboxesListEnvelopesCmd(m) ==
  m \in Existing /\ StartListing(m, {e \in envelopes : e.mb = m})

\* One page is shown; a short one is the last.
Page(rows, size, next) ==
  /\ pages' = [pages EXCEPT !.seen = pages.seen \cup rows,
                            !.offset = next,
                            !.pc = IF Cardinality(rows) < size THEN "end" ELSE "on"]
  /\ UNCHANGED <<cursors, cmd, commands, spineVars>>

\* The next page starts where, by its offset, this one ended.
ListCursors ==
  /\ pages.pc = "on"
  /\ pages.what = "cursors"
  /\ \E o \in RowOrders :
       Page(FindRows(o, pages.offset, PageSize), PageSize, pages.offset + PageSize)

\* Without --limit a page has 20 envelopes.
EnvelopePageSize == IF Limit = 0 THEN 20 ELSE Limit

\* The envelopes of a mailbox at or above a position, the lowest ones.
FetchEnvelopes(m, from, limit) ==
  LET found == {e \in envelopes : e.mb = m /\ e.seq >= from}
  IN {e \in found : Cardinality({f \in found : f.seq < e.seq}) < limit}

\* The next page starts, by its --from-seq, after the last position shown.
ListEnvelopes ==
  /\ pages.pc = "on"
  /\ pages.what \in Mailboxes
  /\ LET rows == FetchEnvelopes(pages.what, pages.offset, EnvelopePageSize)
     IN Page(rows, EnvelopePageSize,
             Max({pages.offset} \cup {e.seq + 1 : e \in rows}))

ListingEnds ==
  /\ pages.pc = "end"
  /\ pages' = NoListing
  /\ UNCHANGED <<cursors, cmd, commands, spineVars>>
-----------------------------------------------------------------------------
\* The admin server dies with the process: the command and the listing fail.
ConsoleCrash ==
  /\ RoutingCrash
  /\ cmd' = NoCommand
  /\ pages' = NoListing
  /\ UNCHANGED <<cursors, commands>>

ConsoleStep ==
  \/ \E k \in Key :
       \/ cursorsGetCmd(k) \/ cursorsDeleteServerCmd(k[1])
       \/ \E n \in Positions : cursorsResetCmd(k, n) \/ newAckCmd(k, n)
       \/ mailboxesGetCmd(k) \/ mailboxesClearOutboxCmd(k)
       \/ mailboxesPurgeExpiredCmd(k)
  \/ CallFails \/ CommandEnds
  \/ GetCursor \/ GetMailbox \/ MailboxDetail
  \/ Reset \/ DeleteServer \/ AckCommand
  \/ ClearOutbox \/ PurgeExpiredCmd
  \/ cursorsListCmd \/ \E m \in Mailboxes : mailboxesListEnvelopesCmd(m)
  \/ ListCursors \/ ListEnvelopes \/ ListingEnds

ConsoleNext ==
  \/ Active < MaxBusy /\ Call /\ UNCHANGED consoleVars
  \/ RoutingStep /\ UNCHANGED consoleVars
  \/ \E s \in Subscribers, e \in published : AutoAck(s, e)
  \/ ConsoleStep
  \/ OtherOperator
  \/ ConsoleCrash

ConsoleSpec ==
  ConsoleInit /\ [][ConsoleNext]_<<spineVars, consoleVars>>
-----------------------------------------------------------------------------
(* Properties *)

\* What the console says of a mailbox never hides a backlog: the inflight
\* count of cursors get (and next_seq - 1 of mailboxes get) is at least the
\* number of envelopes stored above the cursor when the mailbox was read,
\* whatever is published or acknowledged, and whatever other operators reset,
\* delete or purge, between the two reads.  Excepted are a mailbox that could
\* not be read (shown with next_seq 0) and mailboxes an operator clears, where
\* next_seq starts over (cursors_service.go:60-70).
InflightCovers ==
  cmd.pc = "shown" /\ cmd.verb \in {"get", "show"} /\ cmd.next > 0 =>
    cmd.key[2] \in Clearable \/ cmd.waiting <= Inflight

\* An operator who pages through cursors list or list-envelopes to the end
\* has seen every row that was there all along, although acknowledgements,
\* publishes and purges add and remove rows between the pages.  Excepted is a
\* listing of cursors during which cursors are deleted: the rows behind them
\* move to pages already seen (session_repository.go:243-246,
\* mailbox_repository.go:111-120).
PagesCover == pages.pc = "end" => pages.kept \subseteq pages.seen
=============================================================================
