------------------------------ MODULE DurableLog ------------------------------
(***************************************************************************)
(* What the mailboxes of a server promise their reader, free of publishers,*)
(* connections, loops and counters: an ordered log per mailbox, a reader   *)
(* that sees entries of the log, and a committed position that never       *)
(* passes an entry the reader has not seen.                                *)
(***************************************************************************)
EXTENDS Integers

CONSTANTS Boxes, Entry

VARIABLES
  log,    \* entries stored now
  born,   \* entries ever stored
  seen,   \* entries the reader has seen
  acked   \* the committed position of each box

logVars == <<log, born, seen, acked>>

LogInit ==
  /\ log = {} /\ born = {} /\ seen = {}
  /\ acked = [b \in Boxes |-> 0]

\* A new entry goes above every entry its box ever had.
AppendEntry(e) ==
  /\ e \in Entry
  /\ \A f \in born : f.mb = e.mb => f.seq < e.seq
  /\ log' = log \cup {e}
  /\ born' = born \cup {e}
  /\ UNCHANGED <<seen, acked>>

\* Entries expire.
Remove ==
  /\ log' \subseteq log
  /\ UNCHANGED <<born, seen, acked>>

\* The reader sees entries, possibly again; only what was stored.
See ==
  /\ seen \subseteq seen' /\ seen' \subseteq seen \cup born
  /\ UNCHANGED <<log, born, acked>>

\* Everything stored up to the new position has been seen.
Commit(b) ==
  /\ acked'[b] > acked[b]
  /\ acked' = [acked EXCEPT ![b] = acked'[b]]
  /\ \A e \in log : e.mb = b /\ e.seq <= acked'[b] => e \in seen
  /\ UNCHANGED <<log, born, seen>>

LogNext ==
  \/ \E e \in log' : AppendEntry(e)
  \/ Remove
  \/ See
  \/ \E b \in Boxes : Commit(b)

LogSpec == LogInit /\ [][LogNext]_logVars
=============================================================================
