------------------------------ MODULE MCMailbox ------------------------------
(* Mailbox on small instances. *)
EXTENDS Mailbox, TLC

CONSTANTS m1, m2, p1, p2, i1, i2

\* i1 never expires, i2 may.
MCQoSOf == (i1 :> "COMMAND") @@ (i2 :> "CONTROL")

\* m1, which is never cleared, takes two envelopes and m2 one at a time.
MCMaxSeq == (m1 :> 2) @@ (m2 :> 1)

MCSymmetry == Permutations({p1, p2})
=============================================================================
