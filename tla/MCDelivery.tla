------------------------------ MODULE MCDelivery ------------------------------
(* Delivery on small instances. *)
EXTENDS Delivery, TLC

CONSTANTS m1, m2, p1, p2, c1, c2, t1, u1

\* Two commands, a control envelope and one of unspecified QoS.
MCQoSOf ==
  [i \in Ids |-> CASE i \in {c1, c2} -> "COMMAND"
                    [] i = t1 -> "CONTROL"
                    [] i = u1 -> "UNSPECIFIED"]

\* One envelope of each QoS may be in flight ...
MCTight == [q \in QoS |-> 1]

\* ... or each QoS may use up the total.
MCAmple == [q \in QoS |-> MaxInflightTotal]

MCTwoEach == [m \in Mailboxes |-> 2]
MCThreeEach == [m \in Mailboxes |-> 3]

MCSymmetry == Permutations(Publishers)
=============================================================================
