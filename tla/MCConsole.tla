------------------------------ MODULE MCConsole ------------------------------
(* Console on a small instance. *)
EXTENDS Console, TLC

CONSTANTS m1, m2, p1, s1, i1, i2

\* Published with --qos control.
MCQoSOf == [i \in {i1, i2} |-> protoToQoS(parseQoS("control"))]

\* The ids are interchangeable.
MCSymmetry == Permutations({i1, i2})

MCMaxSeq == (m1 :> 2) @@ (m2 :> 1)

MCTarget(word, org) == [type |-> word, id |-> "t", org |-> org]

\* At the command line a server and a broadcast to its org, and a
\* word that is no type.
MCCommands ==
  {MCTarget(word, "o") : word \in {"SERVER", "broadcast", "device"}}

\* From a program a cluster of another org, with a target without a type.
MCRequests ==
  {<<MCTarget("TARGET_TYPE_CLUSTER", "p"), MCTarget("TARGET_TYPE_UNSPECIFIED", "p")>>}

MCOrder == <<<<s1, m1>>, <<s1, m2>>>>
=============================================================================
