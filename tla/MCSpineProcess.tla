--------------------------- MODULE MCSpineProcess ---------------------------
(* SpineProcess on a small instance. *)
EXTENDS SpineProcess, TLC

CONSTANTS t1, t2, c1

MCKinds == <<"session", "delivery">>
MCKindOf == (t1 :> "session") @@ (t2 :> "session")

\* The admin socket is left disabled, as config.yaml.example advises.
Production ==
  [stderr |-> FALSE, file |-> FALSE, port |-> 9090, mongo |-> TRUE,
   workers |-> 1, tls |-> TRUE, clientAuth |-> "require_and_verify",
   certCN |-> TRUE, headerAuth |-> TRUE, requireMTLS |-> TRUE,
   adminSocket |-> FALSE]

\* Certificates staged on disk; there are none.
Staged == [Production EXCEPT !.certCN = FALSE]

\* Local development: no TLS, calls without a header are let in, and there is
\* an admin socket.
Local == [Production EXCEPT !.tls = FALSE, !.requireMTLS = FALSE,
                            !.headerAuth = FALSE, !.adminSocket = TRUE]

\* No workers.
Invalid == [Production EXCEPT !.workers = 0]

MCConfigFiles == {Production, Staged, Local, Invalid}

\* Too far ahead, just not, just not too old, and too old.
MCAges == {-2, -1, 1, 2}
=============================================================================
