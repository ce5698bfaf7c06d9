---------------------------- MODULE Certificates ----------------------------
(***************************************************************************)
(* The server's TLS certificate: fetched from server_api before the server *)
(* starts, kept in two files that are written one after the other, renewed *)
(* by a loop that looks at the files once a day, and handed to new TLS     *)
(* handshakes through the CertManager.                                     *)
(*                                                                         *)
(* Time is counted in periods of the renewal ticker (24 hours): a          *)
(* certificate is what is left of its validity and the CA that signed it.  *)
(* Requests to server_api and the token endpoint may fail, and, having no  *)
(* timeout, may take any number of days.  The process may die between any  *)
(* two steps, the two file writes included.                                *)
(***************************************************************************)
EXTENDS Naturals

CONSTANTS
  Validity,      \* days a new certificate is valid
  RenewBefore,   \* bootstrap.renew_before_days
  MaxAttempts,   \* attempts of runBootstrap: 5 in the code
  MaxCA,         \* bound on the generations of the CA of server_api
  NoCert         \* no certificate

ASSUME CertificatesAssumption ==
  /\ RenewBefore \in Nat /\ Validity \in Nat /\ RenewBefore < Validity
  /\ MaxAttempts \in Nat \ {0}
  /\ MaxCA \in Nat \ {0}
  /\ NoCert \notin [left : Nat, ca : Nat]
  /\ NoCert \notin [left : Nat, ca : Nat, paired : BOOLEAN]

VARIABLES
  ca,       \* the generation of server_api's CA
  caFile,   \* the CA certificate on disk, 0 when there is none
  disk,     \* the certificate file, and whether the key file belongs to it
  live,     \* CertManager.cert
  issued,   \* the certificate EnsureCert has received and not yet stored
  certPc,   \* where bootstrap or the renewal loop is
  attempt,  \* attempt of runBootstrap
  tick,     \* a tick waits in ticker.C
  unchecked \* days since bootstrap or the renewal check last succeeded

certVars ==
  <<ca, caFile, disk, live, issued, certPc, attempt, tick, unchecked>>

Certificate == [left : 0..Validity, ca : 1..MaxCA]
Fresh == [left |-> Validity, ca |-> ca]
Stored(c, paired) == [left |-> c.left, ca |-> c.ca, paired |-> paired]

CertTypeOK ==
  /\ ca \in 1..MaxCA
  /\ caFile \in 0..MaxCA
  /\ disk \in [left : 0..Validity, ca : 1..MaxCA, paired : BOOLEAN] \cup {NoCert}
  /\ live \in Certificate \cup {NoCert}
  /\ issued \in Certificate \cup {NoCert}
  /\ certPc \in {"off", "ca", "check", "token", "sign", "cert", "key", "wait"}
  /\ certPc \in {"cert", "key"} => issued \in Certificate
  /\ certPc = "key" => disk # NoCert
  /\ attempt \in 1..MaxAttempts
  /\ tick \in BOOLEAN
  /\ unchecked \in 0..Validity

CertInit ==
  /\ ca = 1 /\ caFile = 0
  /\ disk = NoCert /\ live = NoCert /\ issued = NoCert
  /\ certPc = "off" /\ attempt = 1 /\ tick = FALSE /\ unchecked = 0
-----------------------------------------------------------------------------
(* Bootstrap *)

\* runBootstrap begins.
Bootstrap ==
  /\ certPc = "off"
  /\ certPc' = "ca" /\ attempt' = 1
  /\ UNCHANGED <<ca, caFile, disk, live, issued, tick, unchecked>>

\* EnsureCACert: the CA of server_api replaces the file.
EnsureCACert ==
  /\ certPc = "ca"
  /\ caFile' = ca
  /\ certPc' = "check" /\ attempt' = 1
  /\ UNCHANGED <<ca, disk, live, issued, tick, unchecked>>

\* The request or the write fails: another attempt.
EnsureCACertFails ==
  /\ certPc = "ca"
  /\ attempt < MaxAttempts
  /\ attempt' = attempt + 1
  /\ UNCHANGED <<ca, caFile, disk, live, issued, certPc, tick, unchecked>>

\* tls.LoadX509KeyPair
Loadable == disk # NoCert /\ disk.paired

\* More than RenewBefore days remain.
LongValid == disk.left > RenewBefore

\* verifyCertAgainstCA, which also rejects a certificate that has expired.
SignedByCA == disk.ca = caFile /\ disk.left > 0

\* EnsureCert or checkAndRenew returned a certificate or found nothing to do.
\* The first certificate makes the CertManager, later ones Update it.
Succeed(c) ==
  /\ live' = c
  /\ issued' = NoCert
  /\ certPc' = "wait" /\ attempt' = 1
  /\ unchecked' = 0

\* Faulty: the pair on disk is taken without loading its key.
EnsureCertUnpaired ==
  /\ certPc = "check"
  /\ IF disk # NoCert /\ LongValid /\ SignedByCA
       THEN Succeed([left |-> disk.left, ca |-> disk.ca])
       ELSE certPc' = "token" /\ UNCHANGED <<live, issued, attempt, unchecked>>
  /\ UNCHANGED <<ca, caFile, disk, tick>>

\* EnsureCert looks at the files: use them or ask for a new certificate.
EnsureCert ==
  /\ certPc = "check"
  /\ IF Loadable /\ LongValid /\ SignedByCA
       THEN Succeed([left |-> disk.left, ca |-> disk.ca])
       ELSE certPc' = "token" /\ UNCHANGED <<live, issued, attempt, unchecked>>
  /\ UNCHANGED <<ca, caFile, disk, tick>>

\* fetchM2MToken, then a new key and its CSR.
FetchM2MToken ==
  /\ certPc = "token"
  /\ certPc' = "sign"
  /\ UNCHANGED <<ca, caFile, disk, live, issued, attempt, tick, unchecked>>

\* signServiceCSR: the CA of this moment signs.
SignServiceCSR ==
  /\ certPc = "sign"
  /\ issued' = Fresh
  /\ certPc' = "cert"
  /\ UNCHANGED <<ca, caFile, disk, live, attempt, tick, unchecked>>

\* The certificate file is replaced; the key file still holds the old key.
WriteCert ==
  /\ certPc = "cert"
  /\ disk' = Stored(issued, FALSE)
  /\ certPc' = "key"
  /\ UNCHANGED <<ca, caFile, live, issued, attempt, tick, unchecked>>

\* Faulty: the renewed certificate is stored and the old one stays in use.
WriteKeyOnly ==
  /\ certPc = "key"
  /\ disk' = Stored(disk, TRUE)
  /\ Succeed(IF live = NoCert THEN issued ELSE live)
  /\ UNCHANGED <<ca, caFile, tick>>

\* The key file is replaced, and the new pair is used.
WriteKey ==
  /\ certPc = "key"
  /\ disk' = Stored(disk, TRUE)
  /\ Succeed(issued)
  /\ UNCHANGED <<ca, caFile, tick>>

\* EnsureCert returns an error: the next attempt of bootstrap, or the next
\* tick of the renewal loop.  A pair that cannot be parsed is written already.
EnsureCertFails ==
  /\ certPc \in {"token", "sign", "cert", "key"}
  /\ IF live = NoCert
       THEN attempt < MaxAttempts /\ attempt' = attempt + 1 /\ certPc' = "check"
       ELSE certPc' = "wait" /\ UNCHANGED attempt
  /\ issued' = NoCert
  /\ UNCHANGED <<ca, caFile, disk, live, tick, unchecked>>
-----------------------------------------------------------------------------
(* The renewal loop *)

\* checkAndRenew: the files decide whether there is anything to do; EnsureCert
\* then looks at them again.
CheckAndRenew ==
  /\ certPc = "wait" /\ tick
  /\ tick' = FALSE
  /\ IF Loadable /\ LongValid
       THEN unchecked' = 0 /\ UNCHANGED certPc
       ELSE certPc' = "check" /\ UNCHANGED unchecked
  /\ UNCHANGED <<ca, caFile, disk, live, issued, attempt>>

CertStep ==
  \/ EnsureCACert
  \/ EnsureCACertFails
  \/ EnsureCert
  \/ FetchM2MToken
  \/ SignServiceCSR
  \/ WriteCert
  \/ WriteKey
  \/ EnsureCertFails
  \/ CheckAndRenew

\* The last attempt of runBootstrap fails: os.Exit(1).
GivesUp ==
  /\ certPc \in {"ca", "token", "sign", "cert", "key"}
  /\ live = NoCert /\ attempt = MaxAttempts
-----------------------------------------------------------------------------
(* The environment *)

Sooner(n) == IF n = 0 THEN 0 ELSE n - 1
Age(c) == IF c = NoCert THEN c ELSE [c EXCEPT !.left = Sooner(c.left)]

\* A day passes, not while files are being written; the ticker of a running
\* loop keeps at most one tick.
Day ==
  /\ certPc \notin {"cert", "key"}
  /\ disk' = Age(disk) /\ live' = Age(live)
  /\ tick' = (live # NoCert)
  /\ unchecked' = IF unchecked < Validity THEN unchecked + 1 ELSE unchecked
  /\ UNCHANGED <<ca, caFile, issued, certPc, attempt>>

\* server_api changes its CA.
RotateCA ==
  /\ ca < MaxCA
  /\ ca' = ca + 1
  /\ UNCHANGED <<caFile, disk, live, issued, certPc, attempt, tick, unchecked>>

\* The process ends, wherever it is: the files stay as they are.
CertExit ==
  /\ live' = NoCert /\ issued' = NoCert
  /\ certPc' = "off" /\ attempt' = 1 /\ tick' = FALSE
  /\ UNCHANGED <<ca, caFile, disk, unchecked>>
-----------------------------------------------------------------------------
(* Properties *)

\* The certificate in use lasts RenewBefore days longer than the last daily
\* check that succeeded, whatever failures, slow requests and restarts lie
\* between: it expires only when no check has succeeded for that long.
RenewedInTime == live # NoCert => live.left + unchecked > RenewBefore

\* After a check that succeeded the two files are a pair, and the pair in use:
\* a crash between the two writes, or a write that failed, does not outlast
\* it, and a restart finds the certificate that was served.
FilesServed ==
  certPc = "wait" /\ unchecked = 0 => Loadable /\ disk = Stored(live, TRUE)
=============================================================================
