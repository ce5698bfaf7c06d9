---------------------------- MODULE ProcessProofs ----------------------------
(***************************************************************************)
(* Proofs about the server process: its types, its certificate, the order  *)
(* of start-up and shutdown, and the agreement of the two ends of header   *)
(* authentication, for any configuration, number of pools, workers, tasks  *)
(* and calls, and any lifetime of certificates.                            *)
(***************************************************************************)
EXTENDS SpineProcess, TLAPS

-----------------------------------------------------------------------------
(* The certificate *)

\* What the files, the certificate in use and the progress of a renewal have to
\* do with each other: a pair on disk is the pair in use, a certificate being
\* stored is new, and a renewal that has begun was due.
Renewing == certPc \in {"check", "token", "sign", "cert", "key"}
CertInv ==
  /\ CertTypeOK
  /\ live # NoCert /\ Loadable => disk = Stored(live, TRUE)
  /\ certPc \in {"cert", "key"} => issued.left = Validity
  /\ certPc = "key" => disk = Stored(issued, FALSE)
  /\ live # NoCert /\ Renewing => unchecked > 0
  /\ live # NoCert => certPc \notin {"off", "ca"}
  /\ certPc = "wait" => live # NoCert
  /\ RenewedInTime
  /\ FilesServed

\* A certificate is not NoCert, and what is written for it is as long valid.
LEMMA CertificateShape ==
  /\ NoCert \notin Certificate
  /\ \A c \in Certificate, b \in BOOLEAN :
       /\ Stored(c, b) \in [left : 0..Validity, ca : 1..MaxCA, paired : BOOLEAN]
       /\ Stored(c, b) # NoCert /\ c # NoCert
       /\ Stored(c, b).left = c.left /\ Stored(c, b).ca = c.ca /\ Stored(c, b).paired = b
  /\ NoCert \notin [left : 0..Validity, ca : 1..MaxCA, paired : BOOLEAN]
<1>1. NoCert \notin Certificate
  BY CertificatesAssumption DEF Certificate, CertificatesAssumption
<1>2. NoCert \notin [left : 0..Validity, ca : 1..MaxCA, paired : BOOLEAN]
  BY CertificatesAssumption DEF CertificatesAssumption
<1>3. ASSUME NEW c \in Certificate, NEW b \in BOOLEAN
      PROVE  /\ Stored(c, b) \in [left : 0..Validity, ca : 1..MaxCA, paired : BOOLEAN]
             /\ Stored(c, b).left = c.left /\ Stored(c, b).ca = c.ca /\ Stored(c, b).paired = b
  BY <1>3 DEF Certificate, Stored
<1> QED  BY <1>1, <1>2, <1>3

\* A day takes at most a day of what is left of a certificate.
LEMMA Ageing ==
  /\ \A c \in Certificate :
       /\ Age(c) \in Certificate /\ Age(c).left + 1 >= c.left
       /\ \A b \in BOOLEAN : Age(Stored(c, b)) = Stored(Age(c), b)
  /\ \A d \in [left : 0..Validity, ca : 1..MaxCA, paired : BOOLEAN] :
       /\ Age(d) \in [left : 0..Validity, ca : 1..MaxCA, paired : BOOLEAN]
       /\ Age(d).paired = d.paired
<1>0. \A n \in 0..Validity : Sooner(n) \in 0..Validity /\ Sooner(n) + 1 >= n
  BY CertificatesAssumption DEF Sooner, CertificatesAssumption
<1> HIDE DEF Sooner
<1>1. ASSUME NEW c \in Certificate
      PROVE  /\ Age(c) = [c EXCEPT !.left = Sooner(c.left)]
             /\ Age(c) \in Certificate /\ Age(c).left + 1 >= c.left
  BY <1>0, <1>1, CertificateShape DEF Age, Certificate
<1>2. ASSUME NEW d \in [left : 0..Validity, ca : 1..MaxCA, paired : BOOLEAN]
      PROVE  /\ Age(d) = [d EXCEPT !.left = Sooner(d.left)]
             /\ Age(d) \in [left : 0..Validity, ca : 1..MaxCA, paired : BOOLEAN]
             /\ Age(d).paired = d.paired
  BY <1>0, <1>2, CertificateShape DEF Age
<1>3. ASSUME NEW c \in Certificate, NEW b \in BOOLEAN
      PROVE  Age(Stored(c, b)) = Stored(Age(c), b)
  <2>1. Age(Stored(c, b)) = [Stored(c, b) EXCEPT !.left = Sooner(Stored(c, b).left)]
    BY <1>2, <1>3, CertificateShape
  <2>2. Age(c) = [c EXCEPT !.left = Sooner(c.left)]
    BY <1>1, <1>3
  <2> QED  BY <1>0, <1>3, <2>1, <2>2 DEF Stored, Certificate
<1> QED  BY <1>1, <1>2, <1>3

\* What the constants are, and the values that variables start with.
LEMMA Bounds ==
  /\ RenewBefore \in Nat /\ Validity \in Nat /\ RenewBefore < Validity /\ Validity > 0
  /\ MaxAttempts \in Nat /\ MaxCA \in Nat
  /\ 1 \in 1..MaxCA /\ 1 \in 1..MaxAttempts /\ 0 \in 0..MaxCA /\ 0 \in 0..Validity
  BY CertificatesAssumption DEF CertificatesAssumption

\* CertInv holds before the first certificate is made.
LEMMA CertInvInit == CertInit => CertInv
<1> SUFFICES ASSUME CertInit  PROVE CertInv
  OBVIOUS
<1>1. CertTypeOK
  BY Bounds DEF CertInit, CertTypeOK
<1> QED
  BY <1>1 DEF CertInit, CertInv, Renewing, RenewedInTime, FilesServed

\* Bootstrap and the steps of EnsureCert that store nothing.
LEMMA FetchKeepsCert ==
  ASSUME CertInv,
         \/ Bootstrap \/ EnsureCACert \/ EnsureCACertFails \/ FetchM2MToken
         \/ SignServiceCSR \/ EnsureCertFails \/ RotateCA \/ CertExit
  PROVE  CertInv'
<1> USE Bounds
<1>1. CASE Bootstrap \/ EnsureCACert \/ EnsureCACertFails \/ FetchM2MToken \/ RotateCA
  <2>1. /\ UNCHANGED <<disk, live, issued, unchecked>>
        /\ certPc' \notin {"wait", "cert", "key", "off"} \/ certPc' = certPc
        /\ certPc' = "ca" => certPc \in {"off", "ca"}
        /\ Renewing' => Renewing \/ certPc = "ca"
    BY <1>1 DEF Bootstrap, EnsureCACert, EnsureCACertFails, FetchM2MToken, RotateCA, Renewing
  <2>2. CertTypeOK'
    <3>1. ca' \in 1..MaxCA /\ caFile' \in 0..MaxCA /\ attempt' \in 1..MaxAttempts
      BY <1>1 DEF CertInv, CertTypeOK, Bootstrap, EnsureCACert, EnsureCACertFails,
                  FetchM2MToken, RotateCA
    <3>2. tick' = tick /\ certPc' \in {"off", "ca", "check", "token", "sign", "cert", "key", "wait"}
      BY <1>1 DEF CertInv, CertTypeOK, Bootstrap, EnsureCACert, EnsureCACertFails,
                  FetchM2MToken, RotateCA
    <3> QED  BY <2>1, <3>1, <3>2 DEF CertInv, CertTypeOK, Certificate
  <2> QED
    BY <2>1, <2>2 DEF CertInv, Renewing, Loadable, RenewedInTime, FilesServed, Stored
<1>2. CASE SignServiceCSR
  <2>1. /\ UNCHANGED <<ca, caFile, disk, live, attempt, tick, unchecked>>
        /\ certPc = "sign" /\ certPc' = "cert" /\ issued' = Fresh
    BY <1>2 DEF SignServiceCSR
  <2>2. Fresh \in Certificate /\ Fresh.left = Validity
    BY DEF Fresh, Certificate, CertInv, CertTypeOK
  <2>3. CertTypeOK'
    BY <2>1, <2>2 DEF CertInv, CertTypeOK, Certificate
  <2> QED
    BY <2>1, <2>2, <2>3 DEF CertInv, Renewing, Loadable, RenewedInTime, FilesServed, Stored
<1>3. CASE EnsureCertFails
  <2>1. /\ UNCHANGED <<ca, caFile, disk, live, tick, unchecked>> /\ issued' = NoCert
        /\ Renewing
        /\ \/ live = NoCert /\ certPc' = "check" /\ attempt' = attempt + 1 /\ attempt < MaxAttempts
           \/ live # NoCert /\ certPc' = "wait" /\ attempt' = attempt
    BY <1>3 DEF EnsureCertFails, Renewing
  <2>2. CertTypeOK'
    BY <2>1 DEF CertInv, CertTypeOK, Certificate
  <2> QED
    BY <2>1, <2>2 DEF CertInv, Renewing, Loadable, RenewedInTime, FilesServed, Stored
<1>4. CASE CertExit
  <2>1. CertTypeOK'
    BY <1>4 DEF CertExit, CertInv, CertTypeOK, Certificate
  <2> QED
    BY <1>4, <2>1 DEF CertExit, CertInv, Renewing, Loadable, RenewedInTime, FilesServed, Stored
<1> QED  BY <1>1, <1>2, <1>3, <1>4

\* Storing a certificate, taking the stored one, and the daily check.
LEMMA StoreKeepsCert ==
  ASSUME CertInv, WriteCert \/ WriteKey \/ EnsureCert \/ CheckAndRenew
  PROVE  CertInv'
<1> USE Bounds
<1>0. CertTypeOK /\ NoCert \notin Certificate
  BY CertificateShape DEF CertInv
<1>1. CASE WriteCert
  <2>1. /\ UNCHANGED <<ca, caFile, live, issued, attempt, tick, unchecked>>
        /\ certPc = "cert" /\ certPc' = "key" /\ disk' = Stored(issued, FALSE)
    BY <1>1 DEF WriteCert
  <2>2. issued \in Certificate
    BY <2>1 DEF CertInv, CertTypeOK
  <2>3. disk'.paired = FALSE /\ disk' # NoCert
        /\ disk' \in [left : 0..Validity, ca : 1..MaxCA, paired : BOOLEAN]
    BY <2>1, <2>2, CertificateShape, Zenon
  <2>4. CertTypeOK'
    BY <1>0, <2>1, <2>2, <2>3, Zenon DEF CertTypeOK, Certificate
  <2> QED
    BY <2>1, <2>3, <2>4 DEF CertInv, Renewing, Loadable, RenewedInTime, FilesServed, Stored
<1>2. ASSUME NEW c \in Certificate, Succeed(c), disk' = Stored(c, TRUE), c.left > RenewBefore,
             UNCHANGED <<ca, caFile, tick>>
      PROVE  CertInv'
  <2>1. /\ live' = c /\ live' # NoCert /\ issued' = NoCert /\ certPc' = "wait" /\ attempt' = 1
        /\ unchecked' = 0
    BY <1>0, <1>2 DEF Succeed
  <2>2. disk' # NoCert /\ disk'.paired
        /\ disk' \in [left : 0..Validity, ca : 1..MaxCA, paired : BOOLEAN]
    BY <1>2, CertificateShape, Zenon
  <2>3. CertTypeOK'
    BY <1>0, <1>2, <2>1, <2>2, Zenon DEF CertTypeOK, Certificate
  <2>4. RenewedInTime' /\ FilesServed'
    <3>1. c.left \in Nat
      BY <1>2 DEF Certificate
    <3>2. live'.left + unchecked' > RenewBefore
      BY <1>2, <2>1, <3>1
    <3> QED  BY <1>2, <2>1, <2>2, <3>2 DEF RenewedInTime, FilesServed, Loadable
  <2> QED
    BY <1>2, <2>1, <2>2, <2>3, <2>4 DEF CertInv, Renewing, Loadable
<1>3. CASE WriteKey
  <2>1. /\ UNCHANGED <<ca, caFile, tick>> /\ certPc = "key" /\ Succeed(issued)
        /\ disk' = Stored(disk, TRUE)
    BY <1>3 DEF WriteKey
  <2>2. issued \in Certificate /\ issued.left > RenewBefore
    BY <2>1 DEF CertInv, CertTypeOK
  <2>3. disk' = Stored(issued, TRUE)
    <3>1. disk.left = issued.left /\ disk.ca = issued.ca
      BY <2>1, <2>2, CertificateShape, Zenon DEF CertInv
    <3> QED  BY <2>1, <3>1 DEF Stored
  <2> QED  BY <1>2, <2>1, <2>2, <2>3, Zenon
<1>4. CASE EnsureCert
  <2>1. certPc = "check" /\ UNCHANGED <<ca, caFile, disk, tick>>
    BY <1>4 DEF EnsureCert
  <2>2. CASE Loadable /\ LongValid /\ SignedByCA
    <3> DEFINE c == [left |-> disk.left, ca |-> disk.ca]
    <3>1. disk \in [left : 0..Validity, ca : 1..MaxCA, paired : BOOLEAN] /\ disk.paired = TRUE
      BY <1>0, <2>2, Zenon DEF Loadable, CertTypeOK
    <3>2. c \in Certificate /\ disk = Stored(c, TRUE) /\ c.left > RenewBefore
      BY <2>2, <3>1 DEF Certificate, Stored, LongValid
    <3>3. Succeed(c)
      BY <1>4, <2>2 DEF EnsureCert
    <3> HIDE DEF c
    <3> QED  BY <1>2, <2>1, <3>2, <3>3
  <2>3. CASE ~(Loadable /\ LongValid /\ SignedByCA)
    <3>1. certPc' = "token" /\ UNCHANGED <<live, issued, attempt, unchecked>>
      BY <1>4, <2>3 DEF EnsureCert
    <3>2. CertTypeOK'
      BY <1>0, <2>1, <3>1 DEF CertTypeOK, Certificate
    <3> QED
      BY <2>1, <3>1, <3>2 DEF CertInv, Renewing, Loadable, RenewedInTime, FilesServed, Stored
  <2> QED  BY <2>2, <2>3
<1>5. CASE CheckAndRenew
  <2>1. /\ certPc = "wait" /\ tick' = FALSE
        /\ UNCHANGED <<ca, caFile, disk, live, issued, attempt>>
    BY <1>5 DEF CheckAndRenew
  <2>2. live \in Certificate /\ live # NoCert /\ unchecked \in 0..Validity
    BY <1>0, <2>1 DEF CertInv, CertTypeOK
  <2>3. Loadable => disk = Stored(live, TRUE) /\ disk.left = live.left
    BY <2>2, CertificateShape, Zenon DEF CertInv
  <2>4. CASE Loadable /\ LongValid
    <3>1. unchecked' = 0 /\ certPc' = certPc
      BY <1>5, <2>4 DEF CheckAndRenew
    <3>2. CertTypeOK'
      BY <1>0, <2>1, <3>1, Zenon DEF CertTypeOK, Certificate
    <3>3. live.left > RenewBefore /\ live.left \in Nat
      <4>1. disk.left > RenewBefore /\ disk.left = live.left
        BY <2>3, <2>4, Zenon DEF LongValid
      <4> QED  BY <2>2, <4>1 DEF Certificate
    <3> QED
      BY <2>1, <2>2, <2>3, <2>4, <3>1, <3>2, <3>3
      DEF CertInv, Renewing, Loadable, RenewedInTime, FilesServed, Stored
  <2>5. CASE ~(Loadable /\ LongValid)
    <3>1. unchecked' = unchecked /\ certPc' = "check"
      BY <1>5, <2>5 DEF CheckAndRenew
    <3>2. CertTypeOK'
      BY <1>0, <2>1, <3>1, Zenon DEF CertTypeOK, Certificate
    <3>3. unchecked > 0
      <4>1. SUFFICES ASSUME unchecked = 0  PROVE FALSE
        BY <2>2
      <4>2. Loadable /\ live.left + 0 > RenewBefore /\ live.left \in Nat
        BY <2>1, <2>2, <4>1 DEF CertInv, FilesServed, RenewedInTime, Certificate
      <4>3. ~(disk.left > RenewBefore) /\ disk.left = live.left
        BY <2>3, <2>5, <4>2, Zenon DEF LongValid
      <4> QED  BY <4>2, <4>3
    <3> QED
      BY <2>1, <2>2, <3>1, <3>2, <3>3
      DEF CertInv, Renewing, Loadable, RenewedInTime, FilesServed, Stored
  <2> QED  BY <2>4, <2>5
<1> QED  BY <1>1, <1>3, <1>4, <1>5

\* A day passes.
LEMMA DayKeepsCert ==
  ASSUME CertInv, Day
  PROVE  CertInv'
<1> DEFINE Files == [left : 0..Validity, ca : 1..MaxCA, paired : BOOLEAN]
<1>0. CertTypeOK /\ NoCert \notin Certificate /\ NoCert \notin Files
  BY CertificateShape DEF CertInv
<1>1. /\ certPc \notin {"cert", "key"} /\ disk' = Age(disk) /\ live' = Age(live)
      /\ UNCHANGED <<ca, caFile, issued, certPc, attempt>> /\ tick' \in BOOLEAN
  BY DEF Day
<1>2. unchecked \in 0..Validity /\ unchecked' \in 0..Validity /\ unchecked' > 0
      /\ (unchecked' = unchecked + 1 \/ unchecked' = Validity)
  BY <1>0, Bounds DEF Day, CertTypeOK
<1>3. \/ disk = NoCert /\ disk' = NoCert
      \/ disk \in Files /\ disk' \in Files /\ disk'.paired = disk.paired
  <2>1. Age(NoCert) = NoCert
    BY DEF Age
  <2>2. CASE disk = NoCert
    BY <1>1, <2>1, <2>2
  <2>3. CASE disk \in Files
    BY <1>1, <2>3, Ageing
  <2> QED  BY <1>0, <2>2, <2>3 DEF CertTypeOK
<1>4. \/ live = NoCert /\ live' = NoCert
      \/ /\ live \in Certificate /\ live' \in Certificate /\ live'.left + 1 >= live.left
         /\ Stored(live', TRUE) = Age(Stored(live, TRUE))
  <2>1. Age(NoCert) = NoCert /\ TRUE \in BOOLEAN
    BY DEF Age
  <2>2. CASE live = NoCert
    BY <1>1, <2>1, <2>2
  <2>3. CASE live \in Certificate
    BY <1>1, <2>1, <2>3, Ageing
  <2> QED  BY <1>0, <2>2, <2>3, Zenon DEF CertTypeOK
<1>5. CertTypeOK'
  BY <1>0, <1>1, <1>2, <1>3, <1>4, Zenon DEF CertTypeOK
<1>6. live' # NoCert /\ Loadable' => disk' = Stored(live', TRUE)
  BY <1>0, <1>1, <1>3, <1>4, Zenon DEF CertInv, Loadable
<1>7. RenewedInTime'
  <2>1. SUFFICES ASSUME live' # NoCert  PROVE live'.left + unchecked' > RenewBefore
    BY DEF RenewedInTime
  <2>2. /\ live \in Certificate /\ live' \in Certificate /\ live # NoCert
        /\ live'.left + 1 >= live.left
    BY <1>0, <1>4, <2>1
  <2>3. live.left + unchecked > RenewBefore
    BY <2>2 DEF CertInv, RenewedInTime
  <2>4. live.left \in Nat /\ live'.left \in Nat
    BY <2>2 DEF Certificate
  <2> QED  BY <1>2, <2>2, <2>3, <2>4, Bounds
<1>8. FilesServed'
  BY <1>2 DEF FilesServed
<1>9. (live' # NoCert <=> live # NoCert) /\ Renewing' = Renewing
  BY <1>0, <1>1, <1>4 DEF Renewing
<1> QED
  BY <1>1, <1>2, <1>5, <1>6, <1>7, <1>8, <1>9 DEF CertInv, Renewing

\* Nothing that happens to the certificate breaks its invariant.
LEMMA CertKept ==
  ASSUME CertInv, Bootstrap \/ CertStep \/ Day \/ RotateCA \/ CertExit \/ UNCHANGED certVars
  PROVE  CertInv'
<1>1. CASE UNCHANGED certVars
  <2>1. UNCHANGED <<ca, caFile, disk, live, issued, certPc, attempt, tick, unchecked>>
    BY <1>1 DEF certVars
  <2> QED
    BY <2>1
    DEF CertInv, CertTypeOK, Renewing, Loadable, RenewedInTime, FilesServed, Stored, Certificate
<1> QED
  BY <1>1, FetchKeepsCert, StoreKeepsCert, DayKeepsCert DEF CertStep

\* As long as the process lives, so does its certificate.
LEMMA CertStays ==
  ASSUME CertInv, Bootstrap \/ CertStep \/ Day \/ RotateCA \/ UNCHANGED certVars, live # NoCert
  PROVE  live' # NoCert
<1>0. CertTypeOK /\ live \in Certificate /\ NoCert \notin Certificate
  BY CertificateShape DEF CertInv, CertTypeOK
<1>1. CASE Day
  BY <1>0, <1>1, Ageing DEF Day
<1>2. CASE EnsureCert
  <2>1. CASE Loadable /\ LongValid /\ SignedByCA
    <3>1. disk \in [left : 0..Validity, ca : 1..MaxCA, paired : BOOLEAN]
      BY <1>0, <2>1, Zenon DEF Loadable, CertTypeOK
    <3>2. live' = [left |-> disk.left, ca |-> disk.ca]
      BY <1>2, <2>1 DEF EnsureCert, Succeed
    <3>3. live' \in Certificate
      BY <3>1, <3>2 DEF Certificate
    <3> QED  BY <1>0, <3>3
  <2> QED  BY <1>2, <2>1 DEF EnsureCert
<1>3. CASE WriteKey
  BY <1>0, <1>3 DEF WriteKey, Succeed, CertTypeOK
<1>4. CASE \/ Bootstrap \/ EnsureCACert \/ EnsureCACertFails \/ FetchM2MToken \/ SignServiceCSR
           \/ WriteCert \/ EnsureCertFails \/ CheckAndRenew \/ RotateCA \/ UNCHANGED certVars
  <2>1. UNCHANGED live
    BY <1>4 DEF Bootstrap, EnsureCACert, EnsureCACertFails, FetchM2MToken, SignServiceCSR,
                WriteCert, EnsureCertFails, CheckAndRenew, RotateCA, certVars
  <2> QED  BY <2>1
<1> QED  BY <1>1, <1>2, <1>3, <1>4 DEF CertStep

-----------------------------------------------------------------------------
(* The pools *)

\* The workers of a stopped pool are gone.
PoolInv ==
  /\ PoolTypeOK
  /\ \A w \in Workers : pool[w[1]] = "stopped" => worker[w] = "gone"

\* Starting, stopping and filling the pools.
LEMMA PoolsKept ==
  ASSUME PoolInv,
         \/ StartPools \/ StopPools \/ \E t \in Tasks : SubmitByKind(t)
  PROVE  PoolInv'
<1>0. \A w \in Workers : w[1] \in Pools
  BY DEF Workers
<1>1. CASE StartPools
  <2>1. PoolTypeOK'
    BY <1>1 DEF StartPools, PoolInv, PoolTypeOK
  <2> QED  BY <1>0, <1>1, <2>1 DEF StartPools, PoolInv
<1>2. CASE StopPools
  <2>1. PICK k \in Pools : StopPool(k)
    BY <1>2 DEF StopPools, Pools
  <2>2. UNCHANGED <<queue, worker>>
    BY <2>1 DEF StopPool
  <2>3. PICK p \in {"cancelled", "closed", "stopped"} :
          /\ pool' = [pool EXCEPT ![k] = p]
          /\ p = "stopped" => \A w \in Workers : w[1] = k => worker[w] = "gone"
    BY <2>1 DEF StopPool
  <2>4. PoolTypeOK'
    BY <2>2, <2>3 DEF PoolInv, PoolTypeOK
  <2> QED  BY <1>0, <2>2, <2>3, <2>4 DEF PoolInv, PoolTypeOK
<1>3. ASSUME NEW t \in Tasks, SubmitByKind(t)  PROVE PoolInv'
  <2>1. UNCHANGED <<pool, worker>>
    BY <1>3 DEF SubmitByKind, Submit
  <2>2. KindOf[t] \in Pools
    BY <1>3, PoolAssumption DEF PoolAssumption
  <2>3. /\ queue' = [queue EXCEPT ![KindOf[t]] = Append(queue[KindOf[t]], t)]
        /\ Len(queue[KindOf[t]]) < QueueSize
    BY <1>3 DEF SubmitByKind, Submit
  <2>4. /\ queue' \in [Pools -> Seq(Tasks)]
        /\ \A k \in Pools : Len(queue'[k]) <= QueueSize
    BY <2>2, <2>3, PoolAssumption DEF PoolInv, PoolTypeOK, PoolAssumption
  <2> QED  BY <2>1, <2>4 DEF PoolInv, PoolTypeOK
<1> QED  BY <1>1, <1>2, <1>3

\* A worker takes a task, executes it, or leaves.
LEMMA WorkerKeepsPools ==
  ASSUME PoolInv, NEW w \in Workers, PoolStep(w)
  PROVE  PoolInv' /\ UNCHANGED pool /\ worker[w] # "off"
          /\ \A v \in Workers \ {w} : worker'[v] = worker[v]
<1>0. w[1] \in Pools /\ "gone" \notin Tasks
  BY PoolAssumption DEF Workers, PoolAssumption
<1>1. CASE Receive(w)
  <2>1. /\ worker[w] = "idle" /\ UNCHANGED pool
        /\ worker' = [worker EXCEPT ![w] = Head(queue[w[1]])]
        /\ queue' = [queue EXCEPT ![w[1]] = Tail(queue[w[1]])]
        /\ queue[w[1]] # <<>>
    BY <1>1 DEF Receive
  <2>2. queue[w[1]] \in Seq(Tasks) /\ Len(queue[w[1]]) <= QueueSize /\ QueueSize \in Nat
    BY <1>0, PoolAssumption DEF PoolInv, PoolTypeOK, PoolAssumption
  <2>3. /\ Head(queue[w[1]]) \in Tasks /\ Tail(queue[w[1]]) \in Seq(Tasks)
        /\ Len(Tail(queue[w[1]])) <= QueueSize
    BY <2>1, <2>2
  <2>4. PoolTypeOK'
    BY <1>0, <2>1, <2>3 DEF PoolInv, PoolTypeOK
  <2> QED  BY <1>0, <2>1, <2>4 DEF PoolInv, PoolTypeOK
<1>2. CASE Execute(w) \/ Leave(w)
  <2>1. PICK x \in {"idle", "gone"} :
          /\ worker' = [worker EXCEPT ![w] = x] /\ UNCHANGED <<pool, queue>>
          /\ worker[w] \in Tasks \cup {"idle"} /\ (x = "idle" => worker[w] \in Tasks)
    BY <1>2 DEF Execute, Leave
  <2>2. worker[w] # "off" /\ worker[w] # "gone"
    BY <2>1, PoolAssumption DEF PoolAssumption
  <2>3. PoolTypeOK'
    BY <2>1 DEF PoolInv, PoolTypeOK
  <2> QED  BY <1>0, <2>1, <2>2, <2>3 DEF PoolInv, PoolTypeOK
<1> QED  BY <1>1, <1>2 DEF PoolStep

\* The end of the process ends its workers.
LEMMA PoolExitKept ==
  ASSUME PoolExit
  PROVE  PoolInv' /\ \A w \in Workers : worker'[w] = "off"
<1>1. \A w \in Workers : w[1] \in Pools
  BY DEF Workers
<1>2. PoolTypeOK'
  <2>1. <<>> \in Seq(Tasks) /\ Len(<<>>) <= QueueSize
    BY PoolAssumption DEF PoolAssumption
  <2> QED  BY <2>1 DEF PoolExit, PoolTypeOK
<1> QED  BY <1>1, <1>2 DEF PoolExit, PoolInv

-----------------------------------------------------------------------------
(* Header authentication *)

\* The server judges the header of the SDK as the caller deserves, for either
\* kind of call and any distance between the clocks.
LEMMA JudgedAsDeserved ==
  ASSUME NEW method \in {"unary", "stream"}, NEW cert \in Certs \cup {"none"}, NEW age \in Ages,
         NEW headerAuth, NEW requireMTLS
  PROVE  LET hdr == IF cert = "none" THEN NoHeader ELSE SdkHeader(method, cert, age)
             verdict == Judge(hdr, method, headerAuth, requireMTLS)
         IN  /\ verdict = Deserved(cert, age, headerAuth, requireMTLS)
             /\ verdict \in Verdicts
<1> DEFINE hdr == IF cert = "none" THEN NoHeader ELSE SdkHeader(method, cert, age)
<1> DEFINE good == hdr.cert # "none" /\ ValidateHeaderAuth(hdr, method)
<1>1. CASE cert = "none"
  <2>1. ~good /\ cert # "trusted"
    BY <1>1 DEF NoHeader
  <2> QED  BY <1>1, <2>1 DEF Judge, Deserved, Verdicts
<1>2. CASE cert # "none"
  <2>1. hdr = [cert |-> cert, age |-> age,
               sig |-> <<method, age, IF method = "unary" THEN "body" ELSE NoBody>>]
    BY <1>2 DEF SdkHeader, SdkUnaryHeader, SdkStreamHeader, SdkPayload
  <2>2. hdr.cert = cert /\ hdr.age = age
        /\ hdr.sig = <<method, age, IF method = "unary" THEN "body" ELSE NoBody>>
    BY <2>1
  <2> HIDE DEF hdr
  <2>3. good <=> ValidateTimestamp(age) /\ cert # "untrusted" /\ cert # "nameless"
    BY <1>2, <2>2 DEF ValidateHeaderAuth, ParseAndVerifyCertificate, VerifyRequestSignature,
                      BuildGRPCSignaturePayload
  <2>4. good <=> ValidateTimestamp(age) /\ cert = "trusted"
    BY <1>2, <2>3 DEF Certs
  <2>5. ValidateTimestamp(age) <=> -1 <= age /\ age <= (IF Skew = 0 THEN 5 ELSE Skew)
    BY HeaderAuthAssumption DEF ValidateTimestamp, HeaderAuthAssumption
  <2> HIDE DEF good
  <2>6. Judge(hdr, method, headerAuth, requireMTLS) =
          IF ~headerAuth THEN "anonymous" ELSE IF good THEN "identified"
          ELSE IF requireMTLS THEN "refused" ELSE "anonymous"
    BY Zenon DEF Judge, good
  <2>7. Deserved(cert, age, headerAuth, requireMTLS) =
          IF ~headerAuth THEN "anonymous" ELSE IF good THEN "identified"
          ELSE IF requireMTLS THEN "refused" ELSE "anonymous"
    BY <2>4, <2>5, Zenon DEF Deserved
  <2>8. Judge(hdr, method, headerAuth, requireMTLS) \in Verdicts
    BY <2>6 DEF Verdicts
  <2> QED  BY <2>6, <2>7, <2>8 DEF hdr
<1> QED  BY <1>1, <1>2
-----------------------------------------------------------------------------
(* The process *)

\* Where main is tells which parts of the process there are.
Late == main \in {"admin", "running", "stopAdmin", "waitAdmin", "stopPools", "disconnect", "exit"}
PhaseInv ==
  /\ db = (main \notin {"off", "mongo", "exit"})
  /\ main \in {"off", "mongo", "indexes", "pools"} => \A w \in Workers : worker[w] = "off"
  /\ main \in {"disconnect", "exit"} => \A k \in Pools : pool[k] = "stopped"
  /\ grpc # "none" => Late
  /\ \A c \in Calls : call[c].pc # "none" => grpc \in {"serving", "draining"}
  /\ main \notin {"off", "mongo", "indexes"} => indexed
  /\ main = "server" \/ Late => (Bootstraps => live # NoCert)

\* Everything.
ProcessInv == ProcessTypeOK /\ CertInv /\ PoolInv /\ PhaseInv /\ SidesAgree

CallRecord == [pc : {"none", "handling", "refused"}, verdict : Verdicts, due : Verdicts]

\* The record of a caller with no call under way.
LEMMA NoCallShape ==
  /\ NoCall \in CallRecord /\ NoCall.pc = "none" /\ NoCall.verdict = NoCall.due
  BY DEF NoCall, CallRecord, Verdicts

\* ProcessInv holds when the process starts.
LEMMA ProcessInvInit == ProcessInit => ProcessInv
<1> SUFFICES ASSUME ProcessInit  PROVE ProcessInv
  OBVIOUS
<1>1. CertInv
  BY CertInvInit DEF ProcessInit
<1>2. PoolInv /\ \A w \in Workers : worker[w] = "off"
  <2>1. <<>> \in Seq(Tasks) /\ Len(<<>>) <= QueueSize
    BY PoolAssumption DEF PoolAssumption
  <2>2. \A w \in Workers : w[1] \in Pools
    BY DEF Workers
  <2> QED  BY <2>1, <2>2 DEF ProcessInit, PoolInit, PoolTypeOK, PoolInv
<1>3. \A c \in Calls : call[c] = NoCall
  BY DEF ProcessInit
<1>4. ProcessTypeOK
  BY <1>1, <1>2, NoCallShape, Zenon
  DEF ProcessInit, ProcessTypeOK, CertInv, PoolInv, Phases, CallRecord
<1>5. SidesAgree
  BY <1>3, NoCallShape DEF SidesAgree
<1>6. PhaseInv
  BY <1>2, <1>3, NoCallShape, ZenonT(30) DEF ProcessInit, PhaseInv, Late
<1> QED  BY <1>1, <1>2, <1>4, <1>5, <1>6 DEF ProcessInv

\* The steps of main that only change what main itself holds.
LEMMA MainKeeps ==
  ASSUME ProcessInv,
         \/ Start \/ BuildMongoClient \/ CreateIndexes \/ BootDone \/ NewServer \/ StartAdmin
         \/ Stop \/ StopAdmin \/ AdminStopped \/ ServicesStopped \/ Disconnect \/ Expire
  PROVE  ProcessInv'
<1>0. ProcessTypeOK /\ PhaseInv /\ CertInv /\ PoolInv /\ SidesAgree
  BY DEF ProcessInv
<1>1. UNCHANGED <<certVars, poolVars, config, call>>
  BY DEF Start, BuildMongoClient, CreateIndexes, BootDone, NewServer, StartAdmin, Stop,
         StopAdmin, AdminStopped, ServicesStopped, Disconnect, Expire
<1>2. CertInv' /\ CertTypeOK' /\ UNCHANGED <<live, certPc>>
  BY <1>0, <1>1, CertKept, Zenon DEF certVars, CertInv
<1>3. PoolInv' /\ PoolTypeOK' /\ UNCHANGED <<pool, worker>>
  BY <1>0, <1>1 DEF poolVars, PoolInv, PoolTypeOK
<1>4. SidesAgree'
  BY <1>0, <1>1 DEF SidesAgree
<1>5. Bootstraps' = Bootstraps
  BY <1>1 DEF Bootstraps, settings
<1>6. /\ main' \in Phases /\ db' \in BOOLEAN /\ indexed' \in BOOLEAN
      /\ grpc' \in {"none", "starting", "serving", "failed", "draining"}
      /\ admin' \in {"none", "serving", "stopping"}
      /\ sock' \in BOOLEAN /\ asked' \in BOOLEAN /\ expired' \in BOOLEAN
      /\ asked' => admin' # "none"
  <2>1. CASE StartAdmin
    <3>1. UNCHANGED <<db, indexed, grpc, asked, expired>> /\ main' = "running"
      BY <2>1 DEF StartAdmin, Goto
    <3>2. (admin' = "serving" /\ sock' = TRUE) \/ UNCHANGED <<admin, sock>>
      BY <2>1, Zenon DEF StartAdmin
    <3> QED  BY <1>0, <3>1, <3>2, Zenon DEF ProcessTypeOK, Phases
  <2>2. CASE StopAdmin
    <3>1. UNCHANGED <<db, indexed, grpc, asked, expired>> /\ main' = "waitAdmin"
      BY <2>2 DEF StopAdmin, Goto
    <3>2. (admin' = "stopping" /\ sock' = FALSE) \/ UNCHANGED <<admin, sock>>
      BY <2>2, Zenon DEF StopAdmin
    <3> QED  BY <1>0, <3>1, <3>2, ZenonT(60) DEF ProcessTypeOK, Phases
  <2>3. CASE AdminStopped
    <3>1. /\ UNCHANGED <<db, indexed, grpc, sock, expired>> /\ main' = "stopPools"
          /\ admin' = "none" /\ asked' = FALSE
      BY <2>3 DEF AdminStopped, Goto
    <3> QED  BY <1>0, <3>1, Zenon DEF ProcessTypeOK, Phases
  <2>4. CASE Expire
    <3>1. UNCHANGED <<main, db, indexed, grpc, admin, sock, asked>> /\ expired' = TRUE
      BY <2>4 DEF Expire
    <3> QED  BY <1>0, <3>1 DEF ProcessTypeOK
  <2>5. CASE \/ Start \/ BuildMongoClient \/ CreateIndexes \/ BootDone \/ NewServer \/ Stop
             \/ ServicesStopped \/ Disconnect
    <3>1. UNCHANGED <<admin, sock, asked, expired>> /\ main' \in Phases
          /\ db' \in {db, TRUE, FALSE} /\ indexed' \in {indexed, TRUE}
          /\ grpc' \in {grpc, "starting"}
      BY <2>5, ZenonT(30)
      DEF Phases, Goto, Start, BuildMongoClient, CreateIndexes, BootDone, NewServer, Stop,
                  ServicesStopped, Disconnect
    <3> QED  BY <1>0, <3>1, ZenonT(30) DEF ProcessTypeOK
  <2> QED  BY <2>1, <2>2, <2>3, <2>4, <2>5
<1>7. ProcessTypeOK'
  BY <1>0, <1>1, <1>2, <1>3, <1>6 DEF ProcessTypeOK
<1>8. PhaseInv'
  <2>1. CASE Start \/ BuildMongoClient \/ CreateIndexes
    BY <1>0, <1>1, <1>2, <1>3, <1>5, <2>1, ZenonT(30)
    DEF PhaseInv, Late, Goto, Start, BuildMongoClient, CreateIndexes
  <2>2. CASE BootDone
    BY <1>0, <1>1, <1>2, <1>3, <1>5, <2>2 DEF PhaseInv, Late, Goto, BootDone, CertInv
  <2>3. CASE NewServer
    <3>1. grpc = "none"
      BY <1>0, <2>3 DEF NewServer, PhaseInv, Late
    <3> QED  BY <1>0, <1>1, <1>2, <1>3, <1>5, <2>3, <3>1, ZenonT(30)
             DEF PhaseInv, Late, Goto, NewServer
  <2>4. CASE StartAdmin \/ Stop \/ StopAdmin \/ AdminStopped
    <3>1. UNCHANGED <<grpc, db, indexed, call>> /\ Late /\ Late'
          /\ main \notin {"disconnect", "exit"} /\ main' \notin {"disconnect", "exit"}
      BY <2>4 DEF StartAdmin, Stop, StopAdmin, AdminStopped, Late, Goto
    <3> QED  BY <1>0, <1>1, <1>2, <1>3, <1>5, <3>1, ZenonT(30) DEF PhaseInv, Late
  <2>5. CASE ServicesStopped \/ Disconnect
    <3>1. /\ UNCHANGED <<grpc, indexed, call>> /\ Late /\ Late'
          /\ main' \in {"disconnect", "exit"} /\ \A k \in Pools : pool[k] = "stopped"
          /\ db' = (main' \notin {"off", "mongo", "exit"})
      BY <1>0, <2>5, Zenon DEF ServicesStopped, Disconnect, Late, Goto, PhaseInv
    <3> QED  BY <1>0, <1>1, <1>2, <1>3, <1>5, <3>1, ZenonT(30) DEF PhaseInv, Late
  <2>6. CASE Expire
    <3>1. UNCHANGED <<main, db, indexed, grpc, call>>
      BY <2>6 DEF Expire
    <3> QED  BY <1>0, <1>1, <1>2, <1>3, <1>5, <3>1 DEF PhaseInv, Late
  <2> QED  BY <2>1, <2>2, <2>3, <2>4, <2>5, <2>6
<1> QED  BY <1>2, <1>3, <1>4, <1>7, <1>8 DEF ProcessInv

\* The end of a process leaves a state a new one can start from.
LEMMA ExitKeeps ==
  ASSUME ProcessInv, Exit
  PROVE  ProcessInv'
<1>1. CertInv'
  BY CertKept DEF Exit, ProcessInv
<1>2. PoolInv' /\ \A w \in Workers : worker'[w] = "off"
  BY PoolExitKept DEF Exit
<1>3. \A c \in Calls : call'[c] = NoCall
  BY DEF Exit
<1>4. ProcessTypeOK'
  BY <1>1, <1>2, NoCallShape, Zenon
  DEF ProcessInv, Exit, ProcessTypeOK, CertInv, PoolInv, Phases, CallRecord
<1>5. SidesAgree'
  BY <1>3, NoCallShape DEF SidesAgree
<1>6. PhaseInv'
  BY <1>2, <1>3, NoCallShape, ZenonT(30) DEF Exit, PhaseInv, Late
<1> QED  BY <1>1, <1>2, <1>4, <1>5, <1>6 DEF ProcessInv

\* The steps that leave main's variables alone: the certificate's, the pools',
\* and StartServices, which changes both and main.
LEMMA PartsKeep ==
  ASSUME ProcessInv,
         \/ CertificateStep \/ SubmitStep \/ StopServices \/ StartServices
         \/ \E w \in Workers : TaskStep(w)
  PROVE  ProcessInv'
<1>0. ProcessTypeOK /\ PhaseInv /\ CertInv /\ PoolInv /\ SidesAgree
  BY DEF ProcessInv
<1>1. ASSUME UNCHANGED <<config, db, indexed, grpc, admin, sock, asked, expired, call>>,
             CertInv', PoolInv', main' \in Phases, PhaseInv'
      PROVE  ProcessInv'
  <2>1. ProcessTypeOK'
    BY <1>0, <1>1 DEF ProcessTypeOK, CertInv, PoolInv
  <2>2. SidesAgree'
    BY <1>0, <1>1 DEF SidesAgree
  <2> QED  BY <1>1, <2>1, <2>2 DEF ProcessInv
<1>2. CASE CertificateStep
  <2>1. UNCHANGED <<poolVars, processVars>> /\ (CertStep \/ Day \/ RotateCA)
    BY <1>2 DEF CertificateStep
  <2>2. /\ UNCHANGED <<config, main, db, indexed, grpc, admin, sock, asked, expired, call>>
        /\ UNCHANGED <<pool, queue, worker>>
    BY <2>1 DEF poolVars, processVars
  <2>3. CertInv' /\ (live # NoCert => live' # NoCert)
    BY <1>0, <2>1, CertKept, CertStays
  <2>4. PoolInv'
    BY <1>0, <2>2 DEF PoolInv, PoolTypeOK
  <2>5. Bootstraps' = Bootstraps
    BY <2>2 DEF Bootstraps, settings
  <2>6. PhaseInv'
    BY <1>0, <2>2, <2>3, <2>5 DEF PhaseInv, Late
  <2> QED  BY <1>0, <1>1, <2>2, <2>3, <2>4, <2>6 DEF ProcessTypeOK
<1>3. ASSUME UNCHANGED <<certVars, processVars>>, PoolInv',
             main \in {"off", "mongo", "indexes", "pools"} => UNCHANGED worker,
             main \in {"disconnect", "exit"} => UNCHANGED pool
      PROVE  ProcessInv'
  <2>1. /\ UNCHANGED <<config, main, db, indexed, grpc, admin, sock, asked, expired, call>>
        /\ UNCHANGED live
    BY <1>3 DEF certVars, processVars
  <2>2. CertInv'
    BY <1>0, <1>3, CertKept
  <2>3. Bootstraps' = Bootstraps
    BY <2>1 DEF Bootstraps, settings
  <2>4. PhaseInv'
    BY <1>0, <1>3, <2>1, <2>3 DEF PhaseInv, Late
  <2> QED  BY <1>0, <1>1, <1>3, <2>1, <2>2, <2>4 DEF ProcessTypeOK
<1>4. CASE SubmitStep
  <2>1. UNCHANGED <<pool, worker>> /\ UNCHANGED <<certVars, processVars>>
    BY <1>4 DEF SubmitStep, SubmitByKind, Submit
  <2>2. PoolInv'
    BY <1>0, <1>4, PoolsKept DEF SubmitStep
  <2> QED  BY <1>3, <2>1, <2>2, ZenonT(60), SMTT(60)
<1>5. CASE StopServices
  <2>1. /\ main = "stopPools" /\ UNCHANGED <<certVars, processVars>> /\ PoolInv'
    BY <1>0, <1>5, PoolsKept DEF StopServices
  <2> QED  BY <1>3, <2>1
<1>6. ASSUME NEW w \in Workers, TaskStep(w)  PROVE ProcessInv'
  <2>1. PoolStep(w) /\ UNCHANGED <<certVars, processVars>>
    BY <1>6 DEF TaskStep
  <2>2. PoolInv' /\ UNCHANGED pool /\ worker[w] # "off"
    BY <1>0, <1>6, <2>1, WorkerKeepsPools
  <2>3. main \notin {"off", "mongo", "indexes", "pools"}
    BY <1>0, <1>6, <2>2 DEF PhaseInv
  <2> QED  BY <1>3, <2>1, <2>2, <2>3
<1>7. CASE StartServices
  <2>1. /\ main = "pools" /\ StartPools
        /\ UNCHANGED <<config, db, indexed, grpc, admin, sock, asked, expired, call>>
    BY <1>7 DEF StartServices
  <2>2. PoolInv'
    BY <1>0, <2>1, PoolsKept
  <2>3. Bootstraps' = Bootstraps
    BY <2>1 DEF Bootstraps, settings
  <2>4. \/ Bootstraps /\ main' = "boot" /\ Bootstrap
        \/ ~Bootstraps /\ main' = "server" /\ UNCHANGED certVars
    BY <1>7 DEF StartServices, Goto
  <2>5. CertInv'
    BY <1>0, <2>4, CertKept
  <2>6. grpc = "none"
    BY <1>0, <2>1 DEF PhaseInv, Late
  <2>7. PhaseInv'
    BY <1>0, <2>1, <2>3, <2>4, <2>6 DEF PhaseInv, Late
  <2>8. main' \in Phases
    BY <2>4 DEF Phases
  <2> QED  BY <1>1, <2>1, <2>2, <2>5, <2>7, <2>8
<1> QED  BY <1>2, <1>4, <1>5, <1>6, <1>7

\* Calls come and go.
LEMMA CallsKeep ==
  ASSUME ProcessInv, CallStep
  PROVE  ProcessInv'
<1>0. ProcessTypeOK /\ PhaseInv /\ CertInv /\ PoolInv /\ SidesAgree
  BY SMTT(60), ZenonT(60) DEF ProcessInv
<1>1. UNCHANGED <<certVars, poolVars, config, main, db, indexed, sock, admin, expired>>
  BY Zenon DEF CallStep, Listen, Drain, Arrive, Answer, AdminCall, AdminAnswer
<1>2. CertInv' /\ CertTypeOK' /\ UNCHANGED live
  BY <1>0, <1>1, CertKept, ZenonT(60) DEF certVars, CertInv
<1>3. PoolInv' /\ PoolTypeOK' /\ UNCHANGED <<pool, worker>>
  BY <1>0, <1>1 DEF poolVars, PoolInv, PoolTypeOK
<1>4. Bootstraps' = Bootstraps
  BY <1>1 DEF Bootstraps, settings
<1>5. ASSUME grpc' \in {"none", "starting", "serving", "failed", "draining"},
             call' \in [Calls -> CallRecord], asked' \in BOOLEAN, asked' => admin' # "none",
             grpc' # "none" => grpc # "none",
             \A c \in Calls : /\ call'[c].pc # "none" => grpc' \in {"serving", "draining"}
                              /\ call'[c].verdict = call'[c].due
      PROVE  ProcessInv'
  <2>1. ProcessTypeOK'
    BY <1>0, <1>1, <1>2, <1>3, <1>5 DEF ProcessTypeOK, CallRecord
  <2>2. SidesAgree'
    BY <1>5 DEF SidesAgree
  <2>3. PhaseInv'
    BY <1>0, <1>1, <1>2, <1>3, <1>4, <1>5 DEF PhaseInv, Late
  <2> QED  BY <1>2, <1>3, <2>1, <2>2, <2>3 DEF ProcessInv
<1>6. /\ call \in [Calls -> CallRecord] /\ asked \in BOOLEAN /\ (asked => admin # "none")
      /\ grpc \in {"none", "starting", "serving", "failed", "draining"}
      /\ \A c \in Calls : /\ call[c].pc # "none" => grpc \in {"serving", "draining"}
                          /\ call[c].verdict = call[c].due
  BY <1>0 DEF ProcessTypeOK, CallRecord, PhaseInv, SidesAgree
<1>7. CASE Listen \/ Drain
  <2>1. /\ UNCHANGED <<call, asked, admin>> /\ grpc # "none"
        /\ grpc' \in {"serving", "failed", "draining"}
        /\ grpc \in {"serving", "draining"} => grpc' \in {"serving", "draining"}
    BY <1>7, SMTT(60), ZenonT(60) DEF Listen, Drain
  <2> QED  BY <1>5, <1>6, <2>1
<1>8. CASE AdminCall \/ AdminAnswer
  <2>1. UNCHANGED <<call, grpc, admin>> /\ asked' \in BOOLEAN /\ (asked' => admin # "none")
    BY <1>8, ZenonT(60) DEF AdminCall, AdminAnswer
  <2> QED  BY <1>5, <1>6, <2>1
<1>9. ASSUME NEW c \in Calls, Answer(c)  PROVE ProcessInv'
  <2>1. UNCHANGED <<grpc, asked, admin>> /\ call' = [call EXCEPT ![c] = NoCall]
    BY <1>9 DEF Answer
  <2> QED  BY <1>5, <1>6, <1>9, <2>1, NoCallShape, ZenonT(60), SMTT(60)
<1>10. ASSUME NEW c \in Calls, NEW method \in {"unary", "stream"}, NEW cert \in Certs \cup {"none"},
              NEW age \in Ages, Arrive(c, method, cert, age)
       PROVE  ProcessInv'
  <2>1. UNCHANGED <<grpc, asked, admin>> /\ grpc = "serving"
    BY <1>10 DEF Arrive
  <2> DEFINE hdr == IF cert = "none" THEN NoHeader ELSE SdkHeader(method, cert, age)
             verdict == Judge(hdr, method, settings.headerAuth, settings.requireMTLS)
             due == Deserved(cert, age, settings.headerAuth, settings.requireMTLS)
             pc == IF verdict = "refused" THEN "refused" ELSE "handling"
  <2>2. call' = [call EXCEPT ![c] = [pc |-> pc, verdict |-> verdict, due |-> due]]
    BY <1>10, Zenon DEF Arrive
  <2>3. verdict = due /\ verdict \in Verdicts
    BY <1>10, JudgedAsDeserved
  <2>4. pc \in {"handling", "refused"}
    OBVIOUS
  <2> HIDE DEF verdict, due, pc
  <2> DEFINE R == [pc |-> pc, verdict |-> verdict, due |-> due]
  <2>5. R \in CallRecord /\ R.verdict = R.due
    BY <2>3, <2>4 DEF CallRecord
  <2>6. call' = [call EXCEPT ![c] = R]
    BY <2>2
  <2> HIDE DEF R
  <2> QED  BY <1>5, <1>6, <1>10, <2>1, <2>5, <2>6
<1> QED  BY <1>7, <1>8, <1>9, <1>10 DEF CallStep

\* Every step of the process preserves ProcessInv.
LEMMA ProcessStep ==
  ASSUME ProcessInv, [ProcessNext]_vars
  PROVE  ProcessInv'
<1>1. CASE UNCHANGED vars
  <2>1. UNCHANGED <<certVars, poolVars, processVars>>
    BY <1>1 DEF vars
  <2>2. /\ UNCHANGED <<config, main, db, indexed, grpc, admin, sock, asked, expired, call>>
        /\ UNCHANGED <<pool, queue, worker>> /\ UNCHANGED live
    BY <2>1 DEF certVars, poolVars, processVars
  <2>3. CertInv' /\ PoolInv'
    BY <2>1, <2>2, CertKept DEF ProcessInv, PoolInv, PoolTypeOK
  <2>4. Bootstraps' = Bootstraps
    BY <2>2, ZenonT(60), SMTT(60) DEF Bootstraps, settings
  <2>5. PhaseInv' /\ SidesAgree'
    BY <2>2, <2>4, SMTT(60), ZenonT(60) DEF ProcessInv, PhaseInv, Late, SidesAgree
  <2>6. ProcessTypeOK'
    BY <2>2, <2>3 DEF ProcessInv, ProcessTypeOK, CertInv, PoolInv
  <2> QED  BY <2>3, <2>5, <2>6 DEF ProcessInv
<1>2. StartFails \/ Return \/ Kill => Exit
  BY DEF StartFails, Return, Kill
<1> QED
  BY <1>1, <1>2, MainKeeps, ExitKeeps, PartsKeep, CallsKeep DEF ProcessNext, MainStep

\* ProcessInv is an invariant of the process.
LEMMA ProcessAlways == ProcessSpec => []ProcessInv
  BY ProcessInvInit, ProcessStep, PTL DEF ProcessSpec

\* Every variable of the process keeps its type; no queue exceeds its capacity.
THEOREM ProcessTypeCorrect == ProcessSpec => []ProcessTypeOK
<1>1. ProcessInv => ProcessTypeOK
  BY DEF ProcessInv
<1> QED  BY <1>1, ProcessAlways, PTL

\* The certificate in use outlasts the renewal margin counted from the last
\* check that succeeded, for any validity and margin (checkAndRenew).
THEOREM CertificateIsRenewed == ProcessSpec => []RenewedInTime
<1>1. ProcessInv => RenewedInTime
  BY DEF ProcessInv, CertInv
<1> QED  BY <1>1, ProcessAlways, PTL

\* After a check that succeeded the files hold the pair in use (EnsureCert).
THEOREM FilesAreServed == ProcessSpec => []FilesServed
<1>1. ProcessInv => FilesServed
  BY DEF ProcessInv, CertInv
<1> QED  BY <1>1, ProcessAlways, PTL

\* Calls and tasks find the indexes, the certificate and the database, for any
\* number of calls, pools and workers (main).
THEOREM StartsAndStopsInOrder == ProcessSpec => []InOrder
<1>1. ProcessInv => InOrder
  <2> SUFFICES ASSUME ProcessInv  PROVE InOrder
    OBVIOUS
  <2>0. PhaseInv /\ PoolInv /\ main \in Phases /\ call \in [Calls -> CallRecord]
    BY DEF ProcessInv, ProcessTypeOK, CallRecord
  <2>1. ASSUME NEW c \in Calls, call[c].pc = "handling"
        PROVE  indexed /\ (Bootstraps => live # NoCert) /\ (~db => main = "exit")
    <3>1. Late
      BY <2>0, <2>1 DEF PhaseInv
    <3> QED  BY <2>0, <3>1, Zenon DEF PhaseInv, Late
  <2>2. ASSUME ~db, NEW w \in Workers  PROVE worker[w] \notin Tasks
    <3>1. main \in {"off", "mongo", "exit"}
      BY <2>0, <2>2 DEF PhaseInv
    <3>2. w[1] \in Pools
      BY <2>2 DEF Workers
    <3>3. worker[w] \in {"off", "gone"}
      BY <2>0, <2>2, <3>1, <3>2 DEF PhaseInv, PoolInv
    <3> QED  BY <3>3, PoolAssumption DEF PoolAssumption
  <2> QED  BY <2>1, <2>2 DEF InOrder
<1> QED  BY <1>1, ProcessAlways, PTL

\* The two ends of header authentication agree on every call, for any clocks,
\* margin and settings (the interceptors of the SDK and of the server).
THEOREM SidesAlwaysAgree == ProcessSpec => []SidesAgree
<1>1. ProcessInv => SidesAgree
  BY DEF ProcessInv
<1> QED  BY <1>1, ProcessAlways, PTL

-----------------------------------------------------------------------------
(* Tasks *)

\* A task is in one place: once in the queue of its own pool or with one of
\* its workers, so that it is executed at most once and by its own pool.
TasksApart ==
  /\ \A k \in Pools : \A i, j \in DOMAIN queue[k] :
       /\ KindOf[queue[k][i]] = k
       /\ queue[k][i] = queue[k][j] => i = j
  /\ \A v, w \in Workers : worker[w] \in Tasks =>
       /\ KindOf[worker[w]] = w[1]
       /\ \A i \in DOMAIN queue[w[1]] : queue[w[1]][i] # worker[w]
       /\ worker[v] = worker[w] => v = w

\* A step drops no task: what was accepted and is no more was executed by a
\* worker of its own pool, or the process has ended.
NoTaskDropped ==
  \A t \in Tasks : Accepted(t) /\ ~Accepted(t)' =>
    \/ \E w \in Workers : w[1] = KindOf[t] /\ worker[w] = t /\ worker'[w] = "idle"
    \/ main' = "off"

\* All that a step may do to queues and workers.
PoolMoves ==
  \/ UNCHANGED <<queue, worker>>
  \/ /\ UNCHANGED queue
     /\ \A w \in Workers : worker[w] = "off" /\ worker'[w] = "idle"
  \/ \E t \in Tasks : SubmitByKind(t)
  \/ \E w \in Workers : PoolStep(w)
  \/ PoolExit /\ main' = "off"

\* Only the pools themselves and the end of the process move tasks.
LEMMA MovesOnly ==
  ASSUME ProcessInv, [ProcessNext]_vars
  PROVE  PoolMoves
<1>1. CASE \/ Start \/ BuildMongoClient \/ CreateIndexes \/ BootDone \/ NewServer \/ StartAdmin
           \/ Stop \/ StopAdmin \/ AdminStopped \/ ServicesStopped \/ Disconnect \/ Expire
  BY <1>1, Zenon
  DEF Start, BuildMongoClient, CreateIndexes, BootDone, NewServer, StartAdmin, Stop,
      StopAdmin, AdminStopped, ServicesStopped, Disconnect, Expire, poolVars, PoolMoves
<1>2. CASE StartServices
  <2>1. main = "pools" /\ StartPools
    BY <1>2, Zenon DEF StartServices
  <2>2. \A w \in Workers : worker[w] = "off"
    BY <2>1 DEF ProcessInv, PhaseInv
  <2>3. UNCHANGED queue /\ \A w \in Workers : worker'[w] = "idle"
    BY <2>1 DEF StartPools
  <2> QED  BY <2>2, <2>3, Zenon DEF PoolMoves
<1>3. CASE StopServices
  <2>1. UNCHANGED <<queue, worker>>
    BY <1>3, Zenon DEF StopServices, StopPools, StopPool
  <2> QED  BY <2>1, Zenon DEF PoolMoves
<1>4. CASE StartFails \/ Return \/ Kill
  BY <1>4, Zenon DEF StartFails, Return, Kill, Exit, PoolMoves
<1>5. CASE CertificateStep
  BY <1>5, Zenon DEF CertificateStep, poolVars, PoolMoves
<1>6. CASE SubmitStep \/ \E w \in Workers : TaskStep(w)
  BY <1>6, Zenon DEF SubmitStep, TaskStep, PoolMoves
<1>7. CASE CallStep
  <2>1. UNCHANGED poolVars
    BY <1>7, ZenonT(60) DEF CallStep, Listen, Drain, Arrive, Answer, AdminCall, AdminAnswer
  <2> QED  BY <2>1, Zenon DEF poolVars, PoolMoves
<1>8. CASE UNCHANGED vars
  BY <1>8, Zenon DEF vars, poolVars, PoolMoves
<1> QED
  BY <1>1, <1>2, <1>3, <1>4, <1>5, <1>6, <1>7, <1>8, Zenon DEF ProcessNext, MainStep

\* What Submit changes: one task more at the end of the queue of its pool.
LEMMA Submitted ==
  ASSUME PoolTypeOK, NEW t \in Tasks, SubmitByKind(t)
  PROVE  /\ KindOf[t] \in Pools /\ worker' = worker
         /\ \A k \in Pools \ {KindOf[t]} : queue'[k] = queue[k]
         /\ \A i \in DOMAIN queue'[KindOf[t]] :
              \/ i \in DOMAIN queue[KindOf[t]] /\ queue'[KindOf[t]][i] = queue[KindOf[t]][i]
              \/ i = Len(queue[KindOf[t]]) + 1 /\ queue'[KindOf[t]][i] = t
         /\ \A i \in DOMAIN queue[KindOf[t]] :
              i \in DOMAIN queue'[KindOf[t]] /\ queue'[KindOf[t]][i] = queue[KindOf[t]][i]
<1> DEFINE k == KindOf[t]
<1>1. k \in Pools
  BY PoolAssumption DEF PoolAssumption
<1>2. queue \in [Pools -> Seq(Tasks)] /\ queue[k] \in Seq(Tasks)
  BY <1>1 DEF PoolTypeOK
<1>3. queue' = [queue EXCEPT ![k] = Append(queue[k], t)] /\ worker' = worker
  BY DEF SubmitByKind, Submit
<1>4. queue'[k] = Append(queue[k], t) /\ \A m \in Pools \ {k} : queue'[m] = queue[m]
  BY <1>1, <1>2, <1>3
<1> HIDE DEF k
<1>5. /\ \A i \in DOMAIN Append(queue[k], t) :
           \/ i \in DOMAIN queue[k] /\ Append(queue[k], t)[i] = queue[k][i]
           \/ i = Len(queue[k]) + 1 /\ Append(queue[k], t)[i] = t
      /\ \A i \in DOMAIN queue[k] :
           i \in DOMAIN Append(queue[k], t) /\ Append(queue[k], t)[i] = queue[k][i]
  BY <1>2
<1> QED  BY <1>1, <1>3, <1>4, <1>5, Zenon DEF k

\* What Receive changes: the first task of the queue goes to the worker.
LEMMA Received ==
  ASSUME PoolTypeOK, NEW w \in Workers, Receive(w)
  PROVE  /\ w[1] \in Pools /\ 1 \in DOMAIN queue[w[1]]
         /\ worker[w] = "idle" /\ worker'[w] = queue[w[1]][1] /\ worker'[w] \in Tasks
         /\ \A v \in Workers \ {w} : worker'[v] = worker[v]
         /\ \A k \in Pools \ {w[1]} : queue'[k] = queue[k]
         /\ \A i \in DOMAIN queue'[w[1]] :
              i + 1 \in DOMAIN queue[w[1]] /\ queue'[w[1]][i] = queue[w[1]][i + 1] /\ i \in Nat
         /\ \A i \in DOMAIN queue[w[1]] :
              i # 1 => i - 1 \in DOMAIN queue'[w[1]] /\ queue'[w[1]][i - 1] = queue[w[1]][i]
<1> DEFINE k == w[1]
           q == queue[k]
<1>1. k \in Pools
  BY DEF Workers
<1>2. queue \in [Pools -> Seq(Tasks)] /\ q \in Seq(Tasks)
      /\ worker \in [Workers -> {"off", "idle", "gone"} \cup Tasks]
  BY <1>1 DEF PoolTypeOK
<1>3. /\ queue' = [queue EXCEPT ![k] = Tail(q)] /\ worker' = [worker EXCEPT ![w] = Head(q)]
      /\ q # <<>> /\ worker[w] = "idle"
  BY DEF Receive
<1>4. queue'[k] = Tail(q) /\ \A m \in Pools \ {k} : queue'[m] = queue[m]
  BY <1>1, <1>2, <1>3
<1>5. worker'[w] = Head(q) /\ \A v \in Workers \ {w} : worker'[v] = worker[v]
  BY <1>2, <1>3
<1> HIDE DEF q
<1>6. 1 \in DOMAIN q /\ Head(q) = q[1] /\ q[1] \in Tasks
  BY <1>2, <1>3
<1>7. \A i \in DOMAIN Tail(q) : i + 1 \in DOMAIN q /\ Tail(q)[i] = q[i + 1] /\ i \in Nat
  BY <1>2, <1>3
<1>8. \A i \in DOMAIN q : i # 1 => i - 1 \in DOMAIN Tail(q) /\ Tail(q)[i - 1] = q[i]
  BY <1>2, <1>3
<1> QED  BY <1>1, <1>3, <1>4, <1>5, <1>6, <1>7, <1>8, Zenon DEF q

\* Where a task can be, as Submit sees it.
LEMMA AcceptedPlaces ==
  ASSUME NEW t
  PROVE  /\ ~Accepted(t) =>
              /\ \A k \in Pools : \A i \in DOMAIN queue[k] : queue[k][i] # t
              /\ \A w \in Workers : worker[w] # t
         /\ Accepted(t)' <=>
              \/ \E k \in Pools : \E i \in DOMAIN queue'[k] : queue'[k][i] = t
              \/ \E w \in Workers : worker'[w] = t
  BY Zenon DEF Accepted

\* Every step leaves each task in one place.
LEMMA ApartStep ==
  ASSUME PoolTypeOK, TasksApart, PoolMoves
  PROVE  TasksApart'
<1>0. /\ \A w \in Workers : w[1] \in Pools
      /\ "idle" \notin Tasks /\ "off" \notin Tasks /\ "gone" \notin Tasks
  BY PoolAssumption DEF PoolAssumption, Workers
<1>7. /\ \A k \in Pools : \A i \in DOMAIN queue[k] : KindOf[queue[k][i]] = k
      /\ \A k \in Pools : \A i, j \in DOMAIN queue[k] : queue[k][i] = queue[k][j] => i = j
  BY DEF TasksApart
<1>8. \A w \in Workers : worker[w] \in Tasks =>
        KindOf[worker[w]] = w[1] /\ \A i \in DOMAIN queue[w[1]] : queue[w[1]][i] # worker[w]
  BY DEF TasksApart
<1>9. \A v, w \in Workers : worker[w] \in Tasks /\ worker[v] = worker[w] => v = w
  BY DEF TasksApart
<1>1. CASE UNCHANGED <<queue, worker>>
  <2>1. queue' = queue /\ worker' = worker
    BY <1>1, Zenon
  <2> DEFINE Queued(f) == \A k \in Pools : \A i, j \in DOMAIN f[k] :
                            /\ KindOf[f[k][i]] = k
                            /\ f[k][i] = f[k][j] => i = j
             Held(f, g) == \A v, w \in Workers : g[w] \in Tasks =>
                             /\ KindOf[g[w]] = w[1]
                             /\ \A i \in DOMAIN f[w[1]] : f[w[1]][i] # g[w]
                             /\ g[v] = g[w] => v = w
  <2>2. Queued(queue) /\ Held(queue, worker)
    BY Zenon DEF TasksApart
  <2>3. Queued(queue') /\ Held(queue', worker') => TasksApart'
    BY ONLY Zenon DEF TasksApart
  <2> HIDE DEF Queued, Held
  <2> QED  BY ONLY <2>1, <2>2, <2>3, Zenon
<1>2. CASE UNCHANGED queue /\ \A w \in Workers : worker[w] = "off" /\ worker'[w] = "idle"
  <2>1. queue' = queue /\ \A w \in Workers : worker'[w] \notin Tasks
    BY <1>0, <1>2
  <2> QED  BY <1>7, <2>1, ZenonT(60) DEF TasksApart
<1>3. ASSUME NEW t \in Tasks, SubmitByKind(t)
      PROVE  TasksApart'
  <2>0. /\ worker' = worker
        /\ \A k \in Pools \ {KindOf[t]} : queue'[k] = queue[k]
        /\ \A i \in DOMAIN queue'[KindOf[t]] :
             \/ i \in DOMAIN queue[KindOf[t]] /\ queue'[KindOf[t]][i] = queue[KindOf[t]][i]
             \/ i = Len(queue[KindOf[t]]) + 1 /\ queue'[KindOf[t]][i] = t
    BY <1>3, Submitted, Zenon
  <2>1. ~Accepted(t)
    BY <1>3, Zenon DEF SubmitByKind, Submit
  <2>2. ASSUME NEW k \in Pools, NEW i \in DOMAIN queue'[k], NEW j \in DOMAIN queue'[k]
        PROVE  /\ KindOf[queue'[k][i]] = k
               /\ queue'[k][i] = queue'[k][j] => i = j
    <3>1. CASE k # KindOf[t]
      <4>1. queue'[k] = queue[k]
        BY ONLY <2>0, <2>2, <3>1
      <4> QED  BY <1>7, <2>2, <4>1
    <3>2. CASE k = KindOf[t]
      <4>1. /\ \/ i \in DOMAIN queue[k] /\ queue'[k][i] = queue[k][i]
               \/ i = Len(queue[k]) + 1 /\ queue'[k][i] = t
            /\ \/ j \in DOMAIN queue[k] /\ queue'[k][j] = queue[k][j]
               \/ j = Len(queue[k]) + 1 /\ queue'[k][j] = t
        BY <2>0, <2>2, <3>2, Zenon
      <4>2. \A n \in DOMAIN queue[k] : queue[k][n] # t
        BY <2>1, AcceptedPlaces, Zenon
      <4>3. KindOf[queue'[k][i]] = k
        <5>1. CASE i \in DOMAIN queue[k] /\ queue'[k][i] = queue[k][i]
          BY ONLY <1>7, <2>2, <5>1
        <5>2. CASE queue'[k][i] = t
          BY ONLY <3>2, <5>2
        <5> QED  BY ONLY <4>1, <5>1, <5>2, Zenon
      <4>4. queue'[k][i] = queue'[k][j] => i = j
        BY ONLY <1>7, <2>2, <4>1, <4>2, Zenon
      <4> QED  BY <4>3, <4>4, Zenon
    <3> QED  BY <3>1, <3>2, Zenon
  <2>3. ASSUME NEW v \in Workers, NEW w \in Workers, worker'[w] \in Tasks
        PROVE  /\ KindOf[worker'[w]] = w[1]
               /\ \A i \in DOMAIN queue'[w[1]] : queue'[w[1]][i] # worker'[w]
               /\ worker'[v] = worker'[w] => v = w
    <3>1. worker' = worker
      BY <2>0, Zenon
    <3>2. worker[w] # t
      BY <2>1, AcceptedPlaces, Zenon
    <3>3. ASSUME NEW i \in DOMAIN queue'[w[1]]
          PROVE  queue'[w[1]][i] # worker[w]
      <4>1. \/ i \in DOMAIN queue[w[1]] /\ queue'[w[1]][i] = queue[w[1]][i]
            \/ queue'[w[1]][i] = t
        <5>1. w[1] \in Pools
          BY <1>0, <2>3, Zenon
        <5>2. CASE w[1] = KindOf[t]
          BY <2>0, <3>3, <5>2, Zenon
        <5>3. CASE w[1] # KindOf[t]
          <6>1. queue'[w[1]] = queue[w[1]]
            BY <2>0, <5>1, <5>3, Zenon
          <6> QED  BY <3>3, <6>1, Zenon
        <5> QED  BY <5>2, <5>3, Zenon
      <4> QED  BY <1>8, <2>3, <3>1, <3>2, <4>1, Zenon
    <3> QED  BY <2>3, <3>1, <3>3, Zenon DEF TasksApart
  <2> QED  BY <2>2, <2>3, Zenon DEF TasksApart
<1>4. ASSUME NEW w \in Workers, Receive(w)
      PROVE  TasksApart'
  <2>0. /\ w[1] \in Pools /\ 1 \in DOMAIN queue[w[1]] /\ worker'[w] = queue[w[1]][1]
        /\ \A v \in Workers \ {w} : worker'[v] = worker[v]
        /\ \A k \in Pools \ {w[1]} : queue'[k] = queue[k]
        /\ \A i \in DOMAIN queue'[w[1]] :
             i + 1 \in DOMAIN queue[w[1]] /\ queue'[w[1]][i] = queue[w[1]][i + 1] /\ i \in Nat
    BY <1>4, Received, Zenon
  <2>1. ASSUME NEW k \in Pools, NEW i \in DOMAIN queue'[k], NEW j \in DOMAIN queue'[k]
        PROVE  /\ KindOf[queue'[k][i]] = k
               /\ queue'[k][i] = queue'[k][j] => i = j
    <3>1. CASE k # w[1]
      <4>1. queue'[k] = queue[k]
        BY ONLY <2>0, <2>1, <3>1
      <4> QED  BY <1>7, <2>1, <4>1
    <3>2. CASE k = w[1]
      <4>1. /\ i + 1 \in DOMAIN queue[k] /\ queue'[k][i] = queue[k][i + 1] /\ i \in Nat
            /\ j + 1 \in DOMAIN queue[k] /\ queue'[k][j] = queue[k][j + 1] /\ j \in Nat
        BY <2>0, <2>1, <3>2, Zenon
      <4>2. /\ KindOf[queue[k][i + 1]] = k
            /\ queue[k][i + 1] = queue[k][j + 1] => i + 1 = j + 1
        BY <1>7, <4>1
      <4>3. i + 1 = j + 1 => i = j
        BY ONLY <4>1
      <4> QED  BY <4>1, <4>2, <4>3, Zenon
    <3> QED  BY <3>1, <3>2
  <2>2. KindOf[worker'[w]] = w[1]
    <3>1. worker'[w] = queue[w[1]][1] /\ 1 \in DOMAIN queue[w[1]] /\ w[1] \in Pools
      BY <2>0, Zenon
    <3>2. KindOf[queue[w[1]][1]] = w[1]
      <4>1. \A i \in DOMAIN queue[w[1]] : KindOf[queue[w[1]][i]] = w[1]
        BY <1>7, <3>1, Zenon
      <4> QED  BY <3>1, <4>1, Zenon
    <3> QED  BY <3>1, <3>2, Zenon
  <2>3. \A i \in DOMAIN queue'[w[1]] : queue'[w[1]][i] # worker'[w]
    <3>1. ASSUME NEW i \in DOMAIN queue'[w[1]], queue'[w[1]][i] = worker'[w]
          PROVE  FALSE
      <4>1. /\ i + 1 \in DOMAIN queue[w[1]] /\ queue[w[1]][i + 1] = queue[w[1]][1] /\ i \in Nat
            /\ 1 \in DOMAIN queue[w[1]]
        BY <2>0, <3>1, Zenon
      <4>2. i + 1 = 1
        BY <1>0, <1>7, <4>1
      <4>3. i \in 1..Len(queue'[w[1]])
        <5>1. queue'[w[1]] = Tail(queue[w[1]]) /\ Tail(queue[w[1]]) \in Seq(Tasks)
          <6>1. queue[w[1]] \in Seq(Tasks) /\ queue \in [Pools -> Seq(Tasks)]
            BY <1>0 DEF PoolTypeOK
          <6> QED  BY <1>0, <1>4, <6>1 DEF Receive
        <5> QED  BY <3>1, <5>1
      <4> QED  BY ONLY <4>1, <4>2, <4>3
    <3> QED  BY <3>1, Zenon
  <2>4. ASSUME NEW u \in Workers \ {w}, worker'[u] \in Tasks
        PROVE  /\ KindOf[worker'[u]] = u[1]
               /\ \A i \in DOMAIN queue'[u[1]] : queue'[u[1]][i] # worker'[u]
               /\ worker'[u] # worker'[w]
    <3>1. worker'[u] = worker[u] /\ u[1] \in Pools
      BY <1>0, <2>0, <2>4, Zenon
    <3>2. \A i \in DOMAIN queue'[u[1]] :
            \E j \in DOMAIN queue[u[1]] : queue'[u[1]][i] = queue[u[1]][j]
      <4>1. CASE u[1] = w[1]
        <5>1. \A i \in DOMAIN queue'[u[1]] :
                i + 1 \in DOMAIN queue[u[1]] /\ queue'[u[1]][i] = queue[u[1]][i + 1]
          BY <2>0, <4>1, Zenon
        <5> QED  BY ONLY <5>1
      <4>2. CASE u[1] # w[1]
        <5>1. queue'[u[1]] = queue[u[1]]
          BY <2>0, <3>1, <4>2, Zenon
        <5> QED  BY <5>1, Zenon
      <4> QED  BY <4>1, <4>2
    <3>3. KindOf[worker[u]] = u[1] /\ \A j \in DOMAIN queue[u[1]] : queue[u[1]][j] # worker[u]
      BY <2>4, <3>1, Zenon DEF TasksApart
    <3>4. worker'[u] # worker'[w]
      <4>1. worker'[w] = queue[w[1]][1] /\ 1 \in DOMAIN queue[w[1]]
        BY <2>0, Zenon
      <4>2. SUFFICES ASSUME worker[u] = worker'[w] PROVE FALSE
        BY <3>1
      <4>3. u[1] = w[1]
        BY <2>2, <3>3, <4>2
      <4> QED  BY <3>3, <4>1, <4>2, <4>3
    <3> QED  BY <3>1, <3>2, <3>3, <3>4, Zenon
  <2>5. ASSUME NEW v \in Workers \ {w}, NEW u \in Workers \ {w}, worker'[u] \in Tasks,
               worker'[v] = worker'[u]
        PROVE  v = u
    <3>1. worker'[u] = worker[u] /\ worker'[v] = worker[v]
      BY <2>0, <2>5, Zenon
    <3> QED  BY <1>9, <2>5, <3>1, Zenon
  <2> QED  BY <2>1, <2>2, <2>3, <2>4, <2>5, ZenonT(60) DEF TasksApart
<1>5. ASSUME NEW w \in Workers, Execute(w) \/ Leave(w)
      PROVE  TasksApart'
  <2>1. /\ UNCHANGED queue /\ worker'[w] \notin Tasks
        /\ \A v \in Workers \ {w} : worker'[v] = worker[v]
    BY <1>0, <1>5 DEF Execute, Leave, PoolTypeOK
  <2>2. \A u \in Workers : worker'[u] \in Tasks => u # w /\ worker'[u] = worker[u]
    BY <2>1
  <2>3. queue' = queue
    BY <2>1, Zenon
  <2>4. ASSUME NEW v \in Workers, NEW u \in Workers, worker'[u] \in Tasks
        PROVE  /\ KindOf[worker'[u]] = u[1]
               /\ \A i \in DOMAIN queue'[u[1]] : queue'[u[1]][i] # worker'[u]
               /\ worker'[v] = worker'[u] => v = u
    <3>1. worker'[u] = worker[u]
      BY <2>2, <2>4, Zenon
    <3>2. worker'[v] = worker'[u] => v = u
      BY <1>9, <2>2, <2>4, Zenon
    <3> QED  BY <1>8, <2>3, <2>4, <3>1, <3>2, Zenon
  <2> QED  BY <1>7, <2>3, <2>4, ZenonT(60) DEF TasksApart
<1>6. CASE PoolExit
  <2>1. /\ \A k \in Pools : DOMAIN queue'[k] = {}
        /\ \A w \in Workers : worker'[w] \notin Tasks
    BY <1>0, <1>6 DEF PoolExit
  <2> QED  BY <2>1, Zenon DEF TasksApart
<1> QED  BY <1>1, <1>2, <1>3, <1>4, <1>5, <1>6, Zenon DEF PoolMoves, PoolStep

\* No step drops a task.
LEMMA DropStep ==
  ASSUME PoolTypeOK, TasksApart, PoolMoves
  PROVE  NoTaskDropped
<1> SUFFICES ASSUME NEW t \in Tasks, Accepted(t), ~Accepted(t)', main' # "off"
             PROVE  \E w \in Workers : w[1] = KindOf[t] /\ worker[w] = t /\ worker'[w] = "idle"
  BY Zenon DEF NoTaskDropped
<1>0. "idle" # t /\ "off" # t
  BY PoolAssumption DEF PoolAssumption
<1>1. /\ \A k \in Pools : \A i \in DOMAIN queue'[k] : queue'[k][i] # t
      /\ \A w \in Workers : worker'[w] # t
  BY AcceptedPlaces, Zenon
<1>2. CASE \E k \in Pools : \E i \in DOMAIN queue[k] : queue[k][i] = t
  <2>0. PICK k \in Pools : \E i \in DOMAIN queue[k] : queue[k][i] = t
    BY <1>2, Zenon
  <2>1. PICK i \in DOMAIN queue[k] : queue[k][i] = t
    BY <2>0, Zenon
  <2>2. ~(queue' = queue)
    BY <1>1, <2>1, Zenon
  <2>3. ASSUME NEW u \in Tasks, SubmitByKind(u)
        PROVE  FALSE
    <3>1. i \in DOMAIN queue'[k] /\ queue'[k][i] = queue[k][i]
      BY <2>1, <2>3, Submitted, Zenon
    <3> QED  BY <1>1, <2>1, <3>1, Zenon
  <2>4. ASSUME NEW w \in Workers, Receive(w)
        PROVE  FALSE
    <3>1. k = w[1]
      <4>1. k # w[1] => queue'[k] = queue[k]
        BY <2>4, Received
      <4> QED  BY <1>1, <2>1, <4>1, Zenon
    <3>2. i = 1
      <4>1. i # 1 => i - 1 \in DOMAIN queue'[k] /\ queue'[k][i - 1] = queue[k][i]
        BY <2>1, <2>4, <3>1, Received
      <4> QED  BY <1>1, <2>1, <4>1
    <3> QED  BY <1>1, <2>1, <2>4, <3>1, <3>2, Received, Zenon
  <2> QED
    BY <2>2, <2>3, <2>4, Zenon DEF PoolMoves, PoolStep, Execute, Leave
<1>3. CASE \E w \in Workers : worker[w] = t
  <2>1. PICK w \in Workers : worker[w] = t
    BY <1>3, Zenon
  <2>2. worker'[w] # worker[w]
    BY <1>1, <2>1, Zenon
  <2>3. ~ \E u \in Tasks : SubmitByKind(u)
    BY <2>2, Submitted, Zenon
  <2>4. PICK v \in Workers : PoolStep(v)
    BY <1>0, <2>1, <2>2, <2>3, Zenon DEF PoolMoves
  <2>5. ~Receive(v)
    BY <1>0, <2>1, <2>2, Received, Zenon
  <2>6. ~Leave(v)
    BY <1>0, <2>1, <2>2 DEF Leave, PoolTypeOK
  <2>7. Execute(v)
    BY <2>4, <2>5, <2>6, Zenon DEF PoolStep
  <2>8. v = w /\ worker'[w] = "idle"
    BY <2>1, <2>2, <2>7 DEF Execute, PoolTypeOK
  <2>9. KindOf[t] = w[1]
    BY <2>1, Zenon DEF TasksApart
  <2> QED  BY <2>1, <2>8, <2>9, Zenon
<1> QED  BY <1>2, <1>3, Zenon DEF Accepted

\* Every task is in one place at any time, so that no task is executed by two
\* workers, by another pool or twice, for any pools, workers, queues and tasks
\* (WorkerPool.Submit and worker).
THEOREM TasksAreApart == ProcessSpec => []TasksApart
<1>1. ProcessInit => TasksApart
  <2> SUFFICES ASSUME ProcessInit PROVE TasksApart
    OBVIOUS
  <2>1. /\ \A k \in Pools : DOMAIN queue[k] = {}
        /\ \A w \in Workers : worker[w] = "off"
    BY DEF ProcessInit, PoolInit
  <2>2. "off" \notin Tasks
    BY PoolAssumption DEF PoolAssumption
  <2> QED  BY <2>1, <2>2, Zenon DEF TasksApart
<1>2. ProcessInv /\ TasksApart /\ [ProcessNext]_vars => TasksApart'
  <2>1. ProcessInv => PoolTypeOK
    BY Zenon DEF ProcessInv, PoolInv
  <2> QED  BY <2>1, MovesOnly, ApartStep
<1> QED  BY <1>1, <1>2, ProcessAlways, PTL DEF ProcessSpec

\* While the process runs, a task that Submit accepted is dropped by no step,
\* not by the shutdown of the pools either: it stays until a worker of its own
\* pool has executed it (worker, Stop).
THEOREM TasksAreKept == ProcessSpec => [][NoTaskDropped]_vars
<1>1. ProcessInv /\ TasksApart /\ [ProcessNext]_vars => [NoTaskDropped]_vars
  <2>1. ProcessInv => PoolTypeOK
    BY Zenon DEF ProcessInv, PoolInv
  <2> QED  BY <2>1, MovesOnly, DropStep
<1> QED  BY <1>1, ProcessAlways, TasksAreApart, PTL DEF ProcessSpec
=============================================================================
