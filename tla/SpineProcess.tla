---------------------------- MODULE SpineProcess ----------------------------
(***************************************************************************)
(* The server process: main brings up the database connection, the worker  *)
(* pools, the certificate, the gRPC server and the admin socket in this    *)
(* order, waits for a signal or an error of the gRPC server, and takes     *)
(* them down again.  The gRPC server runs beside main, which never waits   *)
(* for it.  The process may be killed at any point; the next one finds     *)
(* only the database, the files and the socket.                            *)
(*                                                                         *)
(* Composes Certificates, WorkerPool and HeaderAuth.  A call is what the   *)
(* interceptors make of it and whether its handler is running; what the    *)
(* handlers do is the subject of the other modules.                        *)
(***************************************************************************)
EXTENDS Certificates, WorkerPool, HeaderAuth

CONSTANTS
  ConfigFiles,  \* the configuration files the process may be started with
  Calls         \* gRPC calls

VARIABLES
  config,   \* the configuration file
  main,     \* where main is
  db,       \* whether the client of the database is connected
  indexed,  \* the indexes exist, persisted
  grpc,     \* "none", "starting", "serving", "failed" or "draining"
  admin,    \* "none", "serving" or "stopping"
  sock,     \* the socket file exists
  asked,    \* a call to the admin server is being handled
  expired,  \* shutdownCtx has expired
  call      \* the calls of the gRPC server

processVars ==
  <<config, main, db, indexed, grpc, admin, sock, asked, expired, call>>
vars == <<certVars, poolVars, processVars>>

ClientAuthModes == {"none", "request", "require", "require_and_verify"}

ConfigFile ==
  [stderr : BOOLEAN, file : BOOLEAN, port : Nat, mongo : BOOLEAN,
   workers : Nat, tls : BOOLEAN, clientAuth : ClientAuthModes \cup {""},
   certCN : BOOLEAN, headerAuth : BOOLEAN, requireMTLS : BOOLEAN,
   adminSocket : BOOLEAN]

ASSUME ProcessAssumption == ConfigFiles \subseteq ConfigFile

NoCall == [pc |-> "none", verdict |-> "anonymous", due |-> "anonymous"]
Verdicts == {"identified", "anonymous", "refused"}

\* main's progress.
Phases ==
  {"off", "mongo", "indexes", "pools", "boot", "server", "admin", "running",
   "stopAdmin", "waitAdmin", "stopPools", "disconnect", "exit"}
ShuttingDown ==
  main \in {"stopAdmin", "waitAdmin", "stopPools", "disconnect", "exit"}

ProcessTypeOK ==
  /\ CertTypeOK
  /\ PoolTypeOK
  /\ config \in ConfigFiles
  /\ main \in Phases
  /\ db \in BOOLEAN /\ indexed \in BOOLEAN
  /\ grpc \in {"none", "starting", "serving", "failed", "draining"}
  /\ admin \in {"none", "serving", "stopping"}
  /\ sock \in BOOLEAN /\ asked \in BOOLEAN /\ expired \in BOOLEAN
  /\ call \in [Calls -> [pc : {"none", "handling", "refused"},
                         verdict : Verdicts, due : Verdicts]]
  /\ asked => admin # "none"

\* LoadSettings: a value of the file counts unless it is the zero value, so
\* that log_to_stderr, on by default, cannot be switched off.
LoadSettings(f) == [f EXCEPT !.stderr = TRUE]

\* Settings.Validate
Validate(s) ==
  /\ s.stderr \/ s.file
  /\ s.port \in 1..65535
  /\ s.mongo
  /\ s.workers > 0

settings == LoadSettings(config)
Bootstraps == settings.tls /\ settings.certCN

ProcessInit ==
  /\ CertInit /\ PoolInit
  /\ config \in ConfigFiles
  /\ main = "off" /\ db = FALSE /\ indexed = FALSE
  /\ grpc = "none" /\ admin = "none" /\ sock = FALSE /\ asked = FALSE
  /\ expired = FALSE
  /\ call = [c \in Calls |-> NoCall]

\* The process ends: panic, os.Exit, a signal that nobody handles, or main
\* returns.  Calls being handled are cut off.
Exit ==
  /\ CertExit /\ PoolExit
  /\ main' = "off" /\ db' = FALSE
  /\ grpc' = "none" /\ admin' = "none" /\ asked' = FALSE /\ expired' = FALSE
  /\ call' = [c \in Calls |-> NoCall]
  /\ UNCHANGED <<config, indexed, sock>>

Goto(p) == main' = p
-----------------------------------------------------------------------------
(* Start-up *)

Start ==
  /\ main = "off"
  /\ Validate(settings)
  /\ Goto("mongo")
  /\ UNCHANGED <<certVars, poolVars, config, db, indexed, grpc, admin, sock,
                 asked, expired, call>>

\* buildMongoClient connects and pings.
BuildMongoClient ==
  /\ main = "mongo"
  /\ db' = TRUE
  /\ Goto("indexes")
  /\ UNCHANGED <<certVars, poolVars, config, indexed, grpc, admin, sock, asked,
                 expired, call>>

\* CreateIndexes is repeated by every process.
CreateIndexes ==
  /\ main = "indexes"
  /\ indexed' = TRUE
  /\ Goto("pools")
  /\ UNCHANGED <<certVars, poolVars, config, db, grpc, admin, sock, asked,
                 expired, call>>

\* AppService.Start, then runBootstrap if it is configured.
StartServices ==
  /\ main = "pools"
  /\ StartPools
  /\ IF Bootstraps THEN Goto("boot") /\ Bootstrap
                   ELSE Goto("server") /\ UNCHANGED certVars
  /\ UNCHANGED <<config, db, indexed, grpc, admin, sock, asked, expired, call>>

BootDone ==
  /\ main = "boot"
  /\ certPc = "wait"
  /\ Goto("server")
  /\ UNCHANGED <<certVars, poolVars, config, db, indexed, grpc, admin, sock,
                 asked, expired, call>>

\* The CA certificate can be read.
LoadCAPool == caFile # 0

\* loadTLSConfig and the CA pool of the header authentication: a static pair
\* must load from disk, and the CA file must be there where it is used.
LoadTLSConfig ==
  /\ settings.tls =>
       /\ ~Bootstraps => Loadable
       /\ settings.clientAuth \in ClientAuthModes
       /\ settings.clientAuth = "require_and_verify" => caFile # 0
  /\ settings.headerAuth => LoadCAPool

\* NewServer, then Serve in a goroutine.
NewServer ==
  /\ main = "server"
  /\ LoadTLSConfig
  /\ grpc' = "starting"
  /\ Goto("admin")
  /\ UNCHANGED <<certVars, poolVars, config, db, indexed, admin, sock, asked,
                 expired, call>>

\* AdminServer.Start removes the socket of an earlier process and listens.
StartAdmin ==
  /\ main = "admin"
  /\ IF settings.adminSocket THEN admin' = "serving" /\ sock' = TRUE
                             ELSE UNCHANGED <<admin, sock>>
  /\ Goto("running")
  /\ UNCHANGED <<certVars, poolVars, config, db, indexed, grpc, asked, expired,
                 call>>

\* A step of the start-up fails and main panics, or bootstrap gives up.
StartFails ==
  /\ \/ main \in {"mongo", "indexes"}
     \/ main = "boot" /\ GivesUp
     \/ main = "server" /\ ~LoadTLSConfig
     \/ main = "admin" /\ settings.adminSocket
  /\ Exit
-----------------------------------------------------------------------------
(* The gRPC server *)

\* net.Listen succeeds or fails; an error is kept in errChan.
Listen ==
  /\ grpc = "starting"
  /\ grpc' \in {"serving", "failed"}
  /\ UNCHANGED <<certVars, poolVars, config, main, db, indexed, admin, sock,
                 asked, expired, call>>

\* serverCtx is done: GracefulStop takes no new calls.
Drain ==
  /\ grpc = "serving"
  /\ ShuttingDown
  /\ grpc' = "draining"
  /\ UNCHANGED <<certVars, poolVars, config, main, db, indexed, admin, sock,
                 asked, expired, call>>

\* A call of a client of the SDK passes the interceptors.
Arrive(c, method, cert, age) ==
  LET hdr == IF cert = "none" THEN NoHeader ELSE SdkHeader(method, cert, age)
      verdict == Judge(hdr, method, settings.headerAuth, settings.requireMTLS)
  IN
  /\ grpc = "serving"
  /\ call[c].pc = "none"
  /\ call' = [call EXCEPT ![c] =
        [pc |-> IF verdict = "refused" THEN "refused" ELSE "handling",
         verdict |-> verdict,
         due |-> Deserved(cert, age, settings.headerAuth, settings.requireMTLS)]]
  /\ UNCHANGED <<certVars, poolVars, config, main, db, indexed, grpc, admin,
                 sock, asked, expired>>

\* Its handler returns; a panic is caught and returned as an error.
Answer(c) ==
  /\ call[c].pc # "none"
  /\ call' = [call EXCEPT ![c] = NoCall]
  /\ UNCHANGED <<certVars, poolVars, config, main, db, indexed, grpc, admin,
                 sock, asked, expired>>

\* A call to the admin server.
AdminCall ==
  /\ admin = "serving"
  /\ asked' = TRUE
  /\ UNCHANGED <<certVars, poolVars, config, main, db, indexed, grpc, admin,
                 sock, expired, call>>

AdminAnswer ==
  /\ asked
  /\ asked' = FALSE
  /\ UNCHANGED <<certVars, poolVars, config, main, db, indexed, grpc, admin,
                 sock, expired, call>>
-----------------------------------------------------------------------------
(* Shutdown *)

\* SIGTERM, or the error of Serve; serverCancel.
Stop ==
  /\ main = "running"
  /\ Goto("stopAdmin")
  /\ UNCHANGED <<certVars, poolVars, config, db, indexed, grpc, admin, sock,
                 asked, expired, call>>

\* AdminServer.Stop: no new calls, no socket ...
StopAdmin ==
  /\ main = "stopAdmin"
  /\ IF admin = "serving" THEN admin' = "stopping" /\ sock' = FALSE
                          ELSE UNCHANGED <<admin, sock>>
  /\ Goto("waitAdmin")
  /\ UNCHANGED <<certVars, poolVars, config, db, indexed, grpc, asked, expired,
                 call>>

\* Faulty: Stop waits for the calls however long they take.
AdminStoppedPatient ==
  /\ main = "waitAdmin"
  /\ ~asked
  /\ admin' = "none" /\ asked' = FALSE
  /\ Goto("stopPools")
  /\ UNCHANGED <<certVars, poolVars, config, db, indexed, grpc, sock, expired,
                 call>>

\* ... until its calls are answered or shutdownCtx expires.
AdminStopped ==
  /\ main = "waitAdmin"
  /\ ~asked \/ expired
  /\ admin' = "none" /\ asked' = FALSE
  /\ Goto("stopPools")
  /\ UNCHANGED <<certVars, poolVars, config, db, indexed, grpc, sock, expired,
                 call>>

\* AppService.Stop
StopServices ==
  /\ main = "stopPools"
  /\ StopPools
  /\ UNCHANGED <<certVars, processVars>>

ServicesStopped ==
  /\ main = "stopPools"
  /\ \A k \in Pools : pool[k] = "stopped"
  /\ Goto("disconnect")
  /\ UNCHANGED <<certVars, poolVars, config, db, indexed, grpc, admin, sock,
                 asked, expired, call>>

\* mongoClient.Disconnect
Disconnect ==
  /\ main = "disconnect"
  /\ db' = FALSE
  /\ Goto("exit")
  /\ UNCHANGED <<certVars, poolVars, config, indexed, grpc, admin, sock, asked,
                 expired, call>>

\* main returns.
Return == main = "exit" /\ Exit

\* The 30 seconds of shutdownCtx are over.
Expire ==
  /\ ShuttingDown /\ ~expired
  /\ expired' = TRUE
  /\ UNCHANGED <<certVars, poolVars, config, main, db, indexed, grpc, admin,
                 sock, asked, call>>

\* The process is killed; before main waits for signals, any signal does it.
Kill == main # "off" /\ Exit
-----------------------------------------------------------------------------
MainStep ==
  \/ BuildMongoClient \/ CreateIndexes \/ StartServices \/ BootDone
  \/ NewServer \/ StartAdmin \/ StartFails
  \/ StopAdmin \/ AdminStopped \/ StopServices \/ ServicesStopped
  \/ Disconnect \/ Return

\* A shutdown takes seconds, not days.
CertificateStep ==
  /\ \/ CertStep
     \/ ~ShuttingDown /\ (Day \/ RotateCA)
  /\ UNCHANGED <<poolVars, processVars>>

TaskStep(w) ==
  /\ PoolStep(w)
  /\ UNCHANGED <<certVars, processVars>>

SubmitStep ==
  /\ main # "off"
  /\ \E t \in Tasks : SubmitByKind(t)
  /\ UNCHANGED <<certVars, processVars>>

CallStep ==
  \/ Listen \/ Drain
  \/ \E c \in Calls, method \in {"unary", "stream"}, cert \in Certs \cup {"none"},
        age \in Ages : Arrive(c, method, cert, age)
  \/ \E c \in Calls : Answer(c)
  \/ AdminCall \/ AdminAnswer

ProcessNext ==
  \/ Start \/ MainStep \/ Stop \/ Expire \/ Kill
  \/ CertificateStep \/ SubmitStep \/ CallStep
  \/ \E w \in Workers : TaskStep(w)

ProcessSpec == ProcessInit /\ [][ProcessNext]_vars

\* main and the workers run, tasks end, and the deadline of a shutdown passes.
\* Nothing is assumed of calls, of server_api or of the admin's calls.
FairProcessSpec ==
  /\ ProcessSpec
  /\ WF_vars(MainStep)
  /\ \A w \in Workers : WF_vars(TaskStep(w))
  /\ WF_vars(Expire)
-----------------------------------------------------------------------------
(* Properties *)

\* The order of start-up and shutdown protects the database: a call is handled
\* only when the unique indexes exist and the certificate is there, tasks never
\* outlive the connection, and calls do so only after everything else has
\* stopped, in the last step of main.
InOrder ==
  /\ \A c \in Calls : call[c].pc = "handling" =>
       /\ indexed
       /\ Bootstraps => live # NoCert
       /\ ~db => main = "exit"
  /\ ~db => \A w \in Workers : worker[w] \notin Tasks

\* The interceptors of the SDK and of the server agree: a call of a client with
\* a good certificate and a clock that is not off too far is identified, and
\* every other call is what the settings make of it.
SidesAgree == \A c \in Calls : call[c].verdict = call[c].due

\* A shutdown that has begun ends, whatever calls and admin calls are under way
\* and however long they take.
ShutdownEnds == main = "stopAdmin" ~> main = "off"

\* A task that Submit accepted is executed, unless its pool is stopped.
AcceptedRuns ==
  \A t \in Tasks :
    Accepted(t) ~> ~Accepted(t) \/ pool[KindOf[t]] # "running"
=============================================================================
