------------------------------- MODULE Session -------------------------------
(***************************************************************************)
(* The sessions of one server_id: the handshake of its streams (HELLO,     *)
(* RESUME, kicking of conflicting sessions), the in-memory registries of   *)
(* sessions, delivery loops and wake-up channels, the session documents,   *)
(* and the teardown of streams.                                            *)
(*                                                                         *)
(* Every stream is a goroutine running StreamHandler.Connect, cut at its   *)
(* database calls and at every operation on a shared map, so handshakes    *)
(* and teardowns of several streams of the server interleave.  A stream    *)
(* names what it creates: the id of the session a HELLO makes, the session *)
(* object, the delivery loop and the channel.  A resumed session is a new  *)
(* object with the id of the old one.  The admin command Disconnect is one *)
(* more actor on the same maps.                                            *)
(*                                                                         *)
(* Abstracted: what the delivery loop delivers (module Delivery), frames   *)
(* after the handshake, time stamps, and metrics.                          *)
(***************************************************************************)
EXTENDS Naturals, FiniteSets

CONSTANTS
  Streams,      \* the streams the server may open, each at most once
  Admin,        \* the operator's Disconnect
  KickOld,      \* max_sessions_per_server_id = 1
  MaxBusy,      \* bound on handshakes, teardowns and commands at once
  MaxFaults,    \* bound on failed calls, crashes and operator commands
  None

ASSUME SessionAssumption ==
  /\ Admin \notin Streams
  /\ None \notin Streams \cup {Admin}
  /\ KickOld \in BOOLEAN
  /\ MaxBusy \in Nat
  /\ MaxFaults \in Nat

VARIABLES
  docs,       \* the session documents, persisted
  registry,   \* sessions: whose session object is stored for the server
  loops,      \* deliveryLoops: whose cancel function is stored, by session id
  chans,      \* deliveryChans: whose channel is stored, by session id
  sess,       \* the session object of each stream
  h,          \* the local state of each handler
  stopper,    \* who cancelled the delivery loop of a stream
  closes,     \* how often the channel of a stream was closed
  newest,     \* the stream opened last
  told,       \* resume tokens sent to the client
  faults,     \* failed calls, crashes and operator commands so far
  overlapped, \* history: streams up whose handshake met another handshake
  takeovers,  \* history: streams that resumed a session of a live stream
  unwelcomed, \* history: streams whose WELCOME could not be sent
  unlisted    \* history: streams up whose entry in sessions was deleted by the
              \* operator, or in place of the entry that was looked at

\* The maps in memory with their history, and what the clients see.
mapVars == <<registry, loops, chans, stopper, closes, unlisted>>
clientVars == <<newest, told, overlapped, takeovers, unwelcomed>>
vars == <<docs, sess, h, faults, mapVars, clientVars>>

Actors == Streams \cup {Admin}

\* A token is minted by a stream, with its new session or for a resumed one.
Token == Streams \X {"new", "rotated"}
Doc == [id : Streams, epoch : Nat, token : Token]
NoSession == [id |-> None, epoch |-> 0, token |-> None]

\* Where a handler is.  The steps stop, close, unregister and delete act on
\* the session id target, for the reason why.
Steps == {"idle", "lookup", "hello", "live", "kickLive", "kickDoc", "stop",
          "close", "unregister", "erase", "delete", "create", "store", "rotate",
          "positions", "register", "startLoop", "startChan", "serve", "ended"}
Reasons == {"none", "live", "doc", "cleanup", "admin"}

Handler ==
  [pc : Steps, why : Reasons, target : Streams \cup {None},
   kicked : Streams \cup {None}, keep : Streams \cup {None},
   token : Token \cup {None}, epoch : Nat]
Idle ==
  [pc |-> "idle", why |-> "none", target |-> None, kicked |-> None,
   keep |-> None, token |-> None, epoch |-> 0]

SessionTypeOK ==
  /\ docs \subseteq Doc
  /\ registry \in Streams \cup {None}
  /\ loops \in [Streams -> Streams \cup {None}]
  /\ chans \in [Streams -> Streams \cup {None}]
  /\ sess \in [Streams -> Doc \cup {NoSession}]
  /\ h \in [Actors -> Handler]
  /\ \A a \in Actors : h[a].why # "none" => h[a].target \in Streams
  /\ \A s \in Streams : h[s].pc \in {"rotate", "register", "startLoop",
                                     "startChan", "serve"} => sess[s] \in Doc
  /\ stopper \in [Streams -> Actors \cup {None}]
  /\ closes \in [Streams -> Nat]
  /\ newest \in Streams \cup {None}
  /\ told \subseteq Token
  /\ faults \in 0..MaxFaults
  /\ overlapped \subseteq Streams
  /\ takeovers \subseteq Streams
  /\ unwelcomed \subseteq Streams
  /\ unlisted \subseteq Streams

SessionInit ==
  /\ docs = {}
  /\ registry = None
  /\ loops = [s \in Streams |-> None]
  /\ chans = [s \in Streams |-> None]
  /\ sess = [s \in Streams |-> NoSession]
  /\ h = [a \in Actors |-> Idle]
  /\ stopper = [s \in Streams |-> None]
  /\ closes = [s \in Streams |-> 0]
  /\ newest = None
  /\ told = {}
  /\ faults = 0
  /\ overlapped = {}
  /\ takeovers = {}
  /\ unwelcomed = {}
  /\ unlisted = {}

\* What most steps of a handler leave alone.
Goto(a, step) == h' = [h EXCEPT ![a] = [h[a] EXCEPT !.pc = step]]

\* One more of the faults the model admits.
Fault == faults < MaxFaults /\ faults' = faults + 1

RoomToAct ==
  Cardinality({a \in Actors : h[a].pc \notin {"idle", "serve", "ended"}}) < MaxBusy

Handshaking(s) == h[s].pc \notin {"idle", "serve", "ended"} /\ h[s].why # "cleanup"
-----------------------------------------------------------------------------
(* The session repository and the session object *)

GetSessionByResumeToken(t) == {d \in docs : d.token = t}

\* The document of the highest epoch; any of them when epochs repeat.
GetSessionByServerID == {d \in docs : \A e \in docs : e.epoch <= d.epoch}

CreateSession(d) == docs' = docs \cup {d}

\* The document keeps its epoch.
UpdateResumeToken(id, t) ==
  docs' = {IF d.id = id THEN [d EXCEPT !.token = t] ELSE d : d \in docs}

DeleteSession(id) == docs' = {d \in docs : d.id # id}

NewSession(s, epoch) == [id |-> s, epoch |-> epoch, token |-> <<s, "new">>]

RotateResumeToken(s) ==
  [sess[s] EXCEPT !.epoch = sess[s].epoch + 1, !.token = <<s, "rotated">>]

\* getLiveSessionByServerID: the object in the registry, if any.
Live == IF registry = None THEN {} ELSE {sess[registry]}

\* The streams whose session the admin commands find.
ListActiveSessions == {registry} \ {None}
-----------------------------------------------------------------------------
(* The handshake *)

\* The client opens a stream and sends HELLO, with a token it was sent or none.
Open(s, t) ==
  /\ h[s].pc = "idle" /\ RoomToAct
  /\ t \in told \cup {None}
  /\ h' = [h EXCEPT ![s] = [Idle EXCEPT
             !.pc = IF t = None THEN "hello" ELSE "lookup", !.token = t]]
  /\ newest' = s
  /\ LET others == {r \in Streams \ {s} : Handshaking(r)}
     IN  overlapped' = IF others = {} THEN overlapped
                       ELSE overlapped \cup others \cup {s}
  /\ UNCHANGED <<docs, sess, faults, mapVars, told, takeovers, unwelcomed>>

\* No first frame, a first frame that is not HELLO, or a server_id that is not
\* the one of the client's certificate: the handler returns before it has
\* changed anything.
Reject(s) == h[s].pc = "idle" /\ UNCHANGED vars

\* The handshake fails.  A failed resume is answered RESUME_DENIED and goes on
\* as a HELLO; a failed HELLO ends the stream.
Fail(s) ==
  h' = [h EXCEPT ![s] =
         IF h[s].pc = "lookup" \/ h[s].keep # None
           THEN [Idle EXCEPT !.pc = "hello"]
           ELSE [Idle EXCEPT !.pc = "ended"]]

\* A database call fails, by itself or because the stream is gone, with which
\* its context is cancelled.
HandshakeFails(s) ==
  /\ h[s].pc \in {"lookup", "hello", "kickDoc", "delete", "create", "rotate", "positions"}
  /\ Fault
  /\ Fail(s)
  /\ UNCHANGED <<docs, sess, mapVars, clientVars>>

\* Some stream of session id has not ended.
Served(id) == \E r \in Streams : sess[r].id = id /\ h[r].pc # "ended"

\* Faulty: a token without a session is not noticed.
LookupUnchecked(s) ==
  /\ h[s].pc = "lookup"
  /\ \/ \E d \in GetSessionByResumeToken(h[s].token) :
          /\ sess' = [sess EXCEPT ![s] = d]
          /\ h' = [h EXCEPT ![s] = [h[s] EXCEPT
                     !.pc = IF KickOld THEN "kickLive" ELSE "rotate",
                     !.keep = d.id, !.token = None]]
          /\ takeovers' = IF Served(d.id) THEN takeovers \cup {s} ELSE takeovers
     \/ /\ GetSessionByResumeToken(h[s].token) = {}
        /\ Goto(s, "rotate")
        /\ UNCHANGED <<sess, takeovers>>
  /\ UNCHANGED <<docs, faults, mapVars, newest, told, overlapped, unwelcomed>>

\* HandleResume: the session of the token, or RESUME_DENIED.
Lookup(s) ==
  /\ h[s].pc = "lookup"
  /\ \/ \E d \in GetSessionByResumeToken(h[s].token) :
          /\ sess' = [sess EXCEPT ![s] = d]
          /\ h' = [h EXCEPT ![s] = [h[s] EXCEPT
                     !.pc = IF KickOld THEN "kickLive" ELSE "rotate",
                     !.keep = d.id, !.token = None]]
          /\ takeovers' = IF Served(d.id) THEN takeovers \cup {s} ELSE takeovers
     \/ /\ GetSessionByResumeToken(h[s].token) = {}
        /\ Fail(s)
        /\ UNCHANGED <<sess, takeovers>>
  /\ UNCHANGED <<docs, faults, mapVars, newest, told, overlapped, unwelcomed>>

\* HandleHello: the epoch follows the latest document ...
Hello(s) ==
  /\ h[s].pc = "hello"
  /\ \E e \in {d.epoch + 1 : d \in GetSessionByServerID}
            \cup (IF docs = {} THEN {1} ELSE {}) :
       h' = [h EXCEPT ![s] = [h[s] EXCEPT !.pc = "live", !.epoch = e]]
  /\ UNCHANGED <<docs, sess, faults, mapVars, clientVars>>

\* ... and the session registered in memory.
LiveEpoch(s) ==
  /\ h[s].pc = "live"
  /\ LET e == IF \E l \in Live : l.epoch >= h[s].epoch
                THEN sess[registry].epoch + 1 ELSE h[s].epoch
     IN  h' = [h EXCEPT ![s] = [h[s] EXCEPT
                 !.pc = IF KickOld THEN "kickLive" ELSE "create", !.epoch = e]]
  /\ UNCHANGED <<docs, sess, faults, mapVars, clientVars>>

\* Faulty: the loop of the kicked session is not stopped.
KickUnregisters(s, id, source) ==
  h' = [h EXCEPT ![s] = [h[s] EXCEPT !.pc = "unregister", !.why = source, !.target = id]]

Kick(s, id, source) ==
  h' = [h EXCEPT ![s] = [h[s] EXCEPT !.pc = "stop", !.why = source, !.target = id]]

\* kickConflictingSessions: the session in the registry first,
KickLive(s) ==
  /\ h[s].pc = "kickLive"
  /\ IF \E l \in Live : l.id # h[s].keep
       THEN Kick(s, sess[registry].id, "live")
       ELSE Goto(s, "kickDoc")
  /\ UNCHANGED <<docs, sess, faults, mapVars, clientVars>>

AfterKick(s) == IF h[s].keep # None THEN "rotate" ELSE "create"

\* then the latest document, read after the first kick.
KickDoc(s) ==
  /\ h[s].pc = "kickDoc"
  /\ \/ \E d \in GetSessionByServerID :
          /\ d.id \notin {h[s].keep, h[s].kicked}
          /\ Kick(s, d.id, "doc")
     \/ /\ docs = {} \/ \E d \in GetSessionByServerID : d.id \in {h[s].keep, h[s].kicked}
        /\ h' = [h EXCEPT ![s] = [h[s] EXCEPT !.pc = AfterKick(s), !.kicked = None]]
  /\ UNCHANGED <<docs, sess, faults, mapVars, clientVars>>

\* NewSession and CreateSession
Create(s) ==
  /\ h[s].pc = "create"
  /\ sess' = [sess EXCEPT ![s] = NewSession(s, h[s].epoch)]
  /\ CreateSession(NewSession(s, h[s].epoch))
  /\ h' = [h EXCEPT ![s] = [Idle EXCEPT !.pc = "store"]]
  /\ UNCHANGED <<faults, mapVars, clientVars>>

\* The new session is registered and WELCOME sent.  When it cannot be sent the
\* handler returns, and nothing removes the session from the registry.
Store(s) ==
  /\ h[s].pc = "store"
  /\ registry' = s
  /\ \/ /\ told' = told \cup {sess[s].token}
        /\ Goto(s, "register")
        /\ UNCHANGED <<unwelcomed, faults>>
     \/ /\ Fault
        /\ h' = [h EXCEPT ![s] = [Idle EXCEPT !.pc = "ended"]]
        /\ unwelcomed' = unwelcomed \cup {s}
        /\ UNCHANGED told
  /\ UNCHANGED <<docs, loops, chans, stopper, closes, unlisted, sess, newest, overlapped,
                 takeovers>>

\* Faulty: the rotated token is not written to the document.
RotateInMemory(s) ==
  /\ h[s].pc = "rotate"
  /\ IF \E d \in docs : d.id = sess[s].id
       THEN /\ sess' = [sess EXCEPT ![s] = RotateResumeToken(s)]
            /\ Goto(s, "positions")
       ELSE Fail(s) /\ UNCHANGED sess
  /\ UNCHANGED <<docs, faults, mapVars, clientVars>>

\* HandleResume: the epoch is raised in memory only, the token is rotated and
\* written to the document, if that still exists.
Rotate(s) ==
  /\ h[s].pc = "rotate"
  /\ IF \E d \in docs : d.id = sess[s].id
       THEN /\ sess' = [sess EXCEPT ![s] = RotateResumeToken(s)]
            /\ UpdateResumeToken(sess[s].id, <<s, "rotated">>)
            /\ Goto(s, "positions")
       ELSE Fail(s) /\ UNCHANGED <<docs, sess>>
  /\ UNCHANGED <<faults, mapVars, clientVars>>

\* GetAckPositions, and RESUME_OK with the rotated token.
Positions(s) ==
  /\ h[s].pc = "positions"
  /\ \/ /\ told' = told \cup {sess[s].token}
        /\ Goto(s, "register")
        /\ UNCHANGED faults
     \/ /\ Fault
        /\ h' = [h EXCEPT ![s] = [Idle EXCEPT !.pc = "ended"]]
        /\ UNCHANGED told
  /\ UNCHANGED <<docs, sess, mapVars, newest, overlapped, takeovers, unwelcomed>>

\* Faulty: only HandleHello registers.
RegisterNothing(s) ==
  /\ h[s].pc = "register"
  /\ Goto(s, "startLoop")
  /\ UNCHANGED <<docs, sess, faults, mapVars, clientVars>>

Register(s) ==
  /\ h[s].pc = "register"
  /\ registry' = s
  /\ Goto(s, "startLoop")
  /\ UNCHANGED <<docs, loops, chans, stopper, closes, sess, faults, unlisted, clientVars>>

\* StartDeliveryLoop: the cancel function, then the channel and the goroutine.
StartLoop(s) ==
  /\ h[s].pc = "startLoop"
  /\ loops' = [loops EXCEPT ![sess[s].id] = s]
  /\ Goto(s, "startChan")
  /\ UNCHANGED <<docs, registry, chans, stopper, closes, sess, faults, unlisted, clientVars>>

StartChan(s) ==
  /\ h[s].pc = "startChan"
  /\ chans' = [chans EXCEPT ![sess[s].id] = s]
  /\ h' = [h EXCEPT ![s] = [Idle EXCEPT !.pc = "serve"]]
  /\ UNCHANGED <<docs, registry, loops, stopper, closes, sess, faults, unlisted, clientVars>>
-----------------------------------------------------------------------------
(* Stopping loops and unregistering sessions *)

\* StopDeliveryLoop: LoadAndDelete of the cancel function and the call of it,
Stop(a) ==
  /\ h[a].pc = "stop"
  /\ loops' = [loops EXCEPT ![h[a].target] = None]
  /\ LET s == loops[h[a].target]
     IN  stopper' = IF s = None \/ stopper[s] # None THEN stopper
                    ELSE [stopper EXCEPT ![s] = a]
  /\ Goto(a, "close")
  /\ UNCHANGED <<docs, registry, chans, closes, sess, faults, unlisted, clientVars>>

\* After the teardown of a loop: Disconnect is done, the others unregister.
AfterClose(a) ==
  IF h[a].why = "admin" THEN h' = [h EXCEPT ![a] = Idle] ELSE Goto(a, "unregister")

\* Faulty: the operator's command closes the channel but leaves it in the map.
CloseLeaves(a) ==
  /\ h[a].pc = "close"
  /\ chans' = IF h[a].why = "admin" THEN chans ELSE [chans EXCEPT ![h[a].target] = None]
  /\ LET s == chans[h[a].target]
     IN  closes' = IF s = None THEN closes ELSE [closes EXCEPT ![s] = closes[s] + 1]
  /\ AfterClose(a)
  /\ UNCHANGED <<docs, registry, loops, stopper, sess, faults, unlisted, clientVars>>

\* then LoadAndDelete of the channel and its close.
Close(a) ==
  /\ h[a].pc = "close"
  /\ chans' = [chans EXCEPT ![h[a].target] = None]
  /\ LET s == chans[h[a].target]
     IN  closes' = IF s = None THEN closes ELSE [closes EXCEPT ![s] = closes[s] + 1]
  /\ AfterClose(a)
  /\ UNCHANGED <<docs, registry, loops, stopper, sess, faults, unlisted, clientVars>>

\* After UnregisterSession.
AfterUnregister(a) ==
  h' = [h EXCEPT ![a] =
         CASE h[a].why = "cleanup" -> [Idle EXCEPT !.pc = "ended"]
           [] h[a].why = "admin" -> [h[a] EXCEPT !.pc = "stop"]
           [] OTHER -> [h[a] EXCEPT !.pc = "delete"]]

\* Faulty: the teardown of a stream leaves the registry alone.
UnregisterKicked(a) ==
  /\ h[a].pc = "unregister"
  /\ IF h[a].why # "cleanup" /\ \E l \in Live : l.id = h[a].target
       THEN Goto(a, "erase")
       ELSE AfterUnregister(a)
  /\ UNCHANGED <<docs, sess, faults, mapVars, clientVars>>

\* UnregisterSession looks for an entry with this session id ...
Unregister(a) ==
  /\ h[a].pc = "unregister"
  /\ IF \E l \in Live : l.id = h[a].target
       THEN Goto(a, "erase")
       ELSE AfterUnregister(a)
  /\ UNCHANGED <<docs, sess, faults, mapVars, clientVars>>

\* ... and deletes the entry of the server, which may be another one by now.
Erase(a) ==
  /\ h[a].pc = "erase"
  /\ registry' = None
  /\ unlisted' = unlisted \cup
       {s \in {registry} \ {None} : a = Admin \/ sess[s].id # h[a].target}
  /\ AfterUnregister(a)
  /\ UNCHANGED <<docs, sess, faults, loops, chans, stopper, closes, clientVars>>

\* kickSession: DeleteSession, and on to the next conflict.
Delete(s) ==
  /\ h[s].pc = "delete"
  /\ DeleteSession(h[s].target)
  /\ h' = [h EXCEPT ![s] = [h[s] EXCEPT
             !.pc = IF h[s].why = "live" THEN "kickDoc" ELSE AfterKick(s),
             !.kicked = IF h[s].why = "live" THEN h[s].target ELSE None,
             !.why = "none", !.target = None]]
  /\ UNCHANGED <<sess, faults, mapVars, clientVars>>

\* A stream that is down does not deliver, and its history is of no account.
Down(s) ==
  /\ stopper' = [stopper EXCEPT ![s] = s]
  /\ overlapped' = overlapped \ {s}
  /\ unlisted' = unlisted \ {s}

\* Faulty: a stream whose loop is gone cleans up after the session registered
\* for the server.
CleanupLive(s) ==
  /\ h[s].pc = "serve" /\ RoomToAct
  /\ h' = [h EXCEPT ![s] = [Idle EXCEPT !.pc = "stop", !.why = "cleanup",
             !.target = IF registry = None \/ {loops[sess[s].id], chans[sess[s].id]} # {None}
                          THEN sess[s].id ELSE sess[registry].id]]
  /\ Down(s)
  /\ UNCHANGED <<docs, sess, faults, registry, loops, chans, closes, newest, told,
                 takeovers, unwelcomed>>

\* The stream breaks, with it the context of its loop, and Recv fails: the
\* deferred cleanup, by the id of the session.
Cleanup(s) ==
  /\ h[s].pc = "serve" /\ RoomToAct
  /\ h' = [h EXCEPT ![s] = [Idle EXCEPT
             !.pc = "stop", !.why = "cleanup", !.target = sess[s].id]]
  /\ Down(s)
  /\ UNCHANGED <<docs, sess, faults, registry, loops, chans, closes, newest, told,
                 takeovers, unwelcomed>>

\* Disconnect of the admin socket: unregister first, then stop the loop.  The
\* stream and the document stay.
Disconnect ==
  \E s \in ListActiveSessions :
    h' = [h EXCEPT ![Admin] = [Idle EXCEPT
            !.pc = "unregister", !.why = "admin", !.target = sess[s].id]]

\* mspinectl sessions disconnect, confirmed by the operator.
sessionsDisconnectCmd ==
  /\ Fault
  /\ h[Admin].pc = "idle" /\ RoomToAct
  /\ Disconnect
  /\ UNCHANGED <<docs, sess, mapVars, clientVars>>

\* The process dies; the documents are left.
SessionCrash ==
  /\ Fault
  /\ registry' = None
  /\ loops' = [s \in Streams |-> None]
  /\ chans' = [s \in Streams |-> None]
  /\ h' = [a \in Actors |-> IF h[a].pc = "idle" \/ a = Admin THEN Idle
                            ELSE [Idle EXCEPT !.pc = "ended"]]
  /\ UNCHANGED <<docs, sess, stopper, closes, unlisted, clientVars>>
-----------------------------------------------------------------------------
Handshake(s) ==
  \/ \E t \in told \cup {None} : Open(s, t)
  \/ Reject(s)
  \/ HandshakeFails(s)
  \/ Lookup(s) \/ Hello(s) \/ LiveEpoch(s)
  \/ KickLive(s) \/ KickDoc(s) \/ Delete(s)
  \/ Create(s) \/ Store(s)
  \/ Rotate(s) \/ Positions(s)
  \/ Register(s) \/ StartLoop(s) \/ StartChan(s)

Next ==
  \/ \E s \in Streams : Handshake(s) \/ Cleanup(s)
  \/ \E a \in Actors : Stop(a) \/ Close(a) \/ Unregister(a) \/ Erase(a)
  \/ sessionsDisconnectCmd
  \/ SessionCrash

Spec == SessionInit /\ [][Next]_vars
-----------------------------------------------------------------------------
(* Properties *)

\* The delivery loop of s runs: it was started and its context is alive.
Delivering(s) == h[s].pc = "serve" /\ stopper[s] = None

\* No wake-up channel is closed twice, which would end the process, although
\* kicks, the admin command and the teardown of several streams may stop the
\* loop of one session at once (StopDeliveryLoop).
ClosedOnce == \A s \in Streams : closes[s] <= 1

\* With max_sessions_per_server_id = 1 the kick leaves one delivery loop
\* (SPEC 3.2: at most one active session per server_id).  Exactly: two streams
\* both deliver only if the handshake of one of them met another handshake, its
\* session was resumed while it lived (the cancel function of the earlier loop is
\* then overwritten and lost), or its entry in sessions was deleted by the
\* operator or in place of another one, so that the kick does not find it.
OneLoop ==
  KickOld =>
    \A s, r \in Streams :
      s # r /\ Delivering(s) /\ Delivering(r) =>
        \E x \in {s, r} :
          \/ x \in overlapped \cup unlisted
          \/ \E t \in takeovers : sess[t].id = sess[x].id

\* What SPEC 2 says of a connection, that the server pushes frames
\* immediately: the loop of the stream opened last, with no handshake at the
\* same time, runs as long as the stream is up and the operator does not
\* disconnect it.
NewestDelivers ==
  newest # None /\ h[newest].pc = "serve" /\ newest \notin overlapped =>
    stopper[newest] \in {None, Admin}

\* The extent to which NewestDelivers holds of this code: the loop of the
\* stream opened last is stopped by another actor only after overlapping
\* handshakes, or when it resumed a session whose earlier stream had not ended.
NewestStopExplained ==
  newest # None /\ h[newest].pc = "serve" =>
    stopper[newest] \in {None, Admin} \/ newest \in overlapped \cup takeovers

\* The stream opened last is the one kicks and the admin commands find in the
\* registry while it serves, with the same exceptions and one more: its entry was
\* deleted by the operator's Disconnect, or by an UnregisterSession that had
\* looked at the entry before.
NewestRegistered ==
  newest # None /\ h[newest].pc = "serve" =>
    newest \in ListActiveSessions \cup overlapped \cup takeovers \cup unlisted

\* A stream that has ended is in none of the three maps, whatever was done to
\* its session meanwhile, unless its WELCOME could not be sent: then its session
\* stays in the registry (Connect returns before its cleanup is deferred).
NothingLeaks ==
  \A s \in Streams : h[s].pc = "ended" =>
    /\ registry = s => s \in unwelcomed
    /\ \A id \in Streams : loops[id] # s /\ chans[id] # s

\* The token the client of the newest stream was sent is the one its session
\* document has, so the next RESUME is accepted as long as the document exists
\* (UpdateResumeToken; SPEC 3.2: rotating tokens).
NewestCanResume ==
  newest # None /\ h[newest].pc = "serve" /\ newest \notin overlapped =>
    \A d \in docs : d.id = sess[newest].id => d.token = sess[newest].token
=============================================================================
