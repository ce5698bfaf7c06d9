---------------------------- MODULE SessionProofs ----------------------------
(* Invariance proofs for module Session. *)
EXTENDS Session, TLAPS

\* What the types rest on: a stream has a session from the moment it resumes or
\* has created one, and a handler that stops a loop knows which.
Tidy ==
  /\ \A s \in Streams : h[s].keep # None \/ h[s].pc \in {"store", "positions"} => sess[s] \in Doc
  /\ registry # None => sess[registry] \in Doc
  /\ \A a \in Actors : h[a].pc \in {"stop", "close", "unregister", "erase", "delete"} =>
                         h[a].why # "none"

TypeInv == SessionTypeOK /\ Tidy

\* The record of an actor with nothing to do.
LEMMA HandlerIdle ==
  /\ Idle \in Handler /\ Idle.pc = "idle" /\ Idle.why = "none" /\ Idle.keep = None
  /\ Idle.target = None
  BY DEF Idle, Handler, Steps, Reasons

\* The types hold when the Spine starts.
LEMMA SessionTypeInit == SessionInit => TypeInv
  BY HandlerIdle, SessionAssumption
  DEF SessionInit, TypeInv, Tidy, SessionTypeOK, NoSession, SessionAssumption, Actors, Idle

\* What a step leaves alone that changes only the handler of a.
LEMMA HandlerStep ==
  ASSUME TypeInv, NEW a \in Actors, NEW R \in Handler,
         h' = [h EXCEPT ![a] = R],
         UNCHANGED <<docs, sess, registry, loops, chans, stopper, closes, newest, told>>,
         faults' \in 0..MaxFaults,
         UNCHANGED <<overlapped, takeovers, unwelcomed, unlisted>>,
         R.why # "none" => R.target \in Streams,
         R.pc \in {"stop", "close", "unregister", "erase", "delete"} => R.why # "none",
         a \in Streams /\ (R.keep # None \/ R.pc \in {"store", "positions", "rotate", "register",
           "startLoop", "startChan", "serve"}) => sess[a] \in Doc
  PROVE  TypeInv'
  BY DEF TypeInv, Tidy, SessionTypeOK, Actors

\* Failing handshakes keep the types.
LEMMA FailType ==
  ASSUME TypeInv, NEW s \in Streams, Fail(s),
         UNCHANGED <<docs, sess, registry, loops, chans, stopper, closes, newest, told>>,
         faults' \in 0..MaxFaults,
         UNCHANGED <<overlapped, takeovers, unwelcomed, unlisted>>
  PROVE  TypeInv'
<1> DEFINE R == IF h[s].pc = "lookup" \/ h[s].keep # None
                THEN [Idle EXCEPT !.pc = "hello"] ELSE [Idle EXCEPT !.pc = "ended"]
<1>1. h' = [h EXCEPT ![s] = R]
  BY DEF Fail
<1>2. R \in Handler /\ R.why = "none" /\ R.keep = None /\ R.pc \in {"hello", "ended"}
  BY HandlerIdle DEF Handler, Steps, Idle
<1> HIDE DEF R
<1> QED  BY <1>1, <1>2, HandlerStep DEF Actors

\* The count of faults stays within its bound.
LEMMA FaultType ==
  ASSUME TypeInv, Fault
  PROVE  faults' \in 0..MaxFaults
  BY SessionAssumption DEF Fault, TypeInv, SessionTypeOK, SessionAssumption

\* The steps of a handshake that only read keep the types.
LEMMA ReadType ==
  ASSUME TypeInv, NEW s \in Streams,
         HandshakeFails(s) \/ Hello(s) \/ LiveEpoch(s) \/ KickLive(s) \/ KickDoc(s)
  PROVE  TypeInv'
<1> USE DEF mapVars, clientVars
<1>0. h[s] \in Handler /\ s \in Actors
  BY DEF TypeInv, SessionTypeOK, Actors
<1>1. CASE HandshakeFails(s)
  BY <1>1, FailType, FaultType DEF HandshakeFails
<1>a. faults' = faults => faults' \in 0..MaxFaults
  BY DEF TypeInv, SessionTypeOK
<1>2. CASE Hello(s)
  <2>0. PICK e \in {d.epoch + 1 : d \in GetSessionByServerID}
                     \cup (IF docs = {} THEN {1} ELSE {}) :
          h' = [h EXCEPT ![s] = [h[s] EXCEPT !.pc = "live", !.epoch = e]]
    BY <1>2, Zenon DEF Hello
  <2>1. e \in Nat
    BY <2>0 DEF GetSessionByServerID, TypeInv, SessionTypeOK, Doc
  <2> DEFINE R == [h[s] EXCEPT !.pc = "live", !.epoch = e]
  <2>2. R \in Handler /\ R.pc = "live" /\ R.why = h[s].why /\ R.target = h[s].target
        /\ R.keep = h[s].keep
    BY <1>0, <2>1 DEF Handler, Steps
  <2>3. h' = [h EXCEPT ![s] = R]
    BY <2>0
  <2> HIDE DEF R
  <2> QED  BY <1>0, <1>2, <1>a, <2>2, <2>3, HandlerStep, Zenon
           DEF Hello, TypeInv, Tidy, SessionTypeOK
<1>b. registry # None => sess[registry].epoch \in Nat /\ sess[registry].id \in Streams
  BY DEF TypeInv, Tidy, Doc
<1>3. CASE LiveEpoch(s)
  <2> DEFINE e == IF \E l \in Live : l.epoch >= h[s].epoch
                  THEN sess[registry].epoch + 1 ELSE h[s].epoch
             R == [h[s] EXCEPT !.pc = IF KickOld THEN "kickLive" ELSE "create", !.epoch = e]
  <2>1. e \in Nat
    <3>1. CASE registry = None
      BY <1>0, <3>1 DEF Live, Handler
    <3>2. CASE registry # None
      BY <1>0, <1>b, <3>2 DEF Handler
    <3> QED  BY <3>1, <3>2
  <2>2. h' = [h EXCEPT ![s] = R]
    BY <1>3 DEF LiveEpoch
  <2> HIDE DEF e
  <2>3. R \in Handler /\ R.pc \in {"kickLive", "create"} /\ R.why = h[s].why
        /\ R.target = h[s].target /\ R.keep = h[s].keep
    <3>1. CASE KickOld
      BY <1>0, <2>1, <3>1, ZenonT(60) DEF Handler, Steps
    <3>2. CASE ~KickOld
      BY <1>0, <2>1, <3>2, ZenonT(60) DEF Handler, Steps
    <3> QED  BY <3>1, <3>2
  <2> HIDE DEF R
  <2>4. UNCHANGED <<docs, sess, faults, mapVars, clientVars>>
    BY <1>3 DEF LiveEpoch
  <2> QED  BY <1>0, <1>a, <2>2, <2>3, <2>4, HandlerStep DEF TypeInv, Tidy, SessionTypeOK
<1>c. ASSUME NEW id \in Streams, NEW why \in {"live", "doc"}, Kick(s, id, why),
             UNCHANGED <<docs, sess, faults, mapVars, clientVars>>
      PROVE  TypeInv'
  <2> DEFINE R == [h[s] EXCEPT !.pc = "stop", !.why = why, !.target = id]
  <2>1. R \in Handler /\ R.pc = "stop" /\ R.why = why /\ R.target = id /\ R.keep = h[s].keep
    BY <1>0, ZenonT(60) DEF Handler, Steps, Reasons
  <2>2. h' = [h EXCEPT ![s] = R]
    BY <1>c DEF Kick
  <2> HIDE DEF R
  <2> QED  BY <1>0, <1>a, <1>c, <2>1, <2>2, HandlerStep, Zenon DEF TypeInv, Tidy
<1>4. CASE KickLive(s)
  <2>1. CASE \E l \in Live : l.id # h[s].keep
    <3>1. registry # None /\ Kick(s, sess[registry].id, "live")
      BY <1>4, <2>1 DEF KickLive, Live
    <3> QED  BY <1>4, <1>b, <1>c, <3>1 DEF KickLive
  <2>2. CASE ~\E l \in Live : l.id # h[s].keep
    <3> DEFINE R == [h[s] EXCEPT !.pc = "kickDoc"]
    <3>1. R \in Handler /\ R.pc = "kickDoc" /\ R.why = h[s].why /\ R.target = h[s].target
          /\ R.keep = h[s].keep
      BY <1>0 DEF Handler, Steps
    <3>2. h' = [h EXCEPT ![s] = R]
      BY <1>4, <2>2 DEF KickLive, Goto
    <3> HIDE DEF R
    <3> QED  BY <1>0, <1>4, <1>a, <3>1, <3>2, HandlerStep DEF KickLive, TypeInv, Tidy, SessionTypeOK
  <2> QED  BY <2>1, <2>2
<1>5. CASE KickDoc(s)
  <2>1. ASSUME NEW d \in GetSessionByServerID, Kick(s, d.id, "doc")  PROVE TypeInv'
    <3>1. d.id \in Streams
      BY <2>1, ZenonT(60), SMTT(60) DEF GetSessionByServerID, TypeInv, SessionTypeOK, Doc
    <3> QED  BY <1>5, <1>c, <2>1, <3>1 DEF KickDoc
  <2>2. CASE h' = [h EXCEPT ![s] = [h[s] EXCEPT !.pc = AfterKick(s), !.kicked = None]]
    <3> DEFINE R == [h[s] EXCEPT !.pc = AfterKick(s), !.kicked = None]
    <3>1. AfterKick(s) \in {"rotate", "create"} /\ (AfterKick(s) = "rotate" => h[s].keep # None)
      BY DEF AfterKick
    <3>2. R \in Handler /\ R.pc = AfterKick(s) /\ R.why = h[s].why /\ R.target = h[s].target
          /\ R.keep = h[s].keep
      BY <1>0, <3>1, Zenon DEF Handler, Steps
    <3>3. h' = [h EXCEPT ![s] = R]
      BY <2>2
    <3> HIDE DEF R
    <3> QED  BY <1>0, <1>5, <1>a, <3>1, <3>2, <3>3, HandlerStep
             DEF KickDoc, TypeInv, Tidy, SessionTypeOK
  <2> QED  BY <1>5, <2>1, <2>2 DEF KickDoc
<1> QED  BY <1>1, <1>2, <1>3, <1>4, <1>5

\* The maps, documents and histories are well formed.
MapsOK ==
  /\ docs \subseteq Doc
  /\ registry \in Streams \cup {None} /\ (registry # None => sess[registry] \in Doc)
  /\ loops \in [Streams -> Streams \cup {None}]
  /\ chans \in [Streams -> Streams \cup {None}]
  /\ sess \in [Streams -> Doc \cup {NoSession}]
  /\ stopper \in [Streams -> Actors \cup {None}]
  /\ closes \in [Streams -> Nat]
  /\ newest \in Streams \cup {None}
  /\ told \subseteq Token
  /\ faults \in 0..MaxFaults
  /\ overlapped \subseteq Streams /\ takeovers \subseteq Streams
  /\ unwelcomed \subseteq Streams /\ unlisted \subseteq Streams

\* The types give those of the registry, the loops and the documents.
LEMMA TypeMaps == TypeInv => MapsOK
  BY DEF TypeInv, Tidy, SessionTypeOK, MapsOK

\* One handler goes on, and leaves the sessions of the others alone.
LEMMA StepType ==
  ASSUME TypeInv, NEW a \in Actors, NEW R \in Handler,
         h' = [h EXCEPT ![a] = R], MapsOK',
         \A r \in Streams : r # a => sess'[r] = sess[r],
         R.why # "none" => R.target \in Streams,
         R.pc \in {"stop", "close", "unregister", "erase", "delete"} => R.why # "none",
         a \in Streams /\ (R.keep # None \/ R.pc \in {"store", "positions", "rotate", "register",
           "startLoop", "startChan", "serve"}) => sess'[a] \in Doc
  PROVE  TypeInv'
  BY DEF TypeInv, Tidy, SessionTypeOK, MapsOK, Actors

\* Opening a stream and the steps that look up, create and resume a session
\* keep the types (HandleHello, HandleResume).
LEMMA WriteType ==
  ASSUME TypeInv, NEW s \in Streams,
         \/ \E t \in told \cup {None} : Open(s, t)
         \/ Lookup(s) \/ Create(s) \/ Rotate(s) \/ Delete(s)
  PROVE  TypeInv'
<1> USE DEF mapVars, clientVars
<1>0. h[s] \in Handler /\ s \in Actors /\ MapsOK
  BY TypeMaps DEF TypeInv, SessionTypeOK, Actors
<1>1. ASSUME NEW t \in told \cup {None}, Open(s, t)  PROVE TypeInv'
  <2> DEFINE R == [Idle EXCEPT !.pc = IF t = None THEN "hello" ELSE "lookup", !.token = t]
  <2>1. R \in Handler /\ R.why = "none" /\ R.keep = None /\ R.pc \in {"hello", "lookup"}
    <3> DEFINE first == IF t = None THEN "hello" ELSE "lookup"
    <3>1. first \in {"hello", "lookup"} /\ t \in Token \cup {None}
      BY <1>0 DEF MapsOK
    <3>2. R = [Idle EXCEPT !.pc = first, !.token = t]
      OBVIOUS
    <3> HIDE DEF first, R
    <3> QED  BY <3>1, <3>2, HandlerIdle DEF Handler, Steps, Idle
  <2>2. h' = [h EXCEPT ![s] = R]
    BY <1>1, Zenon DEF Open
  <2>3. MapsOK' /\ sess' = sess
    BY <1>0, <1>1, Zenon DEF Open, MapsOK
  <2> HIDE DEF R
  <2> QED  BY <1>0, <2>1, <2>2, <2>3, StepType, Zenon
<1>2. CASE Lookup(s)
  <2>1. ASSUME NEW d \in GetSessionByResumeToken(h[s].token),
               sess' = [sess EXCEPT ![s] = d],
               h' = [h EXCEPT ![s] = [h[s] EXCEPT
                      !.pc = IF KickOld THEN "kickLive" ELSE "rotate",
                      !.keep = d.id, !.token = None]],
               takeovers' \in {takeovers, takeovers \cup {s}}
        PROVE  TypeInv'
    <3> DEFINE R == [h[s] EXCEPT !.pc = IF KickOld THEN "kickLive" ELSE "rotate",
                                 !.keep = d.id, !.token = None]
    <3>1. d \in Doc /\ d.id \in Streams
      BY <1>0, <2>1 DEF GetSessionByResumeToken, MapsOK, Doc
    <3>2. R \in Handler /\ R.why = h[s].why /\ R.target = h[s].target
          /\ R.pc \in {"kickLive", "rotate"}
      BY <1>0, <3>1 DEF Handler, Steps
    <3>3. MapsOK' /\ sess'[s] \in Doc /\ \A r \in Streams : r # s => sess'[r] = sess[r]
      BY <1>0, <1>2, <2>1, <3>1, ZenonT(60) DEF Lookup, MapsOK
    <3>4. h' = [h EXCEPT ![s] = R]
      BY <2>1
    <3>5. R.why # "none" => R.target \in Streams
      BY <1>0, <3>2 DEF TypeInv, SessionTypeOK
    <3> HIDE DEF R
    <3> QED  BY <1>0, <3>2, <3>3, <3>4, <3>5, StepType, Zenon
  <2>2. CASE Fail(s) /\ UNCHANGED <<sess, takeovers>>
    BY <1>0, <1>2, <2>2, FailType, Zenon DEF Lookup, MapsOK
  <2> QED  BY <1>2, <2>1, <2>2, Zenon DEF Lookup
<1>3. CASE Create(s)
  <2> DEFINE R == [Idle EXCEPT !.pc = "store"]
  <2>1. R \in Handler /\ R.why = "none" /\ R.keep = None /\ R.pc = "store"
    BY HandlerIdle DEF Handler, Steps, Idle
  <2>2. NewSession(s, h[s].epoch) \in Doc
    BY <1>0 DEF NewSession, Doc, Token, Handler
  <2>3. h' = [h EXCEPT ![s] = R] /\ sess' = [sess EXCEPT ![s] = NewSession(s, h[s].epoch)]
    BY <1>3 DEF Create
  <2>4. MapsOK' /\ sess'[s] \in Doc /\ \A r \in Streams : r # s => sess'[r] = sess[r]
    BY <1>0, <1>3, <2>2, <2>3 DEF Create, CreateSession, MapsOK
  <2> HIDE DEF R
  <2> QED  BY <1>0, <2>1, <2>3, <2>4, StepType, Zenon
<1>4. CASE Rotate(s)
  <2>1. CASE \E d \in docs : d.id = sess[s].id
    <3> DEFINE R == [h[s] EXCEPT !.pc = "positions"]
    <3>1. sess[s] \in Doc
      BY <1>4 DEF Rotate, TypeInv, SessionTypeOK
    <3>2. RotateResumeToken(s) \in Doc
      <4>1. sess[s].epoch + 1 \in Nat /\ <<s, "rotated">> \in Token
        BY <3>1 DEF Doc, Token
      <4>2. \A e \in Nat, t \in Token : [sess[s] EXCEPT !.epoch = e, !.token = t] \in Doc
        BY <3>1, Zenon DEF Doc
      <4> QED  BY <4>1, <4>2, Zenon DEF RotateResumeToken
    <3>3. /\ sess' = [sess EXCEPT ![s] = RotateResumeToken(s)]
          /\ UpdateResumeToken(sess[s].id, <<s, "rotated">>)
          /\ h' = [h EXCEPT ![s] = R]
      BY <1>4, <2>1 DEF Rotate, Goto
    <3>4. docs' \subseteq Doc
      BY <1>0, <3>3 DEF UpdateResumeToken, MapsOK, Doc, Token
    <3>5. R \in Handler /\ R.why = h[s].why /\ R.target = h[s].target /\ R.pc = "positions"
      BY <1>0 DEF Handler, Steps
    <3>6. MapsOK' /\ sess'[s] \in Doc /\ \A r \in Streams : r # s => sess'[r] = sess[r]
      BY <1>0, <1>4, <3>2, <3>3, <3>4 DEF Rotate, MapsOK
    <3>7. R.why # "none" => R.target \in Streams
      BY <1>0, <3>5 DEF TypeInv, SessionTypeOK
    <3> HIDE DEF R
    <3> QED  BY <1>0, <3>3, <3>5, <3>6, <3>7, StepType
  <2>2. CASE ~\E d \in docs : d.id = sess[s].id
    BY <1>0, <1>4, <2>2, FailType DEF Rotate, MapsOK
  <2> QED  BY <2>1, <2>2
<1>5. CASE Delete(s)
  <2> DEFINE pc == IF h[s].why = "live" THEN "kickDoc" ELSE AfterKick(s)
             kicked == IF h[s].why = "live" THEN h[s].target ELSE None
             R == [h[s] EXCEPT !.pc = pc, !.kicked = kicked, !.why = "none", !.target = None]
  <2>1. h' = [h EXCEPT ![s] = R]
    BY <1>5 DEF Delete
  <2>2. pc \in {"kickDoc", "rotate", "create"} /\ (pc = "rotate" => h[s].keep # None)
        /\ kicked \in Streams \cup {None}
    BY <1>0 DEF AfterKick, Handler
  <2> HIDE DEF pc, kicked
  <2>3. R \in Handler /\ R.why = "none" /\ R.pc = pc /\ R.keep = h[s].keep
    BY <1>0, <2>2, Zenon DEF Handler, Steps, Reasons
  <2>4. MapsOK' /\ sess' = sess
    BY <1>0, <1>5 DEF Delete, DeleteSession, MapsOK
  <2> HIDE DEF R
  <2> QED  BY <1>0, <2>1, <2>2, <2>3, <2>4, StepType DEF TypeInv, Tidy
<1> QED  BY <1>1, <1>2, <1>3, <1>4, <1>5

\* A handler that goes on to the step pc, with everything else as it was.
LEMMA GotoType ==
  ASSUME TypeInv, NEW a \in Actors, NEW pc \in Steps, Goto(a, pc), MapsOK', sess' = sess,
         pc \in {"stop", "close", "unregister", "erase", "delete"} => h[a].why # "none",
         a \in Streams /\ pc \in {"store", "positions", "rotate", "register", "startLoop",
           "startChan", "serve"} => sess[a] \in Doc
  PROVE  TypeInv'
<1> DEFINE R == [h[a] EXCEPT !.pc = pc]
<1>1. h[a] \in Handler
  BY DEF TypeInv, SessionTypeOK
<1>2. R \in Handler /\ R.why = h[a].why /\ R.target = h[a].target /\ R.pc = pc
      /\ R.keep = h[a].keep
  BY <1>1 DEF Handler
<1>3. h' = [h EXCEPT ![a] = R]
  BY DEF Goto
<1>4. R.why # "none" => R.target \in Streams
  BY <1>2 DEF TypeInv, SessionTypeOK
<1>5. a \in Streams /\ R.keep # None => sess[a] \in Doc
  BY <1>2 DEF TypeInv, Tidy
<1> HIDE DEF R
<1> QED  BY <1>2, <1>3, <1>4, <1>5, StepType, Zenon

\* A handler that starts over from pc: idle, serving, or ended.
LEMMA ResetType ==
  ASSUME TypeInv, NEW a \in Actors, NEW pc \in {"idle", "serve", "ended"},
         h' = [h EXCEPT ![a] = [Idle EXCEPT !.pc = pc]], MapsOK', sess' = sess,
         a \in Streams /\ pc = "serve" => sess[a] \in Doc
  PROVE  TypeInv'
<1> DEFINE R == [Idle EXCEPT !.pc = pc]
<1>1. R \in Handler /\ R.why = "none" /\ R.keep = None /\ R.pc = pc
  BY DEF Handler, Steps, Idle, Reasons
<1>2. h' = [h EXCEPT ![a] = R]
  OBVIOUS
<1> HIDE DEF R
<1> QED  BY <1>1, <1>2, StepType, Zenon

\* Registering a session and starting its loop keep the types.
LEMMA StartType ==
  ASSUME TypeInv, NEW s \in Streams,
         Store(s) \/ Positions(s) \/ Register(s) \/ StartLoop(s) \/ StartChan(s)
  PROVE  TypeInv'
<1> USE DEF mapVars, clientVars
<1>0. /\ s \in Actors /\ MapsOK /\ sess[s] \in Doc /\ sess[s].id \in Streams
      /\ sess[s].token \in Token /\ sess' = sess
  <2>1. sess[s] \in Doc
    BY DEF Store, Positions, Register, StartLoop, StartChan, TypeInv, Tidy, SessionTypeOK
  <2> QED  BY <2>1, TypeMaps DEF Actors, Doc, Store, Positions, Register, StartLoop, StartChan
<1>1. CASE Store(s)
  <2>1. MapsOK'
    BY <1>0, <1>1, FaultType DEF Store, MapsOK
  <2>2. CASE Goto(s, "register")
    BY <1>0, <2>1, <2>2, GotoType DEF Steps
  <2>3. CASE h' = [h EXCEPT ![s] = [Idle EXCEPT !.pc = "ended"]]
    BY <1>0, <2>1, <2>3, ResetType
  <2> QED  BY <1>1, <2>2, <2>3 DEF Store
<1>2. CASE Positions(s)
  <2>1. MapsOK'
    BY <1>0, <1>2, FaultType DEF Positions, MapsOK
  <2>2. CASE Goto(s, "register")
    BY <1>0, <2>1, <2>2, GotoType DEF Steps
  <2>3. CASE h' = [h EXCEPT ![s] = [Idle EXCEPT !.pc = "ended"]]
    BY <1>0, <2>1, <2>3, ResetType
  <2> QED  BY <1>2, <2>2, <2>3 DEF Positions
<1>3. CASE Register(s)
  <2>1. MapsOK'
    BY <1>0, <1>3 DEF Register, MapsOK
  <2> QED  BY <1>0, <1>3, <2>1, GotoType DEF Register, Steps
<1>4. CASE StartLoop(s)
  <2>1. MapsOK'
    BY <1>0, <1>4 DEF StartLoop, MapsOK
  <2> QED  BY <1>0, <1>4, <2>1, GotoType DEF StartLoop, Steps
<1>5. CASE StartChan(s)
  <2>1. MapsOK'
    BY <1>0, <1>5 DEF StartChan, MapsOK
  <2> QED  BY <1>0, <1>5, <2>1, ResetType, Zenon DEF StartChan
<1> QED  BY <1>1, <1>2, <1>3, <1>4, <1>5

\* After UnregisterSession a handler is well formed.
LEMMA AfterUnregisterType ==
  ASSUME TypeInv, NEW a \in Actors, h[a].pc \in {"unregister", "erase"}, AfterUnregister(a),
         MapsOK', sess' = sess
  PROVE  TypeInv'
<1>1. CASE h[a].why = "cleanup"
  BY <1>1, ResetType DEF AfterUnregister
<1>2. CASE h[a].why = "admin"
  <2>1. Goto(a, "stop")
    BY <1>2 DEF AfterUnregister, Goto
  <2> QED  BY <1>2, <2>1, GotoType DEF Steps
<1>3. CASE h[a].why \notin {"cleanup", "admin"}
  <2>1. Goto(a, "delete")
    BY <1>3, ZenonT(60) DEF AfterUnregister, Goto
  <2> QED  BY <2>1, GotoType DEF Steps, TypeInv, Tidy
<1> QED  BY <1>1, <1>2, <1>3

\* Stopping a loop and unregistering a session keep the types
\* (StopDeliveryLoop, UnregisterSession).
LEMMA StopType ==
  ASSUME TypeInv, NEW a \in Actors, Stop(a) \/ Close(a) \/ Unregister(a) \/ Erase(a)
  PROVE  TypeInv'
<1> USE DEF mapVars, clientVars
<1>0. /\ MapsOK /\ h[a].why # "none" /\ h[a].target \in Streams /\ sess' = sess
  BY TypeMaps DEF Stop, Close, Unregister, Erase, TypeInv, Tidy, SessionTypeOK
<1>1. CASE Stop(a)
  <2>1. MapsOK'
    BY <1>0, <1>1 DEF Stop, MapsOK
  <2> QED  BY <1>0, <1>1, <2>1, GotoType DEF Stop, Steps
<1>2. CASE Close(a)
  <2>1. MapsOK'
    <3> DEFINE s == chans[h[a].target]
    <3>1. s \in Streams \cup {None}
      BY <1>0 DEF MapsOK
    <3> HIDE DEF s
    <3>2. closes' = closes \/ (closes' = [closes EXCEPT ![s] = closes[s] + 1] /\ s \in Streams)
      BY <1>2, <3>1 DEF Close, s
    <3>3. closes' \in [Streams -> Nat]
      BY <1>0, <3>2 DEF MapsOK
    <3>4. chans' \in [Streams -> Streams \cup {None}]
      BY <1>0, <1>2 DEF Close, MapsOK
    <3> QED  BY <1>0, <1>2, <3>3, <3>4 DEF Close, MapsOK
  <2>2. CASE h' = [h EXCEPT ![a] = Idle]
    <3>1. Idle = [Idle EXCEPT !.pc = "idle"]
      BY DEF Idle
    <3> QED  BY <1>0, <2>1, <2>2, <3>1, ResetType, Zenon
  <2>3. CASE Goto(a, "unregister")
    BY <1>0, <2>1, <2>3, GotoType DEF Steps
  <2> QED  BY <1>2, <2>2, <2>3, SMTT(60), ZenonT(60) DEF Close, AfterClose
<1>3. CASE Unregister(a)
  <2>1. MapsOK'
    BY <1>0, <1>3 DEF Unregister, MapsOK
  <2>2. CASE Goto(a, "erase")
    BY <1>0, <2>1, <2>2, GotoType DEF Steps
  <2>3. CASE AfterUnregister(a)
    BY <1>0, <1>3, <2>1, <2>3, AfterUnregisterType DEF Unregister
  <2> QED  BY <1>3, <2>2, <2>3 DEF Unregister
<1>4. CASE Erase(a)
  <2>1. MapsOK'
    BY <1>0, <1>4 DEF Erase, MapsOK
  <2> QED  BY <1>0, <1>4, <2>1, AfterUnregisterType DEF Erase
<1> QED  BY <1>1, <1>2, <1>3, <1>4

\* So do the end of a stream, the operator and a crash.
LEMMA EndType ==
  ASSUME TypeInv,
         (\E s \in Streams : Cleanup(s)) \/ sessionsDisconnectCmd \/ SessionCrash
  PROVE  TypeInv'
<1> USE DEF mapVars, clientVars
<1>0. MapsOK
  BY TypeMaps
<1>1. ASSUME NEW s \in Streams, Cleanup(s)  PROVE TypeInv'
  <2> DEFINE R == [Idle EXCEPT !.pc = "stop", !.why = "cleanup", !.target = sess[s].id]
  <2>1. sess[s].id \in Streams
    BY <1>1, Zenon DEF Cleanup, TypeInv, SessionTypeOK, Doc
  <2>2. R \in Handler /\ R.why = "cleanup" /\ R.keep = None /\ R.pc = "stop"
        /\ R.target = sess[s].id
    BY <2>1 DEF Handler, Steps, Idle, Reasons
  <2>3. MapsOK' /\ sess' = sess
    BY <1>0, <1>1, Zenon DEF Cleanup, Down, MapsOK, Actors
  <2>4. h' = [h EXCEPT ![s] = R]
    BY <1>1, Zenon DEF Cleanup
  <2> HIDE DEF R
  <2> QED  BY <2>1, <2>2, <2>3, <2>4, StepType DEF Actors
<1>2. CASE sessionsDisconnectCmd
  <2>1. PICK s \in ListActiveSessions :
          h' = [h EXCEPT ![Admin] = [Idle EXCEPT
                  !.pc = "unregister", !.why = "admin", !.target = sess[s].id]]
    BY <1>2, Zenon DEF sessionsDisconnectCmd, Disconnect
  <2> DEFINE R == [Idle EXCEPT !.pc = "unregister", !.why = "admin", !.target = sess[s].id]
  <2>2. sess[s].id \in Streams
    BY <1>0, <2>1 DEF ListActiveSessions, MapsOK, Doc
  <2>3. R \in Handler /\ R.why = "admin" /\ R.keep = None /\ R.pc = "unregister"
        /\ R.target = sess[s].id
    BY <2>2, Zenon DEF Handler, Steps, Idle, Reasons
  <2>4. MapsOK' /\ sess' = sess
    BY <1>0, <1>2, FaultType DEF sessionsDisconnectCmd, MapsOK
  <2>5. h' = [h EXCEPT ![Admin] = R] /\ Admin \in Actors /\ Admin \notin Streams
    BY <2>1, SessionAssumption DEF Actors, SessionAssumption
  <2> HIDE DEF R
  <2> QED  BY <2>2, <2>3, <2>4, <2>5, StepType
<1>3. CASE SessionCrash
  <2>1. MapsOK' /\ registry' = None
    BY <1>0, <1>3, FaultType DEF SessionCrash, MapsOK
  <2>2. \A a \in Actors : h'[a] \in {Idle, [Idle EXCEPT !.pc = "ended"]}
    BY <1>3 DEF SessionCrash
  <2>3. h' \in [Actors -> Handler]
        /\ \A a \in Actors : h'[a].why = "none" /\ h'[a].keep = None
                             /\ h'[a].pc \in {"idle", "ended"}
    BY <1>3, <2>2, HandlerIdle DEF SessionCrash, Handler, Steps, Idle
  <2> QED
    BY <2>1, <2>3 DEF TypeInv, Tidy, SessionTypeOK, MapsOK, Actors
<1> QED  BY <1>1, <1>2, <1>3

\* Every step of the Spine preserves the types.
LEMMA TypeStep ==
  ASSUME TypeInv, [Next]_vars
  PROVE  TypeInv'
<1>1. CASE UNCHANGED vars
  BY <1>1 DEF vars, mapVars, clientVars, TypeInv, Tidy, SessionTypeOK
<1>2. ASSUME NEW s \in Streams, Reject(s)  PROVE UNCHANGED vars
  BY <1>2 DEF Reject
<1> QED
  BY <1>1, <1>2, ReadType, WriteType, StartType, StopType, EndType DEF Next, Handshake

\* The registries, the session documents and the handlers are well formed, and
\* a handler that stops a loop or serves a session has one, for any number of
\* streams of the server.
THEOREM SessionTypeCorrect == Spec => []SessionTypeOK
<1>1. TypeInv /\ [Next]_vars => TypeInv'
  BY TypeStep
<1>2. TypeInv => SessionTypeOK
  BY DEF TypeInv
<1> QED
  BY <1>1, <1>2, SessionTypeInit, PTL DEF Spec
-----------------------------------------------------------------------------
(* Who is in the maps *)

\* The handshake of s is not over: no loop of s was started yet.
Starting(s) == h[s].pc \notin {"serve", "ended"} /\ h[s].why # "cleanup"

\* It has not come to Register either.
Shaking(s) == Starting(s) /\ h[s].pc \notin {"register", "startLoop", "startChan"}

NotIn(m, s) == \A id \in Streams : m[id] # s

\* A stream is in the maps under the id of its session only, from the step of
\* its handshake that puts it there to the step of its teardown that takes it
\* out.  Its channel is in the map or closed, not both.
Placed(s) ==
  /\ h[s].why # "admin"
  /\ h[s].why = "cleanup" =>
       h[s].pc \in {"stop", "close", "unregister", "erase"} /\ h[s].target = sess[s].id
  /\ \A id \in Streams : loops[id] = s \/ chans[id] = s => id = sess[s].id
  /\ Shaking(s) => registry # s
  /\ Starting(s) => closes[s] = 0 /\ NotIn(chans, s)
  /\ Starting(s) /\ h[s].pc # "startChan" => NotIn(loops, s)
  /\ closes[s] <= 1
  /\ NotIn(chans, s) \/ closes[s] = 0
  /\ h[s].why = "cleanup" /\ h[s].pc # "stop" => NotIn(loops, s)
  /\ h[s].why = "cleanup" /\ h[s].pc \notin {"stop", "close"} => NotIn(chans, s)
  /\ h[s].pc = "ended" =>
       (registry = s => s \in unwelcomed) /\ NotIn(loops, s) /\ NotIn(chans, s)

AllPlaced == \A s \in Streams : Placed(s)

\* AllPlaced holds when the Spine starts.
LEMMA PlacedInit == SessionInit => AllPlaced
  BY SessionAssumption
  DEF SessionInit, AllPlaced, Placed, Starting, Shaking, NotIn, Idle, SessionAssumption, Actors

\* A stream stays where it is when neither it nor the maps change.
LEMMA PlacedStays ==
  ASSUME NEW r \in Streams, Placed(r), h'[r] = h[r], sess'[r] = sess[r],
         UNCHANGED <<registry, loops, chans, closes>>, unwelcomed \subseteq unwelcomed'
  PROVE  Placed(r)'
<1>1. /\ registry' = registry /\ loops' = loops /\ chans' = chans /\ closes' = closes
  OBVIOUS
<1>2. Shaking(r)' = Shaking(r) /\ Starting(r)' = Starting(r)
  BY Zenon DEF Shaking, Starting
<1> QED  BY <1>1, <1>2 DEF Placed, NotIn

\* A handshake before Register touches no map: it goes on, comes to Register,
\* or ends.
LEMMA ShakingStep ==
  ASSUME TypeInv, AllPlaced, NEW s \in Streams, Shaking(s),
         UNCHANGED <<registry, loops, chans, closes>>, unwelcomed \subseteq unwelcomed',
         \A r \in Streams \ {s} : h'[r] = h[r] /\ sess'[r] = sess[r],
         h'[s].why \notin {"cleanup", "admin"},
         h'[s].pc \notin {"startLoop", "startChan", "serve"}
  PROVE  AllPlaced'
<1>1. ASSUME NEW r \in Streams \ {s}  PROVE Placed(r)'
  BY <1>1, PlacedStays, Zenon DEF AllPlaced
<1>2. Placed(s)'
  <2>1. /\ closes[s] = 0 /\ NotIn(chans, s) /\ NotIn(loops, s) /\ registry # s
    <3>1. Placed(s) /\ Shaking(s)
      BY Zenon DEF AllPlaced
    <3> QED  BY ONLY <3>1, Zenon DEF Placed, Shaking, Starting
  <2>2. /\ registry' = registry /\ loops' = loops /\ chans' = chans /\ closes' = closes
        /\ h'[s].why \notin {"cleanup", "admin"}
    OBVIOUS
  <2>3. closes'[s] = 0 /\ closes'[s] <= 1 /\ NotIn(chans', s) /\ NotIn(loops', s) /\ registry' # s
    BY ONLY <2>1, <2>2
  <2> QED  BY ONLY <2>2, <2>3, Zenon DEF Placed, NotIn
<1> QED  BY <1>1, <1>2 DEF AllPlaced

\* The steps of a handshake up to Register.
LEMMA HandshakePlaced ==
  ASSUME TypeInv, AllPlaced, NEW s \in Streams,
         \/ \E t \in told \cup {None} : Open(s, t)
         \/ HandshakeFails(s) \/ Lookup(s) \/ Hello(s) \/ LiveEpoch(s)
         \/ KickLive(s) \/ KickDoc(s) \/ Delete(s)
         \/ Create(s) \/ Rotate(s) \/ Positions(s)
  PROVE  AllPlaced'
<1> USE DEF mapVars, clientVars
<1>1. Shaking(s)
  <2>1. h[s].pc \in {"idle", "lookup", "hello", "live", "kickLive", "kickDoc", "delete",
                     "create", "rotate", "positions"}
    BY Zenon DEF Open, HandshakeFails, Lookup, Hello, LiveEpoch, KickLive, KickDoc, Delete, Create,
           Rotate, Positions
  <2> QED  BY <2>1 DEF AllPlaced, Placed, Shaking, Starting
<1>2. UNCHANGED <<registry, loops, chans, closes, unwelcomed>>
  BY Zenon DEF Open, HandshakeFails, Lookup, Hello, LiveEpoch, KickLive, KickDoc, Delete, Create,
         Rotate, Positions
<1>3. \A r \in Streams \ {s} : sess'[r] = sess[r]
  BY ZenonT(60)
  DEF TypeInv, SessionTypeOK, Open, HandshakeFails, Lookup, Hello, LiveEpoch, KickLive,
         KickDoc, Delete, Create, Rotate, Positions
<1> DEFINE Good(R) == /\ R.why \notin {"cleanup", "admin"}
                      /\ R.pc \notin {"startLoop", "startChan", "serve"}
           To(R) == h' = [h EXCEPT ![s] = R]
<1>4. \E R : To(R) /\ Good(R)
  <2>0. h[s].why \notin {"cleanup", "admin"} /\ h[s] \in Handler
    BY <1>1 DEF Shaking, Starting, AllPlaced, Placed, TypeInv, SessionTypeOK, Actors
  <2>a. \A t : \A pc \in Steps : Good([Idle EXCEPT !.pc = pc, !.token = t])
                                  <=> pc \notin {"startLoop", "startChan", "serve"}
    BY DEF Idle
  <2>b. \A pc \in Steps : Good([Idle EXCEPT !.pc = pc])
                            <=> pc \notin {"startLoop", "startChan", "serve"}
    BY DEF Idle
  <2>1. ASSUME NEW t \in told \cup {None}, Open(s, t)  PROVE \E R : To(R) /\ Good(R)
    <3>1. To([Idle EXCEPT !.pc = IF t = None THEN "hello" ELSE "lookup", !.token = t])
      BY <2>1, Zenon DEF Open
    <3> QED  BY <2>a, <3>1 DEF Steps
  <2>2. CASE Fail(s)
    <3>1. To([Idle EXCEPT !.pc = "hello"]) \/ To([Idle EXCEPT !.pc = "ended"])
      BY <2>2 DEF Fail
    <3> QED  BY <2>b, <3>1, Zenon DEF Steps
  <2>c. \A pc \in Steps : Good([h[s] EXCEPT !.pc = pc])
                            <=> pc \notin {"startLoop", "startChan", "serve"}
    BY <2>0 DEF Handler
  <2>3. CASE Lookup(s) /\ ~Fail(s)
    <3>1. PICK d : To([h[s] EXCEPT !.pc = IF KickOld THEN "kickLive" ELSE "rotate",
                                   !.keep = d.id, !.token = None])
      BY <2>3, Zenon DEF Lookup
    <3>2. Good([h[s] EXCEPT !.pc = IF KickOld THEN "kickLive" ELSE "rotate",
                            !.keep = d.id, !.token = None])
      BY <2>0 DEF Handler
    <3> QED  BY <3>1, <3>2
  <2>4. CASE Hello(s)
    <3>1. PICK e : To([h[s] EXCEPT !.pc = "live", !.epoch = e])
      BY <2>4, Zenon DEF Hello
    <3>2. Good([h[s] EXCEPT !.pc = "live", !.epoch = e])
      BY <2>0 DEF Handler
    <3> QED  BY <3>1, <3>2
  <2>5. CASE LiveEpoch(s)
    <3>1. PICK e : To([h[s] EXCEPT !.pc = IF KickOld THEN "kickLive" ELSE "create", !.epoch = e])
      BY <2>5, Zenon DEF LiveEpoch
    <3>2. Good([h[s] EXCEPT !.pc = IF KickOld THEN "kickLive" ELSE "create", !.epoch = e])
      BY <2>0 DEF Handler
    <3> QED  BY <3>1, <3>2
  <2>6. ASSUME NEW id, NEW why \in {"live", "doc"}, Kick(s, id, why)
        PROVE  \E R : To(R) /\ Good(R)
    <3>1. Good([h[s] EXCEPT !.pc = "stop", !.why = why, !.target = id])
      BY <2>0, <2>6 DEF Handler
    <3> QED  BY <2>6, <3>1 DEF Kick
  <2>7. CASE KickLive(s)
    <3>1. CASE Goto(s, "kickDoc")
      BY <2>c, <3>1, Zenon DEF Goto, Steps
    <3> QED  BY <2>6, <2>7, <3>1, Zenon DEF KickLive
  <2>8. CASE KickDoc(s)
    <3>1. CASE To([h[s] EXCEPT !.pc = AfterKick(s), !.kicked = None])
      <4>1. Good([h[s] EXCEPT !.pc = AfterKick(s), !.kicked = None])
        BY <2>0 DEF AfterKick, Handler
      <4> QED  BY <3>1, <4>1
    <3>2. (\E d \in GetSessionByServerID : Kick(s, d.id, "doc"))
          \/ To([h[s] EXCEPT !.pc = AfterKick(s), !.kicked = None])
      BY <2>8 DEF KickDoc
    <3> QED  BY <2>6, <3>1, <3>2
  <2>9. CASE Delete(s)
    <3> DEFINE pc == IF h[s].why = "live" THEN "kickDoc" ELSE AfterKick(s)
               kicked == IF h[s].why = "live" THEN h[s].target ELSE None
    <3>1. To([h[s] EXCEPT !.pc = pc, !.kicked = kicked, !.why = "none", !.target = None])
      BY <2>9 DEF Delete
    <3>2. pc \in {"kickDoc", "rotate", "create"}
      BY Zenon DEF AfterKick
    <3> HIDE DEF pc, kicked
    <3>3. Good([h[s] EXCEPT !.pc = pc, !.kicked = kicked, !.why = "none", !.target = None])
      BY <2>0, <3>2 DEF Handler
    <3> QED  BY <3>1, <3>3
  <2>10. CASE Create(s)
    BY <2>b, <2>10, Zenon DEF Create, Steps
  <2>11. CASE Rotate(s) /\ ~Fail(s)
    BY <2>c, <2>11 DEF Rotate, Goto, Steps
  <2>12. CASE Positions(s)
    BY <2>b, <2>c, <2>12, Zenon DEF Positions, Goto, Steps
  <2> HIDE DEF Good, To
  <2>13. \/ \E t \in told \cup {None} : Open(s, t)
         \/ Fail(s) \/ Lookup(s) \/ Hello(s) \/ LiveEpoch(s)
         \/ KickLive(s) \/ KickDoc(s) \/ Delete(s)
         \/ Create(s) \/ Rotate(s) \/ Positions(s)
    BY Zenon DEF HandshakeFails
  <2> QED
    BY ONLY <2>1, <2>2, <2>3, <2>4, <2>5, <2>7, <2>8, <2>9, <2>10, <2>11, <2>12, <2>13, Zenon
<1>5. /\ \A r \in Streams \ {s} : h'[r] = h[r]
      /\ h'[s].why \notin {"cleanup", "admin"}
      /\ h'[s].pc \notin {"startLoop", "startChan", "serve"}
  BY <1>4 DEF TypeInv, SessionTypeOK, Actors
<1> QED  BY <1>1, <1>2, <1>3, <1>4, <1>5, ShakingStep, ZenonT(60)

\* A stream is registered and its loop started.
LEMMA StartPlaced ==
  ASSUME TypeInv, AllPlaced, NEW s \in Streams,
         Store(s) \/ Register(s) \/ StartLoop(s) \/ StartChan(s)
  PROVE  AllPlaced'
<1> USE DEF mapVars, clientVars
<1>0. /\ s # None /\ h \in [Actors -> Handler] /\ s \in Actors
      /\ h[s].why \notin {"cleanup", "admin"}
      /\ loops \in [Streams -> Streams \cup {None}] /\ chans \in [Streams -> Streams \cup {None}]
  BY SessionAssumption DEF SessionAssumption, TypeInv, SessionTypeOK, Actors, AllPlaced, Placed,
     Store, Register, StartLoop, StartChan
<1>1. Starting(s) /\ Placed(s)
  BY <1>0 DEF AllPlaced, Starting, Store, Register, StartLoop, StartChan
<1>2. UNCHANGED <<sess, closes>> /\ unwelcomed \subseteq unwelcomed'
  BY DEF Store, Register, StartLoop, StartChan
<1>3. \A r \in Streams \ {s} : h'[r] = h[r]
  BY <1>0 DEF Store, Register, StartLoop, StartChan, Goto, Actors
<1>4. ASSUME NEW r \in Streams \ {s}  PROVE Placed(r)'
  <2>1. registry' \in {registry, s}
    BY DEF Store, Register, StartLoop, StartChan
  <2>2. \A id \in Streams : loops'[id] \in {loops[id], s} /\ chans'[id] \in {chans[id], s}
    BY <1>0 DEF Store, Register, StartLoop, StartChan
  <2>3. Placed(r)
    BY <1>4 DEF AllPlaced
  <2> QED  BY <1>2, <1>3, <1>4, <2>1, <2>2, <2>3 DEF Placed, Starting, Shaking, NotIn
<1>5. CASE Store(s)
  <2>0. NotIn(loops, s) /\ NotIn(chans, s) /\ closes[s] = 0
    BY <1>1, <1>5 DEF Store, Placed
  <2>1. UNCHANGED <<loops, chans>>
    BY <1>5 DEF Store
  <2>2. \/ h'[s].pc = "register" /\ h'[s].why = h[s].why
        \/ h'[s].pc = "ended" /\ h'[s].why = "none" /\ s \in unwelcomed'
    BY <1>0, <1>5 DEF Store, Goto, Handler, Idle
  <2>3. Placed(s)'
    BY <1>0, <1>2, <2>0, <2>1, <2>2 DEF Placed, Starting, Shaking, NotIn
  <2> QED  BY <1>4, <2>3 DEF AllPlaced
<1>6. CASE Register(s)
  <2>1. UNCHANGED <<loops, chans>> /\ h'[s].pc = "startLoop" /\ h'[s].why = h[s].why
    BY <1>0, <1>6, SMTT(60), ZenonT(60) DEF Register, Goto, Handler
  <2>2. Placed(s)'
    BY <1>0, <1>1, <1>2, <1>6, <2>1 DEF Register, Placed, Starting, Shaking, NotIn
  <2> QED  BY <1>4, <2>2 DEF AllPlaced
<1>7. CASE StartLoop(s)
  <2>1. /\ chans' = chans /\ h'[s].pc = "startChan" /\ h'[s].why = h[s].why
        /\ \A id \in Streams : loops'[id] = s => loops[id] = s \/ id = sess[s].id
    BY <1>0, <1>7, SMTT(60), ZenonT(60) DEF StartLoop, Goto, Handler
  <2>2. Placed(s)'
    BY <1>0, <1>1, <1>2, <1>7, <2>1 DEF StartLoop, Placed, Starting, Shaking, NotIn
  <2> QED  BY <1>4, <2>2 DEF AllPlaced
<1>8. CASE StartChan(s)
  <2>1. /\ loops' = loops /\ h'[s].pc = "serve" /\ h'[s].why = "none"
        /\ \A id \in Streams : chans'[id] = s => chans[id] = s \/ id = sess[s].id
    BY <1>0, <1>8 DEF StartChan, Idle
  <2>2. Placed(s)'
    BY <1>0, <1>1, <1>2, <1>8, <2>1, SMTT(60), ZenonT(60)
    DEF StartChan, Placed, Starting, Shaking, NotIn
  <2> QED  BY <1>4, <2>2 DEF AllPlaced
<1> QED  BY <1>5, <1>6, <1>7, <1>8

\* Where the steps of StopDeliveryLoop and UnregisterSession lead a stream.
LEMMA StopLeads ==
  ASSUME TypeInv, AllPlaced, NEW a \in Actors, Stop(a) \/ Close(a) \/ Unregister(a) \/ Erase(a)
  PROVE  /\ \A r \in Streams \ {a} : h'[r] = h[r]
         /\ a \in Streams =>
              /\ Stop(a) => h'[a].pc = "close" /\ h'[a].why = h[a].why /\ h'[a].target = h[a].target
              /\ Close(a) => h'[a].pc = "unregister" /\ h'[a].why = h[a].why
                             /\ h'[a].target = h[a].target
              /\ Unregister(a) \/ Erase(a) =>
                   \/ h[a].why = "cleanup" /\ h'[a].pc = "ended" /\ h'[a].why = "none"
                   \/ h[a].why # "cleanup" /\ h'[a].pc = "delete" /\ h'[a].why = h[a].why
                   \/ /\ Unregister(a) /\ h'[a].pc = "erase" /\ h'[a].why = h[a].why
                      /\ h'[a].target = h[a].target
<1>0. h \in [Actors -> Handler]
  BY DEF TypeInv, SessionTypeOK
<1>a. \A pc \in Steps : Goto(a, pc) => /\ h'[a].pc = pc /\ h'[a].why = h[a].why
                                       /\ h'[a].target = h[a].target
  BY <1>0 DEF Goto, Handler
<1>b. \A pc \in Steps : Goto(a, pc) => \A r \in Streams \ {a} : h'[r] = h[r]
  BY <1>0 DEF Goto, Actors
<1>c. AfterUnregister(a) => \A r \in Streams \ {a} : h'[r] = h[r]
  BY <1>0, SMTT(60), ZenonT(60) DEF AfterUnregister, Actors
<1>d. ASSUME a \in Streams, AfterUnregister(a)
      PROVE  \/ h[a].why = "cleanup" /\ h'[a].pc = "ended" /\ h'[a].why = "none"
             \/ h[a].why # "cleanup" /\ h'[a].pc = "delete" /\ h'[a].why = h[a].why
  <2>1. h[a].why # "admin"
    BY <1>d DEF AllPlaced, Placed
  <2>2. CASE h[a].why = "cleanup"
    BY <1>0, <1>d, <2>2 DEF AfterUnregister, Idle
  <2>3. CASE h[a].why # "cleanup"
    BY <1>0, <1>a, <1>d, <2>1, <2>3 DEF AfterUnregister, Goto, Steps
  <2> QED  BY <2>2, <2>3
<1>1. CASE Stop(a)
  BY <1>1, <1>a, <1>b, Zenon DEF Stop, Close, Unregister, Erase, Steps
<1>2. CASE Close(a)
  <2>1. a \in Streams => Goto(a, "unregister")
    BY <1>2 DEF Close, AfterClose, AllPlaced, Placed
  <2>2. \A r \in Streams \ {a} : h'[r] = h[r]
    BY <1>0, <1>2, <1>b DEF Close, AfterClose, Actors, Steps
  <2> QED  BY <1>2, <1>a, <2>1, <2>2, ZenonT(60) DEF Stop, Close, Unregister, Erase, Steps
<1>3. CASE Unregister(a)
  <2>1. Goto(a, "erase") \/ AfterUnregister(a)
    BY <1>3, ZenonT(60) DEF Unregister
  <2> QED  BY <1>3, <1>a, <1>b, <1>c, <1>d, <2>1, Zenon DEF Stop, Close, Unregister, Erase, Steps
<1>4. CASE Erase(a)
  <2>1. AfterUnregister(a)
    BY <1>4 DEF Erase
  <2> QED  BY <1>4, <1>c, <1>d, <2>1, ZenonT(60) DEF Stop, Close, Unregister, Erase
<1> QED  BY <1>1, <1>2, <1>3, <1>4

\* Stopping a loop and unregistering a session take streams out of the maps,
\* the stream's own teardown in the end itself.
LEMMA StopPlaced ==
  ASSUME TypeInv, AllPlaced, NEW a \in Actors, Stop(a) \/ Close(a) \/ Unregister(a) \/ Erase(a)
  PROVE  AllPlaced'
<1> USE DEF mapVars, clientVars
<1>0. /\ None \notin Streams /\ h[a].target \in Streams
      /\ loops \in [Streams -> Streams \cup {None}] /\ chans \in [Streams -> Streams \cup {None}]
      /\ closes \in [Streams -> Nat]
  <2>1. h[a].why # "none"
    BY DEF Stop, Close, Unregister, Erase, TypeInv, Tidy
  <2> QED  BY <2>1, SessionAssumption, ZenonT(60), SMTT(60)
           DEF SessionAssumption, TypeInv, SessionTypeOK
<1>1. UNCHANGED <<sess, unwelcomed>> /\ registry' \in {registry, None}
  BY ZenonT(60) DEF Stop, Close, Unregister, Erase
<1>2. /\ \A id \in Streams : loops'[id] \in {loops[id], None} /\ chans'[id] \in {chans[id], None}
  <2>1. loops' \in {loops, [loops EXCEPT ![h[a].target] = None]}
    BY ZenonT(60) DEF Stop, Close, Unregister, Erase
  <2>2. chans' \in {chans, [chans EXCEPT ![h[a].target] = None]}
    BY ZenonT(60) DEF Stop, Close, Unregister, Erase
  <2> QED  BY <1>0, <2>1, <2>2
<1>3. \A r \in Streams : /\ closes'[r] = closes[r] \/ closes'[r] = closes[r] + 1
                         /\ closes'[r] # closes[r] => Close(a) /\ chans[h[a].target] = r
  <2>1. CASE Stop(a)
    BY <1>0, <2>1 DEF Stop
  <2>2. CASE Close(a)
    BY <1>0, <2>2 DEF Close
  <2>3. CASE Unregister(a)
    BY <1>0, <2>3 DEF Unregister
  <2>4. CASE Erase(a)
    BY <1>0, <2>4 DEF Erase
  <2> QED  BY <2>1, <2>2, <2>3, <2>4, Zenon
<1>4. ASSUME NEW r \in Streams
      PROVE  /\ closes'[r] <= 1 /\ (NotIn(chans', r) \/ closes'[r] = 0)
             /\ Starting(r) => closes'[r] = 0
  <2>0. Placed(r)
    BY <1>4 DEF AllPlaced
  <2>1. CASE closes'[r] = closes[r]
    BY <1>0, <1>2, <2>0, <2>1, Zenon DEF Placed, NotIn
  <2>2. CASE closes'[r] # closes[r]
    <3>1. Close(a) /\ chans[h[a].target] = r /\ closes[r] = 0 /\ ~Starting(r)
      BY <1>0, <1>3, <2>0, <2>2 DEF Placed, NotIn
    <3>2. h[a].target = sess[r].id /\ chans'[h[a].target] = None
      BY <1>0, <2>0, <3>1, Zenon DEF Placed, Close
    <3>3. NotIn(chans', r)
      BY <1>0, <1>2, <2>0, <3>2, Zenon DEF Placed, NotIn
    <3>4. closes'[r] <= 1
      <4>1. closes'[r] = 0 \/ closes'[r] = 0 + 1
        BY <1>3, <1>4, <3>1, ZenonT(60)
      <4> QED  BY <4>1
    <3> QED  BY <3>1, <3>3, <3>4, ZenonT(60)
  <2> QED  BY <2>1, <2>2
<1>5. ASSUME NEW r \in Streams \ {a}  PROVE Placed(r)'
  <2>1. Placed(r) /\ h'[r] = h[r]
    BY <1>5, StopLeads DEF AllPlaced
  <2> QED  BY <1>0, <1>1, <1>2, <1>4, <1>5, <2>1, ZenonT(60) DEF Placed, Starting, Shaking, NotIn
<1>6. ASSUME a \in Streams  PROVE Placed(a)'
  <2>0. Placed(a)
    BY <1>6 DEF AllPlaced
  <2>1. CASE Stop(a)
    <3>1. h'[a].pc = "close" /\ h'[a].why = h[a].why /\ h'[a].target = h[a].target
      BY <1>6, <2>1, StopLeads, ZenonT(60)
    <3>2. h[a].why = "cleanup" => NotIn(loops', a)
      BY <1>0, <1>2, <1>6, <2>0, <2>1 DEF Stop, Placed, NotIn
    <3>3. h[a].pc = "stop"
      BY <2>1, ZenonT(60) DEF Stop
    <3> QED
      BY <1>0, <1>1, <1>2, <1>4, <1>6, <2>0, <3>1, <3>2, <3>3, ZenonT(60)
      DEF Placed, Starting, Shaking, NotIn
  <2>2. CASE Close(a)
    <3>1. h'[a].pc = "unregister" /\ h'[a].why = h[a].why /\ h'[a].target = h[a].target
      BY <1>6, <2>2, StopLeads
    <3>2. h[a].why = "cleanup" => NotIn(chans', a)
      BY <1>0, <1>2, <1>6, <2>0, <2>2, ZenonT(60) DEF Close, Placed, NotIn
    <3>3. h[a].pc = "close"
      BY <2>2, ZenonT(60), SMTT(60) DEF Close
    <3> QED
      BY <1>0, <1>1, <1>2, <1>4, <1>6, <2>0, <3>1, <3>2, <3>3, ZenonT(60)
      DEF Placed, Starting, Shaking, NotIn
  <2>3. CASE Unregister(a) \/ Erase(a)
    <3>1. h[a].pc \in {"unregister", "erase"}
      BY <2>3, SMTT(60), ZenonT(60) DEF Unregister, Erase
    <3>2. CASE h[a].why = "cleanup" /\ h'[a].pc = "ended" /\ h'[a].why = "none"
      <4>1. registry' # a
        <5>1. CASE Erase(a)
          BY <1>0, <1>6, <5>1 DEF Erase
        <5>2. CASE Unregister(a)
          <6>1. UNCHANGED registry /\ h[a].pc = "unregister" /\ h[a].target = sess[a].id
            BY <2>0, <3>2, <5>2 DEF Unregister, Placed
          <6>2. registry = a => Goto(a, "erase")
            BY <1>0, <1>6, <5>2, <6>1, Zenon DEF Unregister, Live
          <6>3. Goto(a, "erase") => h'[a].pc = "erase"
            BY SMTT(60), ZenonT(60) DEF Goto, TypeInv, SessionTypeOK, Handler
          <6> QED  BY <3>2, <6>1, <6>2, <6>3, SMTT(60), ZenonT(60)
        <5> QED  BY <2>3, <5>1, <5>2, SMTT(60), ZenonT(60)
      <4> QED
        BY <1>0, <1>1, <1>2, <1>4, <1>6, <2>0, <3>1, <3>2, <4>1 DEF Placed, Starting, Shaking, NotIn
    <3>3. CASE h[a].why # "cleanup" /\ h'[a].pc = "delete" /\ h'[a].why = h[a].why
      BY <1>0, <1>1, <1>2, <1>4, <1>6, <2>0, <3>1, <3>3, ZenonT(60)
      DEF Placed, Starting, Shaking, NotIn
    <3>4. CASE /\ Unregister(a) /\ h'[a].pc = "erase" /\ h'[a].why = h[a].why
               /\ h'[a].target = h[a].target
      <4>1. h[a].pc = "unregister"
        BY <3>4, Zenon DEF Unregister
      <4> QED
        BY <1>0, <1>1, <1>2, <1>4, <1>6, <2>0, <3>4, <4>1, ZenonT(60)
        DEF Placed, Starting, Shaking, NotIn
    <3> QED  BY <1>6, <2>3, <3>2, <3>3, <3>4, StopLeads
  <2> QED  BY <2>1, <2>2, <2>3
<1> QED  BY <1>5, <1>6 DEF AllPlaced

\* The end of a stream, the operator and a crash.
LEMMA EndPlaced ==
  ASSUME TypeInv, AllPlaced,
         (\E s \in Streams : Cleanup(s)) \/ sessionsDisconnectCmd \/ SessionCrash
  PROVE  AllPlaced'
<1> USE DEF mapVars, clientVars
<1>0. h \in [Actors -> Handler] /\ None \notin Streams
  BY SessionAssumption DEF TypeInv, SessionTypeOK, SessionAssumption
<1>1. ASSUME NEW s \in Streams, Cleanup(s)  PROVE AllPlaced'
  <2>1. UNCHANGED <<sess, registry, loops, chans, closes, unwelcomed>>
    BY <1>1, Zenon DEF Cleanup, Down
  <2>2. /\ h[s].pc = "serve" /\ h'[s].pc = "stop" /\ h'[s].why = "cleanup"
        /\ h'[s].target = sess[s].id
    BY <1>0, <1>1, Zenon DEF Cleanup, Idle, Actors
  <2>3. \A r \in Streams \ {s} : h'[r] = h[r]
    BY <1>0, <1>1, ZenonT(60) DEF Cleanup, Actors
  <2>4. Placed(s)'
    <3>1. Placed(s)
      BY Zenon DEF AllPlaced
    <3> QED  BY <2>1, <2>2, <3>1, ZenonT(60) DEF Placed, Starting, Shaking, NotIn
  <2>5. ASSUME NEW r \in Streams \ {s}  PROVE Placed(r)'
    BY <2>1, <2>3, <2>5, PlacedStays, Zenon DEF AllPlaced
  <2> QED  BY <2>4, <2>5 DEF AllPlaced
<1>2. CASE sessionsDisconnectCmd
  <2>1. UNCHANGED <<sess, registry, loops, chans, closes, unwelcomed>>
    BY <1>2 DEF sessionsDisconnectCmd
  <2>2. \A r \in Streams : h'[r] = h[r]
    BY <1>0, <1>2, SessionAssumption, Zenon
    DEF sessionsDisconnectCmd, Disconnect, Actors, SessionAssumption
  <2> QED  BY <2>1, <2>2, PlacedStays, Zenon DEF AllPlaced
<1>3. CASE SessionCrash
  <2>1. ASSUME NEW s \in Streams  PROVE Placed(s)'
    <3>1. /\ UNCHANGED <<sess, closes, unwelcomed>> /\ registry' # s
          /\ NotIn(loops', s) /\ NotIn(chans', s)
      BY <1>0, <1>3, <2>1 DEF SessionCrash, NotIn
    <3>2. /\ h'[s].why = "none"
          /\ (h'[s].pc = "idle" /\ h[s].pc = "idle") \/ h'[s].pc = "ended"
      BY <1>0, <1>3, <2>1, SessionAssumption DEF SessionCrash, Idle, Actors, SessionAssumption
    <3>3. Placed(s)
      BY <2>1 DEF AllPlaced
    <3> QED  BY <3>1, <3>2, <3>3, Zenon DEF Placed, Starting, Shaking, NotIn
  <2> QED  BY <2>1 DEF AllPlaced
<1> QED  BY <1>1, <1>2, <1>3

\* Every step of the Spine preserves AllPlaced.
LEMMA PlacedStep ==
  ASSUME TypeInv, AllPlaced, [Next]_vars
  PROVE  AllPlaced'
<1>1. CASE UNCHANGED vars
  <2>1. UNCHANGED <<h, sess, registry, loops, chans, closes, unwelcomed>>
    BY <1>1 DEF vars, mapVars, clientVars
  <2>2. ASSUME NEW s \in Streams  PROVE Placed(s)'
    <3>1. Placed(s) /\ Starting(s)' = Starting(s) /\ Shaking(s)' = Shaking(s)
      BY <2>1, <2>2 DEF AllPlaced, Starting, Shaking
    <3> QED  BY <2>1, <2>2, <3>1, ZenonT(60) DEF Placed
  <2> QED  BY <2>2 DEF AllPlaced
<1>2. ASSUME NEW s \in Streams, Reject(s)  PROVE UNCHANGED vars
  BY <1>2 DEF Reject
<1> QED
  BY <1>1, <1>2, HandshakePlaced, StartPlaced, StopPlaced, EndPlaced DEF Next, Handshake

\* No wake-up channel is closed twice, for any number of streams, kicks,
\* teardowns and commands that stop loops at once (StopDeliveryLoop).
THEOREM ChannelsCloseOnce == Spec => []ClosedOnce
<1>1. TypeInv /\ AllPlaced /\ [Next]_vars => TypeInv' /\ AllPlaced'
  BY TypeStep, PlacedStep
<1>2. AllPlaced => ClosedOnce
  BY SMTT(60), ZenonT(60) DEF AllPlaced, Placed, ClosedOnce
<1> QED
  BY <1>1, <1>2, SessionTypeInit, PlacedInit, PTL DEF Spec

\* A stream that has ended is in none of the maps, whatever was done to its
\* session meanwhile, unless its WELCOME could not be sent.
THEOREM NothingIsLeaked == Spec => []NothingLeaks
<1>1. TypeInv /\ AllPlaced /\ [Next]_vars => TypeInv' /\ AllPlaced'
  BY TypeStep, PlacedStep
<1>2. AllPlaced => NothingLeaks
  BY DEF AllPlaced, Placed, NothingLeaks, NotIn
<1> QED
  BY <1>1, <1>2, SessionTypeInit, PlacedInit, PTL DEF Spec
=============================================================================
