----------------------------- MODULE LoopProofs -----------------------------
(***************************************************************************)
(* Module Session: one delivery loop per server, and what the stream       *)
(* opened last may rely on.                                                *)
(***************************************************************************)
EXTENDS SessionProofs
-----------------------------------------------------------------------------
(* What the steps do to the fields the invariants are about *)

\* A handler starts over from pc, or goes on to pc.
Resets(q, pc) == q.pc = pc /\ q.why = "none" /\ q.keep = None
GoesOn(p, q, pc) == q.pc = pc /\ q.why = p.why /\ q.target = p.target /\ q.keep = p.keep

Others(s) == \A r \in Streams \ {s} : h'[r] = h[r]

Untouched ==
  UNCHANGED <<docs, sess, registry, loops, stopper, newest, overlapped, takeovers, unlisted>>

\* Nothing, as far as the streams are concerned.
Silent == Untouched /\ \A r \in Streams : h'[r] = h[r]

Opens(s) ==
  /\ h[s].pc = "idle" /\ Others(s)
  /\ Resets(h'[s], "hello") \/ Resets(h'[s], "lookup")
  /\ newest' = s
  /\ overlapped \subseteq overlapped'
  /\ \A r \in Streams \ {s} : Handshaking(r) => {r, s} \subseteq overlapped'
  /\ UNCHANGED <<docs, sess, registry, loops, stopper, takeovers, unlisted>>

\* The handler goes on without a change of anything that is shared.
Reads(s) ==
  /\ Untouched /\ Others(s)
  /\ \/ h[s].pc \notin {"idle", "serve", "ended"} /\ Resets(h'[s], "ended")
     \/ /\ h[s].pc \in {"lookup", "hello", "kickDoc", "delete", "create", "rotate", "positions"}
        /\ Resets(h'[s], "hello")
     \/ h[s].pc = "hello" /\ GoesOn(h[s], h'[s], "live")
     \/ h[s].pc = "live" /\ KickOld /\ GoesOn(h[s], h'[s], "kickLive")
     \/ h[s].pc = "live" /\ ~KickOld /\ GoesOn(h[s], h'[s], "create")
     \/ /\ h[s].pc = "kickLive" /\ registry # None /\ sess[registry].id # h[s].keep
        /\ h'[s].pc = "stop" /\ h'[s].why = "live" /\ h'[s].keep = h[s].keep
        /\ h'[s].target = sess[registry].id
     \/ /\ h[s].pc = "kickLive" /\ (registry = None \/ sess[registry].id = h[s].keep)
        /\ GoesOn(h[s], h'[s], "kickDoc")
     \/ /\ h[s].pc = "kickDoc"
        /\ h'[s].pc = "stop" /\ h'[s].why = "doc" /\ h'[s].keep = h[s].keep
        /\ h'[s].target # h[s].keep
     \/ h[s].pc = "kickDoc" /\ h[s].keep # None /\ GoesOn(h[s], h'[s], "rotate")
     \/ h[s].pc = "kickDoc" /\ h[s].keep = None /\ GoesOn(h[s], h'[s], "create")
     \/ h[s].pc = "positions" /\ GoesOn(h[s], h'[s], "register")
     \/ h[s].pc = "close" /\ GoesOn(h[s], h'[s], "unregister")
     \/ h[s].pc = "unregister" /\ GoesOn(h[s], h'[s], "erase")
     \/ h[s].pc = "unregister" /\ h[s].why # "cleanup" /\ GoesOn(h[s], h'[s], "delete")

Finds(s) ==
  /\ h[s].pc = "lookup" /\ Others(s)
  /\ \E d \in docs :
       /\ sess' = [sess EXCEPT ![s] = d]
       /\ h'[s].pc \in {"kickLive", "rotate"} /\ (h'[s].pc = "rotate" => ~KickOld)
       /\ h'[s].why = h[s].why /\ h'[s].keep = d.id
       /\ takeovers' \in {takeovers, takeovers \cup {s}}
       /\ s \notin takeovers' => \A r \in Streams : sess[r].id = d.id => h[r].pc = "ended"
  /\ UNCHANGED <<docs, registry, loops, stopper, newest, overlapped, unlisted>>

Creates(s) ==
  /\ h[s].pc = "create" /\ Others(s) /\ Resets(h'[s], "store")
  /\ \E d \in Doc : d.id = s /\ sess' = [sess EXCEPT ![s] = d] /\ docs' = docs \cup {d}
  /\ UNCHANGED <<registry, loops, stopper, newest, overlapped, takeovers, unlisted>>

Registers(s) ==
  /\ Others(s) /\ registry' = s
  /\ \/ h[s].pc = "store" /\ GoesOn(h[s], h'[s], "register")
     \/ h[s].pc = "store" /\ Resets(h'[s], "ended")
     \/ h[s].pc = "register" /\ GoesOn(h[s], h'[s], "startLoop")
  /\ UNCHANGED <<docs, sess, loops, stopper, newest, overlapped, takeovers, unlisted>>

Rotates(s) ==
  /\ h[s].pc = "rotate" /\ Others(s) /\ GoesOn(h[s], h'[s], "positions")
  /\ \E d \in Doc : d.id = sess[s].id /\ sess' = [sess EXCEPT ![s] = d]
  /\ \A d \in docs' : IF d.id = sess[s].id THEN d.token = sess'[s].token ELSE d \in docs
  /\ \A d \in docs' : \E e \in docs : e.id = d.id
  /\ UNCHANGED <<registry, loops, stopper, newest, overlapped, takeovers, unlisted>>

Starts(s) ==
  /\ Others(s)
  /\ \/ /\ h[s].pc = "startLoop" /\ GoesOn(h[s], h'[s], "startChan")
        /\ loops' = [loops EXCEPT ![sess[s].id] = s]
     \/ /\ h[s].pc = "startChan" /\ Resets(h'[s], "serve")
        /\ loops' = loops
  /\ UNCHANGED <<docs, sess, registry, stopper, newest, overlapped, takeovers, unlisted>>

Deletes(s) ==
  /\ h[s].pc = "delete" /\ Others(s)
  /\ h'[s].why = "none" /\ h'[s].keep = h[s].keep
  /\ \/ h[s].why = "live" /\ h'[s].pc = "kickDoc"
     \/ h[s].keep # None /\ h'[s].pc = "rotate"
     \/ h[s].keep = None /\ h'[s].pc = "create"
  /\ docs' \subseteq docs
  /\ UNCHANGED <<sess, registry, loops, stopper, newest, overlapped, takeovers, unlisted>>

Stops(a) ==
  /\ h[a].pc = "stop" /\ Others(a)
  /\ a \in Streams => GoesOn(h[a], h'[a], "close")
  /\ loops' = [loops EXCEPT ![h[a].target] = None]
  /\ \A s \in Streams :
       IF loops[h[a].target] = s /\ stopper[s] = None
         THEN stopper'[s] = a ELSE stopper'[s] = stopper[s]
  /\ UNCHANGED <<docs, sess, registry, newest, overlapped, takeovers, unlisted>>

Erases(a) ==
  /\ h[a].pc = "erase" /\ Others(a)
  /\ a \in Streams => \/ h[a].why = "cleanup" /\ Resets(h'[a], "ended")
                      \/ h[a].why # "cleanup" /\ GoesOn(h[a], h'[a], "delete")
  /\ registry' = None
  /\ unlisted \subseteq unlisted'
  /\ registry # None /\ registry \notin unlisted' =>
       a \in Streams /\ sess[registry].id = h[a].target
  /\ UNCHANGED <<docs, sess, loops, stopper, newest, overlapped, takeovers>>

Leaves(s) ==
  /\ h[s].pc = "serve" /\ Others(s)
  /\ h'[s].pc = "stop" /\ h'[s].why = "cleanup" /\ h'[s].keep = None
  /\ \A r \in Streams \ {s} : stopper'[r] = stopper[r]
  /\ overlapped' = overlapped \ {s} /\ unlisted' = unlisted \ {s}
  /\ UNCHANGED <<docs, sess, registry, loops, newest, takeovers>>

Crashes ==
  /\ \A s \in Streams : \/ h[s].pc = "idle" /\ Resets(h'[s], "idle")
                        \/ Resets(h'[s], "ended")
  /\ UNCHANGED <<docs, sess, stopper, newest, overlapped, takeovers, unlisted>>

Effect ==
  \/ Silent \/ Crashes
  \/ \E s \in Streams : \/ Opens(s) \/ Reads(s) \/ Finds(s) \/ Creates(s) \/ Registers(s)
                        \/ Rotates(s) \/ Starts(s) \/ Deletes(s) \/ Leaves(s)
  \/ \E a \in Actors : Stops(a) \/ Erases(a)

\* The handler of a as the primed variable h has it.
LEMMA Moved ==
  ASSUME TypeInv, NEW a \in Actors, NEW R, h' = [h EXCEPT ![a] = R]
  PROVE  h'[a] = R /\ Others(a)
  BY DEF TypeInv, SessionTypeOK, Others, Actors

\* A handler that goes to its next step changes nothing else of its record.
LEMMA MovedTo ==
  ASSUME TypeInv, NEW a \in Actors, NEW pc, Goto(a, pc)
  PROVE  GoesOn(h[a], h'[a], pc) /\ Others(a)
<1> DEFINE R == [h[a] EXCEPT !.pc = pc]
<1>1. h[a] \in Handler
  BY DEF TypeInv, SessionTypeOK
<1>2. GoesOn(h[a], R, pc)
  BY <1>1 DEF Handler, GoesOn
<1>3. h' = [h EXCEPT ![a] = R]
  BY DEF Goto
<1> HIDE DEF R
<1> QED  BY <1>2, <1>3, Moved, Zenon

\* A handler that is done starts from an empty record.
LEMMA MovedIdle ==
  ASSUME TypeInv, NEW a \in Actors, NEW pc, h' = [h EXCEPT ![a] = [Idle EXCEPT !.pc = pc]]
  PROVE  Resets(h'[a], pc) /\ Others(a)
<1> DEFINE R == [Idle EXCEPT !.pc = pc]
<1>1. Resets(R, pc)
  BY DEF Idle, Resets
<1>2. h' = [h EXCEPT ![a] = R]
  OBVIOUS
<1> HIDE DEF R
<1> QED  BY <1>1, <1>2, Moved

\* A failed handshake starts over as a HELLO or ends.
LEMMA FailEffect ==
  ASSUME TypeInv, NEW s \in Streams, Fail(s), Untouched,
         h[s].pc \in {"lookup", "hello", "kickDoc", "delete", "create", "rotate", "positions"}
  PROVE  Reads(s)
<1>1. \/ h' = [h EXCEPT ![s] = [Idle EXCEPT !.pc = "hello"]]
      \/ h' = [h EXCEPT ![s] = [Idle EXCEPT !.pc = "ended"]]
  BY Zenon DEF Fail
<1> QED  BY <1>1, MovedIdle DEF Reads, Actors

\* Connect accepts a stream.
LEMMA OpenEffect ==
  ASSUME TypeInv, NEW s \in Streams, NEW t \in told \cup {None}, Open(s, t)
  PROVE  Opens(s)
<1> DEFINE pc == IF t = None THEN "hello" ELSE "lookup"
           R == [Idle EXCEPT !.pc = pc, !.token = t]
<1>1. Resets(R, pc) /\ pc \in {"hello", "lookup"}
  BY DEF Idle, Resets
<1>2. h' = [h EXCEPT ![s] = R]
  BY DEF Open
<1>3. h'[s] = R /\ Others(s)
  <2> HIDE DEF R
  <2> QED  BY <1>2, Moved DEF Actors
<1>4. \A r \in Streams \ {s} : Handshaking(r) => {r, s} \subseteq overlapped'
  BY DEF Open
<1>5. overlapped \subseteq overlapped'
  BY DEF Open
<1> HIDE DEF R, pc
<1> QED  BY <1>1, <1>3, <1>4, <1>5 DEF Opens, Open, mapVars

\* kickSession leaves the stop of the loop as the next step of the handler.
LEMMA KickEffect ==
  ASSUME TypeInv, NEW s \in Streams, NEW id, NEW why, Kick(s, id, why)
  PROVE  /\ h'[s].pc = "stop" /\ h'[s].why = why /\ h'[s].keep = h[s].keep
         /\ h'[s].target = id /\ Others(s)
<1> DEFINE R == [h[s] EXCEPT !.pc = "stop", !.why = why, !.target = id]
<1>1. h[s] \in Handler
  BY DEF TypeInv, SessionTypeOK, Actors
<1>2. R.pc = "stop" /\ R.why = why /\ R.keep = h[s].keep /\ R.target = id
  BY <1>1 DEF Handler
<1>3. h' = [h EXCEPT ![s] = R]
  BY DEF Kick
<1> HIDE DEF R
<1> QED  BY <1>2, <1>3, Moved DEF Actors

\* The steps of a handshake that read.
LEMMA ReadEffect ==
  ASSUME TypeInv, NEW s \in Streams,
         HandshakeFails(s) \/ Hello(s) \/ LiveEpoch(s) \/ KickLive(s) \/ KickDoc(s) \/ Positions(s)
  PROVE  Reads(s)
<1> USE DEF mapVars, clientVars
<1>0. h[s] \in Handler /\ s \in Actors
  BY DEF TypeInv, SessionTypeOK, Actors
<1>1. Untouched
  BY Zenon DEF HandshakeFails, Hello, LiveEpoch, KickLive, KickDoc, Positions, Untouched
<1>2. CASE HandshakeFails(s)
  BY <1>1, <1>2, FailEffect DEF HandshakeFails
<1>3. CASE Hello(s)
  <2>1. PICK e : h' = [h EXCEPT ![s] = [h[s] EXCEPT !.pc = "live", !.epoch = e]]
    BY <1>3, Zenon DEF Hello
  <2> DEFINE R == [h[s] EXCEPT !.pc = "live", !.epoch = e]
  <2>2. GoesOn(h[s], R, "live")
    BY <1>0 DEF Handler, GoesOn
  <2> HIDE DEF R
  <2>3. h'[s] = R /\ Others(s)
    BY <1>0, <2>1, Moved, Zenon DEF R
  <2> QED  BY <1>1, <1>3, <2>2, <2>3, Zenon DEF Reads, Hello
<1>4. CASE LiveEpoch(s)
  <2> DEFINE pc == IF KickOld THEN "kickLive" ELSE "create"
  <2>1. PICK e : h' = [h EXCEPT ![s] = [h[s] EXCEPT !.pc = pc, !.epoch = e]]
    BY <1>4, Zenon DEF LiveEpoch
  <2>a. (KickOld => pc = "kickLive") /\ (~KickOld => pc = "create")
    OBVIOUS
  <2> HIDE DEF pc
  <2> DEFINE R == [h[s] EXCEPT !.pc = pc, !.epoch = e]
  <2>2. GoesOn(h[s], R, pc)
    BY <1>0 DEF Handler, GoesOn
  <2> HIDE DEF R
  <2>3. h'[s] = R /\ Others(s)
    BY <1>0, <2>1, Moved DEF R
  <2> QED  BY <1>1, <1>4, <2>2, <2>3, <2>a DEF Reads, LiveEpoch
<1>5. CASE KickLive(s)
  <2>1. CASE \E l \in Live : l.id # h[s].keep
    <3>1. registry # None /\ sess[registry].id # h[s].keep /\ Kick(s, sess[registry].id, "live")
      BY <1>5, <2>1 DEF KickLive, Live
    <3> QED  BY <1>1, <1>5, <3>1, KickEffect DEF Reads, KickLive
  <2>2. CASE ~\E l \in Live : l.id # h[s].keep
    <3>1. (registry = None \/ sess[registry].id = h[s].keep) /\ Goto(s, "kickDoc")
      BY <1>5, <2>2 DEF KickLive, Live
    <3> QED  BY <1>0, <1>1, <1>5, <3>1, MovedTo DEF Reads, KickLive
  <2> QED  BY <2>1, <2>2
<1>6. CASE KickDoc(s)
  <2>0. h[s].pc = "kickDoc"
    BY <1>6 DEF KickDoc
  <2>1. ASSUME NEW d \in docs, d.id # h[s].keep, Kick(s, d.id, "doc")  PROVE Reads(s)
    BY <1>1, <2>0, <2>1, KickEffect DEF Reads
  <2>2. CASE h' = [h EXCEPT ![s] = [h[s] EXCEPT !.pc = AfterKick(s), !.kicked = None]]
    <3> DEFINE pc == AfterKick(s)
               R == [h[s] EXCEPT !.pc = pc, !.kicked = None]
    <3>1. (h[s].keep # None => pc = "rotate") /\ (h[s].keep = None => pc = "create")
      BY DEF AfterKick
    <3>2. h' = [h EXCEPT ![s] = R]
      BY <2>2
    <3> HIDE DEF pc
    <3>3. GoesOn(h[s], R, pc)
      BY <1>0 DEF Handler, GoesOn
    <3> HIDE DEF R
    <3>4. h'[s] = R /\ Others(s)
      BY <1>0, <3>2, Moved
    <3> QED  BY <1>1, <2>0, <3>1, <3>3, <3>4 DEF Reads
  <2> QED  BY <1>6, <2>1, <2>2 DEF KickDoc, GetSessionByServerID
<1>7. CASE Positions(s)
  <2>1. h[s].pc = "positions"
    BY <1>7 DEF Positions
  <2>2. Goto(s, "register") \/ h' = [h EXCEPT ![s] = [Idle EXCEPT !.pc = "ended"]]
    BY <1>7 DEF Positions
  <2> QED  BY <1>0, <1>1, <2>1, <2>2, MovedTo, MovedIdle DEF Reads
<1> QED  BY <1>2, <1>3, <1>4, <1>5, <1>6, <1>7

\* The steps of a handshake that find, make and rotate a session.
LEMMA WriteEffect ==
  ASSUME TypeInv, NEW s \in Streams,
         Lookup(s) \/ Create(s) \/ Rotate(s) \/ Delete(s)
  PROVE  Reads(s) \/ Finds(s) \/ Creates(s) \/ Rotates(s) \/ Deletes(s)
<1> USE DEF mapVars, clientVars
<1>0. h[s] \in Handler /\ s \in Actors /\ docs \subseteq Doc
      /\ sess \in [Streams -> Doc \cup {NoSession}]
  BY DEF TypeInv, SessionTypeOK, Actors
<1>1. ASSUME Lookup(s), NEW d \in docs,
             sess' = [sess EXCEPT ![s] = d],
             h' = [h EXCEPT ![s] = [h[s] EXCEPT !.pc = IF KickOld THEN "kickLive" ELSE "rotate",
                                                !.keep = d.id, !.token = None]],
             takeovers' = IF Served(d.id) THEN takeovers \cup {s} ELSE takeovers
      PROVE  Finds(s)
  <2> DEFINE pc == IF KickOld THEN "kickLive" ELSE "rotate"
             R == [h[s] EXCEPT !.pc = pc, !.keep = d.id, !.token = None]
  <2>1. pc \in {"kickLive", "rotate"} /\ (pc = "rotate" => ~KickOld)
    OBVIOUS
  <2>2. h' = [h EXCEPT ![s] = R]
    BY <1>1
  <2> HIDE DEF pc
  <2>3. R.pc = pc /\ R.why = h[s].why /\ R.keep = d.id
    BY <1>0 DEF Handler
  <2> HIDE DEF R
  <2>4. h'[s] = R /\ Others(s)
    BY <1>0, <2>2, Moved
  <2>5. /\ takeovers' \in {takeovers, takeovers \cup {s}}
        /\ s \notin takeovers' => \A r \in Streams : sess[r].id = d.id => h[r].pc = "ended"
    BY <1>1 DEF Served
  <2>6. UNCHANGED <<docs, registry, loops, stopper, newest, overlapped, unlisted>>
        /\ h[s].pc = "lookup"
    BY <1>1, Zenon DEF Lookup
  <2> QED  BY <1>1, <2>1, <2>3, <2>4, <2>5, <2>6, Zenon DEF Finds
<1>2. ASSUME Lookup(s), Fail(s), UNCHANGED <<sess, takeovers>>  PROVE Reads(s)
  <2>1. h[s].pc = "lookup" /\ Untouched
    BY <1>2, Zenon DEF Lookup, Untouched
  <2> QED  BY <1>2, <2>1, FailEffect
<1>3. CASE Lookup(s)
  BY <1>1, <1>2, <1>3, Zenon DEF Lookup, GetSessionByResumeToken
<1>4. CASE Create(s)
  <2>1. NewSession(s, h[s].epoch) \in Doc /\ NewSession(s, h[s].epoch).id = s
    BY <1>0 DEF NewSession, Doc, Handler, Token
  <2> QED  BY <1>0, <1>4, <2>1, MovedIdle, Zenon DEF Create, CreateSession, Creates
<1>5. CASE Rotate(s) /\ \E d \in docs : d.id = sess[s].id
  <2> DEFINE t == <<s, "rotated">>  e == sess[s].epoch + 1
             n == [sess[s] EXCEPT !.epoch = e, !.token = t]
  <2>1. sess[s] \in Doc /\ t \in Token /\ n = RotateResumeToken(s)
    BY <1>5 DEF Rotate, TypeInv, SessionTypeOK, Token, RotateResumeToken
  <2>a. e \in Nat
    BY <2>1 DEF Doc
  <2> HIDE DEF t, e
  <2>2. n \in Doc /\ n.id = sess[s].id /\ n.token = t
    BY <2>1, <2>a, Zenon DEF Doc
  <2> HIDE DEF n
  <2>3. sess' = [sess EXCEPT ![s] = n] /\ Goto(s, "positions")
        /\ UpdateResumeToken(sess[s].id, t) /\ h[s].pc = "rotate"
        /\ UNCHANGED <<registry, loops, stopper, newest, overlapped, takeovers, unlisted>>
    BY <1>5, <2>1 DEF Rotate, t
  <2>4. ASSUME NEW d \in docs'
        PROVE  /\ IF d.id = sess[s].id THEN d.token = t ELSE d \in docs
               /\ \E x \in docs : x.id = d.id
    <3>1. PICK o \in docs : d = IF o.id = sess[s].id THEN [o EXCEPT !.token = t] ELSE o
      BY <2>3, <2>4, Zenon DEF UpdateResumeToken
    <3>2. o \in Doc
      BY <1>0, <3>1
    <3> QED  BY <3>1, <3>2 DEF Doc
  <2>5. sess'[s].token = t
    BY <1>0, <2>2, <2>3
  <2>6. GoesOn(h[s], h'[s], "positions") /\ Others(s)
    BY <1>0, <2>3, MovedTo
  <2> QED  BY <2>2, <2>3, <2>4, <2>5, <2>6, Zenon DEF Rotates
<1>6. CASE Rotate(s) /\ ~\E d \in docs : d.id = sess[s].id
  <2>1. h[s].pc = "rotate" /\ Fail(s) /\ Untouched
    BY <1>6 DEF Rotate, Untouched
  <2> QED  BY <2>1, FailEffect
<1>7. CASE Delete(s)
  <2> DEFINE pc == IF h[s].why = "live" THEN "kickDoc" ELSE AfterKick(s)
             kicked == IF h[s].why = "live" THEN h[s].target ELSE None
             R == [h[s] EXCEPT !.pc = pc, !.kicked = kicked, !.why = "none", !.target = None]
  <2>1. h' = [h EXCEPT ![s] = R]
    BY <1>7 DEF Delete
  <2>2. \/ h[s].why = "live" /\ pc = "kickDoc"
        \/ h[s].keep # None /\ pc = "rotate"
        \/ h[s].keep = None /\ pc = "create"
    <3>1. CASE h[s].why = "live"
      BY <3>1
    <3>2. CASE h[s].why # "live" /\ h[s].keep # None
      BY <3>2 DEF AfterKick
    <3>3. CASE h[s].why # "live" /\ h[s].keep = None
      BY <3>3 DEF AfterKick
    <3> QED  BY <3>1, <3>2, <3>3
  <2> HIDE DEF pc, kicked
  <2>3. R.pc = pc /\ R.why = "none" /\ R.keep = h[s].keep
    BY <1>0 DEF Handler
  <2> HIDE DEF R
  <2>4. h'[s] = R /\ Others(s)
    BY <1>0, <2>1, Moved
  <2>5. h[s].pc = "delete" /\ docs' \subseteq docs
        /\ UNCHANGED <<sess, registry, loops, stopper, newest, overlapped, takeovers, unlisted>>
    BY <1>7 DEF Delete, DeleteSession
  <2> QED  BY <2>2, <2>3, <2>4, <2>5 DEF Deletes
<1> QED  BY <1>3, <1>4, <1>5, <1>6, <1>7

\* Registering a session and starting its loop.
LEMMA StartEffect ==
  ASSUME TypeInv, NEW s \in Streams, Store(s) \/ Register(s) \/ StartLoop(s) \/ StartChan(s)
  PROVE  Registers(s) \/ Starts(s)
<1> USE DEF mapVars, clientVars
<1>0. s \in Actors
  BY DEF Actors
<1>1. CASE Store(s)
  <2>1. Goto(s, "register") \/ h' = [h EXCEPT ![s] = [Idle EXCEPT !.pc = "ended"]]
    BY <1>1 DEF Store
  <2>2. h[s].pc = "store" /\ registry' = s
        /\ UNCHANGED <<docs, sess, loops, stopper, newest, overlapped, takeovers, unlisted>>
    BY <1>1 DEF Store
  <2> QED  BY <1>0, <2>1, <2>2, MovedTo, MovedIdle DEF Registers
<1>2. CASE Register(s)
  BY <1>0, <1>2, MovedTo DEF Register, Registers
<1>3. CASE StartLoop(s)
  BY <1>0, <1>3, MovedTo DEF StartLoop, Starts
<1>4. CASE StartChan(s)
  BY <1>0, <1>4, MovedIdle DEF StartChan, Starts
<1> QED  BY <1>1, <1>2, <1>3, <1>4

\* Stopping a loop and unregistering a session.
LEMMA StopEffect ==
  ASSUME TypeInv, AllPlaced, NEW a \in Actors, Stop(a) \/ Close(a) \/ Unregister(a) \/ Erase(a)
  PROVE  Silent \/ Stops(a) \/ Erases(a) \/ (a \in Streams /\ Reads(a))
<1> USE DEF mapVars, clientVars
<1>0. /\ h[a] \in Handler /\ None \notin Streams /\ Admin \notin Streams
      /\ a \notin Streams => a = Admin
      /\ a \in Streams => h[a].why # "admin"
      /\ stopper \in [Streams -> Actors \cup {None}]
  BY SessionAssumption
  DEF SessionAssumption, TypeInv, SessionTypeOK, Actors, AllPlaced, Placed
<1>a. Others(a) /\ a \notin Streams => \A r \in Streams : h'[r] = h[r]
  BY <1>0 DEF Others
<1>b. ASSUME AfterUnregister(a)
      PROVE  /\ Others(a)
             /\ a \in Streams => \/ h[a].why = "cleanup" /\ Resets(h'[a], "ended")
                                 \/ h[a].why # "cleanup" /\ GoesOn(h[a], h'[a], "delete")
  <2>1. CASE h[a].why = "cleanup"
    <3>1. h' = [h EXCEPT ![a] = [Idle EXCEPT !.pc = "ended"]]
      BY <1>b, <2>1 DEF AfterUnregister
    <3> QED  BY <2>1, <3>1, MovedIdle, Zenon
  <2>2. CASE h[a].why = "admin"
    <3>1. Goto(a, "stop")
      BY <1>b, <2>2 DEF AfterUnregister, Goto
    <3> QED  BY <1>0, <2>2, <3>1, MovedTo
  <2>3. CASE h[a].why \notin {"cleanup", "admin"}
    <3>1. Goto(a, "delete")
      BY <1>b, <2>3, ZenonT(60) DEF AfterUnregister, Goto
    <3> QED  BY <2>3, <3>1, MovedTo
  <2> QED  BY <2>1, <2>2, <2>3
<1>1. CASE Stop(a)
  <2>1. Others(a) /\ GoesOn(h[a], h'[a], "close")
    BY <1>1, MovedTo DEF Stop
  <2>2. \A s \in Streams : IF loops[h[a].target] = s /\ stopper[s] = None
                             THEN stopper'[s] = a ELSE stopper'[s] = stopper[s]
    BY <1>0, <1>1 DEF Stop
  <2> QED  BY <1>1, <2>1, <2>2 DEF Stop, Stops
<1>2. CASE Close(a)
  <2>1. Untouched /\ h[a].pc = "close"
    BY <1>2 DEF Close, Untouched
  <2>2. CASE h[a].why = "admin"
    <3>1. h' = [h EXCEPT ![a] = Idle]
      BY <1>2, <2>2 DEF Close, AfterClose
    <3> QED  BY <1>0, <1>a, <2>1, <2>2, <3>1, Moved DEF Silent
  <2>3. CASE h[a].why # "admin"
    <3>1. Goto(a, "unregister")
      BY <1>2, <2>3 DEF Close, AfterClose
    <3>2. Others(a) /\ GoesOn(h[a], h'[a], "unregister")
      BY <3>1, MovedTo
    <3> QED  BY <1>a, <2>1, <3>2 DEF Silent, Reads
  <2> QED  BY <2>2, <2>3
<1>3. CASE Unregister(a)
  <2>1. Untouched /\ h[a].pc = "unregister"
    BY <1>3 DEF Unregister, Untouched
  <2>2. CASE Goto(a, "erase")
    <3>1. Others(a) /\ GoesOn(h[a], h'[a], "erase")
      BY <2>2, MovedTo, ZenonT(60), SMTT(60)
    <3> QED  BY <1>a, <2>1, <3>1 DEF Silent, Reads
  <2>3. CASE AfterUnregister(a)
    BY <1>a, <1>b, <2>1, <2>3 DEF Silent, Reads
  <2> QED  BY <1>3, <2>2, <2>3 DEF Unregister
<1>4. CASE Erase(a)
  <2>1. AfterUnregister(a) /\ h[a].pc = "erase" /\ registry' = None
        /\ UNCHANGED <<docs, sess, loops, stopper, newest, overlapped, takeovers>>
    BY <1>4 DEF Erase
  <2>2. /\ unlisted \subseteq unlisted'
        /\ registry # None /\ registry \notin unlisted' =>
             a \in Streams /\ sess[registry].id = h[a].target
    BY <1>0, <1>4 DEF Erase
  <2> QED  BY <1>b, <2>1, <2>2, ZenonT(60), SMTT(60) DEF Erases
<1> QED  BY <1>1, <1>2, <1>3, <1>4

\* Every step has one of the effects.
LEMMA Effects ==
  ASSUME TypeInv, AllPlaced, [Next]_vars
  PROVE  Effect
<1> USE DEF mapVars, clientVars
<1>0. /\ Admin \notin Streams /\ h \in [Actors -> Handler]
      /\ stopper \in [Streams -> Actors \cup {None}]
  BY SessionAssumption DEF SessionAssumption, TypeInv, SessionTypeOK
<1>1. UNCHANGED vars => Silent
  BY DEF vars, Silent, Untouched
<1>2. ASSUME NEW s \in Streams, Cleanup(s)  PROVE Leaves(s)
  <2> DEFINE R == [Idle EXCEPT !.pc = "stop", !.why = "cleanup", !.target = sess[s].id]
  <2>1. R.pc = "stop" /\ R.why = "cleanup" /\ R.keep = None
    BY DEF Idle
  <2>2. h' = [h EXCEPT ![s] = R]
    BY <1>2 DEF Cleanup
  <2> HIDE DEF R
  <2>3. h'[s] = R /\ Others(s)
    BY <2>2, Moved DEF Actors
  <2>4. \A r \in Streams \ {s} : stopper'[r] = stopper[r]
    BY <1>0, <1>2 DEF Cleanup, Down
  <2> QED  BY <1>2, <2>1, <2>3, <2>4, Zenon DEF Cleanup, Down, Leaves
<1>3. ASSUME sessionsDisconnectCmd  PROVE Silent
  <2>1. \A r \in Streams : h'[r] = h[r]
    BY <1>0, <1>3, Zenon DEF sessionsDisconnectCmd, Disconnect, Actors
  <2> QED  BY <1>3, <2>1 DEF sessionsDisconnectCmd, Silent, Untouched
<1>4. ASSUME SessionCrash  PROVE Crashes
  <2>1. ASSUME NEW s \in Streams
        PROVE  (h[s].pc = "idle" /\ Resets(h'[s], "idle")) \/ Resets(h'[s], "ended")
    BY <1>0, <1>4, <2>1, SMTT(60), ZenonT(60) DEF SessionCrash, Actors, Resets, Idle
  <2> QED  BY <1>4, <2>1 DEF SessionCrash, Crashes
<1>5. ASSUME NEW s \in Streams, Handshake(s)  PROVE Effect
  BY <1>1, <1>5, OpenEffect, ReadEffect, WriteEffect, StartEffect DEF Handshake, Reject, Effect
<1>6. ASSUME NEW a \in Actors, Stop(a) \/ Close(a) \/ Unregister(a) \/ Erase(a)  PROVE Effect
  BY <1>6, StopEffect DEF Effect
<1> QED  BY <1>1, <1>2, <1>3, <1>4, <1>5, <1>6 DEF Next, Effect

-----------------------------------------------------------------------------
(* Who has which session *)

\* The handshake of s may still become a HELLO: it has no session for good yet.
Undecided(s) == Starting(s) /\ h[s].pc \notin {"store", "register", "startLoop", "startChan"}

\* What a handler knows of its session: none before it looks one up, a found one
\* until it makes its own, and never the kept one among those it kicks.
Knows(s) ==
  /\ h[s].why # "none" => h[s].pc \in {"stop", "close", "unregister", "erase", "delete"}
  /\ h[s].pc \in {"idle", "lookup"} => sess[s] = NoSession
  /\ Undecided(s) => sess[s].id # s
  /\ h[s].keep # None => sess[s].id = h[s].keep
  /\ h[s].pc \in {"hello", "live", "create"} => h[s].keep = None
  /\ h[s].why \in {"live", "doc"} => h[s].target # h[s].keep

\* A session id is the name of the stream that made the session, and that
\* stream has it to the end.
Known ==
  /\ \A s \in Streams : Knows(s)
  /\ \A s \in Streams : sess[s].id # None => sess[sess[s].id].id = sess[s].id
  /\ \A d \in docs : sess[d.id].id = d.id

\* Known holds when the Spine starts.
LEMMA KnownInit == SessionInit => Known
<1> SUFFICES ASSUME SessionInit PROVE Known
  OBVIOUS
<1>1. docs = {} /\ \A s \in Streams : h[s] = Idle /\ sess[s] = NoSession
  BY Zenon DEF SessionInit, Actors
<1>2. Idle.pc = "idle" /\ Idle.why = "none" /\ Idle.keep = None /\ NoSession.id = None
  BY DEF Idle, NoSession
<1>3. \A s \in Streams : None # s
  BY SessionAssumption, Zenon DEF SessionAssumption
<1> QED  BY <1>1, <1>2, <1>3, Zenon DEF Known, Knows

\* The ids stay known when s finds the session of a document, makes its own,
\* or keeps the id it has.
LEMMA IdsStay ==
  ASSUME TypeInv, Known, NEW s \in Streams, NEW d \in Doc,
         sess' = [sess EXCEPT ![s] = d],
         \/ d.id = sess[s].id
         \/ sess[s] = NoSession /\ sess[d.id].id = d.id
         \/ d.id = s /\ sess[s].id # s,
         \A e \in docs' : e.id = d.id \/ \E o \in docs : o.id = e.id
  PROVE  /\ \A r \in Streams : sess'[r].id # None => sess'[sess'[r].id].id = sess'[r].id
         /\ \A e \in docs' : sess'[e.id].id = e.id
<1>0. /\ sess \in [Streams -> Doc \cup {NoSession}] /\ d.id \in Streams /\ None \notin Streams
      /\ NoSession.id = None /\ \A o \in docs : o.id \in Streams
  BY SessionAssumption DEF TypeInv, SessionTypeOK, Doc, NoSession, SessionAssumption
<1>a. \A r \in Streams : sess[r].id \in Streams \cup {None}
  BY <1>0 DEF Doc
<1>b. sess'[s] = d /\ \A r \in Streams \ {s} : sess'[r] = sess[r]
  BY <1>0
<1>c. \A r \in Streams : sess[r].id # None => sess[sess[r].id].id = sess[r].id
  BY DEF Known
<1>1. ASSUME NEW x \in Streams, sess[x].id = x  PROVE sess'[x].id = x
  <2>1. CASE x = s
    BY <1>0, <1>1, <1>b, <2>1
  <2>2. CASE x # s
    BY <1>1, <1>b, <2>2
  <2> QED  BY <2>1, <2>2
<1>2. sess'[d.id].id = d.id
  <2>1. CASE d.id = s
    BY <1>b, <2>1
  <2>2. CASE d.id # s
    <3>1. sess[d.id].id = d.id
      BY <1>0, <1>c, <2>2
    <3> QED  BY <1>0, <1>1, <3>1
  <2> QED  BY <2>1, <2>2
<1>3. ASSUME NEW r \in Streams, sess'[r].id # None  PROVE sess'[sess'[r].id].id = sess'[r].id
  <2>1. CASE r = s
    BY <1>2, <1>b, <2>1
  <2>2. CASE r # s
    BY <1>1, <1>3, <1>a, <1>b, <1>c, <2>2
  <2> QED  BY <2>1, <2>2
<1>4. ASSUME NEW e \in docs'  PROVE sess'[e.id].id = e.id
  <2>1. CASE e.id = d.id
    BY <1>2, <2>1
  <2>2. ASSUME NEW o \in docs, o.id = e.id  PROVE sess'[e.id].id = e.id
    <3>1. sess[o.id].id = o.id /\ o.id \in Streams
      BY <1>0, <2>2 DEF Known
    <3> QED  BY <1>1, <2>2, <3>1
  <2> QED  BY <1>4, <2>1, <2>2
<1> QED  BY <1>3, <1>4

\* What the others know stays.
LEMMA OthersKnow ==
  ASSUME Known, NEW s \in Streams, Others(s), \A r \in Streams \ {s} : sess'[r] = sess[r]
  PROVE  \A r \in Streams \ {s} : Knows(r)'
  BY DEF Known, Knows, Others, Undecided, Starting

\* Every step of the Spine preserves Known.
LEMMA KnownStep ==
  ASSUME TypeInv, AllPlaced, Known, Effect
  PROVE  Known'
<1>0. /\ sess \in [Streams -> Doc \cup {NoSession}] /\ docs \subseteq Doc /\ None \notin Streams
      /\ \A e \in Doc : e.id \in Streams
  BY SessionAssumption DEF TypeInv, SessionTypeOK, Doc, SessionAssumption
<1>a. ASSUME sess' = sess, docs' \subseteq docs, \A s \in Streams : Knows(s)'  PROVE Known'
  BY <1>a DEF Known
<1>b. ASSUME sess' = sess, docs' \subseteq docs, NEW s \in Streams, Others(s), Knows(s)'
      PROVE  Known'
  BY <1>a, <1>b, OthersKnow, ZenonT(60), SMTT(60)
<1>1. CASE Silent
  BY <1>1, <1>a DEF Silent, Untouched, Known, Knows, Undecided, Starting
<1>2. CASE Crashes
  <2>1. ASSUME NEW s \in Streams  PROVE Knows(s)'
    BY <1>2, <2>1 DEF Crashes, Resets, Known, Knows, Undecided, Starting, AllPlaced, Placed
  <2> QED  BY <1>2, <1>a, <2>1, ZenonT(60), SMTT(60) DEF Crashes
<1>3. ASSUME NEW s \in Streams, Opens(s) \/ Reads(s) \/ Registers(s) \/ Starts(s) \/ Deletes(s)
                                \/ Leaves(s)
      PROVE  Known'
  <2>0. Knows(s) /\ Placed(s)
    BY DEF Known, AllPlaced
  <2>1. sess' = sess /\ docs' \subseteq docs /\ Others(s)
    BY <1>3, ZenonT(60) DEF Opens, Reads, Untouched, Registers, Starts, Deletes, Leaves
  <2>2. CASE Opens(s)
    BY <1>b, <2>0, <2>1, <2>2 DEF Opens, Resets, Knows, Undecided, Starting
  <2>3. CASE Reads(s)
    BY <1>b, <2>0, <2>1, <2>3, ZenonT(60)
    DEF Reads, Resets, GoesOn, Knows, Undecided, Starting, Placed
  <2>4. CASE Registers(s)
    BY <1>b, <2>0, <2>1, <2>4 DEF Registers, Resets, GoesOn, Knows, Undecided, Starting
  <2>5. CASE Starts(s)
    BY <1>b, <2>0, <2>1, <2>5, ZenonT(60) DEF Starts, Resets, GoesOn, Knows, Undecided, Starting
  <2>6. CASE Deletes(s)
    BY <1>b, <2>0, <2>1, <2>6, Zenon DEF Deletes, Knows, Undecided, Starting, Placed
  <2>7. CASE Leaves(s)
    BY <1>b, <2>0, <2>1, <2>7, Zenon DEF Leaves, Knows, Undecided, Starting
  <2> QED  BY <1>3, <2>2, <2>3, <2>4, <2>5, <2>6, <2>7
<1>4. ASSUME NEW s \in Streams, Finds(s)  PROVE Known'
  <2>0. Knows(s) /\ Placed(s) /\ h[s].pc = "lookup"
    BY <1>4 DEF Known, AllPlaced, Finds
  <2>1. PICK d \in docs : /\ sess' = [sess EXCEPT ![s] = d] /\ h'[s].keep = d.id
                          /\ h'[s].pc \in {"kickLive", "rotate"} /\ h'[s].why = h[s].why
    BY <1>4, ZenonT(60) DEF Finds
  <2>2. sess[d.id].id = d.id /\ sess[s] = NoSession /\ d.id \in Streams /\ d \in Doc
    BY <1>0, <2>0, <2>1, ZenonT(60), SMTT(60) DEF Known, Knows
  <2>3. d.id # s
    BY <1>0, <2>2 DEF NoSession
  <2>4. sess'[s] = d /\ \A r \in Streams \ {s} : sess'[r] = sess[r]
    BY <1>0, <2>1
  <2>5. Knows(s)'
    BY <2>0, <2>1, <2>3, <2>4 DEF Knows, Undecided, Starting
  <2>6. Others(s) /\ docs' = docs
    BY <1>4 DEF Finds
  <2>7. \A r \in Streams : Knows(r)'
    BY <2>4, <2>5, <2>6, OthersKnow
  <2>8. /\ \A r \in Streams : sess'[r].id # None => sess'[sess'[r].id].id = sess'[r].id
        /\ \A e \in docs' : sess'[e.id].id = e.id
    BY <2>1, <2>2, <2>6, IdsStay
  <2> QED  BY <2>7, <2>8 DEF Known
<1>5. ASSUME NEW s \in Streams, Creates(s)  PROVE Known'
  <2>0. Knows(s) /\ Placed(s) /\ h[s].pc = "create"
    BY <1>5 DEF Known, AllPlaced, Creates
  <2>1. PICK d \in Doc : d.id = s /\ sess' = [sess EXCEPT ![s] = d] /\ docs' = docs \cup {d}
    BY <1>5, ZenonT(60) DEF Creates
  <2>2. sess[s].id # s
    BY <2>0, Zenon DEF Knows, Undecided, Starting, Placed
  <2>3. sess'[s] = d /\ \A r \in Streams \ {s} : sess'[r] = sess[r]
    BY <1>0, <2>1
  <2>4. Knows(s)'
    BY <1>5, <2>3 DEF Creates, Resets, Knows, Undecided, Starting
  <2>5. \A r \in Streams : Knows(r)'
    BY <1>5, <2>3, <2>4, OthersKnow DEF Creates
  <2>6. /\ \A r \in Streams : sess'[r].id # None => sess'[sess'[r].id].id = sess'[r].id
        /\ \A e \in docs' : sess'[e.id].id = e.id
    BY <2>1, <2>2, IdsStay
  <2> QED  BY <2>5, <2>6, ZenonT(60), SMTT(60) DEF Known
<1>6. ASSUME NEW s \in Streams, Rotates(s)  PROVE Known'
  <2>0. Knows(s) /\ Placed(s) /\ h[s].pc = "rotate" /\ GoesOn(h[s], h'[s], "positions")
    BY <1>6, Zenon DEF Known, AllPlaced, Rotates
  <2>1. PICK d \in Doc : d.id = sess[s].id /\ sess' = [sess EXCEPT ![s] = d]
    BY <1>6 DEF Rotates
  <2>2. sess'[s] = d /\ \A r \in Streams \ {s} : sess'[r] = sess[r]
    BY <1>0, <2>1
  <2>3. Knows(s)'
    BY <2>0, <2>1, <2>2 DEF GoesOn, Knows, Undecided, Starting
  <2>4. \A r \in Streams : Knows(r)'
    BY <1>6, <2>2, <2>3, OthersKnow, Zenon DEF Rotates
  <2>5. \A e \in docs' : \E o \in docs : o.id = e.id
    BY <1>6, ZenonT(60) DEF Rotates
  <2>6. /\ \A r \in Streams : sess'[r].id # None => sess'[sess'[r].id].id = sess'[r].id
        /\ \A e \in docs' : sess'[e.id].id = e.id
    BY <2>1, <2>5, IdsStay, ZenonT(60)
  <2> QED  BY <2>4, <2>6 DEF Known
<1>7. ASSUME NEW a \in Actors, Stops(a) \/ Erases(a)  PROVE Known'
  <2>1. sess' = sess /\ docs' = docs /\ \A r \in Streams \ {a} : h'[r] = h[r]
    BY <1>7 DEF Stops, Erases, Others
  <2>2. ASSUME a \in Streams  PROVE Knows(a)'
    BY <1>7, <2>1, <2>2
    DEF Stops, Erases, Resets, GoesOn, Known, Knows, Undecided, Starting
  <2>3. ASSUME NEW r \in Streams, r # a  PROVE Knows(r)'
    <3>1. h'[r] = h[r] /\ sess' = sess /\ Knows(r)
      BY <2>1, <2>3, Zenon DEF Known
    <3> QED  BY ONLY <3>1, ZenonT(60), SMTT(60) DEF Knows, Undecided, Starting
  <2> QED  BY <1>a, <2>1, <2>2, <2>3
<1> QED  BY <1>1, <1>2, <1>3, <1>4, <1>5, <1>6, <1>7 DEF Effect

-----------------------------------------------------------------------------
(* Handshakes that meet, and sessions that are shared *)

\* A handshake that meets another one is recorded.
Met ==
  \A s, r \in Streams : s # r /\ Handshaking(s) /\ Handshaking(r) => s \in overlapped

\* Two streams that are up have one session only when one of them resumed it
\* from the other.
Shared ==
  \A s, r \in Streams :
    s # r /\ h[s].pc # "ended" /\ h[r].pc # "ended" /\ sess[s].id = sess[r].id
      /\ sess[s].id # None => s \in takeovers \/ r \in takeovers

\* Only Open starts a handshake, and nothing brings a stream back.
LEMMA HandshakesGoOn ==
  ASSUME AllPlaced, Known, Effect, NEW r \in Streams
  PROVE  /\ Handshaking(r)' => Handshaking(r) \/ Opens(r)
         /\ h[r].pc = "ended" => h'[r].pc = "ended"
<1>0. Knows(r) /\ Placed(r)
  BY DEF Known, AllPlaced
<1>1. CASE Silent
  BY <1>1 DEF Silent, Handshaking
<1>2. CASE Crashes
  BY <1>2 DEF Crashes, Resets, Handshaking
<1>3. ASSUME NEW s \in Streams, Opens(s) \/ Leaves(s)
      PROVE  /\ Handshaking(r)' => Handshaking(r) \/ Opens(r)
             /\ h[r].pc = "ended" => h'[r].pc = "ended"
  BY <1>3 DEF Opens, Leaves, Others, Handshaking, Resets
<1>4. ASSUME NEW s \in Streams, Reads(s)
      PROVE  /\ Handshaking(r)' => Handshaking(r)
             /\ h[r].pc = "ended" => h'[r].pc = "ended"
  <2>1. CASE r # s
    BY <1>4, <2>1 DEF Reads, Others, Handshaking
  <2>2. CASE r = s
    BY <1>0, <1>4, <2>2, Zenon DEF Reads, Handshaking, Resets, GoesOn, Knows, Placed
  <2> QED  BY <2>1, <2>2, ZenonT(60), SMTT(60)
<1>5. ASSUME NEW s \in Streams, Finds(s) \/ Creates(s) \/ Registers(s) \/ Rotates(s) \/ Starts(s)
                                \/ Deletes(s)
      PROVE  /\ Handshaking(r)' => Handshaking(r)
             /\ h[r].pc = "ended" => h'[r].pc = "ended"
  <2>1. CASE r # s
    BY <1>5, <2>1, Zenon
    DEF Finds, Creates, Registers, Rotates, Starts, Deletes, Others, Handshaking
  <2>2. CASE r = s
    BY <1>0, <1>5, <2>2, Zenon
    DEF Finds, Creates, Registers, Rotates, Starts, Deletes, Handshaking, Resets, GoesOn, Knows,
        Placed
  <2> QED  BY <2>1, <2>2
<1>6. ASSUME NEW a \in Actors, Stops(a) \/ Erases(a)
      PROVE  /\ Handshaking(r)' => Handshaking(r)
             /\ h[r].pc = "ended" => h'[r].pc = "ended"
  BY <1>6, Zenon DEF Stops, Erases, Others, Handshaking, Resets, GoesOn
<1> QED  BY <1>1, <1>2, <1>3, <1>4, <1>5, <1>6 DEF Effect

\* The steps that write sessions, documents and the maps are steps of a
\* handshake; a teardown acts on the stream's own session.
LEMMA WritersShake ==
  ASSUME AllPlaced, Known, TypeInv, NEW s \in Streams
  PROVE  /\ \/ Finds(s) \/ Creates(s) \/ Registers(s) \/ Rotates(s) \/ Starts(s) \/ Deletes(s)
            => Handshaking(s)
         /\ Stops(s) \/ Erases(s) => Handshaking(s) \/ h[s].target = sess[s].id
<1>1. Knows(s) /\ Placed(s)
  BY DEF Known, AllPlaced
<1> QED
  BY <1>1, Zenon
  DEF Finds, Creates, Registers, Rotates, Starts, Deletes, Stops, Erases, Handshaking, Knows, Placed

\* Every step of the Spine preserves Met.
LEMMA MetStep ==
  ASSUME TypeInv, AllPlaced, Known, Met, Effect
  PROVE  Met'
<1>1. SUFFICES ASSUME NEW s \in Streams, NEW r \in Streams, s # r,
                      Handshaking(s)', Handshaking(r)'
               PROVE  s \in overlapped'
  BY DEF Met
<1>2. CASE Opens(s)
  <2>1. Handshaking(r)
    BY <1>1, <1>2 DEF Opens, Others, Handshaking
  <2> QED  BY <1>1, <1>2, <2>1 DEF Opens
<1>3. CASE Opens(r)
  <2>1. Handshaking(s)
    BY <1>1, <1>3 DEF Opens, Others, Handshaking
  <2> QED  BY <1>1, <1>3, <2>1 DEF Opens
<1>4. CASE ~Opens(s) /\ ~Opens(r)
  <2>1. Handshaking(s) /\ Handshaking(r)
    BY <1>1, <1>4, HandshakesGoOn
  <2>2. s \in overlapped
    BY <1>1, <2>1 DEF Met
  <2>3. ASSUME NEW x \in Streams, Leaves(x)  PROVE s \in overlapped'
    BY <1>1, <2>2, <2>3 DEF Leaves, Handshaking
  <2>4. (\A x \in Streams : ~Leaves(x)) => overlapped \subseteq overlapped'
    BY ZenonT(60)
    DEF Effect, Silent, Untouched, Crashes, Opens, Reads, Finds, Creates, Registers, Rotates,
           Starts, Deletes, Stops, Erases
  <2> QED  BY <2>2, <2>3, <2>4
<1> QED  BY <1>2, <1>3, <1>4

\* What a step does to the session of a stream.
LEMMA SessionsChange ==
  ASSUME TypeInv, Effect, NEW r \in Streams
  PROVE  \/ Finds(r) \/ Creates(r)
         \/ Rotates(r) /\ sess'[r].id = sess[r].id
         \/ sess'[r] = sess[r]
<1>0. sess \in [Streams -> Doc \cup {NoSession}]
  BY DEF TypeInv, SessionTypeOK
<1>1. ASSUME NEW s \in Streams, Finds(s) \/ Creates(s) \/ Rotates(s)
      PROVE  (s # r => sess'[r] = sess[r]) /\ (Rotates(s) => sess'[s].id = sess[s].id)
  BY <1>0, <1>1 DEF Finds, Creates, Rotates
<1>2. \/ sess' = sess
      \/ \E s \in Streams : Finds(s) \/ Creates(s) \/ Rotates(s)
  BY ZenonT(60)
  DEF Effect, Silent, Untouched, Crashes, Opens, Reads, Registers, Starts, Deletes, Leaves,
         Stops, Erases
<1> QED  BY <1>1, <1>2

\* Every step of the Spine preserves Shared.
LEMMA SharedStep ==
  ASSUME TypeInv, AllPlaced, Known, Shared, Effect
  PROVE  Shared'
<1>0. /\ sess \in [Streams -> Doc \cup {NoSession}] /\ None \notin Streams
      /\ \A e \in Doc : e.id \in Streams
  BY SessionAssumption DEF TypeInv, SessionTypeOK, Doc, SessionAssumption
<1>1. takeovers \subseteq takeovers'
  BY ZenonT(60)
  DEF Effect, Silent, Untouched, Crashes, Opens, Reads, Finds, Creates, Registers, Rotates,
         Starts, Deletes, Leaves, Stops, Erases
<1>2. ASSUME NEW s \in Streams, NEW r \in Streams, s # r,
             h'[s].pc # "ended", h'[r].pc # "ended", sess'[s].id = sess'[r].id, sess'[s].id # None,
             Finds(s) \/ Creates(s)
      PROVE  s \in takeovers'
  <2>1. sess'[r] = sess[r] /\ h'[r] = h[r]
    BY <1>0, <1>2 DEF Finds, Creates, Others
  <2>2. CASE Finds(s)
    <3>1. PICK d \in docs : /\ sess'[s] = d
                            /\ s \notin takeovers' =>
                                 \A x \in Streams : sess[x].id = d.id => h[x].pc = "ended"
      BY <1>0, <2>2 DEF Finds
    <3> QED  BY <1>2, <2>1, <3>1, ZenonT(60), SMTT(60)
  <2>3. CASE Creates(s)
    <3>1. sess'[s].id = s
      BY <1>0, <2>3 DEF Creates
    <3>2. sess[s].id = s
      BY <1>0, <1>2, <2>1, <3>1, ZenonT(60), SMTT(60) DEF Known
    <3>3. Undecided(s)
      BY <2>3, ZenonT(60), SMTT(60) DEF Creates, Undecided, Starting, AllPlaced, Placed
    <3> QED  BY <3>2, <3>3, SMTT(60), ZenonT(60) DEF Known, Knows
  <2> QED  BY <1>2, <2>2, <2>3
<1>3. SUFFICES ASSUME NEW s \in Streams, NEW r \in Streams, s # r,
                      h'[s].pc # "ended", h'[r].pc # "ended", sess'[s].id = sess'[r].id,
                      sess'[s].id # None
               PROVE  s \in takeovers' \/ r \in takeovers'
  BY DEF Shared
<1>4. CASE Finds(s) \/ Creates(s) \/ Finds(r) \/ Creates(r)
  BY <1>2, <1>3, <1>4
<1>5. CASE ~(Finds(s) \/ Creates(s) \/ Finds(r) \/ Creates(r))
  <2>1. sess'[s].id = sess[s].id /\ sess'[r].id = sess[r].id
    BY <1>5, SessionsChange
  <2>2. h[s].pc # "ended" /\ h[r].pc # "ended"
    BY <1>3, HandshakesGoOn
  <2> QED  BY <1>1, <1>3, <2>1, <2>2 DEF Shared
<1> QED  BY <1>4, <1>5

-----------------------------------------------------------------------------
(* The stream opened last *)

\* The newest stream n, on its way or serving, whose handshake met no other:
\* nobody else is in a handshake, its token is the one of its document, and
\* unless it took a session over nobody up shares its session, nobody but the
\* operator stopped its loop, and its entry is in the registry unless deleted in
\* place of another.
Favoured(n) ==
  n \notin overlapped /\ (Handshaking(n) \/ h[n].pc = "serve") =>
    /\ \A r \in Streams \ {n} : ~Handshaking(r)
    /\ h[n].pc \in {"store", "positions", "register", "startLoop", "startChan", "serve"} =>
         \A d \in docs : d.id = sess[n].id => d.token = sess[n].token
    /\ n \notin takeovers =>
         /\ stopper[n] \in {None, Admin}
         /\ sess[n].id # None =>
              \A r \in Streams \ {n} : h[r].pc # "ended" => sess[r].id # sess[n].id
         /\ n \notin unlisted /\ h[n].pc \in {"startLoop", "startChan", "serve"} => registry = n

\* A stream that was not opened has no loop that somebody stopped.
Unstopped == \A s \in Streams : h[s].pc = "idle" => stopper[s] = None

NewestInv == (newest # None => Favoured(newest)) /\ Unstopped

\* Nothing is open when the Spine starts.
LEMMA NewestInit == SessionInit => Met /\ Shared /\ NewestInv
<1>1. SUFFICES ASSUME SessionInit  PROVE Met /\ Shared /\ NewestInv
  OBVIOUS
<1>2. \A s \in Streams : h[s].pc = "idle" /\ sess[s].id = None /\ stopper[s] = None
  BY <1>1, SMTT(60), ZenonT(60) DEF SessionInit, Idle, NoSession, Actors
<1> QED  BY <1>1, <1>2 DEF SessionInit, Met, Shared, NewestInv, Unstopped, Handshaking

\* Who may stop a loop: its own stream, a handshake, the operator, or a stream
\* that shares the session.
LEMMA Stoppers ==
  ASSUME TypeInv, AllPlaced, Known, NEW a \in Actors, Stops(a), NEW n \in Streams,
         stopper'[n] # stopper[n]
  PROVE  /\ stopper'[n] = a /\ ~(Starting(n) /\ h[n].pc # "startChan") /\ h[n].pc # "ended"
         /\ a \in Streams \ {n} =>
              Handshaking(a) \/ (sess[a].id = sess[n].id /\ sess[n].id # None)
<1>0. None \notin Streams /\ h[a].target \in Streams
  <2>1. h[a].why # "none"
    BY DEF Stops, TypeInv, Tidy
  <2> QED  BY <2>1, SessionAssumption, SMTT(60), ZenonT(60)
           DEF TypeInv, SessionTypeOK, SessionAssumption
<1>1. stopper'[n] = a /\ loops[h[a].target] = n
  BY SMTT(60), ZenonT(60) DEF Stops
<1>2. h[a].target = sess[n].id /\ ~NotIn(loops, n)
  BY <1>0, <1>1, Zenon DEF AllPlaced, Placed, NotIn
<1>3. ~(Starting(n) /\ h[n].pc # "startChan") /\ h[n].pc # "ended"
  BY <1>2, SMTT(60), ZenonT(60) DEF AllPlaced, Placed
<1>4. a \in Streams => Handshaking(a) \/ h[a].target = sess[a].id
  BY WritersShake
<1> QED  BY <1>0, <1>1, <1>2, <1>3, <1>4, Zenon

\* Every step of the Spine preserves Unstopped.
LEMMA UnstoppedStep ==
  ASSUME TypeInv, AllPlaced, Known, Unstopped, Effect
  PROVE  Unstopped'
<1>1. SUFFICES ASSUME NEW s \in Streams, h'[s].pc = "idle"  PROVE stopper'[s] = None
  BY DEF Unstopped
<1>2. h[s].pc = "idle"
  <2>1. CASE Silent \/ Crashes
    BY <1>1, <2>1 DEF Silent, Crashes, Resets
  <2>2. ASSUME NEW x \in Streams,
               \/ Opens(x) \/ Reads(x) \/ Finds(x) \/ Creates(x) \/ Registers(x) \/ Rotates(x)
               \/ Starts(x) \/ Deletes(x) \/ Leaves(x)
        PROVE  h[s].pc = "idle"
    BY <1>1, <2>2, ZenonT(60)
    DEF Opens, Reads, Finds, Creates, Registers, Rotates, Starts, Deletes, Leaves, Resets, GoesOn,
        Others
  <2>3. ASSUME NEW a \in Actors, Stops(a) \/ Erases(a)  PROVE h[s].pc = "idle"
    BY <1>1, <2>3 DEF Stops, Erases, Resets, GoesOn, Others
  <2> QED  BY <2>1, <2>2, <2>3 DEF Effect
<1>3. stopper[s] = None
  BY <1>2 DEF Unstopped
<1>4. ASSUME NEW a \in Actors, Stops(a)  PROVE stopper'[s] = stopper[s]
  <2>1. Starting(s)
    BY <1>2 DEF Starting, AllPlaced, Placed
  <2> QED  BY <1>2, <1>4, <2>1, Stoppers, SMTT(60), ZenonT(60)
<1>5. ASSUME NEW x \in Streams, Leaves(x)  PROVE stopper'[s] = stopper[s]
  BY <1>2, <1>5 DEF Leaves
<1>6. \/ stopper' = stopper \/ \E a \in Actors : Stops(a)
      \/ \E x \in Streams : Leaves(x)
  BY Zenon DEF Effect, Silent, Untouched, Crashes, Opens, Reads, Finds, Creates, Registers, Rotates,
         Starts, Deletes, Erases
<1> QED  BY <1>3, <1>4, <1>5, <1>6

\* A stream that has just been opened.
LEMMA OpenFavours ==
  ASSUME TypeInv, AllPlaced, Known, Unstopped, NEW s \in Streams, Opens(s)
  PROVE  Favoured(s)'
<1>1. s \notin overlapped' => \A r \in Streams \ {s} : ~Handshaking(r)'
  BY Zenon DEF Opens, Others, Handshaking
<1>2. sess'[s] = NoSession /\ stopper'[s] = None
  BY SMTT(60), ZenonT(60) DEF Opens, Known, Knows, Unstopped
<1>3. h'[s].pc \in {"hello", "lookup"}
  BY SMTT(60), ZenonT(60) DEF Opens, Resets
<1>4. sess'[s].id = None /\ stopper'[s] \in {None, Admin}
  BY <1>2 DEF NoSession
<1>5. h'[s].pc \notin {"store", "positions", "register", "startLoop", "startChan", "serve"}
  BY <1>3
<1> QED  BY <1>1, <1>4, <1>5, Zenon DEF Favoured

\* A step of the newest stream itself.
LEMMA OwnStepFavours ==
  ASSUME TypeInv, AllPlaced, Known, NEW n \in Streams, Favoured(n),
         n \notin overlapped, Handshaking(n) \/ h[n].pc = "serve",
         \/ Reads(n) \/ Finds(n) \/ Creates(n) \/ Registers(n) \/ Rotates(n) \/ Starts(n)
         \/ Deletes(n) \/ Leaves(n) \/ Stops(n) \/ Erases(n)
  PROVE  Favoured(n)'
<1>0. /\ sess \in [Streams -> Doc \cup {NoSession}] /\ None \notin Streams
      /\ \A e \in Doc : e.id \in Streams
      /\ docs \subseteq Doc /\ Knows(n) /\ Placed(n)
  BY SessionAssumption, Zenon
  DEF TypeInv, SessionTypeOK, Doc, SessionAssumption, Known, AllPlaced
<1>1. CASE Leaves(n)
  BY <1>1, Zenon DEF Leaves, Favoured, Handshaking
<1>2. ASSUME ~Leaves(n)
      PROVE  \A r \in Streams \ {n} : ~Handshaking(r)'
  BY <1>2, Zenon
  DEF Favoured, Handshaking, Reads, Finds, Creates, Registers, Rotates, Starts, Deletes,
              Stops, Erases, Others
<1>3. CASE Reads(n)
  <2>1. h'[n].pc = "register" => h[n].pc = "positions"
    BY <1>3, Zenon DEF Reads, Resets, GoesOn
  <2>2. h'[n].pc \notin {"store", "positions", "startLoop", "startChan", "serve"}
    BY <1>3, Zenon DEF Reads, Resets, GoesOn
  <2>3. ~Leaves(n) /\ Untouched /\ Others(n)
    BY <1>3, <2>2, Zenon DEF Reads, Leaves, Untouched, Resets, GoesOn
  <2> QED  BY <1>2, <2>1, <2>2, <2>3, Zenon DEF Favoured, Untouched, Others
<1>4. CASE Finds(n)
  <2>1. PICK d \in docs :
          /\ sess' = [sess EXCEPT ![n] = d]
          /\ n \notin takeovers' => \A r \in Streams : sess[r].id = d.id => h[r].pc = "ended"
    BY <1>4, Zenon DEF Finds
  <2>2. sess'[n] = d /\ \A r \in Streams \ {n} : sess'[r] = sess[r] /\ h'[r] = h[r]
    BY <1>0, <1>4, <2>1, Zenon DEF Finds, Others
  <2>3. h'[n].pc \in {"kickLive", "rotate"} /\ takeovers \subseteq takeovers' /\ stopper' = stopper
    BY <1>4, Zenon DEF Finds
  <2>4. ~Leaves(n)
    BY <1>4, Zenon DEF Finds, Leaves
  <2> QED  BY <1>2, <2>1, <2>2, <2>3, <2>4, Zenon DEF Favoured
<1>5. CASE Creates(n)
  <2>1. PICK d \in Doc : d.id = n /\ sess' = [sess EXCEPT ![n] = d] /\ docs' = docs \cup {d}
    BY <1>5, Zenon DEF Creates
  <2>2. sess'[n] = d /\ \A r \in Streams \ {n} : sess'[r] = sess[r] /\ h'[r] = h[r]
    BY <1>0, <1>5, <2>1, Zenon DEF Creates, Others
  <2>3. sess[n].id # n
    BY <1>0, <1>5, Zenon DEF Creates, Knows, Undecided, Starting, Placed
  <2>4. (\A r \in Streams : sess[r].id # n) /\ \A e \in docs : e.id # n
    BY <1>0, <2>3, Zenon DEF Known
  <2>5. h'[n].pc = "store" /\ UNCHANGED <<takeovers, stopper>> /\ ~Leaves(n)
    BY <1>5, Zenon DEF Creates, Resets, Leaves
  <2>6. \A e \in docs' : e.id = sess'[n].id => e.token = sess'[n].token
    BY <2>1, <2>2, <2>4, Zenon
  <2>7. \A r \in Streams \ {n} : sess'[r].id # sess'[n].id
    BY <2>1, <2>2, <2>4, Zenon
  <2> QED  BY <1>2, <2>5, <2>6, <2>7, ZenonT(60) DEF Favoured
<1>6. CASE Rotates(n)
  <2>1. PICK d \in Doc : d.id = sess[n].id /\ sess' = [sess EXCEPT ![n] = d]
    BY <1>6, Zenon DEF Rotates
  <2>2. sess'[n] = d /\ \A r \in Streams \ {n} : sess'[r] = sess[r] /\ h'[r] = h[r]
    BY <1>0, <1>6, <2>1, Zenon DEF Rotates, Others
  <2>3. /\ h'[n].pc = "positions" /\ UNCHANGED <<takeovers, stopper>> /\ ~Leaves(n)
        /\ \A e \in docs' : e.id = sess[n].id => e.token = sess'[n].token
    BY <1>6, Zenon DEF Rotates, GoesOn, Leaves
  <2> QED  BY <1>2, <2>1, <2>2, <2>3, Zenon DEF Favoured
<1>7. CASE Registers(n) \/ Starts(n) \/ Deletes(n)
  <2>1. /\ UNCHANGED <<sess, takeovers, stopper, unlisted>> /\ docs' \subseteq docs /\ ~Leaves(n)
        /\ Others(n)
        /\ h'[n].pc \in {"store", "positions", "register", "startLoop", "startChan", "serve"} =>
             h[n].pc \in {"store", "positions", "register", "startLoop", "startChan", "serve"}
        /\ h'[n].pc \in {"startLoop", "startChan", "serve"} =>
             registry' = n \/ (registry' = registry /\ h[n].pc \in {"startLoop", "startChan"})
    BY <1>7, Zenon DEF Registers, Starts, Deletes, Leaves, Resets, GoesOn
  <2> QED  BY <1>2, <2>1, Zenon DEF Favoured, Others
<1>8. CASE Stops(n) \/ Erases(n)
  <2>1. /\ UNCHANGED <<sess, takeovers, docs>> /\ ~Leaves(n) /\ Others(n)
        /\ h'[n].pc \in {"close", "ended", "delete"}
    BY <1>8, Zenon DEF Stops, Erases, Leaves, Resets, GoesOn
  <2>2. h[n].pc # "serve" /\ h[n].pc # "startChan"
    BY <1>8, Zenon DEF Stops, Erases
  <2>3. Starting(n)
    BY <1>0, <2>2, Zenon DEF Handshaking, Starting
  <2>4. stopper'[n] = stopper[n]
    BY <1>8, <2>2, <2>3, Stoppers, Zenon DEF Erases, Actors
  <2> QED  BY <1>2, <2>1, <2>4, Zenon DEF Favoured, Others
<1> QED  BY <1>1, <1>3, <1>4, <1>5, <1>6, <1>7, <1>8

\* A step of another actor.
LEMMA OtherStepFavours ==
  ASSUME TypeInv, AllPlaced, Known, NEW n \in Streams, Favoured(n),
         n \notin overlapped, Handshaking(n) \/ h[n].pc = "serve",
         NEW a \in Actors \ {n},
         \/ a \in Streams /\ (\/ Reads(a) \/ Finds(a) \/ Creates(a) \/ Registers(a) \/ Rotates(a)
                              \/ Starts(a) \/ Deletes(a) \/ Leaves(a))
         \/ Stops(a) \/ Erases(a)
  PROVE  Favoured(n)'
<1>0. ASSUME a \in Streams
      PROVE  /\ ~Handshaking(a)
             /\ ~(Finds(a) \/ Creates(a) \/ Registers(a) \/ Rotates(a) \/ Starts(a) \/ Deletes(a))
             /\ Stops(a) \/ Erases(a) => h[a].target = sess[a].id
  BY <1>0, WritersShake, Zenon DEF Favoured
<1>1. /\ (a \in Streams /\ (Reads(a) \/ Leaves(a))) \/ Stops(a) \/ Erases(a)
      /\ UNCHANGED <<docs, sess, takeovers>>
  BY <1>0, Zenon DEF Reads, Leaves, Stops, Erases, Untouched
<1>2. h'[n] = h[n]
  BY <1>1, Zenon DEF Reads, Leaves, Stops, Erases, Others
<1>3. /\ \A r \in Streams : ~Handshaking(r) => ~Handshaking(r)'
      /\ \A r \in Streams : h[r].pc = "ended" => h'[r].pc = "ended"
  <2>1. Effect /\ ~\E r \in Streams : Opens(r)
    <3>1. Effect
      BY <1>1, Zenon DEF Effect
    <3>2. ASSUME NEW r \in Streams, Opens(r)  PROVE FALSE
      BY <1>1, <3>2, ZenonT(60) DEF Opens, Reads, Leaves, Stops, Erases, Others, Resets, GoesOn
    <3> QED  BY <3>1, <3>2, Zenon
  <2> QED  BY <2>1, HandshakesGoOn, Zenon
<1>4. stopper'[n] # stopper[n] =>
        \/ stopper'[n] = Admin
        \/ \E r \in Streams \ {n} :
             h[r].pc # "ended" /\ sess[r].id = sess[n].id /\ sess[n].id # None
  <2>1. CASE Stops(a)
    <3>1. a \in Streams \/ a = Admin
      BY Zenon DEF Actors
    <3> QED  BY <1>0, <2>1, <3>1, Stoppers, Zenon DEF Stops
  <2>2. CASE ~Stops(a)
    BY <1>1, <2>2, Zenon DEF Reads, Untouched, Leaves, Erases
  <2> QED  BY <2>1, <2>2
<1>5. n \notin overlapped' /\ (n \notin unlisted' => n \notin unlisted)
  BY <1>1, Zenon DEF Reads, Untouched, Leaves, Stops, Erases
<1>6. registry = n /\ registry' # n /\ n \notin unlisted' =>
        \E r \in Streams \ {n} : h[r].pc # "ended" /\ sess[r].id = sess[n].id
  <2>1. CASE Erases(a)
    BY <1>0, <2>1, SessionAssumption, Zenon DEF Erases, SessionAssumption
  <2>2. CASE ~Erases(a)
    BY <1>1, <2>2, Zenon DEF Reads, Untouched, Leaves, Stops
  <2> QED  BY <2>1, <2>2, Zenon
<1>7. h[n].pc \in {"startLoop", "startChan", "serve"} => sess[n].id # None
  BY SessionAssumption, Zenon DEF TypeInv, SessionTypeOK, Doc, SessionAssumption
<1>8. Handshaking(n)' = Handshaking(n)
  BY <1>2, Zenon DEF Handshaking
<1>9. n \notin takeovers' => stopper'[n] \in {None, Admin}
  BY <1>1, <1>4, Zenon DEF Favoured
<1>10. n \notin takeovers' /\ n \notin unlisted' /\ h'[n].pc \in {"startLoop", "startChan", "serve"}
         => registry' = n
  BY <1>1, <1>2, <1>5, <1>6, <1>7, Zenon DEF Favoured
<1> QED  BY <1>1, <1>2, <1>3, <1>5, <1>8, <1>9, <1>10, Zenon DEF Favoured

\* A step that opens no stream.
LEMMA FavouredStep ==
  ASSUME TypeInv, AllPlaced, Known, NEW n \in Streams, Favoured(n), Effect,
         ~\E s \in Streams : Opens(s)
  PROVE  Favoured(n)'
<1>1. CASE Crashes
  BY <1>1 DEF Crashes, Favoured, Handshaking, Resets
<1>2. CASE Silent
  BY <1>2, ZenonT(60) DEF Silent, Untouched, Favoured, Handshaking
<1>3. CASE ~Crashes /\ ~Silent
  <2>1. PICK a \in Actors :
          \/ a \in Streams /\ (\/ Reads(a) \/ Finds(a) \/ Creates(a) \/ Registers(a) \/ Rotates(a)
                               \/ Starts(a) \/ Deletes(a) \/ Leaves(a))
          \/ Stops(a) \/ Erases(a)
    BY <1>3 DEF Effect, Actors
  <2>2. CASE n \in overlapped \/ ~(Handshaking(n) \/ h[n].pc = "serve")
    <3>1. (n \notin overlapped' /\ (Handshaking(n)' \/ h'[n].pc = "serve")) \/ Favoured(n)'
      BY Zenon DEF Favoured
    <3>2. h'[n].pc = "serve" => Handshaking(n) \/ h[n].pc = "serve"
      BY <2>1, WritersShake, Zenon
      DEF Reads, Finds, Creates, Registers, Rotates, Starts, Deletes, Leaves, Stops, Erases,
          Others, Resets, GoesOn
    <3>3. Handshaking(n)' => Handshaking(n)
      BY HandshakesGoOn, ZenonT(60)
    <3>4. CASE Leaves(a) /\ a \in Streams
      BY <2>2, <3>1, <3>2, <3>3, <3>4, ZenonT(60) DEF Leaves, Handshaking
    <3>5. CASE ~(Leaves(a) /\ a \in Streams)
      <4>1. overlapped' = overlapped
        BY <2>1, <3>5, Zenon
        DEF Reads, Untouched, Finds, Creates, Registers, Rotates, Starts, Deletes, Stops, Erases
      <4> QED  BY <2>2, <3>1, <3>2, <3>3, <4>1
    <3> QED  BY <3>4, <3>5
  <2>3. CASE n \notin overlapped /\ (Handshaking(n) \/ h[n].pc = "serve")
    <3>1. CASE a = n
      <4>1. \/ Reads(n) \/ Finds(n) \/ Creates(n) \/ Registers(n) \/ Rotates(n) \/ Starts(n)
            \/ Deletes(n) \/ Leaves(n) \/ Stops(n) \/ Erases(n)
        BY <2>1, <3>1, Zenon
      <4> QED  BY <2>3, <4>1, OwnStepFavours, Zenon
    <3>2. CASE a # n
      BY <2>1, <2>3, <3>2, OtherStepFavours
    <3> QED  BY <3>1, <3>2, SMTT(60), ZenonT(60)
  <2> QED  BY <2>2, <2>3
<1> QED  BY <1>1, <1>2, <1>3, SMTT(60), ZenonT(60)

\* Every step of the Spine preserves NewestInv.
LEMMA NewestStep ==
  ASSUME TypeInv, AllPlaced, Known, NewestInv, Effect
  PROVE  NewestInv'
<1>0. Unstopped'
  BY UnstoppedStep, SMTT(60), ZenonT(60) DEF NewestInv
<1>1. ASSUME NEW s \in Streams, Opens(s)  PROVE newest' # None => Favoured(newest)'
  <2>1. Favoured(s)' /\ newest' = s
    BY <1>1, OpenFavours, ZenonT(60) DEF NewestInv, Opens
  <2> QED  BY <2>1 DEF Favoured
<1>2. ASSUME ~\E s \in Streams : Opens(s), newest # None  PROVE Favoured(newest)'
  <2>1. PICK n \in Streams : n = newest
    BY <1>2 DEF TypeInv, SessionTypeOK
  <2>2. newest' = n
    BY <1>2, <2>1, Zenon
    DEF Effect, Silent, Untouched, Crashes, Reads, Finds, Creates, Registers, Rotates, Starts,
        Deletes, Leaves, Stops, Erases
  <2>3. Favoured(n)'
    BY <1>2, <2>1, FavouredStep DEF NewestInv
  <2> QED  BY <2>2, <2>3 DEF Favoured
<1>3. newest = None /\ ~(\E s \in Streams : Opens(s)) => newest' = None
  BY ZenonT(60)
  DEF Effect, Silent, Untouched, Crashes, Reads, Finds, Creates, Registers, Rotates, Starts,
         Deletes, Leaves, Stops, Erases
<1> QED  BY <1>0, <1>1, <1>2, <1>3 DEF NewestInv

-----------------------------------------------------------------------------
(* One delivery loop *)

\* None of the exceptions holds of s: its handshake met no other, its entry was
\* not deleted in place of another, it took no session over, and who took its
\* session over has not come to register yet, and may still fail.
Clear(s) ==
  /\ s \notin overlapped \cup unlisted \cup takeovers
  /\ \A t \in takeovers : sess[t].id = sess[s].id => Undecided(t)

\* The handshake r has not come to its first kick, is about to stop the loop of
\* s, or resumes the session of s.
Approaches(r, s) ==
  \/ h[r].pc \in {"lookup", "hello", "live", "kickLive"}
  \/ h[r].pc = "stop" /\ h[r].target = sess[s].id
  \/ h[r].keep = sess[s].id /\ Undecided(r)

\* The registry and the loops have s from its registration on, as long as its
\* loop runs, and no handshake can have passed it by.
Single(s) ==
  Clear(s) =>
    /\ h[s].pc \in {"startLoop", "startChan"} \/ Delivering(s) => registry = s
    /\ h[s].pc \in {"startChan", "serve"} /\ stopper[s] = None => loops[sess[s].id] = s
    /\ Delivering(s) => \A r \in Streams \ {s} : Handshaking(r) => Approaches(r, s)

\* A handshake that has not stored its session had not done so before.
LEMMA UndecidedBefore ==
  ASSUME AllPlaced, Known, Effect, NEW t \in Streams, Undecided(t)'
  PROVE  Undecided(t)
<1>0. Knows(t) /\ Placed(t)
  BY SMTT(60), ZenonT(60) DEF Known, AllPlaced
<1>1. CASE Silent \/ Crashes
  BY <1>0, <1>1 DEF Silent, Crashes, Resets, Undecided, Starting, Placed
<1>2. ASSUME NEW s \in Streams,
             Opens(s) \/ Finds(s) \/ Creates(s) \/ Registers(s) \/ Rotates(s)
      PROVE  Undecided(t)
  BY <1>0, <1>2, Zenon
  DEF Opens, Finds, Creates, Registers, Rotates, Others, Resets, GoesOn, Undecided, Starting,
      Knows, Placed
<1>3. ASSUME NEW s \in Streams, Starts(s) \/ Deletes(s) \/ Leaves(s)
      PROVE  Undecided(t)
  BY <1>0, <1>3, Zenon
  DEF Starts, Deletes, Leaves, Others, Resets, GoesOn, Undecided, Starting, Knows, Placed
<1>4. ASSUME NEW s \in Streams, Reads(s)  PROVE Undecided(t)
  BY <1>0, <1>4, Zenon DEF Reads, Others, Resets, GoesOn, Undecided, Starting, Knows, Placed
<1>5. ASSUME NEW a \in Actors, Stops(a) \/ Erases(a)  PROVE Undecided(t)
  BY <1>0, <1>5, Zenon DEF Stops, Erases, Others, Resets, GoesOn, Undecided, Starting, Knows, Placed
<1> QED  BY <1>1, <1>2, <1>3, <1>4, <1>5 DEF Effect

\* The exceptions stay with a stream as long as it serves.
LEMMA ClearBefore ==
  ASSUME TypeInv, AllPlaced, Known, Effect, NEW s \in Streams,
         h[s].pc \in {"startLoop", "startChan", "serve"},
         h'[s].pc \in {"startLoop", "startChan", "serve"}, Clear(s)'
  PROVE  Clear(s) /\ sess'[s] = sess[s]
<1>1. sess'[s] = sess[s]
  BY SessionsChange DEF Finds, Creates, Rotates
<1>2. takeovers \subseteq takeovers' /\ takeovers \subseteq Streams
  BY Zenon DEF Effect, Silent, Untouched, Crashes, Opens, Reads, Finds, Creates, Registers, Rotates,
         Starts, Deletes, Leaves, Stops, Erases, TypeInv, SessionTypeOK
<1>3. s \in overlapped => s \in overlapped'
  BY Zenon DEF Effect, Silent, Untouched, Crashes, Opens, Reads, Finds, Creates, Registers, Rotates,
         Starts, Deletes, Leaves, Stops, Erases
<1>4. s \in unlisted => s \in unlisted'
  BY ZenonT(60)
  DEF Effect, Silent, Untouched, Crashes, Opens, Reads, Finds, Creates, Registers, Rotates,
         Starts, Deletes, Leaves, Stops, Erases
<1>5. ASSUME NEW t \in takeovers, sess[t].id = sess[s].id, ~Undecided(t)  PROVE FALSE
  <2>1. t \in Streams /\ t \in takeovers' /\ ~Undecided(t)'
    BY <1>2, <1>5, UndecidedBefore
  <2>2. ~(Finds(t) \/ Creates(t))
    BY <1>5, <2>1, Zenon DEF Finds, Creates, Undecided, Starting, AllPlaced, Placed
  <2>3. sess'[t].id = sess[t].id
    BY <2>1, <2>2, SessionsChange, ZenonT(60)
  <2> QED  BY <1>1, <1>5, <2>1, <2>3, ZenonT(60), SMTT(60) DEF Clear
<1> QED  BY <1>1, <1>2, <1>3, <1>4, <1>5, ZenonT(60) DEF Clear

\* What a handshake r can be doing while s is registered or delivers: nothing,
\* or r approaches s.
LEMMA ClearAlone ==
  ASSUME Met, NEW s \in Streams, Single(s), Clear(s), h[s].why = "none",
         h[s].pc \in {"startLoop", "startChan"} \/ Delivering(s),
         NEW r \in Streams \ {s}, Handshaking(r)
  PROVE  Delivering(s) /\ Approaches(r, s)
<1>1. CASE Delivering(s)
  BY <1>1 DEF Single
<1>2. CASE h[s].pc \in {"startLoop", "startChan"}
  BY <1>2 DEF Met, Clear, Handshaking
<1> QED  BY <1>1, <1>2

\* Who shares the session of s and is up is on its way still.
LEMMA SharersShake ==
  ASSUME TypeInv, Shared, NEW s \in Streams, Clear(s), h[s].pc # "ended", sess[s].id # None,
         NEW r \in Streams \ {s}, h[r].pc # "ended", sess[r].id = sess[s].id
  PROVE  Undecided(r) /\ r \in takeovers
  BY DEF Shared, Clear

\* A step of another handshake: it goes on towards s, or falls back.
LEMMA ApproachGoesOn ==
  ASSUME KickOld, TypeInv, AllPlaced, Known, Met, Shared, NEW s \in Streams, Single(s), Clear(s),
         Clear(s)', h'[s] = h[s], sess'[s] = sess[s], Delivering(s), Delivering(s)',
         NEW r \in Streams \ {s},
         \/ Opens(r) \/ Reads(r) \/ Finds(r) \/ Creates(r) \/ Registers(r) \/ Rotates(r)
         \/ Starts(r) \/ Deletes(r) \/ Leaves(r) \/ Stops(r) \/ Erases(r),
         Handshaking(r)'
  PROVE  Approaches(r, s)'
<1>0. /\ Knows(r) /\ Placed(r) /\ sess[s] \in Doc /\ sess[s].id \in Streams /\ None \notin Streams
      /\ r # None
  BY SessionAssumption, Zenon
  DEF Known, AllPlaced, Delivering, TypeInv, SessionTypeOK, Doc, SessionAssumption
<1>1. CASE Opens(r)
  BY <1>1, Zenon DEF Opens, Resets, Approaches
<1>2. CASE Finds(r)
  BY <1>2, Zenon DEF Finds, Approaches
<1>3. ASSUME ~Opens(r)  PROVE Handshaking(r) /\ Approaches(r, s)
  <2>1. Handshaking(r)
    <3>1. Effect
      BY Zenon DEF Effect, Actors
    <3> QED  BY <1>3, <3>1, HandshakesGoOn, Zenon
  <2> QED  BY <2>1, Zenon DEF Single
<1>4. CASE Reads(r)
  <2>1. Approaches(r, s) /\ Handshaking(r) /\ registry = s
    BY <1>3, <1>4, Zenon DEF Single, Reads, Opens, Resets, GoesOn
  <2>2. CASE h'[r].pc \in {"lookup", "hello", "live", "kickLive"}
    BY <2>2, Zenon DEF Approaches
  <2>3. CASE h[r].pc = "kickLive" /\ h'[r].pc = "stop"
    BY <1>4, <2>1, <2>3, Zenon DEF Reads, Resets, GoesOn, Approaches
  <2>4. CASE h[r].keep = sess[s].id /\ h'[r].keep = sess[s].id
    <3>1. r \in takeovers /\ sess[r].id = sess[s].id
      BY <1>0, <1>4, <2>1, <2>4, SharersShake, Zenon DEF Knows, Handshaking, Delivering
    <3>2. r \in takeovers' /\ sess'[r].id = sess'[s].id
      BY <1>4, <3>1, Zenon DEF Reads, Untouched
    <3> QED  BY <2>4, <3>2, Zenon DEF Clear, Approaches
  <2>5. CASE h[r].pc = "kickLive" /\ h'[r].pc = "kickDoc"
    <3>1. h[r].keep = sess[s].id /\ h'[r].keep = h[r].keep
      BY <1>0, <1>4, <2>1, <2>5, Zenon DEF Reads, Resets, GoesOn
    <3> QED  BY <2>4, <3>1, Zenon
  <2>6. CASE h[r].pc \notin {"lookup", "hello", "live", "kickLive"}
    <3>1. h[r].pc # "stop"
      BY <1>4, Zenon DEF Reads, Handshaking, Resets
    <3>2. h[r].keep = sess[s].id
      BY <2>1, <2>6, <3>1, Zenon DEF Approaches
    <3>3. h'[r].keep = h[r].keep \/ h'[r].pc = "hello"
      BY <1>4, Zenon DEF Reads, Handshaking, Resets, GoesOn
    <3> QED  BY <2>2, <2>4, <3>2, <3>3, Zenon
  <2>7. CASE h[r].pc \in {"lookup", "hello", "live"}
    <3>1. h'[r].pc \in {"hello", "live", "kickLive"}
      BY <1>4, <2>7, Zenon DEF Reads, Handshaking, Resets, GoesOn
    <3> QED  BY <2>2, <3>1, Zenon
  <2>8. h[r].pc = "kickLive" => h'[r].pc \in {"stop", "kickDoc"}
    BY <1>4, Zenon DEF Reads, Handshaking, Resets, GoesOn
  <2> QED  BY <2>3, <2>5, <2>6, <2>7, <2>8, Zenon
<1>5. CASE Creates(r) \/ Registers(r) \/ Starts(r)
  <2>1. Approaches(r, s)
    BY <1>3, <1>5, Zenon DEF Creates, Registers, Starts, Opens
  <2> QED
    BY <1>0, <1>5, <2>1, Zenon DEF Creates, Registers, Starts, Approaches, Undecided, Knows
<1>6. CASE Rotates(r) \/ Deletes(r)
  <2>1. Approaches(r, s)
    BY <1>3, <1>6, Zenon DEF Rotates, Deletes, Opens
  <2>2. h[r].keep = sess[s].id /\ Undecided(r)
    BY <1>6, <2>1, Zenon DEF Rotates, Deletes, Approaches
  <2>3. h'[r].keep = h[r].keep /\ Undecided(r)'
    BY <1>0, <1>6, <2>2, Zenon DEF Rotates, Deletes, GoesOn, Undecided, Starting
  <2> QED  BY <2>2, <2>3, Zenon DEF Approaches
<1>7. CASE Leaves(r)
  BY <1>7, Zenon DEF Leaves, Handshaking
<1>8. CASE Stops(r)
  <2>1. Approaches(r, s) /\ loops[sess[s].id] = s /\ stopper[s] = None
    BY <1>3, <1>8, Zenon DEF Single, Stops, Opens, Delivering
  <2>2. h[r].target # sess[s].id
    BY <1>0, <1>8, <2>1, Zenon DEF Stops, Delivering
  <2>3. h[r].keep = sess[s].id /\ Undecided(r)
    BY <1>8, <2>1, <2>2, Zenon DEF Stops, Approaches
  <2>4. h'[r].keep = h[r].keep /\ Undecided(r)'
    BY <1>8, <2>3, Zenon DEF Stops, GoesOn, Undecided, Starting
  <2> QED  BY <2>3, <2>4, Zenon DEF Approaches
<1>9. CASE Erases(r)
  <2>1. Approaches(r, s) /\ Handshaking(r)
    BY <1>3, <1>9, Zenon DEF Erases, Opens
  <2>2. h[r].keep = sess[s].id /\ Undecided(r)
    BY <1>9, <2>1, Zenon DEF Erases, Approaches
  <2>3. h'[r].keep = h[r].keep /\ Undecided(r)'
    BY <1>9, <2>1, <2>2, Zenon DEF Erases, GoesOn, Undecided, Starting, Handshaking
  <2> QED  BY <2>2, <2>3, Zenon DEF Approaches
<1> QED  BY <1>1, <1>2, <1>4, <1>5, <1>6, <1>7, <1>8, <1>9, Zenon

\* The entry of s stays in the registry.
LEMMA EntryStays ==
  ASSUME KickOld, TypeInv, AllPlaced, Known, Met, Shared, NEW s \in Streams, Single(s), Clear(s),
         Clear(s)', h'[s] = h[s], h[s].pc \in {"startLoop", "startChan"} \/ Delivering(s),
         NEW a \in Actors \ {s},
         (a \in Streams /\ Registers(a)) \/ Erases(a)
  PROVE  FALSE
<1>0. /\ registry = s /\ Knows(s) /\ s # None /\ sess[s].id \in Streams /\ None \notin Streams
      /\ h[s].why = "none"
  BY SessionAssumption, Zenon
  DEF Single, Known, Knows, Delivering, TypeInv, SessionTypeOK, Doc, SessionAssumption
<1>1. CASE a \in Streams /\ Registers(a)
  <2>1. Handshaking(a)
    BY <1>1, WritersShake, Zenon
  <2>2. Approaches(a, s)
    BY <1>0, <1>1, <2>1, ClearAlone, ZenonT(60)
  <2> QED  BY <1>1, <2>2, Zenon DEF Registers, Approaches, Undecided
<1>2. CASE Erases(a)
  <2>1. a \in Streams /\ sess[s].id = h[a].target /\ h[a].pc = "erase"
    BY <1>0, <1>2, Zenon DEF Erases, Clear
  <2>2. Knows(a) /\ Placed(a) /\ h[a].why \in {"live", "doc", "cleanup"}
    <3>1. Knows(a) /\ Placed(a) /\ h[a].why # "admin" /\ a \in Actors
      BY <2>1, Zenon DEF Known, AllPlaced, Placed, Actors
    <3>2. h[a].why \in Reasons
      BY <3>1 DEF TypeInv, SessionTypeOK, Handler
    <3>3. h[a].why # "none"
      BY <2>1, <3>1 DEF TypeInv, Tidy
    <3> QED  BY <3>1, <3>2, <3>3 DEF Reasons
  <2>3. CASE Handshaking(a)
    <3>1. Approaches(a, s)
      BY <1>0, <2>1, <2>3, ClearAlone, ZenonT(60)
    <3>2. h[a].keep = h[a].target
      <4>1. h[a].keep = sess[s].id
        BY <2>1, <3>1, Zenon DEF Approaches
      <4> QED  BY <2>1, <4>1, Zenon
    <3> QED  BY <2>2, <2>3, <3>2, Zenon DEF Knows, Handshaking
  <2>4. CASE ~Handshaking(a)
    <3>1. h[a].why = "cleanup" /\ sess[a].id = sess[s].id
      BY <2>1, <2>2, <2>4, Zenon DEF Handshaking, Placed
    <3>2. Undecided(a)
      BY <1>0, <2>1, <3>1, SharersShake, Zenon DEF Delivering
    <3> QED  BY <3>1, <3>2 DEF Undecided, Starting
  <2> QED  BY <2>3, <2>4
<1> QED  BY <1>1, <1>2, Zenon

\* Every step of the Spine preserves Single(s).
LEMMA SingleStep ==
  ASSUME KickOld, TypeInv, AllPlaced, Known, Met, Shared, Effect, NEW s \in Streams, Single(s)
  PROVE  Single(s)'
<1>0. /\ loops \in [Streams -> Streams \cup {None}] /\ None \notin Streams
      /\ \A a \in Actors : h[a].pc = "stop" => h[a].target \in Streams
      /\ h[s].pc \in {"startLoop", "startChan", "serve"} => sess[s].id \in Streams
  BY SessionAssumption
  DEF TypeInv, Tidy, SessionTypeOK, Doc, SessionAssumption
<1>1. CASE h'[s].pc \notin {"startLoop", "startChan", "serve"}
  BY <1>1, Zenon DEF Single, Delivering
<1>2. CASE h'[s].pc \in {"startLoop", "startChan", "serve"}
           /\ h[s].pc \notin {"startLoop", "startChan", "serve"}
  <2>1. Registers(s) /\ h'[s].pc = "startLoop"
    <3>1. CASE Silent \/ Crashes
      BY <1>2, <3>1 DEF Silent, Crashes, Resets
    <3>2. ASSUME NEW r \in Streams,
                 \/ Opens(r) \/ Reads(r) \/ Finds(r) \/ Creates(r) \/ Registers(r) \/ Rotates(r)
                 \/ Starts(r) \/ Deletes(r) \/ Leaves(r)
          PROVE  Registers(s) /\ h'[s].pc = "startLoop"
      BY <1>2, <3>2, Zenon
      DEF Opens, Reads, Finds, Creates, Registers, Rotates, Starts, Deletes, Leaves, Others, Resets,
          GoesOn
    <3>3. ASSUME NEW a \in Actors, Stops(a) \/ Erases(a)  PROVE FALSE
      BY <1>2, <3>3, ZenonT(60) DEF Stops, Erases, Others, Resets, GoesOn
    <3> QED  BY <3>1, <3>2, <3>3, ZenonT(60) DEF Effect
  <2> QED  BY <2>1, Zenon DEF Registers, Single, Delivering
<1>3. ASSUME Clear(s)', h'[s].pc \in {"startLoop", "startChan", "serve"},
             h[s].pc \in {"startLoop", "startChan", "serve"}
      PROVE  Single(s)'
  <2>0. Clear(s) /\ sess'[s] = sess[s]
    BY <1>3, ClearBefore, SMTT(60), ZenonT(60)
  <2>1. CASE Starts(s)
    <3>1. h[s].pc = "startLoop" \/ h[s].pc = "startChan"
      BY <2>1, SMTT(60), ZenonT(60) DEF Starts
    <3>2. \A r \in Streams \ {s} : ~Handshaking(r)'
      <4>1. Handshaking(s)
        BY <2>1, WritersShake, SMTT(60), ZenonT(60)
      <4>2. \A r \in Streams \ {s} : ~Handshaking(r)
        BY <2>0, <4>1 DEF Met, Clear
      <4> QED  BY <2>1, <4>2, SMTT(60), ZenonT(60) DEF Starts, Others, Handshaking
    <3>3. registry' = s
      BY <2>0, <2>1, <3>1, Zenon DEF Starts, Single
    <3>4. stopper'[s] = None => loops'[sess'[s].id] = s
      BY <1>0, <1>3, <2>0, <2>1, Zenon DEF Starts, Single
    <3> QED  BY <3>2, <3>3, <3>4, SMTT(60), ZenonT(60) DEF Single
  <2>2. CASE Silent
    <3>1. Untouched /\ \A r \in Streams : h'[r] = h[r]
      BY <2>2 DEF Silent
    <3>2. \A r \in Streams : /\ Handshaking(r)' = Handshaking(r)
                             /\ Approaches(r, s)' = Approaches(r, s)
      BY <3>1, Zenon DEF Handshaking, Approaches, Undecided, Starting, Untouched
    <3> QED  BY <2>0, <3>1, <3>2, Zenon DEF Single, Delivering, Untouched
  <2>3. ASSUME NEW a \in Actors \ {s},
               \/ a \in Streams /\ (\/ Opens(a) \/ Reads(a) \/ Finds(a) \/ Creates(a)
                                    \/ Registers(a) \/ Rotates(a) \/ Starts(a) \/ Deletes(a)
                                    \/ Leaves(a))
               \/ Stops(a) \/ Erases(a)
        PROVE  Single(s)'
    <3>1. Others(a) /\ h'[s] = h[s]
      BY <2>3, Zenon
      DEF Opens, Reads, Finds, Creates, Registers, Rotates, Starts, Deletes, Leaves, Stops, Erases,
          Others
    <3>2. stopper'[s] = None => stopper[s] = None
      BY <2>3, Zenon
      DEF Opens, Reads, Untouched, Finds, Creates, Registers, Rotates, Starts, Deletes, Leaves,
          Stops, Erases
    <3>3. h'[s].pc \in {"startLoop", "startChan"} \/ Delivering(s)' => registry' = s
      <4>1. SUFFICES ASSUME h[s].pc \in {"startLoop", "startChan"} \/ Delivering(s)
                     PROVE  registry' = s
        BY <3>1, <3>2, SMTT(60), ZenonT(60) DEF Delivering
      <4>2. registry = s
        BY <2>0, <4>1 DEF Single
      <4>3. ~((a \in Streams /\ Registers(a)) \/ Erases(a))
        BY <1>3, <2>0, <3>1, <4>1, EntryStays, Zenon
      <4> QED
        BY <2>3, <4>2, <4>3, ZenonT(60)
        DEF Opens, Reads, Untouched, Finds, Creates, Rotates, Starts, Deletes, Leaves, Stops
    <3>4. h'[s].pc \in {"startChan", "serve"} /\ stopper'[s] = None => loops'[sess'[s].id] = s
      <4>1. SUFFICES ASSUME h[s].pc \in {"startChan", "serve"}, stopper'[s] = None
                     PROVE  loops'[sess[s].id] = s
        BY <2>0, <3>1, SMTT(60), ZenonT(60)
      <4>2. loops[sess[s].id] = s /\ stopper[s] = None
        BY <2>0, <3>2, <4>1 DEF Single
      <4>3. CASE Stops(a)
        BY <1>0, <1>3, <4>1, <4>2, <4>3, SessionAssumption, Zenon
        DEF Stops, SessionAssumption, Actors
      <4>4. CASE a \in Streams /\ Starts(a)
        <5>1. Handshaking(a)
          BY <4>4, WritersShake, ZenonT(60)
        <5>2. Approaches(a, s)
          <6>1. h[s].why = "none"
            BY <1>3 DEF Known, Knows
          <6> QED  BY <2>0, <4>1, <4>2, <4>4, <5>1, <6>1, ClearAlone, SMTT(60), ZenonT(60)
                   DEF Delivering
        <5> QED  BY <4>4, <5>2, Zenon DEF Starts, Approaches, Undecided
      <4>5. CASE ~Stops(a) /\ ~(a \in Streams /\ Starts(a))
        BY <2>3, <4>2, <4>5, Zenon
        DEF Opens, Reads, Untouched, Finds, Creates, Registers, Rotates, Deletes, Leaves, Erases
      <4> QED  BY <4>3, <4>4, <4>5, ZenonT(60)
    <3>5. ASSUME Delivering(s)', NEW r \in Streams \ {s}, Handshaking(r)'
          PROVE  Approaches(r, s)'
      <4>1. Delivering(s)
        BY <3>1, <3>2, <3>5 DEF Delivering
      <4>2. CASE r = a
        BY <1>3, <2>0, <2>3, <3>1, <3>5, <4>1, <4>2, ApproachGoesOn, Zenon
      <4>3. CASE r # a
        <5>1. h'[r] = h[r]
          BY <3>1, <4>3, ZenonT(60), SMTT(60) DEF Others
        <5>2. Approaches(r, s)
          BY <2>0, <3>5, <4>1, <5>1 DEF Single, Handshaking
        <5> QED  BY <2>0, <5>1, <5>2, ZenonT(60) DEF Approaches, Undecided, Starting
      <4> QED  BY <4>2, <4>3
    <3> QED  BY <3>3, <3>4, <3>5, Zenon DEF Single
  <2>4. ~Crashes
    BY <1>3 DEF Crashes, Resets
  <2>5. ~(\/ Opens(s) \/ Reads(s) \/ Finds(s) \/ Creates(s) \/ Registers(s) \/ Rotates(s)
          \/ Deletes(s) \/ Leaves(s) \/ Stops(s) \/ Erases(s))
    BY <1>3, Zenon
    DEF Opens, Reads, Finds, Creates, Registers, Rotates, Deletes, Leaves, Stops, Erases, Resets,
        GoesOn
  <2> QED  BY <2>1, <2>2, <2>3, <2>4, <2>5 DEF Effect, Actors
<1> QED  BY <1>1, <1>2, <1>3, ZenonT(60) DEF Single

-----------------------------------------------------------------------------
(* The theorems *)

\* What the steps preserve together.
StreamsInv ==
  /\ TypeInv /\ AllPlaced /\ Known /\ Met /\ Shared /\ NewestInv
  /\ KickOld => \A s \in Streams : Single(s)

\* StreamsInv holds when the Spine starts.
LEMMA StreamsInitially == SessionInit => StreamsInv
<1>1. SessionInit => \A s \in Streams : Single(s)
  <2>1. SessionInit => \A s \in Streams : h[s].pc = "idle"
    BY DEF SessionInit, Idle, Actors
  <2> QED  BY <2>1, ZenonT(60) DEF Single, Delivering
<1> QED
  BY <1>1, SessionTypeInit, PlacedInit, KnownInit, NewestInit DEF StreamsInv

\* Every step preserves StreamsInv.
LEMMA StreamsStep == StreamsInv /\ [Next]_vars => StreamsInv'
<1>1. SUFFICES ASSUME StreamsInv, [Next]_vars  PROVE StreamsInv'
  OBVIOUS
<1>2. TypeInv /\ AllPlaced /\ Known /\ Met /\ Shared /\ NewestInv
  BY <1>1 DEF StreamsInv
<1>3. TypeInv' /\ AllPlaced' /\ Effect
  BY <1>1, <1>2, TypeStep, PlacedStep, Effects
<1>4. Known' /\ Met' /\ Shared' /\ NewestInv'
  BY <1>2, <1>3, KnownStep, MetStep, SharedStep, NewestStep
<1>5. ASSUME KickOld, NEW s \in Streams  PROVE Single(s)'
  BY <1>1, <1>2, <1>3, <1>5, SingleStep DEF StreamsInv
<1> QED  BY <1>3, <1>4, <1>5 DEF StreamsInv

\* StreamsInv is an invariant of the session registry.
LEMMA StreamsAlways == Spec => []StreamsInv
  BY StreamsInitially, StreamsStep, PTL DEF Spec

\* With max_sessions_per_server_id = 1, kickConflictingSessions leaves one
\* delivery loop, for any number of streams, handshakes and teardowns at once,
\* except in the cases OneLoop names.
THEOREM KickLeavesOneLoop == Spec => []OneLoop
<1>1. StreamsInv => OneLoop
  <2>1. SUFFICES ASSUME StreamsInv, KickOld, NEW s \in Streams, NEW r \in Streams, s # r,
                        Delivering(s), Delivering(r),
                        \A x \in {s, r} : /\ x \notin overlapped \cup unlisted
                                          /\ \A t \in takeovers : sess[t].id # sess[x].id
                 PROVE  FALSE
    BY DEF OneLoop
  <2>2. Clear(s) /\ Clear(r)
    BY <2>1, SMTT(60), ZenonT(60) DEF Clear
  <2>3. registry = s /\ registry = r
    BY <2>1, <2>2, SMTT(60), ZenonT(60) DEF StreamsInv, Single
  <2> QED  BY <2>1, <2>3
<1> QED  BY <1>1, StreamsAlways, PTL, SMTT(60), ZenonT(60)

\* The loop of the stream opened last is stopped by nobody but the operator,
\* unless handshakes overlapped or it resumed a session whose earlier stream had
\* not ended (the cleanup of Connect then stops it by the session id).
THEOREM NewestStopIsExplained == Spec => []NewestStopExplained
<1>1. StreamsInv => NewestStopExplained
  BY SMTT(60), ZenonT(60) DEF StreamsInv, NewestInv, Favoured, NewestStopExplained
<1> QED  BY <1>1, StreamsAlways, PTL

\* The stream opened last is the one kicks and admin commands find in the
\* registry while it serves, with the exceptions NewestRegistered names
\* (RegisterSession, UnregisterSession).
THEOREM NewestIsRegistered == Spec => []NewestRegistered
<1>1. StreamsInv => NewestRegistered
  BY SessionAssumption, SMTT(60), ZenonT(60)
  DEF StreamsInv, NewestInv, Favoured, NewestRegistered, ListActiveSessions, SessionAssumption
<1> QED  BY <1>1, StreamsAlways, PTL

\* The token the newest stream was sent stays the one of its session document
\* (UpdateResumeToken), whatever streams of the server do that are on their way
\* out.
THEOREM NewestResumes == Spec => []NewestCanResume
<1>1. StreamsInv => NewestCanResume
  BY DEF StreamsInv, NewestInv, Favoured, NewestCanResume
<1> QED  BY <1>1, StreamsAlways, PTL
=============================================================================
