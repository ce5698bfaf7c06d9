---------------------------- MODULE ConsoleProofs ----------------------------
(***************************************************************************)
(* Proofs for module Console, for any number of concurrent publishers,     *)
(* subscribers, targets, mailboxes and commands: targets resolve to the    *)
(* mailboxes they address, and what the operator is shown of cursors,      *)
(* backlogs and pages is true. The counts of rows and envelopes rest on    *)
(* one fact, that a set of numbers has a least element; it stands in for   *)
(* induction.                                                              *)
(***************************************************************************)
EXTENDS Console, MailboxProofs, WellFoundedInduction

Wire(T) == [type : T, id : STRING, org : STRING]
Address == [type : TargetType, id : STRING, org : STRING]

Resolution ==
  [pc : {"idle", "find", "insert", "again", "done"}, req : Seq(Address), left : Seq(Address),
   new : Mailboxes \cup {None}, got : SUBSET Mailboxes, had : SUBSET Mailboxes]

\* The targets of a sequence.
Targets(q) == {q[i] : i \in DOMAIN q}

\* The mailboxes of a collection d, and those with target t.
Made(d) == {m \in Mailboxes : d[m] # None}
With(t, d) == {m \in Mailboxes : d[m] = t}

\* What the call in state R owes to target t of its request.
Done(R, t, d) ==
  IF t.type = "BROADCAST" THEN {m \in R.had : d[m].org = t.org} \subseteq R.got
                          ELSE With(t, d) \cap R.got # {}

\* t addresses the mailbox m.
Addresses(t, m, d) == IF t.type = "BROADCAST" THEN d[m].org = t.org ELSE d[m] = t

\* The mailboxes are typed, and no two have the same target.
DocInv(d) ==
  /\ d \in [Mailboxes -> Address \cup {None}]
  /\ \A m, n \in Made(d) : d[m] = d[n] => m = n

\* A call in state R: what it has found exists, and each target of its request
\* is served or still to come ...
Owing(R, d) ==
  /\ R \in Resolution
  /\ R.got \subseteq Made(d) /\ R.had \subseteq Made(d)
  /\ R.pc \in {"insert", "again"} => R.left # <<>> /\ Head(R.left).type \in Single
  /\ R.pc = "done" => R.left = <<>>
  /\ Targets(R.left) \subseteq Targets(R.req)
  /\ \A t \in Targets(R.req) : t \in Targets(R.left) \/ Done(R, t, d)
  /\ \A m \in R.got : \E t \in Targets(R.req) : Addresses(t, m, d)

\* ... and what it is about to insert does not exist.
Sound(R, d) ==
  Owing(R, d) /\ R.new \notin Made(d) /\ (R.pc = "insert" => R.new # None)

NewDistinct ==
  \A r, s \in Resolvers : r # s /\ res[r].new = res[s].new => res[r].new = None

RouteInv ==
  /\ DocInv(doc)
  /\ DOMAIN res = Resolvers
  /\ \A r \in Resolvers : Sound(res[r], doc)
  /\ NewDistinct

\* None is no target, and no mailbox.
LEMMA NoneApart == None \notin Address /\ None \notin Mailboxes
  BY RoutingAssumption, MailboxAssumption DEF RoutingAssumption, MailboxAssumption, Address

\* The conversion of the handlers gives a sequence of addresses.
LEMMA ConvertedTyped ==
  ASSUME NEW T, NEW q \in Seq(Wire(T))
  PROVE  Converted(q) \in Seq(Address)
<1>1. \A s : protoTargetTypeToTypes(s) \in TargetType
  BY DEF protoTargetTypeToTypes, TargetType, Single
<1>2. ASSUME NEW i \in 1..Len(q)
      PROVE  [q[i] EXCEPT !.type = protoTargetTypeToTypes(q[i].type)] \in Address
  <2>1. q[i] \in Wire(T)
    BY <1>2
  <2>2. protoTargetTypeToTypes(q[i].type) \in TargetType
    BY <1>1, <2>1 DEF Wire
  <2> QED  BY <2>1, <2>2 DEF Wire, Address
<1>3. DOMAIN q = 1..Len(q) /\ Len(q) \in Nat
  OBVIOUS
<1>4. Converted(q) \in [1..Len(q) -> Address]
  BY <1>2, <1>3 DEF Converted
<1> QED  BY <1>3, <1>4

\* The targets of a request are its head and the targets of its tail.
LEMMA SeqParts ==
  ASSUME NEW S, NEW q \in Seq(S)
  PROVE  /\ Targets(<<>>) = {}
         /\ q # <<>> => /\ Head(q) \in S /\ Tail(q) \in Seq(S)
                        /\ Targets(q) = {Head(q)} \cup Targets(Tail(q))
<1>1. Targets(<<>>) = {}
  BY DEF Targets
<1>2. ASSUME q # <<>>
      PROVE  /\ Head(q) \in S /\ Tail(q) \in Seq(S)
             /\ Targets(q) = {Head(q)} \cup Targets(Tail(q))
  <2>1. /\ Head(q) \in S /\ Tail(q) \in Seq(S) /\ Len(q) \in Nat \ {0} /\ Head(q) = q[1]
        /\ DOMAIN q = 1..Len(q) /\ DOMAIN Tail(q) = 1..Len(q)-1
    BY <1>2
  <2>2. \A i \in 1..Len(q)-1 : Tail(q)[i] = q[i + 1] /\ i + 1 \in 1..Len(q)
    BY <1>2
  <2>3. \A i \in 1..Len(q) : i = 1 \/ (i - 1 \in 1..Len(q)-1 /\ Tail(q)[i - 1] = q[i])
    BY <1>2
  <2>4. 1 \in 1..Len(q)
    BY <2>1
  <2>5. ASSUME NEW x \in Targets(q)  PROVE x = Head(q) \/ x \in Targets(Tail(q))
    <3>1. PICK i \in 1..Len(q) : x = q[i]
      BY <2>1, <2>5 DEF Targets
    <3> QED  BY <2>1, <2>3, <3>1, Zenon DEF Targets
  <2>6. ASSUME NEW x \in Targets(Tail(q))  PROVE x \in Targets(q)
    <3>1. PICK i \in 1..Len(q)-1 : x = Tail(q)[i]
      BY <2>1, <2>6 DEF Targets
    <3> QED  BY <2>1, <2>2, <3>1, Zenon DEF Targets
  <2>7. Head(q) \in Targets(q)
    BY <2>1, <2>4, Zenon DEF Targets
  <2> QED  BY <2>1, <2>5, <2>6, <2>7
<1> QED  BY <1>1, <1>2

\* The record of a caller with no request under way.
LEMMA IdleTyped ==
  /\ Idle \in Resolution /\ Idle.pc = "idle" /\ Idle.req = <<>> /\ Idle.left = <<>>
  /\ Idle.got = {} /\ Idle.had = {} /\ Idle.new = None
  BY DEF Idle, Resolution

\* None is never a mailbox that exists.
LEMMA NoneNotMade == \A d : None \notin Made(d)
  BY NoneApart DEF Made

\* A call that has not begun is sound.
LEMMA IdleSound == \A d : Sound(Idle, d)
<1>1. Targets(<<>>) = {}
  BY DEF Targets
<1>2. Targets(Idle.left) = {} /\ Targets(Idle.req) = {}
  BY <1>1, IdleTyped
<1> QED  BY <1>2, IdleTyped, NoneNotMade DEF Sound, Owing

\* RouteInv holds in a Spine that has just started.
LEMMA RouteInit == ConsoleInit => RouteInv
<1> SUFFICES ASSUME ConsoleInit  PROVE RouteInv
  OBVIOUS
<1>1. doc = [m \in Mailboxes |-> None] /\ res = [r \in Resolvers |-> Idle]
  BY DEF ConsoleInit, RoutingInit
<1>2. DocInv(doc)
  BY <1>1 DEF DocInv, Made
<1>3. \A r \in Resolvers : res[r] = Idle
  BY <1>1
<1>4. NewDistinct
  BY <1>3, IdleTyped DEF NewDistinct
<1> QED  BY <1>1, <1>2, <1>3, <1>4, IdleSound DEF RouteInv

\* One resolver goes on to R; the mailboxes stay as they are.
LEMMA OneGoesOn ==
  ASSUME RouteInv, NEW r \in Resolvers, NEW R, Sound(R, doc), UNCHANGED doc,
         res' = [res EXCEPT ![r] = R],
         R.new \in {None, res[r].new} \/ \A s \in Resolvers : res[s].new # R.new
  PROVE  RouteInv'
<1>1. DOMAIN res = Resolvers /\ DOMAIN res' = Resolvers
  BY DEF RouteInv
<1>2. res'[r] = R /\ \A s \in Resolvers : s # r => res'[s] = res[s]
  BY <1>1
<1>4. \A s \in Resolvers : Sound(res'[s], doc')
  BY <1>2 DEF RouteInv
<1>5. NewDistinct'
  BY <1>2 DEF NewDistinct, RouteInv
<1> QED  BY <1>1, <1>4, <1>5 DEF RouteInv

\* A call ends, or has not begun.
LEMMA CallEnds ==
  ASSUME RouteInv, NEW r \in Resolvers, UNCHANGED doc, res' = [res EXCEPT ![r] = Idle]
  PROVE  RouteInv'
<1>1. Sound(Idle, doc) /\ Idle.new = None
  BY IdleSound, IdleTyped
<1> HIDE DEF Idle
<1> QED  BY <1>1, OneGoesOn, Zenon

\* A call begins with a converted request.
LEMMA CallBegins ==
  ASSUME RouteInv, NEW r \in Resolvers, NEW T, NEW q \in Seq(Wire(T)), Request(r, q)
  PROVE  RouteInv'
<1> DEFINE C == Converted(q)
           R == [Idle EXCEPT !.pc = "find", !.req = C, !.left = C, !.had = Existing]
<1>1. C \in Seq(Address)
  BY ConvertedTyped
<1>2. res' = [res EXCEPT ![r] = R] /\ UNCHANGED doc
  BY DEF Request
<1>3. Existing = Made(doc) /\ Existing \subseteq Mailboxes
  BY DEF Existing, Made
<1> HIDE DEF C
<1>4. /\ R \in Resolution /\ R.pc = "find" /\ R.req = C /\ R.left = C /\ R.had = Existing
      /\ R.got = {} /\ R.new = None
  BY <1>1, <1>3, IdleTyped, Zenon DEF Idle, Resolution
<1> HIDE DEF R
<1>5. Sound(R, doc)
  BY <1>3, <1>4, NoneNotMade DEF Sound, Owing
<1> QED  BY <1>2, <1>4, <1>5, OneGoesOn

\* The head of what is left is resolved to the mailboxes S, those in L missed.
Served(R, S, L) ==
  [R EXCEPT !.pc = "find", !.left = Tail(R.left), !.new = None, !.got = R.got \cup S,
            !.had = R.had \ L]

\* A target resolved to S leaves a request whose answer is sound so far
\* (the body of the loop in ResolveTargets).
LEMMA ServedSound ==
  ASSUME NEW d, NEW R, Owing(R, d), R.left # <<>>, NEW S \in SUBSET Made(d),
         NEW L, \A m \in S : Addresses(Head(R.left), m, d),
         IF Head(R.left).type = "BROADCAST"
           THEN {m \in R.had \ L : d[m].org = Head(R.left).org} \subseteq S
           ELSE With(Head(R.left), d) \cap S # {}
  PROVE  Sound(Served(R, S, L), d) /\ Served(R, S, L).new = None
<1> DEFINE Q == Served(R, S, L)
           t == Head(R.left)
<1>0. R \in Resolution /\ R.left \in Seq(Address) /\ Made(d) \subseteq Mailboxes
  BY DEF Owing, Resolution, Made
<1>1. Tail(R.left) \in Seq(Address) /\ Targets(R.left) = {t} \cup Targets(Tail(R.left))
  BY <1>0, SeqParts
<1>2. /\ Q \in Resolution /\ Q.pc = "find" /\ Q.left = Tail(R.left) /\ Q.new = None
      /\ Q.got = R.got \cup S /\ Q.had = R.had \ L /\ Q.req = R.req
  BY <1>0, <1>1 DEF Served, Resolution
<1>3. Done(Q, t, d)
  BY <1>2 DEF Done
<1> HIDE DEF Q, t
<1>4. \A u \in Targets(R.req) : u \in Targets(Q.left) \/ Done(Q, u, d)
  <2>1. ASSUME NEW u, Done(R, u, d)  PROVE Done(Q, u, d)
    BY <1>2, <2>1 DEF Done
  <2> QED  BY <1>1, <1>2, <1>3, <2>1 DEF Owing
<1>5. \A m \in Q.got : \E u \in Targets(Q.req) : Addresses(u, m, d)
  <2>1. t \in Targets(R.req)
    BY <1>1 DEF Owing
  <2> QED  BY <1>2, <2>1 DEF Owing, t
<1>6. Owing(Q, d)
  BY <1>1, <1>2, <1>4, <1>5 DEF Owing
<1> QED  BY <1>2, <1>6, NoneNotMade DEF Sound, Q

\* A mailbox m is added for target t, which has none.
LEMMA OneMore ==
  ASSUME NEW d, DocInv(d), NEW m \in Mailboxes \ Made(d), NEW t \in Address, With(t, d) = {},
         NEW e, e = [d EXCEPT ![m] = t]
  PROVE  /\ DocInv(e) /\ Made(e) = Made(d) \cup {m} /\ m \in With(t, e)
         /\ \A R : Owing(R, d) => Owing(R, e)
<1>1. e[m] = t /\ t # None /\ d[m] = None /\ \A n \in Mailboxes \ {m} : e[n] = d[n]
  BY NoneApart DEF DocInv, Made
<1>2. Made(e) = Made(d) \cup {m} /\ m \in With(t, e)
  BY <1>1 DEF Made, With
<1>3. DocInv(e)
  <2>1. e \in [Mailboxes -> Address \cup {None}]
    BY DEF DocInv
  <2>2. \A n \in Made(d) : n # m /\ e[n] = d[n] /\ d[n] # t
    BY <1>1 DEF With, Made
  <2>3. \A n, k \in Made(d) : d[n] = d[k] => n = k
    BY DEF DocInv
  <2>4. ASSUME NEW n \in Made(e), NEW k \in Made(e), e[n] = e[k]  PROVE n = k
    <3>1. (n = m \/ n \in Made(d)) /\ (k = m \/ k \in Made(d))
      BY <1>2, <2>4, Zenon
    <3> QED  BY <1>1, <2>2, <2>3, <2>4, <3>1
  <2> QED  BY <2>1, <2>4 DEF DocInv
<1>4. ASSUME NEW R, Owing(R, d)  PROVE Owing(R, e)
  <2>1. \A n \in R.had \cup R.got : e[n] = d[n]
    BY <1>1, <1>4 DEF Owing, Made
  <2>2. ASSUME NEW u \in Targets(R.req), Done(R, u, d)  PROVE Done(R, u, e)
    <3>1. CASE u.type = "BROADCAST"
      BY <2>1, <2>2, <3>1 DEF Done
    <3>2. CASE u.type # "BROADCAST"
      BY <2>1, <2>2, <3>2 DEF Done, With
    <3> QED  BY <3>1, <3>2
  <2>3. \A n \in R.got : \E u \in Targets(R.req) : Addresses(u, n, e)
    BY <1>4, <2>1 DEF Owing, Addresses
  <2>4. R.got \subseteq Made(e) /\ R.had \subseteq Made(e)
    BY <1>2, <1>4, Zenon DEF Owing
  <2> QED  BY <1>4, <2>2, <2>3, <2>4 DEF Owing
<1> QED  BY <1>2, <1>3, <1>4, Zenon

\* The steps of a resolver that leave the mailboxes as they are.
LEMMA ResolverKeeps ==
  ASSUME RouteInv, NEW r \in Resolvers,
         \/ FindOne(r) \/ InsertMailboxFails(r) \/ FindAgain(r) \/ FindFails(r)
         \/ resolveBroadcastTarget(r) \/ Unsupported(r)
  PROVE  RouteInv'
<1> DEFINE R == res[r]
<1>0. /\ Sound(R, doc) /\ Owing(R, doc) /\ R \in Resolution /\ R.left \in Seq(Address)
      /\ DocInv(doc) /\ Made(doc) = Existing /\ Made(doc) \subseteq Mailboxes
  BY ZenonT(60) DEF RouteInv, Sound, Owing, Resolution, Existing, Made
<1>1. UNCHANGED doc
  BY Zenon
  DEF FindOne, InsertMailboxFails, FindAgain, FindFails, resolveBroadcastTarget, Unsupported,
         ResolveFails
<1>2. ASSUME NEW m \in Of(Target(r)), Resolve(r, {m}, {}), R.left # <<>>, Target(r).type \in Single
      PROVE  RouteInv'
  <2>1. Target(r) = Head(R.left) /\ Target(r) \in Address /\ Target(r).type # "BROADCAST"
    BY <1>0, <1>2, SeqParts DEF Target, Single
  <2>2. m \in Mailboxes /\ doc[m] = Target(r) /\ m \in Made(doc) /\ m \in With(Target(r), doc)
    BY <1>2, <2>1, NoneApart DEF Of, Made, With
  <2>3. res' = [res EXCEPT ![r] = Served(R, {m}, {})]
    BY <1>2 DEF Resolve, Served
  <2>4. Sound(Served(R, {m}, {}), doc) /\ Served(R, {m}, {}).new = None
    <3>1. {m} \in SUBSET Made(doc) /\ With(Head(R.left), doc) \cap {m} # {}
      BY <2>1, <2>2
    <3>2. \A n \in {m} : Addresses(Head(R.left), n, doc)
      BY <2>1, <2>2 DEF Addresses
    <3>3. Head(R.left).type # "BROADCAST" /\ R.left # <<>>
      BY <1>2, <2>1
    <3> HIDE DEF R
    <3> QED  BY <1>0, <3>1, <3>2, <3>3, ServedSound
  <2> HIDE DEF R
  <2> QED  BY <1>1, <2>3, <2>4, OneGoesOn, Zenon
<1>3. CASE FindOne(r)
  <2>1. R.left # <<>> /\ Target(r).type \in Single
    BY <1>3, Zenon DEF FindOne
  <2>2. ASSUME NEW m \in Unused, res' = [res EXCEPT ![r] = [R EXCEPT !.pc = "insert", !.new = m]]
        PROVE  RouteInv'
    <3> DEFINE Q == [R EXCEPT !.pc = "insert", !.new = m]
    <3>1. m \in Mailboxes /\ m \notin Made(doc) /\ m # None /\ \A s \in Resolvers : res[s].new # m
      BY <1>0, <2>2, NoneApart DEF Unused
    <3>2. /\ Q \in Resolution /\ Q.pc = "insert" /\ Q.new = m /\ Q.left = R.left /\ Q.req = R.req
          /\ Q.got = R.got /\ Q.had = R.had
      BY <1>0, <3>1, ZenonT(60) DEF Resolution
    <3>3. res' = [res EXCEPT ![r] = Q]
      BY <2>2
    <3> HIDE DEF Q
    <3>4. \A t : Done(R, t, doc) => Done(Q, t, doc)
      BY <3>2, SMTT(60), ZenonT(60) DEF Done
    <3>5. Sound(Q, doc)
      BY <1>0, <2>1, <3>1, <3>2, <3>4 DEF Sound, Owing, Target
    <3> QED  BY <1>1, <3>1, <3>2, <3>3, <3>5, OneGoesOn, Zenon
  <2> QED  BY <1>2, <1>3, <2>1, <2>2, Zenon DEF FindOne
<1>4. CASE InsertMailboxFails(r)
  <2> DEFINE Q == [R EXCEPT !.pc = "again", !.new = None]
  <2>1. res' = [res EXCEPT ![r] = Q] /\ R.pc = "insert"
    BY <1>4 DEF InsertMailboxFails
  <2>2. /\ Q \in Resolution /\ Q.pc = "again" /\ Q.new = None /\ Q.left = R.left /\ Q.req = R.req
        /\ Q.got = R.got /\ Q.had = R.had
    BY <1>0, ZenonT(60) DEF Resolution
  <2> HIDE DEF Q
  <2>3. \A t : Done(R, t, doc) => Done(Q, t, doc)
    BY <2>2 DEF Done
  <2>4. Sound(Q, doc)
    <3>1. Owing(R, doc)
      BY <1>0, Zenon DEF Sound
    <3>2. Owing(Q, doc)
      BY <2>1, <2>2, <2>3, <3>1, ZenonT(60) DEF Owing
    <3> QED  BY <2>2, <3>2, NoneNotMade, Zenon DEF Sound
  <2> QED  BY <1>1, <2>1, <2>2, <2>4, OneGoesOn, Zenon
<1>5. CASE FindAgain(r)
  <2>1. R.left # <<>> /\ Target(r).type \in Single
    BY <1>0, <1>5 DEF FindAgain, Owing, Target
  <2> QED  BY <1>2, <1>5, <2>1, Zenon DEF FindAgain
<1>6. CASE FindFails(r) \/ Unsupported(r)
  <2>1. res' = [res EXCEPT ![r] = Idle]
    BY <1>6 DEF FindFails, Unsupported, ResolveFails
  <2> QED  BY <1>1, <2>1, CallEnds, ZenonT(60)
<1>7. CASE resolveBroadcastTarget(r)
  <2> DEFINE all == {m \in Existing : doc[m].org = Target(r).org}
  <2>6. PICK L : Resolve(r, all \ L, L)
    BY <1>7, Zenon DEF resolveBroadcastTarget
  <2> DEFINE S == all \ L
  <2>1. /\ R.left # <<>> /\ Target(r) = Head(R.left) /\ Target(r).type = "BROADCAST"
        /\ res' = [res EXCEPT ![r] = Served(R, S, L)]
    BY <1>7, <2>6, Zenon DEF resolveBroadcastTarget, Resolve, Served, Target
  <2>2. S \in SUBSET Made(doc)
    BY <1>0
  <2>3. \A m \in S : Addresses(Head(R.left), m, doc)
    BY <2>1, SMTT(60), ZenonT(60) DEF Addresses
  <2>4. {m \in R.had \ L : doc[m].org = Head(R.left).org} \subseteq S
    BY <1>0, <2>1, Zenon DEF Owing
  <2> HIDE DEF S
  <2>5. Sound(Served(R, S, L), doc) /\ Served(R, S, L).new = None
    BY <1>0, <2>1, <2>2, <2>3, <2>4, ServedSound
  <2> HIDE DEF R
  <2> QED  BY <1>1, <2>1, <2>5, OneGoesOn, ZenonT(60)
<1> QED  BY <1>3, <1>4, <1>5, <1>6, <1>7, SMTT(60), ZenonT(60)

\* A mailbox is inserted.
LEMMA InsertKeeps ==
  ASSUME RouteInv, NEW r \in Resolvers, InsertMailbox(r)
  PROVE  RouteInv'
<1> DEFINE R == res[r]
           m == R.new
           t == Head(R.left)
<1>0. /\ Sound(R, doc) /\ Owing(R, doc) /\ R \in Resolution /\ R.left \in Seq(Address)
      /\ DocInv(doc) /\ R.pc = "insert" /\ DOMAIN res = Resolvers
  BY ZenonT(60) DEF RouteInv, Sound, Owing, Resolution, InsertMailbox
<1>1. m \in Mailboxes \ Made(doc) /\ m # None
  BY <1>0 DEF Sound, Resolution
<1>2. R.left # <<>> /\ t \in Address /\ t.type \in Single /\ t.type # "BROADCAST"
  BY <1>0, SeqParts DEF Owing, Single
<1>3. /\ With(t, doc) = {} /\ doc' = [doc EXCEPT ![m] = t]
      /\ res' = [res EXCEPT ![r] = Served(R, {m}, {})]
  BY DEF InsertMailbox, Of, With, Resolve, Served, Target
<1> HIDE DEF m, t
<1>4. /\ DocInv(doc') /\ Made(doc') = Made(doc) \cup {m} /\ m \in With(t, doc')
      /\ \A Q : Owing(Q, doc) => Owing(Q, doc')
  BY <1>0, <1>1, <1>2, <1>3, OneMore, ZenonT(60)
<1>5. Sound(Served(R, {m}, {}), doc') /\ Served(R, {m}, {}).new = None
  <2>1. {m} \in SUBSET Made(doc') /\ With(t, doc') \cap {m} # {}
    BY <1>4
  <2>2. \A n \in {m} : Addresses(t, n, doc')
    BY <1>2, <1>4 DEF Addresses, With
  <2>3. Owing(R, doc')
    BY <1>0, <1>4
  <2>4. /\ With(Head(R.left), doc') \cap {m} # {} /\ Head(R.left).type # "BROADCAST"
        /\ R.left # <<>> /\ \A n \in {m} : Addresses(Head(R.left), n, doc')
    BY <1>2, <2>1, <2>2 DEF t
  <2> HIDE DEF R
  <2> QED  BY <2>1, <2>3, <2>4, ServedSound
<1>6. res'[r] = Served(R, {m}, {}) /\ \A s \in Resolvers : s # r => res'[s] = res[s]
  BY <1>0, <1>3
<1>7. ASSUME NEW s \in Resolvers  PROVE Sound(res'[s], doc')
  <2>1. CASE s = r
    BY <1>5, <1>6, <2>1
  <2>2. CASE s # r
    <3>1. res'[s] = res[s] /\ Sound(res[s], doc) /\ res[s].new # m
      BY <1>1, <1>6, <1>7, <2>2 DEF RouteInv, NewDistinct, m
    <3> QED  BY <1>4, <3>1 DEF Sound
  <2> QED  BY <2>1, <2>2
<1>8. NewDistinct'
  <2>1. NewDistinct
    BY DEF RouteInv
  <2> QED  BY <1>5, <1>6, <2>1 DEF NewDistinct
<1>9. DOMAIN res' = Resolvers
  BY <1>0, <1>3
<1> QED  BY <1>4, <1>7, <1>8, <1>9 DEF RouteInv

\* Calls that begin.
LEMMA CallKeeps ==
  ASSUME RouteInv, Call
  PROVE  RouteInv'
<1>0. /\ Publishers \subseteq Resolvers /\ Subscribers \subseteq Resolvers
      /\ \A q \in Requests : q \in Seq(Wire(STRING))
      /\ Commands \subseteq Wire(STRING)
  BY RoutingAssumption DEF RoutingAssumption, Resolvers, Wire
<1> DEFINE words == {"TARGET_TYPE_SERVER", "TARGET_TYPE_CLUSTER", "TARGET_TYPE_ORG",
                     "TARGET_TYPE_SERVICE", "TARGET_TYPE_BROADCAST", "error"}
<1>1. ASSUME NEW w \in Commands
      PROVE  <<[w EXCEPT !.type = parseUMSTargetType(w.type)]>> \in Seq(Wire(words))
  <2>1. parseUMSTargetType(w.type) \in words
    BY DEF parseUMSTargetType
  <2>2. w \in Wire(STRING)
    BY <1>0, <1>1
  <2> HIDE DEF words
  <2>3. [w EXCEPT !.type = parseUMSTargetType(w.type)] \in Wire(words)
    BY <2>1, <2>2 DEF Wire
  <2> QED  BY <2>3
<1> HIDE DEF words
<1>2. ASSUME NEW r \in Resolvers, NEW T, NEW q \in Seq(Wire(T)),
             SdkPublish(r, q) \/ SubscribeFrame(r, q)
      PROVE  RouteInv'
  BY <1>2, CallBegins DEF SdkPublish, SubscribeFrame
<1>3. ASSUME NEW r \in Resolvers, NEW w \in Commands, newPublishCmd(r, w) \/ newSubscribeCmd(r, w)
      PROVE  RouteInv'
  BY <1>1, <1>2, <1>3, Zenon DEF newPublishCmd, newSubscribeCmd
<1> QED  BY <1>0, <1>2, <1>3 DEF Call

\* What callers do with a resolved request.
LEMMA CallerKeeps ==
  ASSUME RouteInv, RoutingStep
  PROVE  RouteInv'
<1>0. Publishers \subseteq Resolvers /\ Subscribers \subseteq Resolvers
  BY DEF Resolvers
<1>1. ASSUME NEW r \in Resolvers, Resolved(r), UNCHANGED doc  PROVE RouteInv'
  <2> DEFINE R == res[r]
             Q == [R EXCEPT !.pc = "done"]
  <2>1. R.left = <<>> /\ res' = [res EXCEPT ![r] = Q]
    BY <1>1, ZenonT(60), SMTT(60) DEF Resolved
  <2>2. Sound(R, doc) /\ R \in Resolution
    BY DEF RouteInv, Sound, Owing
  <2>3. /\ Q \in Resolution /\ Q.pc = "done" /\ Q.new = R.new /\ Q.left = R.left /\ Q.req = R.req
        /\ Q.got = R.got /\ Q.had = R.had
    BY <2>2 DEF Resolution
  <2> HIDE DEF Q
  <2>4. \A t : Done(R, t, doc) => Done(Q, t, doc)
    BY <2>3, ZenonT(60), SMTT(60) DEF Done
  <2>5. Sound(Q, doc)
    BY <2>1, <2>2, <2>3, <2>4 DEF Sound, Owing
  <2> QED  BY <1>1, <2>1, <2>3, <2>5, OneGoesOn, Zenon
<1>2. ASSUME NEW p \in Publishers, NEW i \in Ids, PublishResolved(p, i)  PROVE RouteInv'
  BY <1>0, <1>1, <1>2 DEF PublishResolved
<1>3. ASSUME NEW s \in Subscribers, HandleSubscribe(s)  PROVE RouteInv'
  BY <1>0, <1>1, <1>3 DEF HandleSubscribe
<1>4. ASSUME NEW p \in Publishers, PublishGoesOn(p)  PROVE RouteInv'
  <2>1. UNCHANGED doc /\ (res' = [res EXCEPT ![p] = Idle] \/ res' = res)
    BY <1>4 DEF PublishGoesOn
  <2>2. ASSUME res' = res  PROVE RouteInv'
    BY <2>1, <2>2 DEF RouteInv, NewDistinct
  <2> QED  BY <1>0, <2>1, <2>2, CallEnds
<1> QED  BY <1>2, <1>3, <1>4, ResolverKeeps, InsertKeeps DEF RoutingStep, ResolverStep

\* A step of the console leaves the resolvers alone, and the store too unless
\* it clears or purges a mailbox.
LEMMA ConsoleApart ==
  ASSUME ConsoleStep
  PROVE  /\ UNCHANGED routingVars
         /\ ClearOutbox \/ PurgeExpiredCmd \/ UNCHANGED mailboxVars
<1> DEFINE Apart == UNCHANGED <<mailboxVars, routingVars>>
<1>1. ASSUME NEW v, NEW k, NEW n, Type(v, k, n)  PROVE Apart
  BY <1>1 DEF Type, spineVars
<1>2. ASSUME NEW what, NEW rows, StartListing(what, rows)  PROVE Apart
  BY <1>2 DEF StartListing, spineVars
<1>3. ASSUME NEW rows, NEW size, NEW next, Page(rows, size, next)  PROVE Apart
  BY <1>3 DEF Page, spineVars
<1>4. ASSUME \/ CallFails \/ CommandEnds \/ GetCursor \/ GetMailbox \/ MailboxDetail
             \/ Reset \/ DeleteServer \/ AckCommand \/ ListingEnds
      PROVE  Apart
  BY <1>4, Zenon
  DEF CallFails, CommandEnds, GetCursor, GetMailbox, MailboxDetail, Reset, DeleteServer,
              AckCommand, ListingEnds, spineVars
<1> HIDE DEF Apart
<1>5. ASSUME NEW k \in Key,
             \/ cursorsGetCmd(k) \/ cursorsDeleteServerCmd(k[1])
             \/ \E n \in Positions : cursorsResetCmd(k, n) \/ newAckCmd(k, n)
             \/ mailboxesGetCmd(k) \/ mailboxesClearOutboxCmd(k)
             \/ mailboxesPurgeExpiredCmd(k)
      PROVE  Apart
  BY <1>1, <1>5 DEF cursorsGetCmd, cursorsDeleteServerCmd, cursorsResetCmd, newAckCmd,
                    mailboxesGetCmd, mailboxesClearOutboxCmd, mailboxesPurgeExpiredCmd
<1>6. ASSUME cursorsListCmd \/ \E m \in Mailboxes : mailboxesListEnvelopesCmd(m)
      PROVE  Apart
  BY <1>2, <1>6 DEF cursorsListCmd, mailboxesListEnvelopesCmd
<1>7. ASSUME ListCursors \/ ListEnvelopes  PROVE Apart
  BY <1>3, <1>7 DEF ListCursors, ListEnvelopes
<1>8. ClearOutbox \/ PurgeExpiredCmd => UNCHANGED routingVars
  BY DEF ClearOutbox, PurgeExpiredCmd
<1>9. Apart \/ ClearOutbox \/ PurgeExpiredCmd
  BY <1>4, <1>5, <1>6, <1>7 DEF ConsoleStep
<1> QED  BY <1>8, <1>9 DEF Apart

\* Every step of the Spine and of its operator preserves RouteInv.
LEMMA RouteStep ==
  ASSUME RouteInv, [ConsoleNext]_<<spineVars, consoleVars>>
  PROVE  RouteInv'
<1>1. ASSUME UNCHANGED <<doc, res>>  PROVE RouteInv'
  BY <1>1 DEF RouteInv, NewDistinct
<1>2. CASE UNCHANGED <<spineVars, consoleVars>>
  BY <1>1, <1>2 DEF spineVars, routingVars
<1>3. ASSUME NEW s \in Subscribers, NEW e \in published, AutoAck(s, e)  PROVE RouteInv'
  BY <1>1, <1>3 DEF AutoAck, spineVars, routingVars
<1>4. CASE ConsoleStep
  BY <1>1, <1>4, ConsoleApart DEF routingVars
<1>5. CASE ConsoleCrash
  <2>1. UNCHANGED doc /\ res' = [r \in Resolvers |-> Idle]
    BY <1>5 DEF ConsoleCrash, RoutingCrash
  <2>2. DOMAIN res' = Resolvers /\ \A r \in Resolvers : res'[r] = Idle
    BY <2>1
  <2>3. NewDistinct'
    BY <2>2, IdleTyped DEF NewDistinct
  <2> QED  BY <2>1, <2>2, <2>3, IdleSound DEF RouteInv
<1>6. CASE OtherOperator
  BY <1>1, <1>6 DEF OtherOperator, routingVars
<1> QED
  BY <1>2, <1>3, <1>4, <1>5, <1>6, CallKeeps, CallerKeeps DEF ConsoleNext

\* RouteInv is an invariant of the Spine with its operator.
LEMMA RouteAlways == ConsoleSpec => []RouteInv
  BY RouteInit, RouteStep, PTL DEF ConsoleSpec

\* ResolveTargets returns exactly the mailboxes its targets address, for any
\* number of resolvers that create them at once, but for the mailboxes of a
\* broadcast whose rows could not be read.
THEOREM ResolvesExactly == ConsoleSpec => []AddressedExactly
<1>1. RouteInv => AddressedExactly
  <2> SUFFICES ASSUME RouteInv, NEW r \in Resolvers, res[r].pc = "done"
               PROVE  /\ \A m \in res[r].got : \E t \in Asked(r) : Addresses(t, m, doc)
                      /\ \A t \in Asked(r) : Done(res[r], t, doc)
    BY DEF AddressedExactly, Addresses, Done, Of, With
  <2>1. Asked(r) = Targets(res[r].req) /\ Targets(<<>>) = {}
    BY DEF Asked, Targets
  <2>2. Owing(res[r], doc)
    BY DEF RouteInv, Sound
  <2> QED  BY <2>1, <2>2 DEF Owing
<1> QED  BY <1>1, RouteAlways, PTL, SMTT(60), ZenonT(60)

\* A publisher and a subscriber of one target meet in its only mailbox
\* (GetOrCreateMailbox).
THEOREM PublishersMeetSubscribers == ConsoleSpec => []PublisherMeetsSubscriber
<1>1. RouteInv => PublisherMeetsSubscriber
  <2> SUFFICES ASSUME RouteInv, NEW p \in Publishers, NEW s \in Subscribers,
                      res[p].pc = "done", res[s].pc = "done",
                      NEW t \in Asked(p) \cap Asked(s), t.type \in Single
               PROVE  \E m \in res[p].got \cap res[s].got : Of(t) = {m}
    BY DEF PublisherMeetsSubscriber
  <2>0. p \in Resolvers /\ s \in Resolvers /\ DocInv(doc) /\ t.type # "BROADCAST"
    BY DEF Resolvers, RouteInv, Single
  <2>1. /\ Asked(p) = Targets(res[p].req) /\ Asked(s) = Targets(res[s].req)
        /\ Targets(<<>>) = {}
    BY DEF Asked, Targets
  <2>2. Owing(res[p], doc) /\ Owing(res[s], doc)
    BY <2>0, SMTT(60), ZenonT(60) DEF RouteInv, Sound
  <2>3. Done(res[p], t, doc) /\ Done(res[s], t, doc)
    BY <2>1, <2>2 DEF Owing
  <2>4. PICK m \in With(t, doc) : m \in res[p].got
    BY <2>0, <2>3 DEF Done
  <2>5. PICK n \in With(t, doc) : n \in res[s].got
    BY <2>0, <2>3, SMTT(60), ZenonT(60) DEF Done
  <2>6. t # None
    BY <2>2, <2>4 DEF Owing, With, Made
  <2>7. \A k \in With(t, doc) : k = m
    BY <2>0, <2>4, <2>6 DEF DocInv, With, Made
  <2>8. Of(t) = {m}
    BY <2>4, <2>7 DEF Of, With
  <2> QED  BY <2>4, <2>5, <2>7, <2>8
<1> QED  BY <1>1, RouteAlways, PTL
-----------------------------------------------------------------------------
(* Counting *)

\* Induction on the natural numbers, in the form of a least element.
LEMMA Least ==
  ASSUME NEW T \in SUBSET Nat, T # {}
  PROVE  \E n \in T : \A m \in T : n <= m
<1> DEFINE R == OpToRel(<, Nat)
<1>1. IsWellFoundedOn(R, Nat)
  BY NatLessThanWellFounded
<1>2. \A x, y \in Nat : x < y => <<x, y>> \in R
  BY DEF OpToRel
<1> HIDE DEF R
<1>3. PICK n \in T : \A m \in T : ~(<<m, n>> \in R)
  BY <1>1, WFMin
<1>4. ASSUME NEW m \in T  PROVE n <= m
  <2>1. m \in Nat /\ n \in Nat /\ <<m, n>> \notin R
    BY <1>3
  <2>2. ~(m < n)
    BY <1>2, <2>1
  <2> QED  BY <2>1, <2>2
<1> QED BY <1>4

\* The number of envelopes of a set F below e.
Rank(F, e) == Cardinality({f \in F : f.seq < e.seq})

\* The envelopes of the mailbox from a position on.
From(m, from) == {e \in envelopes : e.mb = m /\ e.seq >= from}

\* A finite set of envelopes, the ranks in it and the lowest n of it.
LEMMA Ranks ==
  ASSUME NEW F \in SUBSET Envelope, IsFiniteSet(F)
  PROVE  /\ \A e \in F : Rank(F, e) \in Nat /\ Rank(F, e) <= Cardinality(F)
         /\ \A e, f \in F : e.seq <= f.seq => Rank(F, e) <= Rank(F, f)
         /\ \A e, f \in F : e.seq < f.seq => Rank(F, e) < Rank(F, f)
<1> DEFINE B(e) == {f \in F : f.seq < e.seq}
<1>0. \A e \in F : e.seq \in Nat
  BY DEF Envelope
<1>1. \A e \in F : IsFiniteSet(B(e)) /\ Cardinality(B(e)) \in Nat
        /\ Cardinality(B(e)) <= Cardinality(F)
  BY FS_Subset, FS_CardinalityType
<1>2. ASSUME NEW e \in F, NEW f \in F, e.seq <= f.seq
      PROVE  Cardinality(B(e)) <= Cardinality(B(f))
  <2>1. B(e) \subseteq B(f)
    BY <1>0, <1>2
  <2> HIDE DEF B
  <2> QED  BY <1>1, <2>1, FS_Subset
<1>3. ASSUME NEW e \in F, NEW f \in F, e.seq < f.seq
      PROVE  Cardinality(B(e)) < Cardinality(B(f))
  <2>1. B(e) \subseteq B(f) /\ e \in B(f) /\ e \notin B(e)
    BY <1>0, <1>3
  <2> HIDE DEF B
  <2>2. Cardinality(B(e)) <= Cardinality(B(f)) /\ Cardinality(B(e)) # Cardinality(B(f))
    BY <1>1, <2>1, FS_Subset
  <2> QED  BY <1>1, <2>2
<1>4. \A e : Rank(F, e) = Cardinality(B(e))
  BY DEF Rank
<1> HIDE DEF B
<1> QED  BY <1>1, <1>2, <1>3, <1>4

\* The envelopes that a limit leaves out are above those it lets through, of
\* which there are then as many as the limit says.
LEMMA LowestOnes ==
  ASSUME NEW F \in SUBSET Envelope, IsFiniteSet(F), NEW limit \in Nat, NEW rows,
         rows = {e \in F : Rank(F, e) < limit}
  PROVE  /\ IsFiniteSet(rows) /\ Cardinality(rows) \in Nat
         /\ \A e \in F \ rows : \A f \in rows : f.seq < e.seq
         /\ F \ rows # {} => Cardinality(rows) >= limit
<1>0. \A e \in F : e.seq \in Nat /\ Rank(F, e) \in Nat
  BY Ranks DEF Envelope
<1>1. IsFiniteSet(rows) /\ Cardinality(rows) \in Nat
  BY FS_Subset, FS_CardinalityType
<1>2. \A e \in F \ rows : \A f \in rows : f.seq < e.seq
  BY <1>0, Ranks
<1>3. ASSUME F \ rows # {}  PROVE Cardinality(rows) >= limit
  <2> DEFINE T == {e.seq : e \in F \ rows}
  <2>1. T \in SUBSET Nat /\ T # {}
    BY <1>0, <1>3
  <2>2. PICK n \in T : \A m \in T : n <= m
    BY <2>1, Least
  <2>3. PICK e \in F \ rows : e.seq = n
    BY <2>2
  <2>4. ASSUME NEW f \in F, f.seq < e.seq  PROVE f \in rows
    <3>1. f \in F \ rows => n <= f.seq
      BY <2>2
    <3> QED  BY <1>0, <2>3, <2>4, <3>1
  <2>5. Rank(F, e) <= Cardinality(rows)
    <3>1. {f \in F : f.seq < e.seq} \subseteq rows
      BY <2>4
    <3> QED  BY <1>1, <3>1, FS_Subset, ZenonT(60) DEF Rank
  <2>6. Rank(F, e) >= limit
    BY <1>0, <2>3
  <2> QED  BY <1>0, <1>1, <2>5, <2>6
<1> QED  BY <1>1, <1>2, <1>3

\* A finite set of envelopes that is not empty has a highest one.
LEMMA Highest ==
  ASSUME NEW F \in SUBSET Envelope, IsFiniteSet(F), F # {}
  PROVE  \E e \in F : \A f \in F : f.seq <= e.seq
<1> DEFINE C == Cardinality(F)
           T == {C - Rank(F, e) : e \in F}
<1>0. C \in Nat /\ \A e \in F : e.seq \in Nat /\ Rank(F, e) \in Nat /\ Rank(F, e) <= C
  BY Ranks, FS_CardinalityType DEF Envelope
<1> HIDE DEF C
<1>1. T \in SUBSET Nat /\ T # {}
  BY <1>0
<1>2. PICK n \in T : \A m \in T : n <= m
  BY <1>1, Least, ZenonT(60)
<1>3. PICK e \in F : n = C - Rank(F, e)
  BY <1>2
<1>4. ASSUME NEW f \in F  PROVE Rank(F, f) <= Rank(F, e)
  <2>1. n <= C - Rank(F, f)
    BY <1>2
  <2> QED  BY <1>0, <1>3, <2>1
<1>5. \A f \in F : f.seq <= e.seq
  BY <1>0, <1>4, Ranks
<1> QED  BY <1>5

\* Where a page of list-envelopes ends, there is a next position to ask for.
LEMMA NextPosition ==
  ASSUME NEW F \in SUBSET Envelope, IsFiniteSet(F), NEW n \in Nat
  PROVE  LET next == Max({n} \cup {e.seq + 1 : e \in F})
         IN next \in Nat /\ next >= n /\ next \in {n} \cup {e.seq + 1 : e \in F}
<1> DEFINE S == {n} \cup {e.seq + 1 : e \in F}
<1>0. \A e \in F : e.seq \in Nat
  BY DEF Envelope
<1>1. \E x \in S : \A y \in S : x >= y
  <2>1. CASE F = {}
    BY <2>1
  <2>2. CASE F # {}
    <3>1. PICK e \in F : \A f \in F : f.seq <= e.seq
      BY <2>2, Highest
    <3>2. CASE e.seq + 1 >= n
      BY <1>0, <3>1, <3>2
    <3>3. CASE ~(e.seq + 1 >= n)
      BY <1>0, <3>1, <3>3
    <3> QED  BY <3>2, <3>3
  <2> QED  BY <2>1, <2>2
<1>2. S \subseteq Nat /\ n \in S
  BY <1>0
<1> HIDE DEF S
<1>3. Max(S) \in S /\ \A y \in S : Max(S) >= y
  BY <1>1 DEF Max
<1>4. Max(S) \in Nat /\ Max(S) >= n /\ Max(S) \in S
  BY <1>2, <1>3
<1> QED  BY <1>4 DEF S

-----------------------------------------------------------------------------
(* Rows of cursors list *)

\* The places in the order, up to the i-th, of the cursors D.
Places(D, i) == {j \in 1..i : Order[j] \in D}

\* The numbers of the rows grow along the order, and with the cursors.
LEMMA Numbers ==
  ASSUME NEW D
  PROVE  /\ \A i \in Nat : IsFiniteSet(Places(D, i)) /\ Cardinality(Places(D, i)) \in Nat
         /\ \A i \in Nat \ {0} : Order[i] \in D =>
              Cardinality(Places(D, i)) = Cardinality(Places(D, i - 1)) + 1
         /\ \A E : D \subseteq E =>
              \A i \in Nat : Cardinality(Places(D, i)) <= Cardinality(Places(E, i))
<1>1. ASSUME NEW E, NEW i \in Nat
      PROVE  IsFiniteSet(Places(E, i)) /\ Cardinality(Places(E, i)) \in Nat
  <2>1. IsFiniteSet(1..i)
    BY FS_Interval
  <2> QED  BY <2>1, FS_Subset, FS_CardinalityType DEF Places
<1>2. ASSUME NEW i \in Nat \ {0}, Order[i] \in D
      PROVE  Cardinality(Places(D, i)) = Cardinality(Places(D, i - 1)) + 1
  <2>1. Places(D, i) = Places(D, i - 1) \cup {i} /\ i \notin Places(D, i - 1)
    BY <1>2 DEF Places
  <2>2. IsFiniteSet(Places(D, i - 1))
    BY <1>1
  <2> QED  BY <2>1, <2>2, FS_AddElement
<1>3. ASSUME NEW E, D \subseteq E, NEW i \in Nat
      PROVE  Cardinality(Places(D, i)) <= Cardinality(Places(E, i))
  <2>1. Places(D, i) \subseteq Places(E, i)
    BY <1>3 DEF Places
  <2> QED  BY <1>1, <2>1, FS_Subset
<1> QED  BY <1>1, <1>2, <1>3

\* There are at most n rows with numbers up to n.
LEMMA FirstOnes ==
  ASSUME NEW D, NEW n \in Nat, NEW k \in Nat, NEW B,
         B \subseteq {j \in 1..k : Order[j] \in D /\ Cardinality(Places(D, j)) <= n}
  PROVE  Cardinality(B) <= n
<1>1. CASE B = {}
  BY <1>1, FS_EmptySet
<1>2. CASE B # {}
  <2> DEFINE T == {k - j : j \in B}
  <2>0. \A j \in B : j \in 1..k /\ k - j \in Nat
    OBVIOUS
  <2>1. T \in SUBSET Nat /\ T # {}
    BY <1>2, <2>0, Zenon
  <2>2. PICK l \in T : \A m \in T : l <= m
    BY <2>1, Least, Zenon
  <2>3. PICK b \in B : l = k - b
    BY <2>2
  <2>4. ASSUME NEW j \in B  PROVE j \in Places(D, b)
    <3>1. l <= k - j /\ j \in 1..k /\ b \in 1..k /\ Order[j] \in D
      BY <2>2
    <3> QED  BY <2>3, <3>1 DEF Places
  <2>5. B \subseteq Places(D, b) /\ b \in Nat
    BY <2>4
  <2>6. Cardinality(B) <= Cardinality(Places(D, b)) /\ Cardinality(B) \in Nat
    BY <2>5, Numbers, FS_Subset, FS_CardinalityType, Zenon
  <2>7. Cardinality(Places(D, b)) <= n /\ Cardinality(Places(D, b)) \in Nat
    BY <2>5, Numbers
  <2> QED  BY <2>6, <2>7
<1> QED  BY <1>1, <1>2

\* When there is a row after the page, the page is full.
LEMMA FullPage ==
  ASSUME NEW D, NEW skip \in Nat, NEW limit \in Nat,
         NEW k \in DOMAIN Order, Order[k] \in D,
         Cardinality(Places(D, k)) > skip + limit,
         NEW I, I = {j \in DOMAIN Order : /\ Order[j] \in D
                                          /\ skip < Cardinality(Places(D, j))
                                          /\ Cardinality(Places(D, j)) <= skip + limit}
  PROVE  Cardinality(I) >= limit
<1> DEFINE N(j) == Cardinality(Places(D, j))
           T == {j \in DOMAIN Order : Order[j] \in D /\ N(j) > skip + limit}
<1>a. PICK n \in Nat : DOMAIN Order = 1..n
  BY ConsoleAssumption DEF ConsoleAssumption
<1>0. DOMAIN Order = 1..n /\ \A j \in Nat : N(j) \in Nat
  BY <1>a, Numbers, Zenon
<1>1. T \in SUBSET Nat /\ T # {}
  <2>1. T \subseteq DOMAIN Order /\ k \in T
    OBVIOUS
  <2> HIDE DEF T
  <2> QED  BY <1>a, <2>1
<1>2. PICK l \in T : \A m \in T : l <= m
  BY <1>1, Least
<1> DEFINE A == Places(D, l - 1)
           B == {j \in A : N(j) <= skip}
<1>3. l \in 1..n /\ l - 1 \in Nat /\ Order[l] \in D /\ N(l) > skip + limit
  <2>1. l \in DOMAIN Order /\ Order[l] \in D /\ N(l) > skip + limit
    BY <1>2
  <2>2. l \in 1..n
    BY <1>a, <2>1
  <2>3. l - 1 \in Nat
    BY <2>2
  <2> QED  BY <2>1, <2>2, <2>3
<1>4. IsFiniteSet(A) /\ Cardinality(A) \in Nat /\ Cardinality(A) >= skip + limit
  <2>1. IsFiniteSet(A) /\ Cardinality(A) \in Nat
    BY <1>3, Numbers
  <2>2. N(l) = Cardinality(A) + 1
    BY <1>3, Numbers
  <2> QED  BY <1>3, <2>1, <2>2
<1>5. A \ B \subseteq I
  <2> SUFFICES ASSUME NEW j \in A \ B  PROVE j \in I
    OBVIOUS
  <2>1. j \in 1..(l - 1) /\ Order[j] \in D /\ ~(N(j) <= skip)
    BY DEF Places
  <2>2. j \in DOMAIN Order /\ N(j) \in Nat /\ j < l
    <3> HIDE DEF N
    <3> QED  BY <1>0, <1>3, <2>1
  <2>3. N(j) <= skip + limit
    <3>1. j \in T => l <= j
      BY <1>2
    <3> HIDE DEF N
    <3> QED  BY <2>1, <2>2, <3>1, <1>3
  <2> QED  BY <2>1, <2>2, <2>3
<1>6. Cardinality(B) <= skip
  <2>1. B \subseteq {j \in 1..(l - 1) : Order[j] \in D /\ Cardinality(Places(D, j)) <= skip}
    BY DEF Places
  <2> HIDE DEF B
  <2> QED  BY <1>3, <2>1, FirstOnes, ZenonT(60)
<1>7. IsFiniteSet(B) /\ Cardinality(B) \in Nat /\ A \cap B = B
  BY <1>4, FS_Subset, FS_CardinalityType
<1>8. IsFiniteSet(A \ B) /\ Cardinality(A \ B) = Cardinality(A) - Cardinality(B)
  <2> HIDE DEF A, B
  <2>1. IsFiniteSet(A \ B) /\ Cardinality(A \ B) = Cardinality(A) - Cardinality(A \cap B)
    BY <1>4, FS_Difference, ZenonT(60)
  <2> QED  BY <1>7, <2>1, Zenon
<1>9. IsFiniteSet(I)
  <2>1. IsFiniteSet(1..n) /\ I \subseteq 1..n
    BY <1>0, FS_Interval
  <2> QED  BY <2>1, FS_Subset
<1>10. Cardinality(A \ B) <= Cardinality(I) /\ Cardinality(I) \in Nat
  BY <1>5, <1>9, FS_Subset, FS_CardinalityType
<1> HIDE DEF A, B
<1> QED  BY <1>4, <1>6, <1>7, <1>8, <1>10

\* The keys at distinct places of the order are distinct.
LEMMA PlacesDiffer ==
  ASSUME NEW I \in SUBSET DOMAIN Order
  PROVE  Cardinality({Order[i] : i \in I}) = Cardinality(I)
<1> DEFINE K == {Order[i] : i \in I}
           f == [i \in I |-> Order[i]]
<1>1. IsFiniteSet(I)
  <2>1. DOMAIN Order = 1..Len(Order) /\ Len(Order) \in Nat
    BY ConsoleAssumption DEF ConsoleAssumption
  <2>2. IsFiniteSet(1..Len(Order)) /\ I \in SUBSET (1..Len(Order))
    BY <2>1, FS_Interval
  <2> QED  BY <2>2, FS_Subset
<1>2. f \in Bijection(I, K)
  <2>1. \A i, j \in I : Order[i] = Order[j] => i = j
    BY ConsoleAssumption DEF ConsoleAssumption
  <2>2. f \in [I -> K] /\ \A y \in K : \E i \in I : f[i] = y
    OBVIOUS
  <2> QED  BY <2>1, <2>2 DEF Bijection, Injection, Surjection, IsInjective
<1> QED  BY <1>1, <1>2, FS_Bijection DEF ExistsBijection

-----------------------------------------------------------------------------
(* Commands *)

Command ==
  [pc : {"idle", "call", "read", "clear", "shown"}, verb : Verb \cup {None},
   key : (Subscribers \X (Mailboxes \cup {None})) \cup {None},
   seq : Nat, last : Nat, next : Nat, waiting : Nat]

CursorsInv == DOMAIN cursors \subseteq Key /\ \A k \in DOMAIN cursors : cursors[k] \in Nat

\* A command works on the mailbox it was given, from position 0 for a mailbox
\* that is only shown.
CommandInv ==
  /\ cmd \in Command
  /\ cmd.pc # "idle" => cmd.verb = "delete-server" \/ cmd.key \in Key
  /\ cmd.pc = "read" => cmd.verb = "get"
  /\ cmd.verb = "show" => cmd.last = 0

ConsoleInv == CursorsInv /\ CommandInv /\ InflightCovers

\* What is stored was published, and the positions are in order.
StoreInv == PositionsInv /\ envelopes \subseteq published

\* A write to one cursor.
LEMMA CursorSet ==
  ASSUME CursorsInv, NEW k \in Key, NEW n \in Nat, SetCursor(k, n)
  PROVE  /\ CursorsInv' /\ DOMAIN cursors' = DOMAIN cursors \cup {k} /\ cursors'[k] = n
         /\ \A x \in DOMAIN cursors : x # k => cursors'[x] = cursors[x]
<1>1. cursors' = [x \in DOMAIN cursors \cup {k} |-> IF x = k THEN n ELSE cursors[x]]
  BY DEF SetCursor
<1>2. /\ DOMAIN cursors' = DOMAIN cursors \cup {k} /\ cursors'[k] = n
      /\ \A x \in DOMAIN cursors : x # k => cursors'[x] = cursors[x]
  BY <1>1
<1>3. CursorsInv'
  BY <1>2 DEF CursorsInv
<1> QED  BY <1>2, <1>3

\* An acknowledgement never lowers a cursor ($max).
LEMMA CursorAcked ==
  ASSUME CursorsInv, NEW k \in Key, NEW n \in Nat, UpdateAckPosition(k, n)
  PROVE  /\ CursorsInv' /\ DOMAIN cursors \subseteq DOMAIN cursors'
         /\ \A x \in DOMAIN cursors : cursors'[x] >= cursors[x]
<1>1. PICK l \in Nat : SetCursor(k, l) /\ (k \in DOMAIN cursors => l >= cursors[k])
  <2>1. CASE k \in DOMAIN cursors /\ cursors[k] > n
    BY <2>1 DEF UpdateAckPosition, CursorsInv
  <2>2. CASE ~(k \in DOMAIN cursors /\ cursors[k] > n)
    BY <2>2 DEF UpdateAckPosition, CursorsInv
  <2> QED  BY <2>1, <2>2
<1>2. /\ CursorsInv' /\ DOMAIN cursors' = DOMAIN cursors \cup {k} /\ cursors'[k] = l
      /\ \A x \in DOMAIN cursors : x # k => cursors'[x] = cursors[x]
  BY <1>1, CursorSet
<1>3. \A x \in DOMAIN cursors : cursors[x] \in Nat
  BY DEF CursorsInv
<1> QED  BY <1>1, <1>2, <1>3

\* The cursors of a server are deleted.
LEMMA CursorsDeleted ==
  ASSUME CursorsInv, NEW s, DeleteServerCursors(s)
  PROVE  CursorsInv'
<1>1. PICK left \in SUBSET DOMAIN cursors : cursors' = [k \in left |-> cursors[k]]
  BY DEF DeleteServerCursors
<1> QED  BY <1>1 DEF CursorsInv

\* The console is free.
LEMMA CommandOver ==
  ASSUME CursorsInv', cmd' = NoCommand
  PROVE  ConsoleInv'
<1>1. NoCommand \in Command /\ NoCommand.pc = "idle" /\ NoCommand.verb = None /\ NoCommand.last = 0
  BY DEF NoCommand, Command
<1> QED  BY <1>1 DEF ConsoleInv, CommandInv, InflightCovers

\* The command under way is not touched.
LEMMA CommandStays ==
  ASSUME ConsoleInv, cmd' = cmd, CursorsInv'
  PROVE  ConsoleInv'
  BY DEF ConsoleInv, CommandInv, InflightCovers, Inflight

\* A command that has nothing to show yet.
LEMMA CommandGoesOn ==
  ASSUME CursorsInv', CommandInv', cmd'.pc # "shown"
  PROVE  ConsoleInv'
  BY DEF ConsoleInv, InflightCovers

\* The operator types a command.
LEMMA CommandTyped ==
  ASSUME ConsoleInv, NEW v \in Verb, NEW n \in Nat, NEW k, Type(v, k, n),
         k \in Key \/ (v = "delete-server" /\ k \in Subscribers \X {None})
  PROVE  ConsoleInv'
<1>1. CursorsInv'
  BY DEF ConsoleInv, CursorsInv, Type
<1>2. /\ cmd' \in Command /\ cmd'.pc = "call" /\ cmd'.verb = v /\ cmd'.key = k /\ cmd'.last = 0
  <2>1. cmd' = [pc |-> "call", verb |-> v, key |-> k, seq |-> n, last |-> 0, next |-> 0,
                waiting |-> 0]
    BY ZenonT(60) DEF Type, NoCommand
  <2>2. k \in Subscribers \X (Mailboxes \cup {None})
    BY DEF Key
  <2> QED  BY <2>1, <2>2 DEF Command
<1>3. CommandInv'
  BY <1>2 DEF CommandInv
<1> QED  BY <1>1, <1>2, <1>3, CommandGoesOn

\* The envelopes above a position are counted by next_seq, from which the
\* console computes inflight: their positions are distinct and below it.
LEMMA BacklogBound ==
  ASSUME StoreInv, NEW m \in Mailboxes \ Clearable, NEW last \in Nat
  PROVE  /\ Cardinality(Above(m, last)) \in Nat
         /\ nextSeq[m] > last => Cardinality(Above(m, last)) <= nextSeq[m] - last - 1
         /\ ~(nextSeq[m] > last) => Cardinality(Above(m, last)) = 0
<1> DEFINE S == Above(m, last)
           J == (last + 1)..(nextSeq[m] - 1)
           f == [e \in S |-> e.seq]
<1>0. nextSeq[m] \in Nat
  BY DEF StoreInv, PositionsInv, MailboxTypeOK
<1>1. \A e \in S : e.seq \in Nat /\ e.seq > last /\ e.seq < nextSeq[m] /\ e \in published
        /\ e.mb = m
  BY DEF StoreInv, PositionsInv, NumbersBelow, MailboxTypeOK, Envelope, Above
<1>2. \A e, d \in S : e.seq = d.seq => e = d
  BY <1>1 DEF StoreInv, PositionsInv, PositionsDistinct
<1>3. IsFiniteSet(J) /\ Cardinality(J) =
        IF last + 1 > nextSeq[m] - 1 THEN 0 ELSE nextSeq[m] - last - 1
  <2>1. last + 1 \in Int /\ nextSeq[m] - 1 \in Int
    BY <1>0
  <2>2. IsFiniteSet(J) /\ Cardinality(J) = IF last + 1 > nextSeq[m] - 1 THEN 0
                                           ELSE (nextSeq[m] - 1) - (last + 1) + 1
    BY <2>1, FS_Interval
  <2> QED  BY <1>0, <2>2
<1>4. f \in Injection(S, J)
  <2>1. \A e \in S : e.seq \in J
    BY <1>0, <1>1
  <2> HIDE DEF S, J
  <2> QED  BY <1>2, <2>1 DEF Injection, IsInjective
<1> HIDE DEF S, J, f
<1>5. IsFiniteSet(S) /\ Cardinality(S) <= Cardinality(J)
  BY <1>3, <1>4, FS_Injection
<1>6. Cardinality(S) \in Nat
  BY <1>5, FS_CardinalityType
<1>7. /\ nextSeq[m] > last => Cardinality(S) <= nextSeq[m] - last - 1
      /\ ~(nextSeq[m] > last) => Cardinality(S) = 0
  BY <1>0, <1>3, <1>5, <1>6
<1> QED  BY <1>6, <1>7 DEF S

\* A mailbox is shown: with cursors get or mailboxes get.
LEMMA CommandShows ==
  ASSUME ConsoleInv, StoreInv, NEW n \in {nextSeq[cmd.key[2]], 0},
         UNCHANGED cursors, cmd.pc # "idle", cmd.verb \in {"get", "show"},
         cmd' = [cmd EXCEPT !.pc = "shown", !.next = n,
                   !.waiting = Cardinality(Above(cmd.key[2], cmd.last))]
  PROVE  ConsoleInv'
<1> DEFINE m == cmd.key[2]
           w == Cardinality(Above(m, cmd.last))
<1>0. cmd \in Command /\ cmd.key \in Key /\ m \in Mailboxes /\ cmd.last \in Nat
  BY DEF ConsoleInv, CommandInv, Command, Key
<1>1. n \in Nat
  BY <1>0 DEF StoreInv, PositionsInv, MailboxTypeOK
<1>2. w \in Nat
  <2>1. IsFiniteSet(envelopes) /\ Above(m, cmd.last) \in SUBSET envelopes
    BY DEF StoreInv, PositionsInv, MailboxTypeOK, Above
  <2> QED  BY <2>1, FS_Subset, FS_CardinalityType
<1>3. m \in Clearable \/ n = 0 \/ (w <= IF n > cmd.last THEN n - cmd.last - 1 ELSE 0)
  <2> SUFFICES ASSUME m \notin Clearable, n # 0
               PROVE  w <= IF n > cmd.last THEN n - cmd.last - 1 ELSE 0
    OBVIOUS
  <2>1. n = nextSeq[m]
    OBVIOUS
  <2> HIDE DEF m
  <2>2. /\ nextSeq[m] > cmd.last => w <= nextSeq[m] - cmd.last - 1
        /\ ~(nextSeq[m] > cmd.last) => w = 0
    BY <1>0, BacklogBound
  <2> HIDE DEF w
  <2> QED  BY <1>0, <1>1, <1>2, <2>1, <2>2
<1>4. /\ cmd' = [cmd EXCEPT !.pc = "shown", !.next = n, !.waiting = w]
  OBVIOUS
<1> HIDE DEF w
<1>5. /\ cmd' \in Command /\ cmd'.pc = "shown" /\ cmd'.verb = cmd.verb /\ cmd'.key = cmd.key
      /\ cmd'.last = cmd.last /\ cmd'.next = n /\ cmd'.waiting = w
  BY <1>0, <1>1, <1>2, <1>4 DEF Command
<1>6. CommandInv'
  BY <1>0, <1>5 DEF ConsoleInv, CommandInv
<1>7. InflightCovers'
  BY <1>1, <1>3, <1>5 DEF InflightCovers, Inflight
<1>8. CursorsInv'
  BY DEF ConsoleInv, CursorsInv
<1> QED  BY <1>6, <1>7, <1>8 DEF ConsoleInv

\* What the command does next is as its type says.
LEMMA CommandMoves ==
  ASSUME ConsoleInv, StoreInv,
         \/ CallFails \/ CommandEnds \/ GetCursor \/ GetMailbox \/ MailboxDetail
         \/ Reset \/ DeleteServer \/ AckCommand \/ ClearOutbox \/ PurgeExpiredCmd
  PROVE  ConsoleInv'
<1>0. cmd \in Command /\ CursorsInv
  BY DEF ConsoleInv, CommandInv
<1>1. UNCHANGED cursors => CursorsInv'
  BY <1>0 DEF CursorsInv
<1>2. CASE CallFails \/ CommandEnds
  BY <1>1, <1>2, CommandOver DEF CallFails, CommandEnds, Ends
<1>3. CASE GetCursor
  <2>1. CASE cmd.key \in DOMAIN cursors
    <3>1. cursors[cmd.key] \in Nat
      BY <1>0, <2>1 DEF CursorsInv
    <3>2. /\ cmd' = [cmd EXCEPT !.pc = "read", !.last = cursors[cmd.key]]
          /\ UNCHANGED cursors /\ cmd.pc = "call" /\ cmd.verb = "get"
      BY <1>3, <2>1 DEF GetCursor, Called
    <3>3. /\ cmd' \in Command /\ cmd'.pc = "read" /\ cmd'.verb = "get" /\ cmd'.key = cmd.key
      BY <1>0, <3>1, <3>2, Zenon DEF Command
    <3>4. CommandInv'
      BY <3>2, <3>3 DEF ConsoleInv, CommandInv
    <3> QED  BY <1>1, <3>2, <3>3, <3>4, CommandGoesOn
  <2>2. CASE cmd.key \notin DOMAIN cursors
    BY <1>1, <1>3, <2>2, CommandOver DEF GetCursor, Ends
  <2> QED  BY <2>1, <2>2
<1>4. CASE GetMailbox
  <2>1. PICK n \in {nextSeq[cmd.key[2]], 0} :
          cmd' = [cmd EXCEPT !.pc = "shown", !.next = n,
                    !.waiting = Cardinality(Above(cmd.key[2], cmd.last))]
    BY <1>4, Zenon DEF GetMailbox
  <2>2. UNCHANGED cursors /\ cmd.pc = "read" /\ cmd.verb = "get"
    BY <1>4, Zenon DEF GetMailbox, ConsoleInv, CommandInv
  <2> QED  BY <2>1, <2>2, CommandShows
<1>5. CASE MailboxDetail
  <2>1. /\ UNCHANGED cursors /\ cmd.pc = "call" /\ cmd.verb = "show" /\ cmd.last = 0
        /\ cmd' = [cmd EXCEPT !.pc = "shown", !.next = nextSeq[cmd.key[2]],
                     !.waiting = Cardinality(Above(cmd.key[2], 0))]
    BY <1>5 DEF MailboxDetail, Called, ConsoleInv, CommandInv
  <2> QED  BY <2>1, CommandShows
<1>6. CASE Reset
  <2>0. cmd.pc = "call" /\ cmd.verb = "reset" /\ cmd.key \in Key /\ cmd.seq \in Nat
    BY <1>0, <1>6 DEF Reset, Called, ConsoleInv, CommandInv, Command
  <2>1. CursorsInv'
    BY <1>0, <1>1, <1>6, <2>0, CursorSet DEF Reset, ResetCursor
  <2> QED  BY <1>6, <2>1, CommandOver DEF Reset, Ends
<1>7. CASE DeleteServer
  <2>1. CursorsInv'
    BY <1>0, <1>7, CursorsDeleted DEF DeleteServer
  <2> QED  BY <1>7, <2>1, CommandOver DEF DeleteServer, Ends
<1>8. CASE AckCommand
  <2>1. cmd.key \in Key /\ cmd.seq \in Nat
    BY <1>0, <1>8, SMTT(60), ZenonT(60) DEF AckCommand, Called, ConsoleInv, CommandInv, Command
  <2>2. CursorsInv'
    BY <1>0, <1>8, <2>1, CursorAcked DEF AckCommand
  <2> QED  BY <1>8, <2>2, CommandOver DEF AckCommand, Ends
<1>9. CASE ClearOutbox
  <2>1. CASE Called("clear-outbox") /\ cmd' = [cmd EXCEPT !.pc = "clear"]
    <3>1. /\ cmd' \in Command /\ cmd'.pc = "clear" /\ cmd'.verb = "clear-outbox"
          /\ cmd'.key = cmd.key /\ cmd'.last = cmd.last
      BY <1>0, <2>1 DEF Command, Called
    <3>2. CommandInv'
      BY <2>1, <3>1 DEF ConsoleInv, CommandInv, Called
    <3> QED  BY <1>1, <1>9, <3>1, <3>2, CommandGoesOn DEF ClearOutbox
  <2>2. CASE Ends
    BY <1>1, <1>9, <2>2, CommandOver DEF ClearOutbox, Ends
  <2> QED  BY <1>9, <2>1, <2>2 DEF ClearOutbox
<1>10. CASE PurgeExpiredCmd
  BY <1>1, <1>10, CommandOver DEF PurgeExpiredCmd, Ends
<1> QED
  BY <1>2, <1>3, <1>4, <1>5, <1>6, <1>7, <1>8, <1>9, <1>10

\* The commands and the cursors stay sound whatever happens beside them.
LEMMA ConsoleInvStep ==
  ASSUME ConsoleInv, StoreInv, [ConsoleNext]_<<spineVars, consoleVars>>
  PROVE  ConsoleInv'
<1>1. ASSUME UNCHANGED <<cursors, cmd>>  PROVE ConsoleInv'
  BY <1>1 DEF ConsoleInv, CursorsInv, CommandInv, InflightCovers, Inflight
<1>2. CASE UNCHANGED <<spineVars, consoleVars>>
  BY <1>1, <1>2 DEF consoleVars
<1>3. CASE (Call \/ RoutingStep) /\ UNCHANGED consoleVars
  BY <1>1, <1>3, ZenonT(60), SMTT(60) DEF consoleVars
<1>4. ASSUME NEW s \in Subscribers, NEW e \in published, AutoAck(s, e)  PROVE ConsoleInv'
  <2>1. e.seq \in Nat /\ <<s, e.mb>> \in Key
    BY DEF StoreInv, PositionsInv, MailboxTypeOK, Envelope, Key
  <2>2. cmd' = cmd /\ UpdateAckPosition(<<s, e.mb>>, e.seq) /\ CursorsInv
    BY <1>4 DEF AutoAck, ConsoleInv
  <2> QED  BY <2>1, <2>2, CursorAcked, CommandStays
<1>5. ASSUME NEW k \in Key,
             \/ cursorsGetCmd(k) \/ cursorsDeleteServerCmd(k[1])
             \/ \E n \in Positions : cursorsResetCmd(k, n) \/ newAckCmd(k, n)
             \/ mailboxesGetCmd(k) \/ mailboxesClearOutboxCmd(k)
             \/ mailboxesPurgeExpiredCmd(k)
      PROVE  ConsoleInv'
  <2>1. \A n \in Positions : n \in Nat
    BY ConsoleAssumption DEF ConsoleAssumption
  <2>2. ASSUME NEW v \in Verb, NEW n \in Nat, Type(v, k, n)  PROVE ConsoleInv'
    BY <2>2, CommandTyped
  <2>3. CASE cursorsDeleteServerCmd(k[1])
    <3>1. <<k[1], None>> \in Subscribers \X {None} /\ "delete-server" \in Verb
      BY DEF Key, Verb
    <3> QED  BY <2>3, <3>1, CommandTyped DEF cursorsDeleteServerCmd
  <2>4. {"get", "reset", "ack", "show", "clear-outbox", "purge-expired"} \subseteq Verb
    BY DEF Verb
  <2> QED
    BY <1>5, <2>1, <2>2, <2>3, <2>4
       DEF cursorsGetCmd, cursorsResetCmd, newAckCmd, mailboxesGetCmd,
           mailboxesClearOutboxCmd, mailboxesPurgeExpiredCmd
<1>6. ASSUME NEW what, NEW rows, StartListing(what, rows)  PROVE ConsoleInv'
  BY <1>1, <1>6 DEF StartListing
<1>7. CASE ListCursors \/ ListEnvelopes \/ ListingEnds
  BY <1>1, <1>7, Zenon DEF ListCursors, ListEnvelopes, ListingEnds, Page
<1>8. CASE ConsoleCrash
  <2>1. CursorsInv'
    BY <1>8, SMTT(60), ZenonT(60) DEF ConsoleCrash, ConsoleInv, CursorsInv
  <2> QED  BY <1>8, <2>1, CommandOver DEF ConsoleCrash
<1>9. CASE ConsoleStep
  BY <1>5, <1>6, <1>7, <1>9, CommandMoves, ZenonT(60)
     DEF ConsoleStep, cursorsListCmd, mailboxesListEnvelopesCmd
<1>10. CASE OtherOperator
  <2>0. CursorsInv /\ cmd' = cmd /\ \A n \in Positions : n \in Nat
    BY <1>10, ConsoleAssumption DEF OtherOperator, ConsoleInv, ConsoleAssumption
  <2>1. ASSUME NEW k \in Key, NEW n \in Positions, ResetCursor(k, n)  PROVE CursorsInv'
    BY <2>0, <2>1, CursorSet DEF ResetCursor
  <2>2. ASSUME UNCHANGED cursors  PROVE CursorsInv'
    BY <2>0, <2>2 DEF CursorsInv
  <2>3. CursorsInv'
    BY <1>10, <2>0, <2>1, <2>2, CursorsDeleted, ZenonT(60) DEF OtherOperator
  <2> QED  BY <2>0, <2>3, CommandStays
<1> QED
  BY <1>2, <1>3, <1>4, <1>8, <1>9, <1>10, SMTT(60), ZenonT(60) DEF ConsoleNext

-----------------------------------------------------------------------------
(* Listings *)

Row == Key \cup Envelope

Listing ==
  [pc : {"off", "on", "end"}, what : {None, "cursors"} \cup Mailboxes, offset : Nat,
   seen : SUBSET Row, kept : SUBSET Row]

\* A row of cursors list that was there all along has been seen, or its number
\* is still to come: cursors that are created only add to it ...
CursorRows(P) ==
  /\ P.kept \subseteq DOMAIN cursors
  /\ \A i \in DOMAIN Order : Order[i] \in P.kept =>
       Order[i] \in P.seen \/ (P.pc = "on" /\ RowNumber(Order, i) > P.offset)

\* ... and so it is with the positions of list-envelopes.
EnvelopeRows(P) ==
  /\ P.kept \subseteq From(P.what, 0)
  /\ \A e \in P.kept : e \in P.seen \/ (P.pc = "on" /\ e.seq >= P.offset)

PagesInv ==
  /\ pages \in Listing
  /\ pages.what \notin {"cursors"} \cup Mailboxes => pages.kept = {}
  /\ pages.what = "cursors" => CursorRows(pages)
  /\ pages.what \in Mailboxes => EnvelopeRows(pages)

\* The listing at its end has shown every row that was there all along.
LEMMA PagesEnd == CursorsInv /\ PagesInv => PagesCover
<1> SUFFICES ASSUME CursorsInv, PagesInv, pages.pc = "end", NEW row \in pages.kept
             PROVE  row \in pages.seen
  BY DEF PagesCover
<1>1. CASE pages.what = "cursors"
  <2>1. PICK i \in DOMAIN Order : Order[i] = row
    BY <1>1, ConsoleAssumption DEF PagesInv, CursorRows, CursorsInv, ConsoleAssumption
  <2> QED  BY <1>1, <2>1 DEF PagesInv, CursorRows
<1>2. CASE pages.what \in Mailboxes
  BY <1>2, SMTT(60), ZenonT(60) DEF PagesInv, EnvelopeRows
<1> QED  BY <1>1, <1>2 DEF PagesInv, Listing

\* Rows that are added beside a listing do not disturb it.
LEMMA PagesStay ==
  ASSUME PagesInv, pages' = pages, DOMAIN cursors \subseteq DOMAIN cursors',
         CursorsInv, CursorsInv', envelopes \subseteq envelopes'
  PROVE  PagesInv'
<1>1. pages.what = "cursors" => CursorRows(pages)'
  <2> SUFFICES ASSUME CursorRows(pages), NEW i \in DOMAIN Order
               PROVE  RowNumber(Order, i) > pages.offset => RowNumber(Order, i)' > pages.offset
    BY ZenonT(60) DEF PagesInv, CursorRows
  <2>1. i \in Nat /\ pages.offset \in Nat
    BY ConsoleAssumption DEF ConsoleAssumption, PagesInv, Listing
  <2>2. /\ RowNumber(Order, i) = Cardinality(Places(DOMAIN cursors, i))
        /\ RowNumber(Order, i)' = Cardinality(Places(DOMAIN cursors', i))
    BY SMTT(60), ZenonT(60) DEF RowNumber, Places
  <2>3. /\ Cardinality(Places(DOMAIN cursors, i)) \in Nat
        /\ Cardinality(Places(DOMAIN cursors', i)) \in Nat
        /\ Cardinality(Places(DOMAIN cursors, i)) <= Cardinality(Places(DOMAIN cursors', i))
    BY <2>1, Numbers, ZenonT(60)
  <2> QED  BY <2>1, <2>2, <2>3, SMTT(60), ZenonT(60)
<1>2. pages.what \in Mailboxes => EnvelopeRows(pages)'
  BY DEF PagesInv, EnvelopeRows, From
<1> QED  BY <1>1, <1>2, SMTT(60), ZenonT(60) DEF PagesInv

\* No listing is under way.
LEMMA PagesOff ==
  ASSUME pages' = NoListing
  PROVE  PagesInv'
<1>1. NoListing \in Listing /\ NoListing.kept = {}
  BY DEF NoListing, Listing
<1> QED  BY <1>1 DEF PagesInv, CursorRows, EnvelopeRows

\* A listing begins with the rows there are.
LEMMA ListingBegins ==
  ASSUME CursorsInv, MailboxTypeOK,
         cursorsListCmd \/ \E m \in Mailboxes : mailboxesListEnvelopesCmd(m)
  PROVE  PagesInv'
<1>0. "cursors" \notin Mailboxes
  BY ConsoleAssumption DEF ConsoleAssumption
<1>1. ASSUME NEW what \in {"cursors"} \cup Mailboxes, NEW rows \in SUBSET Row,
             StartListing(what, rows)
      PROVE  /\ pages' \in Listing /\ pages'.what = what /\ pages'.kept = rows
             /\ pages'.pc = "on" /\ pages'.offset = 0 /\ UNCHANGED <<cursors, envelopes>>
  BY <1>1, Zenon DEF StartListing, NoListing, Listing, spineVars, mailboxVars
<1>2. CASE cursorsListCmd
  <2>1. /\ pages' \in Listing /\ pages'.what = "cursors" /\ pages'.kept = DOMAIN cursors
        /\ pages'.pc = "on" /\ pages'.offset = 0 /\ UNCHANGED <<cursors, envelopes>>
    <3>1. DOMAIN cursors \in SUBSET Row
      BY DEF CursorsInv, Row
    <3> QED  BY <1>1, <1>2, <3>1 DEF cursorsListCmd
  <2>2. ASSUME NEW i \in DOMAIN Order, Order[i] \in DOMAIN cursors
        PROVE  RowNumber(Order, i) > 0
    <3>1. i \in Nat \ {0}
      BY ConsoleAssumption DEF ConsoleAssumption
    <3>2. RowNumber(Order, i) = Cardinality(Places(DOMAIN cursors, i))
      BY DEF RowNumber, Places
    <3>3. /\ Cardinality(Places(DOMAIN cursors, i - 1)) \in Nat
          /\ Cardinality(Places(DOMAIN cursors, i)) = Cardinality(Places(DOMAIN cursors, i - 1)) + 1
      <4>1. i - 1 \in Nat
        BY <3>1, SMTT(60), ZenonT(60)
      <4>2. Cardinality(Places(DOMAIN cursors, i - 1)) \in Nat
        BY <4>1, Numbers, SMTT(60), ZenonT(60)
      <4>3. Cardinality(Places(DOMAIN cursors, i)) = Cardinality(Places(DOMAIN cursors, i - 1)) + 1
        BY <2>2, <3>1, Numbers, ZenonT(60)
      <4> QED  BY <4>2, <4>3
    <3> QED  BY <3>2, <3>3
  <2>3. \A i : RowNumber(Order, i)' = RowNumber(Order, i)
    BY <2>1 DEF RowNumber
  <2>4. CursorRows(pages)'
    BY <2>1, <2>2, <2>3 DEF CursorRows
  <2> QED  BY <1>0, <2>1, <2>4 DEF PagesInv
<1>3. ASSUME NEW m \in Mailboxes, mailboxesListEnvelopesCmd(m)  PROVE PagesInv'
  <2> DEFINE rows == {e \in envelopes : e.mb = m}
  <2>1. /\ pages' \in Listing /\ pages'.what = m /\ pages'.kept = rows
        /\ pages'.pc = "on" /\ pages'.offset = 0 /\ UNCHANGED <<cursors, envelopes>>
    <3>1. rows \in SUBSET Row
      BY DEF MailboxTypeOK, Row
    <3> QED  BY <1>1, <1>3, <3>1, ZenonT(60) DEF mailboxesListEnvelopesCmd
  <2>2. EnvelopeRows(pages)'
    BY <2>1 DEF EnvelopeRows, From, MailboxTypeOK, Envelope
  <2> QED  BY <1>0, <2>1, <2>2 DEF PagesInv
<1> QED  BY <1>2, <1>3

\* A page is shown.
LEMMA PageShown ==
  ASSUME PagesInv, NEW rows \in SUBSET Row, NEW size, NEW next \in Nat, Page(rows, size, next)
  PROVE  /\ pages' \in Listing /\ pages'.what = pages.what /\ pages'.kept = pages.kept
         /\ pages'.offset = next /\ pages'.seen = pages.seen \cup rows
         /\ pages'.pc = IF Cardinality(rows) < size THEN "end" ELSE "on"
         /\ UNCHANGED <<cursors, envelopes>>
<1> DEFINE c == IF Cardinality(rows) < size THEN "end" ELSE "on"
<1>1. c \in {"end", "on"}
  OBVIOUS
<1>2. pages' = [pages EXCEPT !.seen = pages.seen \cup rows, !.offset = next, !.pc = c]
  BY DEF Page
<1>3. UNCHANGED <<cursors, envelopes>>
  BY DEF Page, spineVars, mailboxVars
<1>4. pages \in Listing
  BY DEF PagesInv
<1> HIDE DEF c
<1>5. /\ pages' \in Listing /\ pages'.what = pages.what /\ pages'.kept = pages.kept
      /\ pages'.offset = next /\ pages'.seen = pages.seen \cup rows /\ pages'.pc = c
  BY <1>1, <1>2, <1>4, ZenonT(60) DEF Listing
<1> QED  BY <1>3, <1>5 DEF c

\* cursors list: what is neither on this page nor before has a higher number,
\* and then this page is full and not the last.
LEMMA CursorPage ==
  ASSUME PagesInv, CursorsInv, ListCursors
  PROVE  PagesInv'
<1> DEFINE D == DOMAIN cursors
           N(i) == Cardinality(Places(D, i))
           skip == pages.offset
           I == {j \in DOMAIN Order : Order[j] \in D /\ skip < N(j) /\ N(j) <= skip + PageSize}
           rows == {Order[i] : i \in I}
<1>0. /\ pages.pc = "on" /\ pages.what = "cursors" /\ "cursors" \notin Mailboxes
      /\ skip \in Nat /\ PageSize \in Nat
  BY ConsoleAssumption DEF ListCursors, PagesInv, Listing, PageSize, ConsoleAssumption
<1>1. PICK n \in Nat : DOMAIN Order = 1..n
  BY ConsoleAssumption, SMTT(60), ZenonT(60) DEF ConsoleAssumption
<1>2. \A i \in Nat : N(i) \in Nat
  BY Numbers
<1>3. \A i : RowNumber(Order, i) = N(i)
  BY ZenonT(60), SMTT(60) DEF RowNumber, Places
<1>4. Page(rows, PageSize, skip + PageSize)
  <2>1. FindRows(Order, skip, PageSize) = rows
    <3>1. I = {j \in DOMAIN Order : /\ Order[j] \in DOMAIN cursors
                                    /\ skip < RowNumber(Order, j)
                                    /\ RowNumber(Order, j) <= skip + PageSize}
      BY <1>3, SMTT(60), ZenonT(60)
    <3> HIDE DEF I
    <3> QED  BY <3>1, SMTT(60), ZenonT(60) DEF FindRows
  <2> QED  BY <2>1 DEF ListCursors, RowOrders
<1>5. rows \in SUBSET Row /\ I \in SUBSET DOMAIN Order
  BY SMTT(60), ZenonT(60) DEF CursorsInv, Row
<1>6. Cardinality(rows) = Cardinality(I)
  <2> HIDE DEF I
  <2> QED  BY <1>5, PlacesDiffer, Zenon
<1> HIDE DEF N
<1>7. /\ pages' \in Listing /\ pages'.what = pages.what /\ pages'.kept = pages.kept
      /\ pages'.offset = skip + PageSize /\ pages'.seen = pages.seen \cup rows
      /\ pages'.pc = IF Cardinality(rows) < PageSize THEN "end" ELSE "on"
      /\ UNCHANGED <<cursors, envelopes>>
  <2>1. skip + PageSize \in Nat
    BY <1>0, SMTT(60), ZenonT(60)
  <2> HIDE DEF rows
  <2> QED  BY <1>4, <1>5, <2>1, PageShown
<1>8. ASSUME NEW i \in DOMAIN Order, Order[i] \in pages.kept, Order[i] \notin pages'.seen
      PROVE  pages'.pc = "on" /\ N(i) > pages'.offset
  <2>1. Order[i] \in D /\ N(i) > skip /\ i \in Nat
    <3> HIDE DEF I
    <3>1. CursorRows(pages) /\ Order[i] \notin pages.seen
      BY <1>0, <1>7, <1>8, Zenon DEF PagesInv
    <3>2. Order[i] \in D /\ RowNumber(Order, i) > skip
      BY <1>8, <3>1, Zenon DEF CursorRows
    <3>3. i \in Nat
      BY <1>1
    <3> QED  BY <1>3, <3>2, <3>3, Zenon
  <2>2. i \notin I
    BY <1>7, <1>8
  <2>3. N(i) > skip + PageSize
    BY <1>0, <1>2, <2>1, <2>2, SMTT(60), ZenonT(60)
  <2>4. Cardinality(I) >= PageSize
    BY <1>0, <2>1, <2>3, FullPage, SMTT(60), ZenonT(60) DEF N
  <2>5. IsFiniteSet(I) /\ Cardinality(I) \in Nat
    <3>1. I \in SUBSET (1..n) /\ IsFiniteSet(1..n)
      BY <1>1, FS_Interval, SMTT(60), ZenonT(60)
    <3> QED  BY <3>1, FS_Subset, FS_CardinalityType
  <2>6. ~(Cardinality(rows) < PageSize)
    <3> HIDE DEF I, rows
    <3> QED  BY <1>0, <1>6, <2>4, <2>5
  <2> QED  BY <1>7, <2>3, <2>6, SMTT(60), ZenonT(60)
<1>9. CursorRows(pages)'
  <2>1. pages'.kept \subseteq DOMAIN cursors'
    BY <1>0, <1>7, SMTT(60), ZenonT(60) DEF PagesInv, CursorRows
  <2>2. \A i : RowNumber(Order, i)' = N(i)
    BY <1>3, <1>7, SMTT(60), ZenonT(60) DEF RowNumber
  <2> QED  BY <1>7, <1>8, <2>1, <2>2, SMTT(60), ZenonT(60) DEF CursorRows
<1> QED  BY <1>0, <1>7, <1>9 DEF PagesInv

\* list-envelopes, likewise with positions for numbers.
LEMMA EnvelopePage ==
  ASSUME PagesInv, MailboxTypeOK, ListEnvelopes
  PROVE  PagesInv'
<1> DEFINE m == pages.what
           F == From(m, pages.offset)
           limit == EnvelopePageSize
           rows == {e \in F : Rank(F, e) < limit}
           next == Max({pages.offset} \cup {e.seq + 1 : e \in rows})
<1>0. /\ pages.pc = "on" /\ m \in Mailboxes /\ "cursors" \notin Mailboxes
      /\ pages.offset \in Nat /\ limit \in Nat
  BY ConsoleAssumption DEF ListEnvelopes, PagesInv, Listing, EnvelopePageSize, ConsoleAssumption
<1>1. Page(rows, limit, next)
  <2>1. FetchEnvelopes(m, pages.offset, limit) = rows
    BY SMTT(60), ZenonT(60) DEF FetchEnvelopes, From, Rank
  <2> QED  BY <2>1, ZenonT(60) DEF ListEnvelopes
<1>2. F \in SUBSET Envelope /\ IsFiniteSet(F)
  BY FS_Subset, Zenon DEF From, MailboxTypeOK
<1> HIDE DEF F
<1>3. /\ IsFiniteSet(rows) /\ Cardinality(rows) \in Nat
      /\ \A e \in F \ rows : \A f \in rows : f.seq < e.seq
      /\ F \ rows # {} => Cardinality(rows) >= limit
  BY <1>0, <1>2, LowestOnes
<1>4. rows \in SUBSET Envelope /\ rows \in SUBSET Row
  BY <1>2, SMTT(60), ZenonT(60) DEF Row
<1> HIDE DEF rows, limit
<1>5. next \in Nat /\ next >= pages.offset /\ next \in {pages.offset} \cup {e.seq + 1 : e \in rows}
  BY <1>0, <1>3, <1>4, NextPosition, ZenonT(60)
<1> HIDE DEF next
<1>6. /\ pages' \in Listing /\ pages'.what = m /\ pages'.kept = pages.kept
      /\ pages'.offset = next /\ pages'.seen = pages.seen \cup rows
      /\ pages'.pc = IF Cardinality(rows) < limit THEN "end" ELSE "on"
      /\ UNCHANGED <<cursors, envelopes>>
  BY <1>1, <1>4, <1>5, PageShown
<1>7. ASSUME NEW e \in pages.kept, e \notin pages'.seen
      PROVE  pages'.pc = "on" /\ e.seq >= pages'.offset
  <2>1. e \in F /\ e \notin rows /\ e.seq \in Nat
    BY <1>0, <1>2, <1>6, <1>7 DEF PagesInv, EnvelopeRows, From, F, Envelope
  <2>2. ~(Cardinality(rows) < limit)
    BY <1>0, <1>3, <2>1, SMTT(60), ZenonT(60)
  <2>3. \A f \in rows : f.seq < e.seq /\ f.seq \in Nat
    BY <1>3, <1>4, <2>1 DEF Envelope
  <2>4. e.seq >= pages.offset
    BY <2>1 DEF F, From
  <2>5. e.seq >= next
    BY <1>0, <1>5, <2>1, <2>3, <2>4, SMTT(60), ZenonT(60)
  <2> QED  BY <1>6, <2>2, <2>5
<1>8. EnvelopeRows(pages)'
  BY <1>0, <1>6, <1>7 DEF PagesInv, EnvelopeRows, From
<1> QED  BY <1>0, <1>6, <1>8, SMTT(60), ZenonT(60) DEF PagesInv

\* Rows are deleted: of the rows of a mailbox those that are gone were not
\* there all along, and after a deletion of cursors none counts.
LEMMA RowsDeleted ==
  ASSUME PagesInv, CursorsInv, CursorsInv', CommandInv, MailboxTypeOK,
         DeleteServer \/ ClearOutbox \/ PurgeExpiredCmd \/ OtherOperator
  PROVE  PagesInv'
<1>0. /\ pages \in Listing /\ "cursors" \notin Mailboxes
      /\ \A e \in envelopes : e \in Envelope
  BY ConsoleAssumption DEF PagesInv, MailboxTypeOK, ConsoleAssumption
<1>1. ASSUME NEW X, pages' = [pages EXCEPT !.kept = pages.kept \cap X]
      PROVE  /\ pages' \in Listing /\ pages'.what = pages.what /\ pages'.pc = pages.pc
             /\ pages'.kept = pages.kept \cap X /\ pages'.offset = pages.offset
             /\ pages'.seen = pages.seen
  BY <1>0, <1>1 DEF Listing
<1>2. ASSUME NEW s, DeleteServerCursors(s), UNCHANGED mailboxVars  PROVE PagesInv'
  <2>1. PICK left \in SUBSET DOMAIN cursors :
          /\ cursors' = [k \in left |-> cursors[k]]
          /\ pages' = IF pages.what = "cursors" /\ left # DOMAIN cursors
                      THEN [pages EXCEPT !.kept = {}] ELSE pages
          /\ UNCHANGED envelopes
    BY <1>2 DEF DeleteServerCursors, mailboxVars
  <2>2. CASE pages.what = "cursors" /\ left # DOMAIN cursors
    <3>1. pages' = [pages EXCEPT !.kept = pages.kept \cap {}]
      BY <2>1, <2>2
    <3>2. /\ pages' \in Listing /\ pages'.what = "cursors" /\ pages'.kept = {}
      BY <1>1, <2>2, <3>1, SMTT(60), ZenonT(60)
    <3> QED  BY <1>0, <3>2, SMTT(60), ZenonT(60) DEF PagesInv, CursorRows
  <2>3. CASE pages.what = "cursors" /\ left = DOMAIN cursors
    <3>1. pages' = pages /\ DOMAIN cursors' = DOMAIN cursors
      BY <2>1, <2>3
    <3>2. \A i : RowNumber(Order, i)' = RowNumber(Order, i)
      BY <3>1 DEF RowNumber
    <3> QED  BY <1>0, <2>3, <3>1, <3>2 DEF PagesInv, CursorRows
  <2>4. CASE pages.what # "cursors"
    BY <2>1, <2>4 DEF PagesInv, EnvelopeRows, From
  <2> QED  BY <2>2, <2>3, <2>4
<1>3. ASSUME NEW m, \A e \in envelopes : e.mb # m => e \in envelopes', UNCHANGED cursors,
             KeepsListing(m), pages.what = "cursors" => m \in Mailboxes
      PROVE  PagesInv'
  <2>1. CASE pages.what = m /\ m \in Mailboxes
    <3>1. pages' = [pages EXCEPT !.kept = pages.kept \cap envelopes']
      BY <1>3, <2>1 DEF KeepsListing
    <3>2. /\ pages' \in Listing /\ pages'.what = pages.what /\ pages'.pc = pages.pc
          /\ pages'.kept = pages.kept \cap envelopes' /\ pages'.offset = pages.offset
          /\ pages'.seen = pages.seen
      BY <1>1, <3>1
    <3>3. EnvelopeRows(pages)'
      BY <2>1, <3>2, SMTT(60), ZenonT(60) DEF PagesInv, EnvelopeRows, From
    <3> QED  BY <1>0, <2>1, <3>2, <3>3 DEF PagesInv
  <2>2. CASE pages.what = m /\ m \notin Mailboxes
    <3>1. pages' = [pages EXCEPT !.kept = pages.kept \cap envelopes']
      BY <1>3, <2>2 DEF KeepsListing
    <3>2. /\ pages' \in Listing /\ pages'.what = pages.what
          /\ pages'.kept = pages.kept \cap envelopes'
      BY <1>1, <3>1
    <3> QED  BY <1>3, <2>2, <3>2 DEF PagesInv
  <2>3. CASE pages.what # m
    <3>1. pages' = pages
      BY <1>3, <2>3, SMTT(60), ZenonT(60) DEF KeepsListing
    <3>2. pages.what = "cursors" => CursorRows(pages)'
      BY <1>3, <3>1, SMTT(60), ZenonT(60) DEF PagesInv, CursorRows, RowNumber
    <3>3. pages.what \in Mailboxes => EnvelopeRows(pages)'
      BY <1>3, <2>3, <3>1, Zenon DEF PagesInv, EnvelopeRows, From
    <3> QED  BY <3>1, <3>2, <3>3 DEF PagesInv
  <2> QED  BY <2>1, <2>2, <2>3, SMTT(60), ZenonT(60)
<1>4. ASSUME UNCHANGED <<pages, cursors, envelopes>>  PROVE PagesInv'
  BY <1>4 DEF PagesInv, CursorRows, EnvelopeRows, From, RowNumber
<1>5. CASE ClearOutbox
  <2>1. CASE ClearDelete(cmd.key[2]) /\ KeepsListing(cmd.key[2])
    <3>1. cmd.key[2] \in Mailboxes
      BY <2>1, MailboxAssumption, SMTT(60), ZenonT(60) DEF ClearDelete, MailboxAssumption
    <3>2. \A e \in envelopes : e.mb # cmd.key[2] => e \in envelopes'
      BY <2>1 DEF ClearDelete
    <3> QED  BY <1>3, <1>5, <2>1, <3>1, <3>2, SMTT(60), ZenonT(60) DEF ClearOutbox
  <2>2. CASE (ClearReset(cmd.key[2]) \/ ClearFails(cmd.key[2])) /\ UNCHANGED pages
    BY <1>4, <1>5, <2>2 DEF ClearReset, ClearFails, ClearOutbox
  <2> QED  BY <1>5, <2>1, <2>2 DEF ClearOutbox
<1>6. CASE PurgeExpiredCmd
  <2>1. ASSUME NEW X, PurgeExpired(cmd.key[2], X), KeepsListing(cmd.key[2])  PROVE PagesInv'
    <3>1. \A e \in envelopes : e.mb # cmd.key[2] => e \in envelopes'
      BY <2>1, SMTT(60), ZenonT(60) DEF PurgeExpired
    <3>2. cmd.key[2] \in Mailboxes
      BY <1>6, SMTT(60), ZenonT(60) DEF PurgeExpiredCmd, Called, CommandInv, Key
    <3> QED  BY <1>3, <1>6, <2>1, <3>1, <3>2 DEF PurgeExpiredCmd
  <2>2. CASE UNCHANGED <<mailboxVars, pages>>
    BY <1>4, <1>6, <2>2 DEF PurgeExpiredCmd, mailboxVars
  <2> QED  BY <1>6, <2>1, <2>2, SMTT(60), ZenonT(60) DEF PurgeExpiredCmd
<1>7. CASE DeleteServer
  BY <1>2, <1>7 DEF DeleteServer, spineVars
<1>8. CASE OtherOperator
  <2>1. ASSUME NEW k, NEW n, ResetCursor(k, n), UNCHANGED <<pages, mailboxVars>>  PROVE PagesInv'
    <3>1. DOMAIN cursors \subseteq DOMAIN cursors' /\ pages' = pages /\ envelopes' = envelopes
      BY <2>1 DEF ResetCursor, SetCursor, mailboxVars
    <3> QED  BY <3>1, PagesStay
  <2>2. ASSUME NEW m \in Mailboxes, NEW X, PurgeExpired(m, X), KeepsListing(m), UNCHANGED cursors
        PROVE  PagesInv'
    <3>1. \A e \in envelopes : e.mb # m => e \in envelopes'
      BY <2>2, SMTT(60), ZenonT(60) DEF PurgeExpired
    <3> QED  BY <1>3, <2>2, <3>1
  <2> QED  BY <1>2, <1>8, <2>1, <2>2, ZenonT(60) DEF OtherOperator
<1> QED  BY <1>5, <1>6, <1>7, <1>8, SMTT(60), ZenonT(60)
-----------------------------------------------------------------------------
(* All together *)

\* A command never changes the store but by clearing and purging, and the
\* publishers only add to it.
LEMMA ConsoleStores ==
  ASSUME RouteInv, CommandInv, MailboxTypeOK, [ConsoleNext]_<<spineVars, consoleVars>>
  PROVE  /\ [OpenStep]_mailboxVars
         /\ \/ ClearOutbox \/ PurgeExpiredCmd \/ OtherOperator
            \/ envelopes \subseteq envelopes'
<1> DEFINE Goal == /\ [OpenStep]_mailboxVars
                   /\ \/ ClearOutbox \/ PurgeExpiredCmd \/ OtherOperator
                      \/ envelopes \subseteq envelopes'
<1> SUFFICES Goal
  OBVIOUS
<1>1. ASSUME UNCHANGED mailboxVars  PROVE Goal
  BY <1>1 DEF mailboxVars
<1>2. CASE UNCHANGED <<spineVars, consoleVars>>
  BY <1>1, <1>2 DEF spineVars
<1>3. CASE Call
  <2>1. ASSUME NEW r, NEW q, Request(r, q)  PROVE UNCHANGED mailboxVars
    BY <2>1 DEF Request
  <2> QED
    BY <1>1, <1>3, <2>1 DEF Call, SdkPublish, newPublishCmd, SubscribeFrame, newSubscribeCmd
<1>4. CASE RoutingStep
  <2>1. ASSUME NEW r \in Resolvers, ResolverStep(r)  PROVE UNCHANGED mailboxVars
    BY <2>1, Zenon
    DEF ResolverStep, FindOne, InsertMailbox, InsertMailboxFails, FindAgain, FindFails,
              resolveBroadcastTarget, Unsupported, ResolveFails
  <2>2. ASSUME NEW p \in Publishers, NEW i \in Ids, PublishResolved(p, i)  PROVE Goal
    <3>1. res[p].got \in SUBSET Mailboxes
      BY Zenon DEF RouteInv, Sound, Owing, Made, Resolvers
    <3>2. Publish(p, i, res[p].got)
      BY <2>2 DEF PublishResolved
    <3>3. OpenStep
      BY <3>1, <3>2, ZenonT(60) DEF OpenStep
    <3>4. envelopes' = envelopes
      BY <3>2 DEF Publish
    <3> QED  BY <3>3, <3>4
  <2>3. ASSUME NEW s \in Subscribers, HandleSubscribe(s)  PROVE UNCHANGED mailboxVars
    BY <2>3 DEF HandleSubscribe
  <2>4. ASSUME NEW p \in Publishers, PublishGoesOn(p)  PROVE Goal
    <3>1. PublisherStep(p)
      BY <2>4 DEF PublishGoesOn
    <3>2. OpenStep
      BY <3>1 DEF OpenStep
    <3>3. envelopes \subseteq envelopes'
      BY <3>1, ZenonT(60)
      DEF PublisherStep, AllocSeq, AllocFails, InsertOne, InsertFails, PublishReturns, Reply
    <3> QED  BY <3>2, <3>3
  <2> QED  BY <1>1, <1>4, <2>1, <2>2, <2>3, <2>4 DEF RoutingStep
<1>5. ASSUME NEW s, NEW e, AutoAck(s, e)  PROVE Goal
  BY <1>1, <1>5 DEF AutoAck, spineVars
<1>6. CASE ConsoleCrash
  <2>1. MailboxCrash
    BY <1>6 DEF ConsoleCrash, RoutingCrash
  <2>2. OpenStep /\ envelopes' = envelopes
    BY <2>1 DEF OpenStep, MailboxCrash
  <2> QED  BY <2>2
<1>7. CASE ConsoleStep
  <2>1. CASE ClearOutbox
    <3>1. Clearable \subseteq Mailboxes /\ clearing \subseteq Mailboxes
      BY MailboxAssumption DEF MailboxTypeOK, MailboxAssumption
    <3>2. OpenStep
      BY <2>1, <3>1 DEF ClearOutbox, OpenStep, ClearDelete, ClearReset, ClearFails
    <3> QED  BY <2>1, <3>2
  <2>2. CASE PurgeExpiredCmd
    <3>1. cmd.key[2] \in Mailboxes
      BY <2>2 DEF PurgeExpiredCmd, Called, CommandInv, Key
    <3>2. [OpenStep]_mailboxVars
      BY <2>2, <3>1, Zenon DEF PurgeExpiredCmd, OpenStep
    <3> QED  BY <2>2, <3>2, SMTT(60), ZenonT(60)
  <2> QED  BY <1>1, <1>7, <2>1, <2>2, ConsoleApart
<1>8. CASE OtherOperator
  <2>1. [OpenStep]_mailboxVars
    BY <1>8, Zenon DEF OtherOperator, OpenStep
  <2> QED  BY <1>8, <2>1, Zenon
<1> HIDE DEF Goal
<1> QED  BY <1>2, <1>3, <1>4, <1>5, <1>6, <1>7, <1>8 DEF ConsoleNext

\* The store stays in order.
LEMMA StoreInvStep ==
  ASSUME StoreInv, [OpenStep]_mailboxVars
  PROVE  StoreInv'
<1>1. PositionsInv'
  BY PositionsOpen DEF StoreInv
<1>2. (envelopes \subseteq published)'
  BY ZenonT(60) DEF StoreInv, OpenStep, PublisherStep, mailboxVars, Publish, AllocSeq, AllocFails,
         InsertOne, InsertFails, PublishReturns, Reply, ClearDelete, ClearReset, ClearFails,
         PurgeExpired, MailboxCrash
<1> QED  BY <1>1, <1>2 DEF StoreInv

\* A step leaves the listing as the rows of the database require.
LEMMA PagesStep ==
  ASSUME RouteInv, StoreInv, ConsoleInv, PagesInv, [ConsoleNext]_<<spineVars, consoleVars>>
  PROVE  PagesInv'
<1>0. CursorsInv /\ CursorsInv' /\ CommandInv /\ MailboxTypeOK
  BY ConsoleInvStep DEF ConsoleInv, StoreInv, PositionsInv
<1>1. ClearOutbox \/ PurgeExpiredCmd \/ OtherOperator \/ envelopes \subseteq envelopes'
  BY <1>0, ConsoleStores
<1>2. CASE DeleteServer \/ ClearOutbox \/ PurgeExpiredCmd \/ OtherOperator
  BY <1>0, <1>2, RowsDeleted
<1> SUFFICES ASSUME ~DeleteServer, ~ClearOutbox, ~PurgeExpiredCmd, ~OtherOperator
             PROVE  PagesInv'
  BY <1>2
<1>3. ASSUME pages' = pages, DOMAIN cursors \subseteq DOMAIN cursors'  PROVE PagesInv'
  BY <1>0, <1>1, <1>3, PagesStay
<1>4. CASE UNCHANGED <<pages, cursors>>
  BY <1>3, <1>4, SMTT(60), ZenonT(60)
<1>5. ASSUME NEW s \in Subscribers, NEW e \in published, AutoAck(s, e)  PROVE PagesInv'
  <2>1. e.seq \in Nat /\ <<s, e.mb>> \in Key
    BY SMTT(60), ZenonT(60) DEF StoreInv, PositionsInv, MailboxTypeOK, Envelope, Key
  <2>2. UpdateAckPosition(<<s, e.mb>>, e.seq) /\ pages' = pages
    BY <1>5 DEF AutoAck
  <2> QED  BY <1>0, <1>3, <2>1, <2>2, CursorAcked
<1>6. CASE Reset
  <2>1. UNCHANGED cursors \/ SetCursor(cmd.key, cmd.seq)
    BY <1>6 DEF Reset, ResetCursor
  <2>2. pages' = pages
    BY <1>6 DEF Reset
  <2>3. SetCursor(cmd.key, cmd.seq) => DOMAIN cursors \subseteq DOMAIN cursors'
    BY DEF SetCursor
  <2> QED  BY <1>3, <2>1, <2>2, <2>3
<1>7. CASE AckCommand
  <2>1. UpdateAckPosition(cmd.key, cmd.seq) /\ pages' = pages
    BY <1>7 DEF AckCommand
  <2>2. DOMAIN cursors \subseteq DOMAIN cursors'
    BY <2>1 DEF UpdateAckPosition, SetCursor
  <2> QED  BY <1>3, <2>1, <2>2
<1>8. CASE ListCursors \/ ListEnvelopes \/ ListingEnds
  BY <1>0, <1>8, CursorPage, EnvelopePage, PagesOff DEF ListingEnds
<1>9. CASE ConsoleCrash
  BY <1>9, PagesOff DEF ConsoleCrash
<1>10. CASE CallFails \/ CommandEnds \/ GetCursor \/ GetMailbox \/ MailboxDetail
  BY <1>4, <1>10, Zenon DEF CallFails, CommandEnds, GetCursor, GetMailbox, MailboxDetail
<1>11. ASSUME NEW v, NEW k, NEW n, Type(v, k, n)  PROVE PagesInv'
  BY <1>4, <1>11 DEF Type
<1>12. ASSUME NEW k \in Key,
              \/ cursorsGetCmd(k) \/ cursorsDeleteServerCmd(k[1])
              \/ \E n \in Positions : cursorsResetCmd(k, n) \/ newAckCmd(k, n)
              \/ mailboxesGetCmd(k) \/ mailboxesClearOutboxCmd(k)
              \/ mailboxesPurgeExpiredCmd(k)
       PROVE  PagesInv'
  BY <1>11, <1>12, SMTT(60), ZenonT(60)
  DEF cursorsGetCmd, cursorsDeleteServerCmd, cursorsResetCmd, newAckCmd,
                      mailboxesGetCmd, mailboxesClearOutboxCmd, mailboxesPurgeExpiredCmd
<1>13. CASE ConsoleStep
  BY <1>0, <1>6, <1>7, <1>8, <1>10, <1>12, <1>13, ListingBegins DEF ConsoleStep
<1> QED
  BY <1>4, <1>5, <1>9, <1>13 DEF ConsoleNext, consoleVars
-----------------------------------------------------------------------------
(* Types *)

\* Mailboxes are made for single targets, and subscribed to once they exist.
PlacesInv ==
  /\ \A m \in Mailboxes : doc[m] # None => doc[m].type \in Single
  /\ subscribed \in [Subscribers -> SUBSET Existing]

\* Every step of the Spine and of its operator preserves PlacesInv.
LEMMA PlacesStep ==
  ASSUME RouteInv, PlacesInv, [ConsoleNext]_<<spineVars, consoleVars>>
  PROVE  PlacesInv'
<1>1. ASSUME UNCHANGED <<doc, subscribed>>  PROVE PlacesInv'
  BY <1>1 DEF PlacesInv, Existing
<1>2. CASE UNCHANGED <<spineVars, consoleVars>>
  BY <1>1, <1>2 DEF spineVars, routingVars
<1>3. CASE Call
  <2>1. ASSUME NEW r, NEW q, Request(r, q)  PROVE UNCHANGED <<doc, subscribed>>
    BY <2>1 DEF Request
  <2> QED
    BY <1>1, <1>3, <2>1 DEF Call, SdkPublish, newPublishCmd, SubscribeFrame, newSubscribeCmd
<1>4. ASSUME NEW r \in Resolvers, InsertMailbox(r)  PROVE PlacesInv'
  <2> DEFINE R == res[r]
             m == R.new
             t == Head(R.left)
  <2>1. Sound(R, doc) /\ R \in Resolution /\ R.pc = "insert" /\ DocInv(doc)
    BY <1>4, Zenon DEF RouteInv, Sound, Owing, InsertMailbox
  <2>2. m \in Mailboxes /\ doc[m] = None
    BY <2>1, Zenon DEF Sound, Resolution, Made
  <2>3. t.type \in Single
    BY <2>1, ZenonT(60) DEF Sound, Owing
  <2>4. doc' = [doc EXCEPT ![m] = t] /\ subscribed' = subscribed
    BY <1>4 DEF InsertMailbox, Target
  <2> HIDE DEF m, t
  <2>5. \A n \in Mailboxes : doc'[n] = IF n = m THEN t ELSE doc[n]
    BY <2>1, <2>2, <2>4, ZenonT(60) DEF DocInv
  <2>6. \A n \in Mailboxes : doc'[n] # None => doc'[n].type \in Single
    BY <2>3, <2>5, SMTT(60), ZenonT(60) DEF PlacesInv
  <2>7. Existing \subseteq Existing'
    BY <2>2, <2>5 DEF Existing
  <2> QED  BY <2>4, <2>6, <2>7 DEF PlacesInv
<1>5. ASSUME NEW r \in Resolvers, ResolverStep(r), ~InsertMailbox(r)
      PROVE  UNCHANGED <<doc, subscribed>>
  BY <1>5, Zenon DEF ResolverStep, FindOne, InsertMailboxFails, FindAgain, FindFails,
            resolveBroadcastTarget, Unsupported, ResolveFails
<1>6. ASSUME NEW s \in Subscribers, HandleSubscribe(s)  PROVE PlacesInv'
  <2>1. res[s].got \subseteq Existing
    BY ZenonT(60) DEF RouteInv, Sound, Owing, Made, Existing, Resolvers
  <2>2. doc' = doc /\ Existing' = Existing
    BY <1>6 DEF HandleSubscribe, Existing
  <2>3. subscribed' = [subscribed EXCEPT ![s] = subscribed[s] \cup res[s].got]
    BY <1>6, SMTT(60), ZenonT(60) DEF HandleSubscribe
  <2>4. subscribed' \in [Subscribers -> SUBSET Existing]
    BY <2>1, <2>3 DEF PlacesInv
  <2> QED  BY <2>2, <2>4 DEF PlacesInv
<1>7. CASE RoutingStep
  <2>1. \A p \in Publishers : PublishGoesOn(p) \/ (\E i \in Ids : PublishResolved(p, i)) =>
          UNCHANGED <<doc, subscribed>>
    BY SMTT(60), ZenonT(60) DEF PublishGoesOn, PublishResolved
  <2> QED  BY <1>1, <1>4, <1>5, <1>6, <1>7, <2>1, SMTT(60), ZenonT(60) DEF RoutingStep
<1>8. ASSUME NEW s, NEW e, AutoAck(s, e)  PROVE PlacesInv'
  BY <1>1, <1>8 DEF AutoAck, spineVars, routingVars
<1>9. CASE ConsoleCrash
  <2>1. doc' = doc /\ subscribed' = [s \in Subscribers |-> {}]
    BY <1>9 DEF ConsoleCrash, RoutingCrash
  <2> QED  BY <2>1 DEF PlacesInv
<1>10. CASE ConsoleStep
  BY <1>1, <1>10, ConsoleApart DEF routingVars
<1>11. CASE OtherOperator
  BY <1>1, <1>11 DEF OtherOperator, routingVars
<1> QED
  BY <1>2, <1>3, <1>7, <1>8, <1>9, <1>10, <1>11 DEF ConsoleNext

-----------------------------------------------------------------------------
(* The theorems *)

SpineInv == RouteInv /\ StoreInv /\ ConsoleInv /\ PagesInv /\ PlacesInv

\* An empty database, a console that is free.
LEMMA SpineInitially == ConsoleInit => SpineInv
<1> SUFFICES ASSUME ConsoleInit  PROVE SpineInv
  OBVIOUS
<1>1. RouteInv /\ PositionsInv
  BY RouteInit, PositionsInitially DEF ConsoleInit
<1>2. StoreInv
  BY <1>1 DEF StoreInv, ConsoleInit, MailboxInit
<1>3. cursors = <<>> /\ cmd = NoCommand /\ pages = NoListing
  BY DEF ConsoleInit
<1>4. CursorsInv
  BY <1>3, SMTT(60), ZenonT(60) DEF CursorsInv
<1>5. NoCommand \in Command /\ NoCommand.pc = "idle" /\ NoCommand.verb = None /\ NoCommand.last = 0
  BY SMTT(60), ZenonT(60) DEF NoCommand, Command
<1>6. ConsoleInv
  BY <1>3, <1>4, <1>5, SMTT(60), ZenonT(60)
  DEF ConsoleInv, CommandInv, InflightCovers
<1>7. NoListing \in Listing /\ NoListing.kept = {}
  BY ZenonT(60), SMTT(60) DEF NoListing, Listing
<1>8. PagesInv
  BY <1>3, <1>7 DEF PagesInv, CursorRows, EnvelopeRows
<1>9. PlacesInv
  BY DEF PlacesInv, ConsoleInit, RoutingInit
<1> QED  BY <1>1, <1>2, <1>6, <1>8, <1>9 DEF SpineInv

\* Every step keeps the invariant.
LEMMA SpineStep ==
  ASSUME SpineInv, [ConsoleNext]_<<spineVars, consoleVars>>
  PROVE  SpineInv'
<1>1. RouteInv /\ StoreInv /\ ConsoleInv /\ PagesInv /\ PlacesInv /\ CommandInv /\ MailboxTypeOK
  BY DEF SpineInv, ConsoleInv, StoreInv, PositionsInv
<1>2. StoreInv'
  BY <1>1, ConsoleStores, StoreInvStep
<1> QED  BY <1>1, <1>2, RouteStep, ConsoleInvStep, PagesStep, PlacesStep DEF SpineInv

\* The invariants of the store, of the commands and of the listings hold
\* together.
LEMMA SpineAlways == ConsoleSpec => []SpineInv
  BY SpineInitially, SpineStep, PTL DEF ConsoleSpec

\* The collections, the resolvers and the console are well formed.
THEOREM ConsoleTypeCorrect == ConsoleSpec => []ConsoleTypeOK
<1>1. SpineInv => ConsoleTypeOK
  <2> SUFFICES ASSUME SpineInv PROVE ConsoleTypeOK
    OBVIOUS
  <2>1. MailboxTypeOK /\ DocInv(doc) /\ PlacesInv /\ CursorsInv /\ cmd \in Command
          /\ pages \in Listing
    BY ZenonT(60) DEF SpineInv, StoreInv, PositionsInv, RouteInv, ConsoleInv, CommandInv, PagesInv
  <2>2. doc \in [Mailboxes -> [type : Single, id : STRING, org : STRING] \cup {None}]
    BY <2>1 DEF DocInv, PlacesInv, Address
  <2>3. ASSUME NEW r \in Resolvers
        PROVE  /\ res[r].pc \in {"idle", "find", "insert", "again", "done"}
               /\ res[r].new # None => res[r].new \in Mailboxes \ Existing
               /\ res[r].got \subseteq Existing
    BY Zenon DEF SpineInv, RouteInv, Sound, Owing, Resolution, Made, Existing
  <2> QED
    BY <2>1, <2>2, <2>3 DEF ConsoleTypeOK, PlacesInv, CursorsInv, Command, Listing
<1> QED  BY <1>1, SpineAlways, PTL

\* The inflight count of cursors get and the next_seq of mailboxes get never
\* hide a backlog, however much is published, acknowledged, purged, deleted or
\* reset between the two reads, by other operators too.
THEOREM InflightIsCovered == ConsoleSpec => []InflightCovers
<1>1. SpineInv => InflightCovers
  BY DEF SpineInv, ConsoleInv
<1> QED  BY <1>1, SpineAlways, PTL

\* Paging with --offset or --from-seq to the end misses no row that was there
\* all along (ListCursors, FetchEnvelopes), for any page size and any number
\* of rows.
THEOREM PagesAreComplete == ConsoleSpec => []PagesCover
<1>1. SpineInv => PagesCover
  BY PagesEnd DEF SpineInv, ConsoleInv
<1> QED  BY <1>1, SpineAlways, PTL
=============================================================================
