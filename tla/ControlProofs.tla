---------------------------- MODULE ControlProofs ----------------------------
(***************************************************************************)
(* The protocols of the control plane, for any number of Relays, Homes,    *)
(* processes, connections, snapshots, approvals, failures and restarts.    *)
(* One part per component: a component's steps leave the others at rest    *)
(* (the lemmas named Turn), its invariant holds while it is chosen         *)
(* (Always), and the properties of the run follow.                         *)
(***************************************************************************)
EXTENDS ControlPlane, AuthorizationProofs, FiniteSetTheorems, FunctionTheorems, SequenceTheorems, TLAPS

-----------------------------------------------------------------------------
(* The control session of a Home (module HomeSession).                      *)

\* The variables by the names that HomeSession has for them; so in each part.
sRegistry == v1
sGranted == v2
sAck == v3
sConn == v4
sHome == v5
sCommand == v6
sFaults == v7
USE DEF sRegistry, sGranted, sAck, sConn, sHome, sCommand, sFaults

LEMMA SessionTurn ==
  ASSUME [ControlNext]_<<vars, shared, comp>>, comp' = "session"
  PROVE  comp = "session" /\ [Session!Next]_(Session!vars)
  BY DEF ControlNext, DirectoryStep, LoginStep, TrustStep, NewHomeStep, RemoteStep,
         HomesStep, SessionStep, shared, Session!vars

LEMMA SessionTypeInit ==
  ASSUME Session!Init
  PROVE  Session!TypeOK
<1>1. Session!NewConn \in Session!Conn
  BY EmptySeq, SessionConstants DEF Session!NewConn, Session!Conn
<1> QED
  BY <1>1, SessionConstants
     DEF Session!Init, Session!TypeOK, Session!NewRegistry, Session!Loaded, Session!Home

LEMMA SessionMessages ==
  /\ \A g \in HomeCatalogs : [kind |-> "register", catalog |-> g] \in Session!Message
  /\ \A n \in 1..MaxGrants : [kind |-> "snapshot", generation |-> n] \in Session!Message
  /\ \A n \in 1..MaxGrants : [kind |-> "ack", generation |-> n] \in Session!Message
  /\ [kind |-> "command"] \in Session!Message /\ [kind |-> "result"] \in Session!Message
  BY DEF Session!Message

LEMMA SessionKinds ==
  ASSUME NEW m \in Session!Message
  PROVE  /\ m.kind = "register" => m.catalog \in HomeCatalogs
         /\ m.kind \in {"ack", "snapshot"} => m.generation \in 1..MaxGrants
  BY DEF Session!Message

LEMMA OneOfSeq ==
  ASSUME NEW S, NEW q \in Seq(S)
  PROVE  /\ \A e \in S : Append(q, e) \in Seq(S)
         /\ q # <<>> => Head(q) \in S /\ Tail(q) \in Seq(S)
  BY HeadTailProperties, AppendProperties

\* A step that changes one connection.
LEMMA SessionOneConn ==
  ASSUME Session!TypeOK, NEW c \in HomeConns, NEW r \in Session!Conn,
         sConn' = [sConn EXCEPT ![c] = r]
  PROVE  sConn' \in [HomeConns -> Session!Conn]
  BY DEF Session!TypeOK

\* Setting fields of the Home.
LEMMA SessionHome ==
  ASSUME NEW h \in Session!Home
  PROVE  /\ Session!Parted(h) \in Session!Home
         /\ [Session!Parted(h) EXCEPT !.run = FALSE] \in Session!Home
         /\ \A n \in 0..MaxGrants : [h EXCEPT !.cache = n, !.stored = n] \in Session!Home
         /\ \A n \in 0..MaxGrants :
              [h EXCEPT !.applied = n, !.stored = 0, !.stage = "running"] \in Session!Home
         /\ \A g \in HomeCatalogs, n \in 0..MaxGrants : Session!Loaded(g, n) \in Session!Home
<1>1. PICK zero \in 0..MaxGrants : zero = 0
  BY SessionConstants
<1>2. Session!Parted(h) \in Session!Home
  BY <1>1 DEF Session!Parted, Session!Home
<1>3. [Session!Parted(h) EXCEPT !.run = FALSE] \in Session!Home
  BY <1>2 DEF Session!Home
<1>4. \A n \in 0..MaxGrants : [h EXCEPT !.cache = n, !.stored = n] \in Session!Home
  BY DEF Session!Home
<1>5. \A n \in 0..MaxGrants :
        [h EXCEPT !.applied = n, !.stored = 0, !.stage = "running"] \in Session!Home
  BY <1>1 DEF Session!Home
<1>6. \A g \in HomeCatalogs, n \in 0..MaxGrants : Session!Loaded(g, n) \in Session!Home
  BY <1>1 DEF Session!Loaded, Session!Home
<1> QED BY <1>2, <1>3, <1>4, <1>5, <1>6

\* Setting one field of one connection.
LEMMA SessionField ==
  ASSUME Session!TypeOK, NEW c \in HomeConns, NEW q \in Seq(Session!Message)
  PROVE  /\ [sConn EXCEPT ![c].toServer = q] \in [HomeConns -> Session!Conn]
         /\ [sConn EXCEPT ![c].toHome = q] \in [HomeConns -> Session!Conn]
<1>1. [sConn[c] EXCEPT !.toServer = q] \in Session!Conn /\ [sConn[c] EXCEPT !.toHome = q] \in Session!Conn
  BY DEF Session!TypeOK, Session!Conn
<1> QED BY <1>1 DEF Session!TypeOK

LEMMA SessionClosed ==
  ASSUME Session!TypeOK, NEW c \in HomeConns
  PROVE  Session!Closed(c) \in [HomeConns -> Session!Conn]
<1>1. Session!NewConn \in Session!Conn
  BY EmptySeq, SessionConstants DEF Session!NewConn, Session!Conn
<1>2. \A r \in Session!Conn : [r EXCEPT !.up = FALSE, !.toHome = <<>>] \in Session!Conn
  BY EmptySeq DEF Session!Conn
<1> QED BY <1>1, <1>2 DEF Session!Closed, Session!TypeOK

LEMMA SessionEnded ==
  ASSUME Session!TypeOK, NEW c \in HomeConns
  PROVE  Session!Ended(c) \in Session!Conn
<1>1. Session!NewConn \in Session!Conn
  BY EmptySeq, SessionConstants DEF Session!NewConn, Session!Conn
<1>2. \A q \in Seq(Session!Message) :
        [Session!NewConn EXCEPT !.task = "ended", !.toHome = q] \in Session!Conn
  BY <1>1 DEF Session!Conn
<1>3. sConn[c].toHome \in Seq(Session!Message)
  BY DEF Session!TypeOK, Session!Conn
<1> QED BY <1>1, <1>2, <1>3 DEF Session!Ended

LEMMA SessionTypeHome ==
  ASSUME Session!TypeOK,
         \/ \E c \in HomeConns : Session!Dial(c)
         \/ Session!HomeStores \/ Session!HomeShows \/ Session!HomeSends
         \/ Session!HomeAnswered \/ Session!SessionFails \/ Session!Submit \/ Session!Stop
         \/ \E config \in HomeCatalogs : Session!Restart(config)
  PROVE  Session!TypeOK'
<1>t. /\ sHome \in Session!Home /\ sConn \in [HomeConns -> Session!Conn]
      /\ sHome.control # Absent => sHome.control \in HomeConns
      /\ \A c \in HomeConns : /\ sConn[c].toHome \in Seq(Session!Message)
                              /\ sConn[c].toServer \in Seq(Session!Message)
  BY DEF Session!TypeOK, Session!Home, Session!Conn
<1>1. ASSUME NEW c \in HomeConns, Session!Dial(c) PROVE Session!TypeOK'
  <2>1. <<[kind |-> "register", catalog |-> sHome.config]>> \in Seq(Session!Message)
    BY <1>t, SessionMessages DEF Session!Home
  <2>2. \A q \in Seq(Session!Message) :
          [Session!NewConn EXCEPT !.task = "accepted", !.up = TRUE, !.toServer = q] \in Session!Conn
    <3>1. PICK zero \in 0..MaxGrants : zero = 0
      BY SessionConstants
    <3> QED BY <3>1, EmptySeq DEF Session!NewConn, Session!Conn
  <2>3. sConn' \in [HomeConns -> Session!Conn]
    BY <1>1, <2>1, <2>2, SessionOneConn DEF Session!Dial
  <2>4. sHome' \in Session!Home
    BY <1>1, <1>t DEF Session!Dial, Session!Home
  <2> QED BY <1>1, <2>3, <2>4 DEF Session!Dial, Session!TypeOK
<1>2. CASE Session!HomeStores
  <2> DEFINE c == sHome.control
             m == Head(sConn[c].toHome)
  <2>1. c \in HomeConns /\ sConn[c].toHome # <<>> /\ m.kind = "snapshot"
    BY <1>2, <1>t DEF Session!HomeStores, Session!Reads
  <2>2. m \in Session!Message /\ Tail(sConn[c].toHome) \in Seq(Session!Message)
    BY <1>t, <2>1, OneOfSeq
  <2>3. m.generation \in 1..MaxGrants
    BY <2>1, <2>2, SessionKinds
  <2>4. sHome' = [sHome EXCEPT !.cache = m.generation, !.stored = m.generation]
    BY <1>2 DEF Session!HomeStores
  <2>5. sConn' = [sConn EXCEPT ![c].toHome = Tail(@)]
    BY <1>2 DEF Session!HomeStores, Session!Read
  <2>6. UNCHANGED <<sRegistry, sGranted, sAck, sCommand, sFaults>>
    BY <1>2 DEF Session!HomeStores
  <2> HIDE DEF m
  <2>7. sHome' \in Session!Home
    <3>1. m.generation \in 0..MaxGrants
      BY <2>3, SessionConstants
    <3> QED BY <1>t, <2>4, <3>1, SessionHome
  <2>8. sConn' \in [HomeConns -> Session!Conn]
    BY <2>1, <2>2, <2>5, SessionField
  <2> QED BY <2>6, <2>7, <2>8 DEF Session!TypeOK
<1>3. CASE Session!HomeShows
  <2>1. sHome.control \in HomeConns /\ sHome.stored \in 1..MaxGrants
    BY <1>3, <1>t, SessionConstants DEF Session!HomeShows, Session!Home
  <2>2. Append(sConn[sHome.control].toServer, [kind |-> "ack", generation |-> sHome.stored])
          \in Seq(Session!Message)
    BY <1>t, <2>1, SessionMessages, OneOfSeq
  <2>3. sConn' \in [HomeConns -> Session!Conn]
    BY <1>3, <2>1, <2>2, SessionField DEF Session!HomeShows
  <2>4. sHome' \in Session!Home
    BY <1>3, <1>t, SessionHome DEF Session!HomeShows, Session!Home
  <2> QED BY <1>3, <2>3, <2>4 DEF Session!HomeShows, Session!TypeOK
<1>4. CASE Session!HomeSends
  <2>1. CASE sHome.control = Absent
    <3>1. sConn' = sConn
      BY <1>4, <2>1, <1>t, SessionConstants DEF Session!HomeSends
    <3> QED BY <1>4, <3>1 DEF Session!HomeSends, Session!TypeOK
  <2>2. CASE sHome.control # Absent
    <3>1. Append(sConn[sHome.control].toServer, [kind |-> "command"]) \in Seq(Session!Message)
      BY <1>t, <2>2, SessionMessages, OneOfSeq
    <3>2. sConn' \in [HomeConns -> Session!Conn]
      BY <1>4, <1>t, <2>2, <3>1, SessionField DEF Session!HomeSends
    <3> QED BY <1>4, <3>2 DEF Session!HomeSends, Session!TypeOK
  <2> QED BY <2>1, <2>2
<1>5. CASE Session!HomeAnswered
  <2>1. sHome.control \in HomeConns /\ sConn[sHome.control].toHome # <<>>
    BY <1>5, <1>t DEF Session!HomeAnswered, Session!Reads
  <2>2. Tail(sConn[sHome.control].toHome) \in Seq(Session!Message)
    BY <1>t, <2>1, OneOfSeq
  <2>3. sConn' \in [HomeConns -> Session!Conn]
    BY <1>5, <2>1, <2>2, SessionField DEF Session!HomeAnswered, Session!Read
  <2> QED BY <1>5, <2>3 DEF Session!HomeAnswered, Session!TypeOK
<1>6. CASE Session!SessionFails
  <2>1. sConn' \in [HomeConns -> Session!Conn]
    BY <1>6, <1>t, SessionClosed DEF Session!SessionFails
  <2>2. sHome' \in Session!Home
    BY <1>6, <1>t, SessionHome DEF Session!SessionFails
  <2> QED BY <1>6, <2>1, <2>2 DEF Session!SessionFails, Session!TypeOK, Session!Dropped
<1>7. CASE Session!Submit
  BY <1>7 DEF Session!Submit, Session!TypeOK
<1>8. CASE Session!Stop
  <2>1. sConn' \in [HomeConns -> Session!Conn]
    BY <1>8, <1>t, SessionClosed DEF Session!Stop
  <2>2. sHome' \in Session!Home
    BY <1>8, <1>t, SessionHome DEF Session!Stop
  <2> QED BY <1>8, <2>1, <2>2, SessionConstants DEF Session!Stop, Session!TypeOK
<1>9. ASSUME NEW config \in HomeCatalogs, Session!Restart(config) PROVE Session!TypeOK'
  <2>1. sConn' \in [HomeConns -> Session!Conn]
    BY <1>9, <1>t, SessionClosed DEF Session!Restart
  <2>2. sHome' \in Session!Home
    BY <1>9, <1>t, SessionHome DEF Session!Restart, Session!Home
  <2> QED BY <1>9, <2>1, <2>2, SessionConstants DEF Session!Restart, Session!TypeOK
<1> QED BY <1>1, <1>2, <1>3, <1>4, <1>5, <1>6, <1>7, <1>8, <1>9

LEMMA SessionTypeServer ==
  ASSUME Session!TypeOK, NEW c \in HomeConns,
         \/ Session!Offer(c) \/ Session!Acknowledged(c) \/ Session!Register(c)
         \/ Session!RecordAck(c) \/ Session!Serve(c) \/ Session!TaskFails(c)
         \/ Session!Clear(c) \/ Session!ForgetAck(c) \/ Session!Cut(c)
  PROVE  Session!TypeOK'
<1>t. /\ sConn \in [HomeConns -> Session!Conn] /\ sConn[c] \in Session!Conn
      /\ sConn[c].toHome \in Seq(Session!Message) /\ sConn[c].toServer \in Seq(Session!Message)
      /\ sConn[c].offer \in 0..MaxGrants /\ sGranted \in 1..MaxGrants /\ sAck \in 0..MaxGrants
  BY DEF Session!TypeOK, Session!Conn
<1>s. \A n \in 1..MaxGrants : [kind |-> "snapshot", generation |-> n] \in Session!Message
  BY SessionMessages
<1>h. sConn[c].toServer # <<>> =>
        Head(sConn[c].toServer) \in Session!Message /\ Tail(sConn[c].toServer) \in Seq(Session!Message)
  BY <1>t, OneOfSeq
<1>a. \A n \in 0..MaxGrants : Session!Recorded(n) \in 0..MaxGrants
  BY <1>t, SessionConstants DEF Session!Recorded, Session!Larger
<1>1. CASE Session!Offer(c)
  <2> DEFINE m == Head(sConn[c].toServer)
             s == Tail(sConn[c].toServer)
             h == Append(sConn[c].toHome, [kind |-> "snapshot", generation |-> sGranted])
  <2>1. m \in Session!Message /\ m.kind = "register" /\ s \in Seq(Session!Message)
    BY <1>1, <1>h DEF Session!Offer, Session!Pending
  <2>2. h \in Seq(Session!Message) /\ sGranted \in 0..MaxGrants
    BY <1>t, <1>s, OneOfSeq, SessionConstants
  <2>3. m.catalog \in HomeCatalogs
    BY <2>1, SessionKinds
  <2>4. sConn' = [sConn EXCEPT ![c] = [sConn[c] EXCEPT !.task = "offered", !.toServer = s,
                     !.offer = sGranted, !.catalog = m.catalog, !.toHome = h]]
    BY <1>1, <1>t DEF Session!Offer
  <2> HIDE DEF m, s, h
  <2>5. [sConn[c] EXCEPT !.task = "offered", !.toServer = s,
           !.offer = sGranted, !.catalog = m.catalog, !.toHome = h] \in Session!Conn
    BY <1>t, <2>1, <2>2, <2>3 DEF Session!Conn
  <2>6. sConn' \in [HomeConns -> Session!Conn]
    BY <2>4, <2>5, <1>t
  <2> QED BY <1>1, <2>6 DEF Session!Offer, Session!TypeOK
<1>2. CASE Session!Acknowledged(c)
  <2> DEFINE s == Tail(sConn[c].toServer)
  <2>1. s \in Seq(Session!Message)
    BY <1>2, <1>h DEF Session!Acknowledged, Session!Pending
  <2>2. sConn' = [sConn EXCEPT ![c] = [sConn[c] EXCEPT !.task = "acked", !.toServer = s]]
    BY <1>2, <1>t DEF Session!Acknowledged
  <2> HIDE DEF s
  <2>3. [sConn[c] EXCEPT !.task = "acked", !.toServer = s] \in Session!Conn
    BY <1>t, <2>1 DEF Session!Conn
  <2>4. sConn' \in [HomeConns -> Session!Conn] /\ sAck' \in 0..MaxGrants
    BY <1>2, <2>2, <2>3, <1>t, <1>a DEF Session!Acknowledged
  <2> QED BY <1>2, <2>4 DEF Session!Acknowledged, Session!TypeOK
<1>3. CASE Session!Register(c)
  <2>1. ASSUME NEW d \in HomeConns
        PROVE  [sConn[d] EXCEPT
                  !.task = IF d = c THEN "running" ELSE @,
                  !.superseded = @ \/ d = sRegistry.session,
                  !.toHome = IF d = c /\ sConn[c].offer # sGranted
                             THEN Append(@, [kind |-> "snapshot", generation |-> sGranted])
                             ELSE @] \in Session!Conn
    <3> DEFINE t == IF d = c THEN "running" ELSE sConn[d].task
               u == sConn[d].superseded \/ d = sRegistry.session
               h == IF d = c /\ sConn[c].offer # sGranted
                    THEN Append(sConn[d].toHome, [kind |-> "snapshot", generation |-> sGranted])
                    ELSE sConn[d].toHome
    <3>1. h \in Seq(Session!Message)
      BY <1>t, <1>s, OneOfSeq DEF Session!Conn
    <3>2. t \in {"none", "accepted", "offered", "acked", "running", "clearing",
                 "forgetting", "ended"} /\ u \in BOOLEAN
      BY <1>t DEF Session!Conn
    <3> HIDE DEF t, u, h
    <3>3. [sConn[d] EXCEPT !.task = t, !.superseded = u, !.toHome = h] \in Session!Conn
      BY <1>t, <3>1, <3>2 DEF Session!Conn
    <3> QED BY <3>3 DEF t, u, h
  <2>2. sConn' \in [HomeConns -> Session!Conn]
    BY <1>3, <2>1 DEF Session!Register
  <2>3. sConn[c].catalog \in HomeCatalogs \cup {Absent}
    BY <1>t DEF Session!Conn
  <2> DEFINE n == IF sRegistry.catalog = sConn[c].catalog
                  THEN sRegistry.generation ELSE sRegistry.generation + 1
  <2>4. n \in Nat
    BY DEF Session!TypeOK
  <2> HIDE DEF n
  <2>5. sRegistry' = [generation |-> n, session |-> c, catalog |-> sConn[c].catalog]
    BY <1>3 DEF Session!Register, n
  <2>6. /\ (sRegistry.generation \in Nat)'
        /\ (sRegistry.session \in HomeConns \cup {Absent})'
        /\ (sRegistry.catalog \in HomeCatalogs \cup {Absent})'
    BY <2>3, <2>4, <2>5
  <2> QED BY <1>3, <2>2, <2>6 DEF Session!Register, Session!TypeOK
<1>4. CASE Session!RecordAck(c)
  <2> DEFINE m == Head(sConn[c].toServer)
  <2>1. m \in Session!Message /\ m.kind = "ack" /\ Tail(sConn[c].toServer) \in Seq(Session!Message)
    BY <1>4, <1>h DEF Session!RecordAck, Session!Pending
  <2>2. m.generation \in 1..MaxGrants
    BY <2>1, SessionKinds
  <2>3. m.generation \in 0..MaxGrants
    BY <2>2, SessionConstants
  <2>4. sAck' \in 0..MaxGrants
    BY <1>4, <2>3, <1>a DEF Session!RecordAck
  <2>5. sConn' \in [HomeConns -> Session!Conn]
    BY <1>4, <2>1, SessionField DEF Session!RecordAck
  <2> QED BY <1>4, <2>4, <2>5 DEF Session!RecordAck, Session!TypeOK
<1>5. CASE Session!Serve(c)
  <2>0. \A n \in {sGranted, sGranted + 1} : n <= MaxGrants => n \in 1..MaxGrants
    BY <1>t, SessionConstants
  <2>1. sGranted' \in 1..MaxGrants
    BY <1>5, <2>0 DEF Session!Serve
  <2>a. \A m \in Session!Message : <<m>> \in Seq(Session!Message)
    OBVIOUS
  <2>2. PICK results \in Seq(Session!Message) : results = <<[kind |-> "result"]>>
    BY <2>a, SessionMessages
  <2>3. PICK none \in Seq(Session!Message) : none = <<>>
    BY EmptySeq
  <2>4. ASSUME NEW d \in HomeConns
        PROVE  [sConn[d] EXCEPT
                  !.toServer = IF d = c THEN Tail(@) ELSE @,
                  !.toHome = (IF d = sRegistry.session /\ sGranted' # sGranted
                              THEN Append(@, [kind |-> "snapshot", generation |-> sGranted'])
                              ELSE @)
                             \o (IF d = c THEN results ELSE none)] \in Session!Conn
    <3> DEFINE s == IF d = c THEN Tail(sConn[d].toServer) ELSE sConn[d].toServer
               h1 == IF d = sRegistry.session /\ sGranted' # sGranted
                     THEN Append(sConn[d].toHome, [kind |-> "snapshot", generation |-> sGranted'])
                     ELSE sConn[d].toHome
               h2 == IF d = c THEN results ELSE none
               h == h1 \o h2
    <3>1. s \in Seq(Session!Message)
      BY <1>5, <1>t, <1>h DEF Session!Serve, Session!Pending, Session!Conn
    <3>2. h1 \in Seq(Session!Message) /\ h2 \in Seq(Session!Message)
      BY <1>t, <1>s, <2>1, OneOfSeq DEF Session!Conn
    <3> HIDE DEF s, h1, h2
    <3>3. h \in Seq(Session!Message)
      BY <3>2, ConcatProperties
    <3> HIDE DEF h
    <3>4. [sConn[d] EXCEPT !.toServer = s, !.toHome = h] \in Session!Conn
      BY <1>t, <3>1, <3>3 DEF Session!Conn
    <3> QED BY <3>4 DEF s, h, h1, h2
  <2>5. sConn' \in [HomeConns -> Session!Conn]
    BY <1>5, <2>2, <2>3, <2>4 DEF Session!Serve
  <2> QED BY <1>5, <2>1, <2>5 DEF Session!Serve, Session!TypeOK
<1>6. CASE Session!TaskFails(c)
  <2>1. sConn' \in [HomeConns -> Session!Conn]
    BY <1>6, <1>t, SessionEnded DEF Session!TaskFails, Session!Conn
  <2> QED BY <1>6, <2>1 DEF Session!TaskFails, Session!TypeOK
<1>7. CASE Session!Clear(c)
  <2>1. sConn' \in [HomeConns -> Session!Conn]
    BY <1>7, <1>t, SessionEnded DEF Session!Clear, Session!Conn
  <2>2. /\ (sRegistry.generation \in Nat)'
        /\ (sRegistry.session \in HomeConns \cup {Absent})'
        /\ (sRegistry.catalog \in HomeCatalogs \cup {Absent})'
    BY <1>7 DEF Session!Clear, Session!TypeOK
  <2> QED BY <1>7, <2>1, <2>2 DEF Session!Clear, Session!TypeOK
<1>8. CASE Session!ForgetAck(c)
  <2>1. sConn' \in [HomeConns -> Session!Conn]
    BY <1>8, <1>t, SessionEnded DEF Session!ForgetAck
  <2> QED BY <1>8, <2>1, SessionConstants DEF Session!ForgetAck, Session!TypeOK
<1>9. CASE Session!Cut(c)
  <2>1. [sConn[c] EXCEPT !.up = FALSE] \in Session!Conn
    BY <1>t DEF Session!Conn
  <2>2. sConn' = [sConn EXCEPT ![c] = [sConn[c] EXCEPT !.up = FALSE]]
    BY <1>9, <1>t DEF Session!Cut
  <2>3. sConn' \in [HomeConns -> Session!Conn]
    BY <2>1, <2>2, <1>t
  <2> QED BY <1>9, <2>3, SessionConstants DEF Session!Cut, Session!TypeOK
<1> QED BY <1>1, <1>2, <1>3, <1>4, <1>5, <1>6, <1>7, <1>8, <1>9

LEMMA SessionTypeRest ==
  ASSUME Session!TypeOK, Session!Change \/ Session!ServerRestart
  PROVE  Session!TypeOK'
<1>t. /\ sConn \in [HomeConns -> Session!Conn] /\ sGranted \in 1..MaxGrants
      /\ \A d \in HomeConns : sConn[d].toHome \in Seq(Session!Message)
  BY DEF Session!TypeOK, Session!Conn
<1>1. CASE Session!Change
  <2>1. sGranted' \in 1..MaxGrants
    BY <1>1, <1>t, SessionConstants DEF Session!Change
  <2>2. ASSUME NEW d \in HomeConns
        PROVE  [sConn[d] EXCEPT !.toHome = IF d = sRegistry.session
                  THEN Append(@, [kind |-> "snapshot", generation |-> sGranted']) ELSE @] \in Session!Conn
    <3> DEFINE h == IF d = sRegistry.session
                  THEN Append(sConn[d].toHome, [kind |-> "snapshot", generation |-> sGranted'])
                  ELSE sConn[d].toHome
    <3>1. h \in Seq(Session!Message)
      BY <1>t, <2>1, SessionMessages, OneOfSeq
    <3> HIDE DEF h
    <3>2. [sConn[d] EXCEPT !.toHome = h] \in Session!Conn
      BY <1>t, <3>1 DEF Session!Conn
    <3> QED BY <3>2 DEF h
  <2>3. sConn' \in [HomeConns -> Session!Conn]
    BY <1>1, <2>2 DEF Session!Change
  <2> QED BY <1>1, <2>1, <2>3 DEF Session!Change, Session!TypeOK
<1>2. CASE Session!ServerRestart
  <2>1. sConn' \in [HomeConns -> Session!Conn]
    BY <1>2, SessionEnded DEF Session!ServerRestart
  <2> QED BY <1>2, <2>1, SessionConstants
         DEF Session!ServerRestart, Session!NewRegistry, Session!TypeOK
<1> QED BY <1>1, <1>2

LEMMA SessionTypeStep ==
  ASSUME Session!TypeOK, [Session!Next]_(Session!vars)
  PROVE  Session!TypeOK'
<1>1. CASE UNCHANGED Session!vars
  BY <1>1 DEF Session!vars, Session!TypeOK
<1> QED
  BY <1>1, SessionTypeHome, SessionTypeServer, SessionTypeRest
     DEF Session!Next, Session!Progress, Session!Environment

-----------------------------------------------------------------------------
(* What the registry lists.                                                 *)

\* A task that has read its Home's catalog has one; the task of the registered
\* session runs or is about to clear it; and a task that runs and was not
\* superseded is registered.
SessionRegistry ==
    /\ (sRegistry.session = Absent) <=> (sRegistry.catalog = Absent)
    /\ sRegistry.session # Absent =>
          /\ sConn[sRegistry.session].task \in {"running", "clearing"}
          /\ sRegistry.catalog = sConn[sRegistry.session].catalog
    /\ \A c \in HomeConns :
          /\ sConn[c].task \in {"offered", "acked", "running", "clearing"} => sConn[c].catalog # Absent
          /\ sConn[c].task = "running" /\ ~sConn[c].superseded => sRegistry.session = c

\* Any step that moves tasks outside the registry.
LEMMA SessionRegistrySame ==
  ASSUME Session!TypeOK, SessionRegistry, sRegistry' = sRegistry,
         \A d \in HomeConns :
            \/ /\ sConn'[d].task = sConn[d].task
               /\ sConn'[d].catalog = sConn[d].catalog
               /\ sConn'[d].superseded = sConn[d].superseded
            \/ sConn[d].task \notin {"running", "clearing"} /\ sConn'[d].task \in {"none", "accepted", "ended"}
            \/ /\ sConn[d].task \notin {"running", "clearing"}
               /\ sConn'[d].task \in {"offered", "acked"} /\ sConn'[d].catalog # Absent
            \/ /\ sConn[d].task = "running" /\ sConn'[d].task = "clearing"
               /\ sConn'[d].catalog = sConn[d].catalog
            \/ sConn[d].task = "clearing" /\ sRegistry.session # d /\ sConn'[d].task \in {"none", "ended"}
  PROVE  SessionRegistry'
  BY SessionConstants DEF SessionRegistry, Session!TypeOK

\* What does not touch the task, its catalog or its shutdown watch.
SessionAlike(r, q) == r.task = q.task /\ r.catalog = q.catalog /\ r.superseded = q.superseded

LEMMA SessionUpdates ==
  ASSUME NEW r \in Session!Conn, NEW q, NEW a, NEW b,
         \/ q = r \/ q = [r EXCEPT !.toServer = a] \/ q = [r EXCEPT !.toHome = a]
         \/ q = [r EXCEPT !.up = a] \/ q = [r EXCEPT !.up = a, !.toHome = b]
         \/ q = [r EXCEPT !.toServer = a, !.toHome = b]
  PROVE  SessionAlike(q, r)
  BY DEF Session!Conn, SessionAlike

\* A step that leaves every task, catalog and watch as it is.
LEMMA SessionAlikeStep ==
  ASSUME Session!TypeOK,
         \/ Session!HomeStores \/ Session!HomeShows \/ Session!HomeSends
         \/ Session!HomeAnswered \/ Session!Submit \/ Session!Change
         \/ \E c \in HomeConns : Session!RecordAck(c) \/ Session!Serve(c) \/ Session!Cut(c)
  PROVE  sRegistry' = sRegistry /\ \A d \in HomeConns : SessionAlike(sConn'[d], sConn[d])
<1>t. /\ sConn \in [HomeConns -> Session!Conn] /\ \A d \in HomeConns : sConn[d] \in Session!Conn
      /\ sHome.control # Absent => sHome.control \in HomeConns
  BY DEF Session!TypeOK, Session!Home
<1>r. sRegistry' = sRegistry
  BY DEF Session!HomeStores, Session!HomeShows, Session!HomeSends, Session!HomeAnswered,
         Session!Submit, Session!Change, Session!RecordAck, Session!Serve, Session!Cut
<1> SUFFICES ASSUME NEW d \in HomeConns PROVE SessionAlike(sConn'[d], sConn[d])
  BY <1>r
<1> SUFFICES \E a, b : \/ sConn'[d] = sConn[d]
                      \/ sConn'[d] = [sConn[d] EXCEPT !.toServer = a]
                      \/ sConn'[d] = [sConn[d] EXCEPT !.toHome = a]
                      \/ sConn'[d] = [sConn[d] EXCEPT !.up = a]
                      \/ sConn'[d] = [sConn[d] EXCEPT !.toServer = a, !.toHome = b]
  BY <1>t, SessionUpdates
<1>1. CASE Session!HomeStores \/ Session!HomeAnswered
  <2>1. sConn' = [sConn EXCEPT ![sHome.control].toHome = Tail(@)]
    BY <1>1 DEF Session!HomeStores, Session!HomeAnswered, Session!Read
  <2> QED BY <1>t, <2>1
<1>2. CASE Session!HomeShows
  <2>1. sConn' = [sConn EXCEPT ![sHome.control].toServer =
                    Append(@, [kind |-> "ack", generation |-> sHome.stored])]
    BY <1>2 DEF Session!HomeShows
  <2> QED BY <1>t, <2>1
<1>3. CASE Session!HomeSends
  <2>1. sConn' = [sConn EXCEPT ![sHome.control].toServer = Append(@, [kind |-> "command"])]
    BY <1>3 DEF Session!HomeSends
  <2> QED BY <1>t, <2>1
<1>4. CASE Session!Submit
  BY <1>4 DEF Session!Submit
<1>5. CASE Session!Change
  <2> DEFINE h == IF d = sRegistry.session
                  THEN Append(sConn[d].toHome, [kind |-> "snapshot", generation |-> sGranted'])
                  ELSE sConn[d].toHome
  <2>1. sConn'[d] = [sConn[d] EXCEPT !.toHome = h]
    BY <1>5 DEF Session!Change
  <2> HIDE DEF h
  <2> QED BY <2>1
<1>6. ASSUME NEW c \in HomeConns, Session!RecordAck(c) 
      PROVE  \E a, b : \/ sConn'[d] = sConn[d]
                       \/ sConn'[d] = [sConn[d] EXCEPT !.toServer = a]
                       \/ sConn'[d] = [sConn[d] EXCEPT !.toHome = a]
                       \/ sConn'[d] = [sConn[d] EXCEPT !.up = a]
                       \/ sConn'[d] = [sConn[d] EXCEPT !.toServer = a, !.toHome = b]
  <2>1. sConn' = [sConn EXCEPT ![c].toServer = Tail(@)]
    BY <1>6 DEF Session!RecordAck
  <2> QED BY <1>t, <2>1
<1>7. ASSUME NEW c \in HomeConns, Session!Serve(c) 
      PROVE  \E a, b : \/ sConn'[d] = sConn[d]
                       \/ sConn'[d] = [sConn[d] EXCEPT !.toServer = a]
                       \/ sConn'[d] = [sConn[d] EXCEPT !.toHome = a]
                       \/ sConn'[d] = [sConn[d] EXCEPT !.up = a]
                       \/ sConn'[d] = [sConn[d] EXCEPT !.toServer = a, !.toHome = b]
  <2> DEFINE s == IF d = c THEN Tail(sConn[d].toServer) ELSE sConn[d].toServer
             h == (IF d = sRegistry.session /\ sGranted' # sGranted
                   THEN Append(sConn[d].toHome, [kind |-> "snapshot", generation |-> sGranted'])
                   ELSE sConn[d].toHome)
                  \o (IF d = c THEN <<[kind |-> "result"]>> ELSE <<>>)
  <2>1. sConn'[d] = [sConn[d] EXCEPT !.toServer = s, !.toHome = h]
    BY <1>7 DEF Session!Serve
  <2> HIDE DEF s, h
  <2> QED BY <2>1
<1>8. ASSUME NEW c \in HomeConns, Session!Cut(c) 
      PROVE  \E a, b : \/ sConn'[d] = sConn[d]
                       \/ sConn'[d] = [sConn[d] EXCEPT !.toServer = a]
                       \/ sConn'[d] = [sConn[d] EXCEPT !.toHome = a]
                       \/ sConn'[d] = [sConn[d] EXCEPT !.up = a]
                       \/ sConn'[d] = [sConn[d] EXCEPT !.toServer = a, !.toHome = b]
  <2>1. sConn' = [sConn EXCEPT ![c].up = FALSE]
    BY <1>8 DEF Session!Cut
  <2> QED BY <1>t, <2>1
<1> QED BY <1>1, <1>2, <1>3, <1>4, <1>5, <1>6, <1>7, <1>8

LEMMA SessionNewFields ==
  Session!NewConn.task = "none" /\ Session!NewConn.toServer = <<>>
  BY DEF Session!NewConn

LEMMA SessionClosedAt ==
  ASSUME Session!TypeOK, NEW c \in HomeConns, NEW d \in HomeConns, NEW e, e = <<>>
  PROVE  Session!Closed(c)[d] = IF d # c THEN sConn[d]
                                 ELSE IF sConn[d].task = "ended" THEN Session!NewConn
                                 ELSE [sConn[d] EXCEPT !.up = FALSE, !.toHome = e]
<1>1. sConn \in [HomeConns -> Session!Conn]
  BY DEF Session!TypeOK
<1>2. Session!Closed(c) = [sConn EXCEPT ![c] = IF sConn[c].task = "ended" THEN Session!NewConn
                                ELSE [sConn[c] EXCEPT !.up = FALSE, !.toHome = e]]
  BY DEF Session!Closed
<1> DEFINE r == IF sConn[c].task = "ended" THEN Session!NewConn
                ELSE [sConn[c] EXCEPT !.up = FALSE, !.toHome = e]
<1>3. Session!Closed(c) = [sConn EXCEPT ![c] = r]
  BY <1>2
<1> HIDE DEF r
<1>4. Session!Closed(c)[d] = IF d # c THEN sConn[d] ELSE r
  BY <1>1, <1>3
<1> QED BY <1>4 DEF r

LEMMA SessionClosedFields ==
  ASSUME Session!TypeOK, NEW c \in HomeConns, NEW d \in HomeConns
  PROVE  /\ \/ SessionAlike(Session!Closed(c)[d], sConn[d])
            \/ sConn[d].task = "ended" /\ Session!Closed(c)[d].task = "none"
         /\ Session!Closed(c)[d].toServer \in {sConn[d].toServer, <<>>}
<1>1. PICK e : e = <<>>
  OBVIOUS
<1>2. sConn[d] \in Session!Conn
  BY DEF Session!TypeOK
<1>3. CASE Session!Closed(c)[d] = sConn[d]
  BY <1>3 DEF SessionAlike
<1>4. CASE sConn[d].task = "ended" /\ Session!Closed(c)[d] = Session!NewConn
  BY <1>4, SessionNewFields
<1>5. CASE Session!Closed(c)[d] = [sConn[d] EXCEPT !.up = FALSE, !.toHome = e]
  <2>1. \A q \in Session!Conn : LET p == [q EXCEPT !.up = FALSE, !.toHome = e] IN
           p.task = q.task /\ p.catalog = q.catalog /\ p.superseded = q.superseded
           /\ p.toServer = q.toServer
    BY DEF Session!Conn
  <2>2. SessionAlike(Session!Closed(c)[d], sConn[d])
    BY <1>2, <1>5, <2>1 DEF SessionAlike
  <2>3. Session!Closed(c)[d].toServer = sConn[d].toServer
    BY <1>2, <1>5, <2>1
  <2> QED BY <2>2, <2>3
<1>6. Session!Closed(c)[d] = IF d # c THEN sConn[d]
                              ELSE IF sConn[d].task = "ended" THEN Session!NewConn
                              ELSE [sConn[d] EXCEPT !.up = FALSE, !.toHome = e]
  BY <1>1, SessionClosedAt
<1>7. \/ Session!Closed(c)[d] = sConn[d]
      \/ sConn[d].task = "ended" /\ Session!Closed(c)[d] = Session!NewConn
      \/ Session!Closed(c)[d] = [sConn[d] EXCEPT !.up = FALSE, !.toHome = e]
  BY <1>6
<1> QED BY <1>3, <1>4, <1>5, <1>7

LEMMA SessionEndedFields ==
  ASSUME Session!TypeOK, NEW c \in HomeConns
  PROVE  Session!Ended(c).task \in {"none", "ended"} /\ Session!Ended(c).toServer = <<>>
  BY DEF Session!Ended, Session!NewConn

LEMMA SessionRegistryHome ==
  ASSUME Session!TypeOK, SessionRegistry,
         \/ \E c \in HomeConns : Session!Dial(c)
         \/ Session!HomeStores \/ Session!HomeShows \/ Session!HomeSends
         \/ Session!HomeAnswered \/ Session!SessionFails \/ Session!Submit \/ Session!Stop
         \/ \E config \in HomeCatalogs : Session!Restart(config)
  PROVE  SessionRegistry'
<1>t. /\ sConn \in [HomeConns -> Session!Conn]
      /\ \A d \in HomeConns : sConn[d] \in Session!Conn
      /\ sHome.control # Absent => sHome.control \in HomeConns
  BY DEF Session!TypeOK, Session!Home
<1>1. ASSUME NEW c \in HomeConns, Session!Dial(c) PROVE SessionRegistry'
  <2>1. sConn[c].task = "none" /\ sConn'[c].task = "accepted" /\ \A d \in HomeConns \ {c} : sConn'[d] = sConn[d]
    BY <1>1, <1>t DEF Session!Dial, Session!Free, Session!NewConn
  <2>2. sRegistry' = sRegistry
    BY <1>1 DEF Session!Dial
  <2> QED BY <2>1, <2>2, SessionRegistrySame
<1>2. CASE Session!HomeStores \/ Session!HomeShows \/ Session!HomeSends \/ Session!HomeAnswered \/ Session!Submit
  BY <1>2, SessionAlikeStep, SessionRegistrySame DEF SessionAlike
<1>3. CASE Session!SessionFails \/ Session!Stop \/ \E config \in HomeCatalogs : Session!Restart(config)
  <2>1. /\ sRegistry' = sRegistry
        /\ sConn' = sConn \/ (sHome.control \in HomeConns /\ sConn' = Session!Closed(sHome.control))
    BY <1>3, <1>t DEF Session!SessionFails, Session!Stop, Session!Restart
  <2> QED BY <2>1, SessionClosedFields, SessionRegistrySame DEF SessionAlike
<1> QED BY <1>1, <1>2, <1>3

LEMMA SessionRegistryServer ==
  ASSUME Session!TypeOK, SessionRegistry, NEW c \in HomeConns,
         \/ Session!Offer(c) \/ Session!Acknowledged(c) \/ Session!Register(c)
         \/ Session!RecordAck(c) \/ Session!Serve(c) \/ Session!TaskFails(c)
         \/ Session!Clear(c) \/ Session!ForgetAck(c) \/ Session!Cut(c)
  PROVE  SessionRegistry'
<1>t. /\ sConn \in [HomeConns -> Session!Conn] /\ \A d \in HomeConns : sConn[d] \in Session!Conn
      /\ sConn[c].toServer \in Seq(Session!Message)
  BY DEF Session!TypeOK, Session!Conn
<1>1. CASE Session!Offer(c)
  <2> DEFINE m == Head(sConn[c].toServer)
  <2>1. m \in Session!Message /\ m.kind = "register"
    BY <1>1, <1>t, OneOfSeq DEF Session!Offer, Session!Pending
  <2>2. m.catalog # Absent
    BY <2>1, SessionKinds, SessionConstants
  <2>3. sConn'[c].catalog = m.catalog /\ sConn[c].task = "accepted" /\ sConn'[c].task = "offered"
    BY <1>1, <1>t DEF Session!Offer, Session!Conn
  <2>4. sRegistry' = sRegistry /\ \A d \in HomeConns \ {c} : sConn'[d] = sConn[d]
    BY <1>1, <1>t DEF Session!Offer
  <2> HIDE DEF m
  <2> QED BY <2>2, <2>3, <2>4, SessionRegistrySame
<1>2. CASE Session!Acknowledged(c)
  <2>1. /\ sConn[c].task = "offered" /\ sConn'[c].task = "acked" /\ sConn'[c].catalog = sConn[c].catalog
        /\ sRegistry' = sRegistry /\ \A d \in HomeConns \ {c} : sConn'[d] = sConn[d]
    BY <1>2, <1>t DEF Session!Acknowledged, Session!Conn
  <2> QED BY <2>1, SessionRegistrySame DEF SessionRegistry
<1>3. CASE Session!Register(c)
  <2>1. /\ sConn[c].task = "acked" /\ sRegistry'.session = c
        /\ sRegistry'.catalog = sConn[c].catalog
    BY <1>3 DEF Session!Register
  <2>2. ASSUME NEW d \in HomeConns
        PROVE  /\ sConn'[d].task = IF d = c THEN "running" ELSE sConn[d].task
               /\ sConn'[d].superseded = (sConn[d].superseded \/ d = sRegistry.session)
               /\ sConn'[d].catalog = sConn[d].catalog
    BY <1>3, <1>t DEF Session!Register, Session!Conn
  <2>3. sConn[c].catalog # Absent
    BY <2>1 DEF SessionRegistry
  <2>4. ASSUME NEW d \in HomeConns, sConn'[d].task = "running", ~sConn'[d].superseded, d # c
        PROVE FALSE
    BY <2>2, <2>4 DEF SessionRegistry
  <2>5. \A d \in HomeConns : sConn'[d].task \in {"offered", "acked", "running", "clearing"}
                              => sConn'[d].catalog # Absent
    BY <2>2, <2>3 DEF SessionRegistry
  <2> QED BY <2>1, <2>2, <2>3, <2>4, <2>5, SessionConstants DEF SessionRegistry
<1>4. CASE Session!RecordAck(c) \/ Session!Serve(c) \/ Session!Cut(c)
  BY <1>4, SessionAlikeStep, SessionRegistrySame DEF SessionAlike
<1>5. CASE Session!TaskFails(c)
  <2>1. sRegistry' = sRegistry /\ \A d \in HomeConns \ {c} : sConn'[d] = sConn[d]
    BY <1>5, <1>t DEF Session!TaskFails
  <2>2. CASE sConn[c].task = "running"
    <3>1. sConn'[c].task = "clearing" /\ sConn'[c].catalog = sConn[c].catalog
      BY <1>5, <1>t, <2>2 DEF Session!TaskFails, Session!Conn
    <3> QED BY <2>1, <2>2, <3>1, SessionRegistrySame
  <2>3. CASE sConn[c].task # "running"
    <3>1. sConn'[c].task \in {"none", "ended"} /\ sConn[c].task \notin {"running", "clearing"}
      BY <1>5, <1>t, <2>3, SessionEndedFields DEF Session!TaskFails
    <3> QED BY <2>1, <3>1, SessionRegistrySame
  <2> QED BY <2>2, <2>3
<1>6. CASE Session!Clear(c)
  <2>1. sConn[c].task = "clearing" /\ \A d \in HomeConns \ {c} : sConn'[d] = sConn[d]
    BY <1>6, <1>t DEF Session!Clear
  <2>2. CASE sRegistry.session = c
    <3>1. /\ sRegistry'.session = Absent /\ sRegistry'.catalog = Absent
          /\ sConn'[c].task = "forgetting"
      BY <1>6, <1>t, <2>2 DEF Session!Clear, Session!Registered, Session!Conn
    <3> QED BY <2>1, <2>2, <3>1 DEF SessionRegistry
  <2>3. CASE sRegistry.session # c
    <3>1. sRegistry' = sRegistry /\ sConn'[c].task \in {"none", "ended"}
      BY <1>6, <1>t, <2>3, SessionEndedFields DEF Session!Clear, Session!Registered
    <3> QED BY <2>1, <2>3, <3>1, SessionRegistrySame
  <2> QED BY <2>2, <2>3
<1>7. CASE Session!ForgetAck(c)
  <2>1. /\ sConn[c].task = "forgetting" /\ sConn'[c].task \in {"none", "ended"}
        /\ sRegistry' = sRegistry /\ \A d \in HomeConns \ {c} : sConn'[d] = sConn[d]
    BY <1>7, <1>t, SessionEndedFields DEF Session!ForgetAck
  <2> QED BY <2>1, SessionRegistrySame
<1> QED BY <1>1, <1>2, <1>3, <1>4, <1>5, <1>6, <1>7

LEMMA SessionRegistryStep ==
  ASSUME Session!TypeOK, SessionRegistry, [Session!Next]_(Session!vars)
  PROVE  SessionRegistry'
<1>1. CASE UNCHANGED Session!vars
  BY <1>1 DEF Session!vars, SessionRegistry
<1>2. CASE Session!Change
  BY <1>2, SessionAlikeStep, SessionRegistrySame DEF SessionAlike
<1>3. CASE Session!ServerRestart
  <2>1. \A d \in HomeConns : sConn'[d].task \in {"none", "ended"}
    BY <1>3, SessionEndedFields DEF Session!ServerRestart
  <2> QED BY <1>3, <2>1 DEF Session!ServerRestart, Session!NewRegistry, SessionRegistry
<1> QED
  BY <1>1, <1>2, <1>3, SessionRegistryHome, SessionRegistryServer
     DEF Session!Next, Session!Progress, Session!Environment

\* A Home session that is registered keeps its catalog (HomeRegistry::register
\* and remove).
THEOREM ControlKeepsCatalog == ControlSpec => []SessionKeepsCatalog
<1> DEFINE Inv == comp = "session" => Session!TypeOK /\ SessionRegistry
<1>1. ControlInit => Inv
  BY SessionTypeInit DEF ControlInit, Session!Init, SessionRegistry, Session!NewRegistry, Session!NewConn
<1>2. Inv /\ [ControlNext]_<<vars, shared, comp>> => Inv'
  <2> SUFFICES ASSUME Inv, [ControlNext]_<<vars, shared, comp>>, comp' = "session"
               PROVE  Session!TypeOK' /\ SessionRegistry'
    OBVIOUS
  <2> QED BY SessionTurn, SessionTypeStep, SessionRegistryStep
<1>3. Inv => SessionKeepsCatalog
  BY DEF SessionRegistry, SessionKeepsCatalog, Session!SessionKeepsCatalog
<1> QED BY <1>1, <1>2, <1>3, PTL DEF ControlSpec

-----------------------------------------------------------------------------
(* What the Home acknowledges.                                              *)

\* What is acknowledged, shown or about to be is in the cache.
SessionDurable ==
    /\ sAck <= sHome.cache /\ sHome.applied <= sHome.cache /\ sHome.stored <= sHome.cache
    /\ \A c \in HomeConns : \A i \in 1..Len(sConn[c].toServer) :
          sConn[c].toServer[i].kind = "ack" => sConn[c].toServer[i].generation <= sHome.cache

\* The acknowledgements of a queue are at most the cache.
SessionAcked(q, n) == \A i \in 1..Len(q) : q[i].kind = "ack" => q[i].generation <= n

LEMMA SessionAckedQueues ==
  ASSUME NEW q \in Seq(Session!Message), NEW n \in Nat, SessionAcked(q, n)
  PROVE  /\ q # <<>> => SessionAcked(Tail(q), n)
         /\ q # <<>> /\ Head(q).kind = "ack" => Head(q).generation <= n
         /\ \A e \in Session!Message : (e.kind = "ack" => e.generation <= n) => SessionAcked(Append(q, e), n)
         /\ \A k \in Nat : n <= k => SessionAcked(q, k)
<1>1. ASSUME q # <<>> PROVE SessionAcked(Tail(q), n)
  BY <1>1, HeadTailProperties DEF SessionAcked
<1>2. ASSUME q # <<>>, Head(q).kind = "ack" PROVE Head(q).generation <= n
  <2>1. 1 \in 1..Len(q) /\ Head(q) = q[1]
    BY <1>2, HeadTailProperties
  <2> QED BY <1>2, <2>1 DEF SessionAcked
<1>3. ASSUME NEW e \in Session!Message, e.kind = "ack" => e.generation <= n
      PROVE  SessionAcked(Append(q, e), n)
  BY <1>3, AppendProperties DEF SessionAcked
<1>4. ASSUME NEW k \in Nat, n <= k PROVE SessionAcked(q, k)
  <2>1. \A i \in 1..Len(q) : q[i].kind = "ack" => q[i].generation \in Nat
    BY SessionKinds, SessionConstants
  <2> QED BY <1>4, <2>1 DEF SessionAcked
<1> QED BY <1>1, <1>2, <1>3, <1>4

\* A step that adds no acknowledgement and keeps the cache.
LEMMA SessionDurableSame ==
  ASSUME Session!TypeOK, SessionDurable, sHome'.cache = sHome.cache,
         sAck' \in {sAck, 0},
         sHome'.applied \in {sHome.applied, sHome.stored, 0},
         sHome'.stored \in {sHome.stored, 0},
         \A c \in HomeConns :
            SessionAcked(sConn[c].toServer, sHome.cache) => SessionAcked(sConn'[c].toServer, sHome.cache)
  PROVE  SessionDurable'
<1>1. sHome.cache >= 0
  BY SessionConstants DEF Session!TypeOK, Session!Home
<1>2. \A c \in HomeConns : SessionAcked(sConn'[c].toServer, sHome.cache)
  BY DEF SessionDurable, SessionAcked
<1> QED BY <1>1, <1>2 DEF SessionDurable, SessionAcked

LEMMA SessionDurableHome ==
  ASSUME Session!TypeOK, SessionDurable,
         \/ \E c \in HomeConns : Session!Dial(c)
         \/ Session!HomeStores \/ Session!HomeShows \/ Session!HomeSends
         \/ Session!HomeAnswered \/ Session!SessionFails \/ Session!Submit \/ Session!Stop
         \/ \E config \in HomeCatalogs : Session!Restart(config)
  PROVE  SessionDurable'
<1>t. /\ sConn \in [HomeConns -> Session!Conn] /\ sHome \in Session!Home
      /\ \A d \in HomeConns : /\ sConn[d] \in Session!Conn
                              /\ sConn[d].toServer \in Seq(Session!Message)
                              /\ sConn[d].toHome \in Seq(Session!Message)
      /\ sHome.control # Absent => sHome.control \in HomeConns
      /\ sHome.cache \in Nat /\ sHome.stored \in Nat /\ sHome.applied \in Nat /\ sAck \in Nat
  BY SessionConstants DEF Session!TypeOK, Session!Home, Session!Conn
<1>d. \A d \in HomeConns : SessionAcked(sConn[d].toServer, sHome.cache)
  BY DEF SessionDurable, SessionAcked
<1>0. SessionAcked(<<>>, sHome.cache)
  BY DEF SessionAcked
<1>1. ASSUME NEW c \in HomeConns, Session!Dial(c) PROVE SessionDurable'
  <2>1. PICK e \in Session!Message : e = [kind |-> "register", catalog |-> sHome.config]
    BY <1>t, SessionMessages DEF Session!Home
  <2>2. e.kind = "register"
    BY <2>1
  <2>3. sConn' = [sConn EXCEPT ![c] = [Session!NewConn EXCEPT !.task = "accepted", !.up = TRUE, !.toServer = <<e>>]]
    BY <1>1, <2>1 DEF Session!Dial
  <2> HIDE <2>1
  <2>4. SessionAcked(<<e>>, sHome.cache)
    BY <2>2 DEF SessionAcked
  <2>5. \A d \in HomeConns : SessionAcked(sConn'[d].toServer, sHome.cache)
    <3>1. \A q : [Session!NewConn EXCEPT !.task = "accepted", !.up = TRUE, !.toServer = q].toServer = q
      BY DEF Session!NewConn
    <3>2. \A d \in HomeConns \ {c} : sConn'[d] = sConn[d]
      BY <1>t, <2>3
    <3>3. sConn'[c].toServer = <<e>>
      BY <1>t, <2>3, <3>1
    <3> QED BY <1>d, <2>4, <3>2, <3>3
  <2>6. sHome'.cache = sHome.cache /\ sHome'.applied = sHome.applied /\ sHome'.stored = sHome.stored
        /\ sAck' = sAck
    BY <1>1, <1>t DEF Session!Dial, Session!Home
  <2> QED BY <2>5, <2>6, SessionDurableSame
<1>2. CASE Session!HomeStores
  <2> DEFINE c == sHome.control
             m == Head(sConn[c].toHome)
  <2>1. c \in HomeConns /\ sConn[c].toHome # <<>> /\ m.kind = "snapshot" /\ m.generation >= sHome.cache
    BY <1>2, <1>t DEF Session!HomeStores, Session!Reads
  <2>2. m.generation \in Nat
    BY <1>t, <2>1, OneOfSeq, SessionKinds, SessionConstants
  <2>3. sHome' = [sHome EXCEPT !.cache = m.generation, !.stored = m.generation] /\ sAck' = sAck
    BY <1>2 DEF Session!HomeStores
  <2>4. sConn' = [sConn EXCEPT ![c].toHome = Tail(@)]
    BY <1>2 DEF Session!HomeStores, Session!Read
  <2> HIDE DEF m
  <2>5. \A d \in HomeConns : sConn'[d].toServer = sConn[d].toServer
    BY <1>t, <2>1, <2>4 DEF Session!Conn
  <2>6. sHome'.cache = m.generation /\ sHome'.stored = m.generation /\ sHome'.applied = sHome.applied
    BY <1>t, <2>3 DEF Session!Home
  <2>7. \A d \in HomeConns : SessionAcked(sConn'[d].toServer, m.generation)
    BY <1>t, <1>d, <2>1, <2>2, <2>5, SessionAckedQueues
  <2> QED BY <1>t, <2>1, <2>2, <2>3, <2>6, <2>7 DEF SessionDurable, SessionAcked
<1>3. CASE Session!HomeShows
  <2>1. sHome.control \in HomeConns /\ sHome.stored \in 1..MaxGrants
    BY <1>3, <1>t, SessionConstants DEF Session!HomeShows, Session!Home
  <2>2. PICK e \in Session!Message : e = [kind |-> "ack", generation |-> sHome.stored]
    BY <2>1, SessionMessages
  <2>3. e.generation <= sHome.cache
    BY <2>2 DEF SessionDurable
  <2>4. sConn' = [sConn EXCEPT ![sHome.control].toServer = Append(@, e)]
    BY <1>3, <2>2 DEF Session!HomeShows
  <2>5. \A d \in HomeConns : SessionAcked(sConn'[d].toServer, sHome.cache)
    <3>1. \A d \in HomeConns : sConn'[d].toServer =
             IF d = sHome.control THEN Append(sConn[d].toServer, e) ELSE sConn[d].toServer
      BY <1>t, <2>1, <2>4 DEF Session!Conn
    <3> QED BY <1>t, <1>d, <2>3, <3>1, SessionAckedQueues
  <2>6. /\ sHome'.cache = sHome.cache /\ sHome'.applied = sHome.stored /\ sHome'.stored = 0
        /\ sAck' = sAck
    BY <1>3, <1>t DEF Session!HomeShows, Session!Home
  <2> QED BY <2>5, <2>6, SessionDurableSame
<1>4. CASE Session!HomeSends
  <2>1. sHome' = sHome /\ sAck' = sAck
    BY <1>4 DEF Session!HomeSends
  <2>2. PICK e \in Session!Message : e = [kind |-> "command"]
    BY SessionMessages
  <2>3. e.kind = "command"
    BY <2>2
  <2>4. sConn' = [sConn EXCEPT ![sHome.control].toServer = Append(@, e)]
    BY <1>4, <2>2 DEF Session!HomeSends
  <2>5. \A d \in HomeConns : SessionAcked(sConn'[d].toServer, sHome.cache)
    <3>1. \A d \in HomeConns : sConn'[d].toServer =
             IF d = sHome.control THEN Append(sConn[d].toServer, e) ELSE sConn[d].toServer
      BY <1>t, <2>4 DEF Session!Conn
    <3> QED BY <1>t, <1>d, <2>3, <3>1, SessionAckedQueues
  <2> QED BY <2>1, <2>5, SessionDurableSame
<1>5. CASE Session!HomeAnswered \/ Session!Submit
  <2>1. \A d \in HomeConns : sConn'[d].toServer = sConn[d].toServer
    <3>1. CASE Session!HomeAnswered
      <4>1. sConn' = [sConn EXCEPT ![sHome.control].toHome = Tail(@)]
        BY <3>1 DEF Session!HomeAnswered, Session!Read
      <4> QED BY <1>t, <4>1 DEF Session!Conn
    <3>2. CASE Session!Submit
      BY <3>2 DEF Session!Submit
    <3> QED BY <1>5, <3>1, <3>2
  <2>2. sHome' = sHome /\ sAck' = sAck
    BY <1>5 DEF Session!HomeAnswered, Session!Submit
  <2> QED BY <1>d, <2>1, <2>2, SessionDurableSame
<1>6. CASE Session!SessionFails \/ Session!Stop \/ \E config \in HomeCatalogs : Session!Restart(config)
  <2>1. /\ sAck' = sAck
        /\ sConn' = sConn \/ (sHome.control \in HomeConns /\ sConn' = Session!Closed(sHome.control))
    BY <1>6, <1>t DEF Session!SessionFails, Session!Stop, Session!Restart
  <2>2. \A d \in HomeConns : sConn'[d].toServer \in {sConn[d].toServer, <<>>}
    BY <2>1, SessionClosedFields
  <2>3. sHome'.cache = sHome.cache /\ sHome'.applied \in {sHome.applied, 0} /\ sHome'.stored = 0
    <3>1. CASE sHome' = Session!Parted(sHome) \/ sHome' = [Session!Parted(sHome) EXCEPT !.run = FALSE]
      BY <1>t, <3>1 DEF Session!Parted, Session!Home
    <3>2. ASSUME NEW config \in HomeCatalogs, Session!Restart(config)
          PROVE  sHome'.cache = sHome.cache /\ sHome'.applied = 0 /\ sHome'.stored = 0
      BY <3>2 DEF Session!Restart, Session!Loaded
    <3> QED BY <1>6, <3>1, <3>2 DEF Session!SessionFails, Session!Stop
  <2> QED BY <1>d, <1>0, <2>1, <2>2, <2>3, SessionDurableSame
<1> QED BY <1>1, <1>2, <1>3, <1>4, <1>5, <1>6

LEMMA SessionDurableServer ==
  ASSUME Session!TypeOK, SessionDurable,
         \/ \E c \in HomeConns :
               \/ Session!Offer(c) \/ Session!Acknowledged(c) \/ Session!Register(c)
               \/ Session!RecordAck(c) \/ Session!Serve(c) \/ Session!TaskFails(c)
               \/ Session!Clear(c) \/ Session!ForgetAck(c) \/ Session!Cut(c)
         \/ Session!Change \/ Session!ServerRestart
  PROVE  SessionDurable'
<1>t. /\ sConn \in [HomeConns -> Session!Conn]
      /\ \A d \in HomeConns : /\ sConn[d] \in Session!Conn
                              /\ sConn[d].toServer \in Seq(Session!Message)
      /\ sHome.cache \in Nat /\ sGranted \in Nat /\ sAck \in Nat
  BY SessionConstants DEF Session!TypeOK, Session!Home, Session!Conn
<1>d. \A d \in HomeConns : SessionAcked(sConn[d].toServer, sHome.cache)
  BY DEF SessionDurable, SessionAcked
<1>0. SessionAcked(<<>>, sHome.cache)
  BY DEF SessionAcked
<1>h. sHome' = sHome
  BY DEF Session!Offer, Session!Acknowledged, Session!Register, Session!RecordAck, Session!Serve,
         Session!TaskFails, Session!Clear, Session!ForgetAck, Session!Cut, Session!Change,
         Session!ServerRestart
<1>s. ASSUME sAck' <= sHome.cache,
             \A d \in HomeConns :
               sConn'[d].toServer \in {sConn[d].toServer, Tail(sConn[d].toServer), <<>>},
             \A d \in HomeConns :
               sConn[d].toServer = <<>> => sConn'[d].toServer \in {sConn[d].toServer, <<>>}
      PROVE  SessionDurable'
  <2>1. \A d \in HomeConns : SessionAcked(sConn'[d].toServer, sHome.cache)
    <3>1. ASSUME NEW d \in HomeConns PROVE SessionAcked(sConn'[d].toServer, sHome.cache)
      <4>1. sConn[d].toServer # <<>> => SessionAcked(Tail(sConn[d].toServer), sHome.cache)
        BY <1>t, <1>d, SessionAckedQueues
      <4>2. \/ sConn'[d].toServer = Tail(sConn[d].toServer) /\ sConn[d].toServer # <<>>
            \/ sConn'[d].toServer = sConn[d].toServer \/ sConn'[d].toServer = <<>>
        BY <1>s
      <4> QED BY <1>d, <1>0, <4>1, <4>2
    <3> QED BY <3>1
  <2> QED BY <1>s, <1>h, <2>1 DEF SessionDurable, SessionAcked
<1>a. sAck <= sHome.cache /\ 0 <= sHome.cache
  BY <1>t DEF SessionDurable
<1>1. ASSUME NEW c \in HomeConns, Session!Offer(c) PROVE SessionDurable'
  <2>1. \A d \in HomeConns : sConn'[d].toServer =
           IF d = c THEN Tail(sConn[d].toServer) ELSE sConn[d].toServer
    BY <1>1, <1>t DEF Session!Offer, Session!Conn
  <2> QED BY <1>1, <1>s, <1>a, <2>1 DEF Session!Offer, Session!Pending
<1>2. ASSUME NEW c \in HomeConns, Session!Acknowledged(c) \/ Session!RecordAck(c) PROVE SessionDurable'
  <2>1. \A d \in HomeConns : sConn'[d].toServer =
           IF d = c THEN Tail(sConn[d].toServer) ELSE sConn[d].toServer
    <3>1. CASE Session!Acknowledged(c)
      BY <3>1, <1>t DEF Session!Acknowledged, Session!Conn
    <3>2. CASE Session!RecordAck(c)
      BY <3>2, <1>t DEF Session!RecordAck, Session!Conn
    <3> QED BY <1>2, <3>1, <3>2
  <2>2. sConn[c].toServer # <<>> /\ Head(sConn[c].toServer).kind = "ack"
    BY <1>2 DEF Session!Acknowledged, Session!RecordAck, Session!Pending
  <2>3. sAck' = Session!Recorded(Head(sConn[c].toServer).generation)
    BY <1>2 DEF Session!Acknowledged, Session!RecordAck
  <2>4. Head(sConn[c].toServer).generation <= sHome.cache
    BY <1>t, <1>d, <2>2, SessionAckedQueues
  <2>5. sAck' <= sHome.cache
    BY <1>a, <2>3, <2>4 DEF Session!Recorded, Session!Larger
  <2> QED BY <1>s, <2>1, <2>2, <2>5
<1>3. ASSUME NEW c \in HomeConns, Session!Register(c) PROVE SessionDurable'
  <2>1. ASSUME NEW d \in HomeConns PROVE sConn'[d].toServer = sConn[d].toServer
    BY <1>3, <1>t DEF Session!Register, Session!Conn
  <2> QED BY <1>3, <1>s, <1>a, <2>1 DEF Session!Register
<1>4. ASSUME NEW c \in HomeConns, Session!Serve(c) PROVE SessionDurable'
  <2>1. ASSUME NEW d \in HomeConns
        PROVE  sConn'[d].toServer = IF d = c THEN Tail(sConn[d].toServer) ELSE sConn[d].toServer
    <3> DEFINE s == IF d = c THEN Tail(sConn[d].toServer) ELSE sConn[d].toServer
               h == (IF d = sRegistry.session /\ sGranted' # sGranted
                     THEN Append(sConn[d].toHome, [kind |-> "snapshot", generation |-> sGranted'])
                     ELSE sConn[d].toHome)
                    \o (IF d = c THEN <<[kind |-> "result"]>> ELSE <<>>)
    <3>1. sConn'[d] = [sConn[d] EXCEPT !.toServer = s, !.toHome = h]
      BY <1>4 DEF Session!Serve
    <3> HIDE DEF s, h
    <3>2. sConn'[d].toServer = s
      BY <1>t, <3>1 DEF Session!Conn
    <3> QED BY <3>2 DEF s
  <2> QED BY <1>4, <1>s, <1>a, <2>1 DEF Session!Serve, Session!Pending
<1>5. ASSUME NEW c \in HomeConns, Session!TaskFails(c) \/ Session!Clear(c) \/ Session!ForgetAck(c)
      PROVE  SessionDurable'
  <2>1. \A d \in HomeConns : sConn'[d].toServer \in {sConn[d].toServer, <<>>}
    <3>1. sConn' = [sConn EXCEPT ![c] = Session!Ended(c)]
          \/ sConn' = [sConn EXCEPT ![c] = [sConn[c] EXCEPT !.task = "clearing"]]
          \/ sConn' = [sConn EXCEPT ![c] = [sConn[c] EXCEPT !.task = "forgetting"]]
      BY <1>5, <1>t DEF Session!TaskFails, Session!Clear, Session!ForgetAck
    <3>2. \A t : [sConn[c] EXCEPT !.task = t].toServer = sConn[c].toServer
      BY <1>t DEF Session!Conn
    <3>3. PICK e : e = Session!Ended(c)
      OBVIOUS
    <3>4. e.toServer = <<>>
      BY <3>3, SessionEndedFields
    <3>5. sConn' = [sConn EXCEPT ![c] = e]
          \/ \E t : sConn' = [sConn EXCEPT ![c] = [sConn[c] EXCEPT !.task = t]]
      BY <3>1, <3>3
    <3>6. \A d \in HomeConns \ {c} : sConn'[d] = sConn[d]
      BY <1>t, <3>5
    <3>7. sConn'[c].toServer \in {sConn[c].toServer, <<>>}
      BY <1>t, <3>2, <3>4, <3>5
    <3> QED BY <3>6, <3>7
  <2>2. sAck' \in {sAck, 0}
    BY <1>5 DEF Session!TaskFails, Session!Clear, Session!ForgetAck
  <2> QED BY <1>s, <1>a, <2>1, <2>2
<1>6. ASSUME NEW c \in HomeConns, Session!Cut(c) PROVE SessionDurable'
  <2>1. \A d \in HomeConns : sConn'[d].toServer = sConn[d].toServer
    BY <1>6, <1>t DEF Session!Cut, Session!Conn
  <2> QED BY <1>6, <1>s, <1>a, <2>1 DEF Session!Cut
<1>7. CASE Session!Change
  <2>1. ASSUME NEW d \in HomeConns PROVE sConn'[d].toServer = sConn[d].toServer
    <3> DEFINE h == IF d = sRegistry.session
                    THEN Append(sConn[d].toHome, [kind |-> "snapshot", generation |-> sGranted'])
                    ELSE sConn[d].toHome
    <3>1. sConn'[d] = [sConn[d] EXCEPT !.toHome = h]
      BY <1>7 DEF Session!Change
    <3> HIDE DEF h
    <3> QED BY <1>t, <3>1 DEF Session!Conn
  <2> QED BY <1>7, <1>s, <1>a, <2>1 DEF Session!Change
<1>8. CASE Session!ServerRestart
  <2>1. \A d \in HomeConns : sConn'[d].toServer = <<>>
    BY <1>8, SessionEndedFields DEF Session!ServerRestart
  <2> QED BY <1>8, <1>s, <1>a, <2>1 DEF Session!ServerRestart
<1> QED BY <1>1, <1>2, <1>3, <1>4, <1>5, <1>6, <1>7, <1>8

LEMMA SessionDurableStep ==
  ASSUME Session!TypeOK, SessionDurable, [Session!Next]_(Session!vars)
  PROVE  SessionDurable'
<1>1. CASE UNCHANGED Session!vars
  BY <1>1 DEF Session!vars, SessionDurable
<1> QED
  BY <1>1, SessionDurableHome, SessionDurableServer
     DEF Session!Next, Session!Progress, Session!Environment

\* What a Home acknowledges is in its durable cache (apply_authorization_snapshot).
THEOREM ControlAcksAreDurable == ControlSpec => []AckIsDurable
<1> DEFINE Inv == comp = "session" => Session!TypeOK /\ SessionDurable
<1>1. ControlInit => Inv
  BY SessionTypeInit
     DEF ControlInit, Session!Init, SessionDurable, Session!Loaded, Session!NewConn
<1>2. Inv /\ [ControlNext]_<<vars, shared, comp>> => Inv'
  <2> SUFFICES ASSUME Inv, [ControlNext]_<<vars, shared, comp>>, comp' = "session"
               PROVE  Session!TypeOK' /\ SessionDurable'
    OBVIOUS
  <2> QED BY SessionTurn, SessionTypeStep, SessionDurableStep
<1>3. Inv => AckIsDurable
  <2> SUFFICES ASSUME Inv, comp = "session" PROVE Session!AckIsDurable
    BY DEF AckIsDurable
  <2>1. \A c \in HomeConns : DOMAIN sConn[c].toServer = 1..Len(sConn[c].toServer)
    BY DEF Session!TypeOK, Session!Conn
  <2> QED BY <2>1 DEF SessionDurable, Session!AckIsDurable
<1> QED BY <1>1, <1>2, <1>3, PTL DEF ControlSpec

-----------------------------------------------------------------------------
(* What a Travel process believes of the control plane (module ControlTrust). *)

tLegacy == v1
tImported == v2
tDisk == v3
tHistory == v4
tInstalled == v5
tPhase == v6
tMemory == v7
tKnown == v8
tShown == v9
tTask == v10
tObserved == v11
tExpired == v12
tCrashes == v13
tOverlap == v14
tDetached == v15
tAbandoned == v16
USE DEF tLegacy, tImported, tDisk, tHistory, tInstalled, tPhase, tMemory, tKnown, tShown,
        tTask, tObserved, tExpired, tCrashes, tOverlap, tDetached, tAbandoned

LEMMA TrustTurn ==
  ASSUME [ControlNext]_<<vars, shared, comp>>, comp' = "trust"
  PROVE  comp = "trust" /\ [Trust!Next]_(Trust!vars)
  BY DEF ControlNext, DirectoryStep, LoginStep, TrustStep, NewHomeStep, RemoteStep,
         HomesStep, SessionStep, shared, Trust!vars

TrustTask == [at : {"idle", "committing", "trust", "directory", "catalog"},
              snapshot : ControlSnapshots \cup {Absent}]

LEMMA TrustRecords ==
  /\ Trust!NewState \in Trust!Marks
  /\ Trust!Nothing \in [trust : Nat, directory : Nat, catalog : Nat]
  /\ Trust!Idle \in TrustTask /\ Trust!Idle.at = "idle"
  /\ Absent \notin Trust!Marks /\ Absent \notin ControlSnapshots
  /\ OldFile \in Trust!Marks \cup {Absent}
  /\ \A s \in ControlSnapshots :
        /\ s.trust \in Nat /\ s.epoch \in Nat /\ s.generation \in Nat /\ s.generation # 0
        /\ Trust!Marked(s) \in Trust!Marks
  BY TrustConstants DEF Trust!NewState, Trust!Marks, Trust!Nothing, Trust!Idle, TrustTask, Trust!Marked

LEMMA TrustTypeInit ==
  ASSUME Trust!Init
  PROVE  Trust!TypeOK
<1>1. tLegacy \in Trust!Marks \cup {Absent} /\ tMemory \in Trust!Marks
      /\ tShown \in [trust : Nat, directory : Nat, catalog : Nat]
      /\ tTask \in [SnapshotTasks -> TrustTask]
  BY TrustRecords DEF Trust!Init
<1>2. tHistory \in [Trust!KnownRelays -> Nat] /\ tKnown \in [Trust!KnownRelays -> Nat]
  BY DEF Trust!Init
<1>3. /\ tImported = Absent /\ tDisk = Absent /\ tInstalled \in InstalledTrusts
      /\ tPhase = "stopped" /\ tObserved = {} /\ tExpired = {} /\ tCrashes \in 0..MaxCrashes
      /\ tOverlap = FALSE /\ tDetached = {} /\ tAbandoned = FALSE
  BY TrustConstants DEF Trust!Init
<1> QED BY <1>1, <1>2, <1>3 DEF Trust!TypeOK, TrustTask

\* What a start reads, and what it makes of it.
LEMMA TrustLoaded ==
  ASSUME Trust!TypeOK
  PROVE  /\ Trust!Loaded \in Trust!Marks
         /\ Trust!Raised(Trust!Loaded) \in Trust!Marks
         /\ LET m == Trust!Raised(Trust!Loaded) IN
            /\ m.trust >= Trust!Loaded.trust /\ m.epoch = Trust!Loaded.epoch
            /\ m.generation = Trust!Loaded.generation /\ m.cached = Trust!Loaded.cached
<1>1. Trust!Loaded \in Trust!Marks
  BY TrustRecords DEF Trust!Loaded, Trust!TypeOK
<1>2. tInstalled \in Nat
  BY TrustConstants DEF Trust!TypeOK
<1>3. \A m \in Trust!Marks : /\ Trust!Raised(m) \in Trust!Marks
                             /\ Trust!Raised(m).trust >= m.trust /\ Trust!Raised(m).epoch = m.epoch
                             /\ Trust!Raised(m).generation = m.generation
                             /\ Trust!Raised(m).cached = m.cached
  BY <1>2 DEF Trust!Raised, Trust!Marks
<1> QED BY <1>1, <1>3

LEMMA TrustShownAt ==
  ASSUME Trust!TypeOK, NEW m \in Trust!Marks
  PROVE  /\ Trust!ShownAt(m) \in [trust : Nat, directory : Nat, catalog : Nat]
         /\ Trust!ShownAt(m).directory = Trust!ShownAt(m).catalog
         /\ \/ Trust!ShownAt(m).directory = 0
            \/ Trust!Matches(m) /\ Trust!ShownAt(m).directory = m.cached.generation
<1>1. Trust!Matches(m) => m.cached \in ControlSnapshots
  BY DEF Trust!Matches, Trust!Marks
<1>2. tInstalled \in Nat
  BY TrustConstants DEF Trust!TypeOK
<1>3. CASE Trust!Matches(m) /\ Trust!Verified(m.cached)
  <2>1. Trust!ShownAt(m) = [trust |-> m.cached.trust, directory |-> m.cached.generation,
                            catalog |-> m.cached.generation]
    BY <1>3 DEF Trust!ShownAt
  <2> QED BY <1>1, <1>3, <2>1, TrustRecords
<1>4. CASE ~(Trust!Matches(m) /\ Trust!Verified(m.cached))
  <2>1. Trust!ShownAt(m) = [trust |-> tInstalled, directory |-> 0, catalog |-> 0]
    BY <1>4 DEF Trust!ShownAt
  <2> QED BY <1>2, <2>1
<1> QED BY <1>3, <1>4

LEMMA TrustListed ==
  ASSUME NEW records \in [Trust!KnownRelays -> Nat], NEW relays, NEW g \in Nat
  PROVE  /\ Trust!Listed(records, relays, g) \in [Trust!KnownRelays -> Nat]
         /\ \A r \in Trust!KnownRelays :
              Trust!Listed(records, relays, g)[r] = IF r \in relays THEN g ELSE records[r]
  BY DEF Trust!Listed

\* What a dropped commit leaves with its blocking thread.
TrustBatch == [number : 0..MaxCrashes, mark : Trust!Marks, records : [Trust!KnownRelays -> Nat]]

LEMMA TrustPut ==
  ASSUME NEW records \in [Trust!KnownRelays -> Nat], NEW batch \in [Trust!KnownRelays -> Nat]
  PROVE  /\ Trust!Put(records, batch) \in [Trust!KnownRelays -> Nat]
         /\ \A r \in Trust!KnownRelays :
              Trust!Put(records, batch)[r] = IF batch[r] # 0 THEN batch[r] ELSE records[r]
  BY DEF Trust!Put

\* A step that moves one task.
LEMMA TrustOneTask ==
  ASSUME Trust!TypeOK, NEW t \in SnapshotTasks, NEW k \in TrustTask, tTask' = [tTask EXCEPT ![t] = k]
  PROVE  /\ tTask' \in [SnapshotTasks -> TrustTask]
         /\ \A u \in SnapshotTasks : tTask'[u] = IF u = t THEN k ELSE tTask[u]
  BY DEF Trust!TypeOK, TrustTask

\* The steps that advance a task by setting where it is.
LEMMA TrustAdvance ==
  ASSUME Trust!TypeOK, NEW t \in SnapshotTasks, NEW at \in {"trust", "directory", "catalog"},
         tTask' = [tTask EXCEPT ![t].at = at]
  PROVE  /\ tTask' \in [SnapshotTasks -> TrustTask]
         /\ \A u \in SnapshotTasks : u # t => tTask'[u] = tTask[u]
         /\ tTask'[t].at = at /\ tTask'[t].snapshot = tTask[t].snapshot
  BY DEF Trust!TypeOK, TrustTask

LEMMA TrustTypeStep ==
  ASSUME Trust!TypeOK, [Trust!Next]_(Trust!vars),
         \A t \in SnapshotTasks : tTask[t].at # "idle" => tTask[t].snapshot \in ControlSnapshots
  PROVE  Trust!TypeOK'
<1>t. /\ tTask \in [SnapshotTasks -> TrustTask]
      /\ \A t \in SnapshotTasks : tTask[t] \in TrustTask
      /\ tShown \in [trust : Nat, directory : Nat, catalog : Nat]
      /\ tKnown \in [Trust!KnownRelays -> Nat] /\ tHistory \in [Trust!KnownRelays -> Nat]
      /\ tDetached \subseteq TrustBatch
  BY DEF Trust!TypeOK, TrustTask, TrustBatch
<1>0. CASE UNCHANGED Trust!vars
  BY <1>0 DEF Trust!vars, Trust!TypeOK
<1>1. CASE Trust!Load
  <2> DEFINE m == Trust!Raised(Trust!Loaded)
  <2>1. m \in Trust!Marks
    BY TrustLoaded
  <2>2. m.generation \in Nat
    BY <2>1 DEF Trust!Marks
  <2>3. /\ tDisk' = m /\ tMemory' = m /\ tShown' = Trust!ShownAt(m)
        /\ tHistory' = Trust!Listed(tHistory, Trust!Migrated(m), m.generation)
        /\ tImported' \in {tLegacy, tImported} /\ tPhase' = "committed"
        /\ UNCHANGED <<tLegacy, tInstalled, tKnown, tTask, tObserved, tExpired, tCrashes, tOverlap,
                       tDetached, tAbandoned>>
    BY <1>1 DEF Trust!Load
  <2> HIDE DEF m
  <2>4. tHistory' \in [Trust!KnownRelays -> Nat] /\ tShown' \in [trust : Nat, directory : Nat, catalog : Nat]
    BY <1>t, <2>1, <2>2, <2>3, TrustListed, TrustShownAt
  <2> QED BY <2>1, <2>3, <2>4 DEF Trust!TypeOK
<1>2. CASE Trust!RemoveLegacy
  BY <1>2 DEF Trust!RemoveLegacy, Trust!TypeOK
<1>3. CASE Trust!LoadHistory
  BY <1>3 DEF Trust!LoadHistory, Trust!TypeOK
<1>4. CASE Trust!Crash
  <2>1. tTask' \in [SnapshotTasks -> TrustTask] /\ tMemory' \in Trust!Marks
        /\ tShown' \in [trust : Nat, directory : Nat, catalog : Nat]
    BY <1>4, TrustRecords DEF Trust!Crash
  <2>2. tKnown' \in [Trust!KnownRelays -> Nat] /\ tCrashes' \in 0..MaxCrashes
        /\ tObserved' \subseteq [relay : Trust!KnownRelays, generation : Nat]
    BY <1>4, TrustConstants DEF Trust!Crash, Trust!TypeOK
  <2> QED BY <1>4, <2>1, <2>2 DEF Trust!Crash, Trust!TypeOK, TrustTask
<1>5. ASSUME NEW r \in Trust!KnownRelays, Trust!ObserveRelay(r) PROVE Trust!TypeOK'
  <2>1. tObserved' \subseteq [relay : Trust!KnownRelays, generation : Nat]
    BY <1>5, <1>t DEF Trust!ObserveRelay, Trust!TypeOK
  <2>2. tCrashes' \in 0..MaxCrashes
    BY <1>5, TrustConstants DEF Trust!ObserveRelay, Trust!TypeOK
  <2> QED BY <1>5, <2>1, <2>2 DEF Trust!ObserveRelay, Trust!TypeOK
<1>6. ASSUME NEW o \in tObserved, Trust!WriteObservation(o) PROVE Trust!TypeOK'
  <2>1. o.generation \in Nat
    BY <1>6 DEF Trust!TypeOK
  <2>2. tHistory' \in [Trust!KnownRelays -> Nat]
    BY <1>6, <1>t, <2>1 DEF Trust!WriteObservation
  <2> QED BY <1>6, <2>2 DEF Trust!WriteObservation, Trust!TypeOK
<1>7. ASSUME NEW g \in InstalledTrusts, Trust!InstallTrust(g) PROVE Trust!TypeOK'
  BY <1>7 DEF Trust!InstallTrust, Trust!TypeOK
<1>8. ASSUME NEW s \in ControlSnapshots, Trust!Expire(s) PROVE Trust!TypeOK'
  BY <1>8 DEF Trust!Expire, Trust!TypeOK
<1>9. ASSUME NEW t \in SnapshotTasks, Trust!TaskStep(t) PROVE Trust!TypeOK'
  <2> DEFINE s == tTask[t].snapshot
  <2>1. ASSUME NEW x \in ControlSnapshots, Trust!Receive(t, x) PROVE Trust!TypeOK'
    <3>1. [at |-> "committing", snapshot |-> x] \in TrustTask
      BY DEF TrustTask
    <3>2. tTask' \in [SnapshotTasks -> TrustTask]
      BY <2>1, <3>1, TrustOneTask DEF Trust!Receive
    <3> QED BY <2>1, <3>2 DEF Trust!Receive, Trust!TypeOK, TrustTask
  <2>2. CASE Trust!Commit(t)
    <3>1. s \in ControlSnapshots
      BY <2>2 DEF Trust!Commit
    <3>2. /\ tDisk' = Trust!Marked(s) /\ tMemory' = Trust!Marked(s)
          /\ tKnown' = Trust!Listed(tKnown, s.relays, s.generation)
          /\ tHistory' = Trust!Put(tHistory, Trust!Listed(tKnown, s.relays, s.generation))
          /\ tTask' = [tTask EXCEPT ![t].at = "trust"] /\ tOverlap' \in BOOLEAN /\ tAbandoned' \in BOOLEAN
          /\ UNCHANGED <<tLegacy, tImported, tInstalled, tPhase, tShown, tObserved, tExpired, tCrashes,
                         tDetached>>
      BY <2>2 DEF Trust!Commit, Trust!TypeOK
    <3>3. Trust!Marked(s) \in Trust!Marks /\ s.generation \in Nat
      BY <3>1, TrustRecords
    <3>4. tHistory' \in [Trust!KnownRelays -> Nat] /\ tKnown' \in [Trust!KnownRelays -> Nat]
      BY <1>t, <3>2, <3>3, TrustListed, TrustPut
    <3>5. tTask' \in [SnapshotTasks -> TrustTask]
      BY <3>2, TrustAdvance
    <3> QED BY <3>2, <3>3, <3>4, <3>5 DEF Trust!TypeOK, TrustTask
  <2>3. CASE Trust!CommitFails(t)
    <3>1. tTask' \in [SnapshotTasks -> TrustTask]
      BY <2>3, TrustOneTask, TrustRecords DEF Trust!CommitFails
    <3>2. tCrashes' \in 0..MaxCrashes
      BY <2>3, TrustConstants DEF Trust!CommitFails, Trust!TypeOK
    <3> QED BY <2>3, <3>1, <3>2 DEF Trust!CommitFails, Trust!TypeOK, TrustTask
  <2>7. CASE Trust!DropCommitting(t)
    <3>1. /\ tDetached' = tDetached \cup
                {[number |-> tCrashes, mark |-> Trust!Marked(s),
                  records |-> Trust!Listed(tKnown, s.relays, s.generation)]}
          /\ s \in ControlSnapshots /\ tAbandoned' = TRUE
          /\ UNCHANGED <<tLegacy, tImported, tDisk, tHistory, tInstalled, tPhase, tMemory, tKnown,
                         tShown, tObserved, tExpired, tOverlap>>
      BY <2>7 DEF Trust!DropCommitting
    <3>2. tTask' \in [SnapshotTasks -> TrustTask]
      BY <2>7, TrustOneTask, TrustRecords DEF Trust!DropCommitting
    <3>3. tCrashes' \in 0..MaxCrashes /\ tCrashes \in 0..MaxCrashes
      BY <2>7, TrustConstants DEF Trust!DropCommitting, Trust!TypeOK
    <3>4. Trust!Marked(s) \in Trust!Marks /\ s.generation \in Nat
      BY <3>1, TrustRecords
    <3>5. Trust!Listed(tKnown, s.relays, s.generation) \in [Trust!KnownRelays -> Nat]
      BY <1>t, <3>4, TrustListed
    <3>6. tDetached' \subseteq TrustBatch
      BY <1>t, <3>1, <3>3, <3>4, <3>5 DEF TrustBatch
    <3> QED BY <3>1, <3>2, <3>3, <3>6 DEF Trust!TypeOK, TrustTask, TrustBatch
  <2>8. CASE Trust!DropShowing(t)
    <3>1. tTask' \in [SnapshotTasks -> TrustTask]
      BY <2>8, TrustOneTask, TrustRecords DEF Trust!DropShowing
    <3>2. tCrashes' \in 0..MaxCrashes
      BY <2>8, TrustConstants DEF Trust!DropShowing, Trust!TypeOK
    <3> QED BY <2>8, <3>1, <3>2 DEF Trust!DropShowing, Trust!TypeOK, TrustTask
  <2>4. CASE Trust!ShowTrust(t)
    <3>1. tTask' \in [SnapshotTasks -> TrustTask]
      BY <2>4, TrustAdvance DEF Trust!ShowTrust
    <3>2. s \in ControlSnapshots
      BY <2>4 DEF Trust!ShowTrust
    <3>3. tShown' \in [trust : Nat, directory : Nat, catalog : Nat]
      BY <1>t, <2>4, <3>2, TrustRecords DEF Trust!ShowTrust
    <3> QED BY <2>4, <3>1, <3>3 DEF Trust!ShowTrust, Trust!TypeOK, TrustTask
  <2>5. CASE Trust!ShowDirectory(t)
    <3>1. tTask' \in [SnapshotTasks -> TrustTask]
      BY <2>5, TrustAdvance DEF Trust!ShowDirectory
    <3>2. s \in ControlSnapshots
      BY <2>5 DEF Trust!ShowDirectory
    <3>3. tShown' \in [trust : Nat, directory : Nat, catalog : Nat]
      BY <1>t, <2>5, <3>2, TrustRecords DEF Trust!ShowDirectory
    <3> QED BY <2>5, <3>1, <3>3 DEF Trust!ShowDirectory, Trust!TypeOK, TrustTask
  <2>6. CASE Trust!ShowCatalog(t)
    <3>1. tTask' \in [SnapshotTasks -> TrustTask]
      BY <2>6, TrustOneTask, TrustRecords DEF Trust!ShowCatalog
    <3>2. s \in ControlSnapshots
      BY <2>6 DEF Trust!ShowCatalog
    <3>3. tShown' \in [trust : Nat, directory : Nat, catalog : Nat]
      BY <1>t, <2>6, <3>2, TrustRecords DEF Trust!ShowCatalog
    <3> QED BY <2>6, <3>1, <3>3 DEF Trust!ShowCatalog, Trust!TypeOK, TrustTask
  <2> QED BY <1>9, <2>1, <2>2, <2>3, <2>4, <2>5, <2>6, <2>7, <2>8 DEF Trust!TaskStep
<1>10. ASSUME NEW b \in tDetached, Trust!WriteDetached(b) PROVE Trust!TypeOK'
  <2>1. b.mark \in Trust!Marks /\ b.records \in [Trust!KnownRelays -> Nat]
    BY <1>t DEF TrustBatch
  <2>2. tHistory' \in [Trust!KnownRelays -> Nat]
    BY <1>t, <1>10, <2>1, TrustPut DEF Trust!WriteDetached
  <2> QED BY <1>10, <2>1, <2>2 DEF Trust!WriteDetached, Trust!TypeOK
<1> QED BY <1>0, <1>1, <1>2, <1>3, <1>4, <1>5, <1>6, <1>7, <1>8, <1>9, <1>10 DEF Trust!Next

\* While the process runs and no commit was abandoned, memory is what the store has;
\* a dropped commit that is still to be written has been noticed as abandoned; a task
\* has a snapshot, and the one that commits has one that memory would accept; a Relay
\* known in memory is in the store, and so are the Relays of the snapshots that the
\* marks of both stand for; what is shown or about to be is not ahead of memory.
TrustAccepted ==
    /\ tPhase # "stopped" => tDisk # Absent /\ (~tAbandoned => tMemory = tDisk)
    /\ ~tAbandoned => tDetached = {}
    /\ tPhase # "running" =>
          /\ \A r \in Trust!KnownRelays : tKnown[r] = 0
          /\ tObserved = {} /\ tDetached = {} /\ \A t \in SnapshotTasks : tTask[t].at = "idle"
    /\ \A t \in SnapshotTasks : tTask[t].at # "idle" => tTask[t].snapshot \in ControlSnapshots
    /\ \A t \in SnapshotTasks : tTask[t].at = "committing" =>
          ~Trust!Refused(tMemory, tTask[t].snapshot) /\ Trust!Newer(tMemory, tTask[t].snapshot)
    /\ \A t, u \in SnapshotTasks : tTask[t].at = "committing" /\ tTask[u].at = "committing" => t = u

TrustHistory ==
    /\ \A r \in Trust!KnownRelays : tKnown[r] # 0 => tHistory[r] # 0
    /\ \A o \in tObserved : o.generation # 0
    /\ \A b \in tDetached : \A r \in b.mark.cached.relays : b.records[r] # 0
    /\ tPhase # "stopped" /\ Trust!Matches(tDisk) /\ tDisk.cached \notin tExpired =>
          \A r \in tDisk.cached.relays : tHistory[r] # 0
    /\ tPhase # "stopped" /\ Trust!Matches(tMemory) /\ tMemory.cached \notin tExpired =>
          \A r \in tMemory.cached.relays :
             tHistory[r] # 0 /\ (tPhase = "running" => tKnown[r] # 0)

TrustShown ==
    /\ tPhase # "stopped" /\ tShown.directory # 0 =>
          \E s \in ControlSnapshots :
             s.generation = tShown.directory /\ Trust!AtLeast(tMemory, Trust!Marked(s))
    /\ \A t \in Trust!Showing : Trust!AtLeast(tMemory, Trust!Marked(tTask[t].snapshot))

\* Unless two accepted snapshots were being shown at once or one was dropped on the
\* way, the one being shown is that of memory.
TrustTogether ==
    ~tOverlap =>
        /\ \A t, u \in Trust!Showing : t = u
        /\ \A t \in Trust!Showing :
              /\ tTask[t].snapshot.generation = tMemory.generation
              /\ tTask[t].at = "catalog" => tShown.directory = tMemory.generation
        /\ Trust!Showing = {} => /\ tShown.directory = tShown.catalog
                                 /\ tShown.directory \in {0, tMemory.generation}

LEMMA TrustAcceptedStep ==
  ASSUME Trust!TypeOK, TrustAccepted, [Trust!Next]_(Trust!vars)
  PROVE  TrustAccepted'
<1>t. /\ tTask \in [SnapshotTasks -> TrustTask]
      /\ \A t \in SnapshotTasks : tTask[t] \in TrustTask
  BY DEF Trust!TypeOK, TrustTask
<1>0. CASE UNCHANGED Trust!vars
  BY <1>0 DEF Trust!vars, TrustAccepted
<1>1. CASE Trust!Load
  <2>1. tDisk' # Absent /\ tMemory' = tDisk' /\ tPhase = "stopped" /\ tPhase' = "committed"
        /\ UNCHANGED <<tKnown, tObserved, tTask, tDetached, tAbandoned>>
    BY <1>1, TrustLoaded, TrustRecords DEF Trust!Load
  <2> QED BY <2>1 DEF TrustAccepted
<1>2. CASE Trust!RemoveLegacy \/ Trust!LoadHistory
  <2>1. tPhase \in {"committed", "cleaned"} /\ tPhase' \in {"cleaned", "running"}
        /\ (tPhase' = "running" \/ tKnown' = tKnown)
        /\ UNCHANGED <<tDisk, tMemory, tObserved, tTask, tDetached, tAbandoned>>
    BY <1>2 DEF Trust!RemoveLegacy, Trust!LoadHistory
  <2> QED BY <2>1 DEF TrustAccepted
<1>4. CASE Trust!Crash
  <2>1. \A t \in SnapshotTasks : tTask'[t].at = "idle"
    BY <1>4, TrustRecords DEF Trust!Crash
  <2>2. tPhase' = "stopped" /\ tObserved' = {} /\ tDetached' = {} /\ \A r \in Trust!KnownRelays : tKnown'[r] = 0
    BY <1>4 DEF Trust!Crash
  <2> QED BY <2>1, <2>2 DEF TrustAccepted
<1>5. CASE \E r \in Trust!KnownRelays : Trust!ObserveRelay(r)
  BY <1>5 DEF Trust!ObserveRelay, TrustAccepted
<1>6. CASE \E o \in tObserved : Trust!WriteObservation(o)
  BY <1>6 DEF Trust!WriteObservation, TrustAccepted
<1>7. CASE (\E g \in InstalledTrusts : Trust!InstallTrust(g)) \/ (\E s \in ControlSnapshots : Trust!Expire(s))
  BY <1>7 DEF Trust!InstallTrust, Trust!Expire, TrustAccepted
<1>9. ASSUME NEW t \in SnapshotTasks, Trust!TaskStep(t) PROVE TrustAccepted'
  <2>0. tTask[t].at # "idle" \/ tPhase = "running"
    BY <1>9 DEF Trust!TaskStep, Trust!Receive, Trust!Commit, Trust!CommitFails, Trust!ShowTrust,
                Trust!ShowDirectory, Trust!ShowCatalog, Trust!DropCommitting, Trust!DropShowing, Trust!Showing
  <2>p. tPhase = "running" /\ tPhase' = "running" /\ tDisk # Absent /\ (~tAbandoned => tMemory = tDisk)
    BY <1>9, <2>0 DEF TrustAccepted, Trust!TaskStep, Trust!Receive, Trust!Commit, Trust!CommitFails,
                Trust!ShowTrust, Trust!ShowDirectory, Trust!ShowCatalog, Trust!DropCommitting,
                Trust!DropShowing
  <2>1. ASSUME NEW x \in ControlSnapshots, Trust!Receive(t, x) PROVE TrustAccepted'
    <3>1. [at |-> "committing", snapshot |-> x] \in TrustTask
      BY DEF TrustTask
    <3>2. \A u \in SnapshotTasks : tTask'[u] = IF u = t THEN [at |-> "committing", snapshot |-> x] ELSE tTask[u]
      BY <2>1, <3>1, TrustOneTask DEF Trust!Receive
    <3>3. /\ tTask'[t].at = "committing" /\ tTask'[t].snapshot = x
          /\ \A u \in SnapshotTasks \ {t} : tTask'[u] = tTask[u]
      BY <3>2
    <3>4. \A u \in SnapshotTasks : tTask[u].at # "committing"
      BY <2>1 DEF Trust!Receive, Trust!Locked
    <3>5. ~Trust!Refused(tMemory, x) /\ Trust!Newer(tMemory, x) /\ UNCHANGED <<tDisk, tMemory, tDetached, tAbandoned>>
      BY <2>1 DEF Trust!Receive
    <3> QED BY <2>p, <3>3, <3>4, <3>5 DEF TrustAccepted
  <2>2. CASE Trust!Commit(t)
    <3>1. tTask[t].at = "committing" /\ tTask[t].snapshot \in ControlSnapshots
          /\ \A u \in SnapshotTasks : u # t => tTask[u].at # "committing"
      BY <2>2 DEF Trust!Commit, TrustAccepted
    <3>2. tDisk' = tMemory' /\ tDisk' # Absent /\ tDetached' = tDetached /\ (tAbandoned' <=> tDetached # {})
      BY <2>2, <3>1, TrustRecords DEF Trust!Commit
    <3>3. /\ tTask'[t].at = "trust" /\ tTask'[t].snapshot = tTask[t].snapshot
          /\ \A u \in SnapshotTasks : u # t => tTask'[u] = tTask[u]
      BY <2>2, TrustAdvance DEF Trust!Commit
    <3> QED BY <2>p, <3>1, <3>2, <3>3 DEF TrustAccepted
  <2>3. CASE Trust!CommitFails(t) \/ Trust!ShowCatalog(t) \/ Trust!DropCommitting(t) \/ Trust!DropShowing(t)
    <3>1. /\ tTask' = [tTask EXCEPT ![t] = Trust!Idle] /\ UNCHANGED <<tDisk, tMemory, tObserved, tKnown>>
          /\ UNCHANGED <<tDetached, tAbandoned>> \/ tAbandoned'
      BY <2>3 DEF Trust!CommitFails, Trust!ShowCatalog, Trust!DropCommitting, Trust!DropShowing
    <3>2. tTask'[t].at = "idle" /\ \A u \in SnapshotTasks : u # t => tTask'[u] = tTask[u]
      BY <3>1, TrustOneTask, TrustRecords
    <3> QED BY <2>p, <3>1, <3>2 DEF TrustAccepted
  <2>4. CASE Trust!ShowTrust(t) \/ Trust!ShowDirectory(t)
    <3>1. tTask[t].at # "idle" /\ UNCHANGED <<tDisk, tMemory, tObserved, tKnown, tDetached, tAbandoned>>
          /\ \E at \in {"directory", "catalog"} : tTask' = [tTask EXCEPT ![t].at = at]
      BY <2>4 DEF Trust!ShowTrust, Trust!ShowDirectory
    <3>2. /\ tTask'[t].at \in {"directory", "catalog"} /\ tTask'[t].snapshot = tTask[t].snapshot
          /\ \A u \in SnapshotTasks : u # t => tTask'[u] = tTask[u]
      BY <3>1, TrustAdvance
    <3> QED BY <2>p, <3>1, <3>2 DEF TrustAccepted
  <2> QED BY <1>9, <2>1, <2>2, <2>3, <2>4 DEF Trust!TaskStep
<1>10. CASE \E b \in tDetached : Trust!WriteDetached(b)
  <2>1. PICK b \in tDetached : Trust!WriteDetached(b)
    BY <1>10
  <2>2. b.mark \in Trust!Marks
    BY DEF Trust!TypeOK
  <2>3. tDisk' # Absent /\ tPhase = "running" /\ tAbandoned
    BY <2>1, <2>2, TrustRecords DEF Trust!WriteDetached, TrustAccepted
  <2>4. UNCHANGED <<tPhase, tMemory, tKnown, tTask, tObserved, tAbandoned>>
    BY <2>1 DEF Trust!WriteDetached
  <2> QED BY <2>3, <2>4 DEF TrustAccepted, Trust!Refused, Trust!Newer
<1> QED BY <1>0, <1>1, <1>2, <1>4, <1>5, <1>6, <1>7, <1>9, <1>10 DEF Trust!Next

LEMMA TrustTypes ==
  ASSUME Trust!TypeOK, TrustAccepted, [Trust!Next]_(Trust!vars)
  PROVE  Trust!TypeOK'
  BY TrustTypeStep DEF TrustAccepted

\* The mark of a snapshot that memory accepts is not behind memory's.
LEMMA TrustNewer ==
  ASSUME NEW m \in Trust!Marks, NEW s \in ControlSnapshots, ~Trust!Refused(m, s), Trust!Newer(m, s)
  PROVE  Trust!AtLeast(Trust!Marked(s), m)
  BY TrustRecords DEF Trust!AtLeast, Trust!Marked, Trust!Refused, Trust!Newer, Trust!Marks

LEMMA TrustOrder ==
  ASSUME NEW a \in Trust!Marks, NEW b \in Trust!Marks, NEW c \in Trust!Marks,
         Trust!AtLeast(a, b), Trust!AtLeast(b, c)
  PROVE  Trust!AtLeast(a, c)
  BY DEF Trust!AtLeast, Trust!Marks

LEMMA TrustMarkStep ==
  ASSUME Trust!TypeOK, TrustAccepted, [Trust!Next]_(Trust!vars)
  PROVE  Trust!MarkKept
<1>t. /\ Trust!Loaded \in Trust!Marks /\ tMemory \in Trust!Marks
      /\ Trust!AtLeast(Trust!Loaded, Trust!Loaded)
  BY TrustLoaded DEF Trust!AtLeast, Trust!Marks, Trust!TypeOK
<1>1. CASE Trust!Load
  <2>1. tDisk' = Trust!Raised(Trust!Loaded)
    BY <1>1 DEF Trust!Load
  <2>2. Trust!Loaded' = Trust!Raised(Trust!Loaded)
    BY <2>1, TrustLoaded, TrustRecords DEF Trust!Loaded
  <2>3. Trust!AtLeast(Trust!Raised(Trust!Loaded), Trust!Loaded)
    BY <1>t, TrustLoaded DEF Trust!AtLeast, Trust!Marks
  <2> QED BY <2>2, <2>3 DEF Trust!MarkKept, Trust!Durable
<1>2. ASSUME NEW t \in SnapshotTasks, Trust!Commit(t) PROVE Trust!MarkKept
  <2>1. tTask[t].at = "committing" /\ tDisk' = Trust!Marked(tTask[t].snapshot)
    BY <1>2 DEF Trust!Commit
  <2>2. tTask[t].snapshot \in ControlSnapshots /\ tPhase = "running"
    BY <2>1 DEF TrustAccepted
  <2>3. ~Trust!Refused(tMemory, tTask[t].snapshot) /\ Trust!Newer(tMemory, tTask[t].snapshot)
    BY <2>1 DEF TrustAccepted
  <2>4. Trust!AtLeast(Trust!Marked(tTask[t].snapshot), tMemory)
    BY <1>t, <2>2, <2>3, TrustNewer
  <2>5. ~tAbandoned => Trust!Loaded = tMemory
    BY <2>2 DEF TrustAccepted, Trust!Loaded
  <2>6. Trust!Loaded' = Trust!Marked(tTask[t].snapshot)
    BY <2>1, <2>2, TrustRecords DEF Trust!Loaded
  <2> QED BY <2>4, <2>5, <2>6 DEF Trust!MarkKept, Trust!Durable
<1>3. CASE tDisk' = tDisk /\ (tLegacy' = tLegacy \/ tPhase # "stopped")
  <2>1. Trust!Loaded' = Trust!Loaded
    BY <1>3 DEF Trust!Loaded, TrustAccepted
  <2> QED BY <1>t, <2>1 DEF Trust!MarkKept, Trust!Durable
<1>4. \/ Trust!Load \/ (\E t \in SnapshotTasks : Trust!Commit(t)) \/ tDetached # {}
      \/ tDisk' = tDisk /\ (tLegacy' = tLegacy \/ tPhase # "stopped")
  BY DEF Trust!Next, Trust!vars, Trust!RemoveLegacy, Trust!LoadHistory, Trust!Crash, Trust!ObserveRelay,
         Trust!WriteObservation, Trust!InstallTrust, Trust!Expire, Trust!TaskStep, Trust!Receive,
         Trust!CommitFails, Trust!ShowTrust, Trust!ShowDirectory, Trust!ShowCatalog,
         Trust!DropCommitting, Trust!DropShowing
<1>5. CASE tDetached # {}
  BY <1>5 DEF TrustAccepted, Trust!MarkKept
<1> QED BY <1>1, <1>2, <1>3, <1>4, <1>5

LEMMA TrustHistoryStep ==
  ASSUME Trust!TypeOK, TrustAccepted, TrustHistory, [Trust!Next]_(Trust!vars)
  PROVE  TrustHistory'
<1>t. /\ tKnown \in [Trust!KnownRelays -> Nat] /\ tHistory \in [Trust!KnownRelays -> Nat]
      /\ \A m \in Trust!Marks : Trust!Matches(m) =>
            m.cached \in ControlSnapshots /\ m.cached.generation = m.generation /\ m.generation # 0
  BY TrustRecords DEF Trust!TypeOK, Trust!Marks, Trust!Matches
<1>r. \A s \in ControlSnapshots : s.relays \subseteq Trust!KnownRelays
  BY DEF Trust!KnownRelays
<1>m. tPhase # "stopped" =>
        /\ Trust!Matches(tDisk) => tDisk.cached.relays \subseteq Trust!KnownRelays
        /\ Trust!Matches(tMemory) => tMemory.cached.relays \subseteq Trust!KnownRelays
  <2>1. tPhase # "stopped" => tDisk \in Trust!Marks /\ tMemory \in Trust!Marks
    BY DEF TrustAccepted, Trust!TypeOK
  <2> QED BY <1>t, <1>r, <2>1
<1>0. CASE UNCHANGED Trust!vars
  BY <1>0 DEF Trust!vars, TrustHistory, Trust!Matches
<1>1. CASE Trust!Load
  <2> DEFINE m == Trust!Raised(Trust!Loaded)
  <2>1. m \in Trust!Marks /\ m.generation \in Nat
    BY TrustLoaded DEF Trust!Marks
  <2>2. /\ tDisk' = m /\ tMemory' = m /\ tPhase' = "committed" /\ tPhase = "stopped"
        /\ tHistory' = Trust!Listed(tHistory, Trust!Migrated(m), m.generation)
        /\ UNCHANGED <<tKnown, tObserved, tExpired, tDetached>>
    BY <1>1 DEF Trust!Load
  <2> HIDE DEF m
  <2>3. \A r \in Trust!KnownRelays :
           tHistory'[r] = IF r \in Trust!Migrated(m) THEN m.generation ELSE tHistory[r]
    BY <1>t, <2>1, <2>2, TrustListed
  <2>4. ASSUME Trust!Matches(m), m.cached \notin tExpired, NEW r \in m.cached.relays
        PROVE  tHistory'[r] # 0
    BY <1>t, <1>r, <2>1, <2>3, <2>4 DEF Trust!Migrated, Trust!Verified
  <2>5. tObserved = {} /\ tDetached = {} /\ \A r \in Trust!KnownRelays : tKnown[r] = 0
    BY <2>2 DEF TrustAccepted
  <2>6. (Trust!Matches(m) <=> Trust!Matches(tDisk)') /\ (Trust!Matches(m) <=> Trust!Matches(tMemory)')
    BY <2>2 DEF Trust!Matches
  <2> QED BY <2>2, <2>4, <2>5, <2>6 DEF TrustHistory
<1>2. CASE Trust!RemoveLegacy
  BY <1>2 DEF Trust!RemoveLegacy, TrustHistory, Trust!Matches
<1>3. CASE Trust!LoadHistory
  <2>1. tPhase = "cleaned" /\ tKnown' = tHistory
        /\ UNCHANGED <<tDisk, tMemory, tHistory, tObserved, tExpired, tDetached>>
    BY <1>3 DEF Trust!LoadHistory
  <2> QED BY <2>1 DEF TrustHistory, Trust!Matches
<1>4. CASE Trust!Crash
  BY <1>4 DEF Trust!Crash, TrustHistory
<1>5. ASSUME NEW r \in Trust!KnownRelays, Trust!ObserveRelay(r) PROVE TrustHistory'
  BY <1>5 DEF Trust!ObserveRelay, TrustHistory, Trust!Matches
<1>6. ASSUME NEW o \in tObserved, Trust!WriteObservation(o) PROVE TrustHistory'
  <2>1. \A r \in Trust!KnownRelays : tHistory'[r] \in {tHistory[r], o.generation}
    BY <1>6, <1>t DEF Trust!WriteObservation
  <2>2. o.generation # 0
    BY <1>6 DEF TrustHistory
  <2>3. tObserved' \subseteq tObserved /\ UNCHANGED <<tDisk, tMemory, tKnown, tPhase, tExpired, tDetached>>
    BY <1>6 DEF Trust!WriteObservation
  <2>4. tPhase # "stopped" =>
           /\ Trust!Matches(tDisk) => tDisk.cached.relays \subseteq Trust!KnownRelays
           /\ Trust!Matches(tMemory) => tMemory.cached.relays \subseteq Trust!KnownRelays
    BY <1>m
  <2> QED BY <2>1, <2>2, <2>3, <2>4 DEF TrustHistory, Trust!Matches
<1>7. CASE (\E g \in InstalledTrusts : Trust!InstallTrust(g)) \/ (\E s \in ControlSnapshots : Trust!Expire(s))
  BY <1>7 DEF Trust!InstallTrust, Trust!Expire, TrustHistory, Trust!Matches
<1>8. ASSUME NEW t \in SnapshotTasks, Trust!Commit(t) PROVE TrustHistory'
  <2> DEFINE s == tTask[t].snapshot
  <2>1. s \in ControlSnapshots
    BY <1>8 DEF Trust!Commit, TrustAccepted
  <2>2. s.generation \in Nat /\ s.generation # 0
    BY <2>1, TrustRecords
  <2> DEFINE records == Trust!Listed(tKnown, s.relays, s.generation)
  <2>3. tDisk' = Trust!Marked(s) /\ tMemory' = Trust!Marked(s)
        /\ tKnown' = records /\ tHistory' = Trust!Put(tHistory, records)
        /\ UNCHANGED <<tPhase, tObserved, tExpired, tDetached>>
    BY <1>8 DEF Trust!Commit
  <2>4. tDisk'.cached = s /\ tMemory'.cached = s
    BY <2>3 DEF Trust!Marked
  <2> HIDE DEF s
  <2>5. /\ records \in [Trust!KnownRelays -> Nat]
        /\ \A r \in Trust!KnownRelays : records[r] = IF r \in s.relays THEN s.generation ELSE tKnown[r]
    BY <1>t, <2>2, TrustListed
  <2> HIDE DEF records
  <2>6. \A r \in Trust!KnownRelays : tHistory'[r] = IF records[r] # 0 THEN records[r] ELSE tHistory[r]
    BY <1>t, <2>3, <2>5, TrustPut
  <2>7. \A r \in s.relays : tHistory'[r] # 0 /\ tKnown'[r] # 0
    BY <1>r, <2>1, <2>2, <2>3, <2>5, <2>6
  <2>8. \A r \in Trust!KnownRelays : tKnown'[r] # 0 => tHistory'[r] # 0
    BY <2>3, <2>6
  <2> QED BY <2>3, <2>4, <2>7, <2>8 DEF TrustHistory
<1>10. ASSUME NEW b \in tDetached, Trust!WriteDetached(b) PROVE TrustHistory'
  <2>1. /\ b.mark \in Trust!Marks /\ b.records \in [Trust!KnownRelays -> Nat]
        /\ \A r \in b.mark.cached.relays : b.records[r] # 0
    BY DEF Trust!TypeOK, TrustHistory
  <2>2. /\ tDisk' = b.mark /\ tHistory' = Trust!Put(tHistory, b.records) /\ tDetached' \subseteq tDetached
        /\ UNCHANGED <<tPhase, tMemory, tKnown, tObserved, tExpired>>
    BY <1>10 DEF Trust!WriteDetached
  <2>3. \A r \in Trust!KnownRelays :
           tHistory'[r] = IF b.records[r] # 0 THEN b.records[r] ELSE tHistory[r]
    BY <1>t, <2>1, <2>2, TrustPut
  <2>4. \A r \in Trust!KnownRelays : tHistory[r] # 0 => tHistory'[r] # 0
    BY <2>3
  <2>5. Trust!Matches(b.mark) => \A r \in b.mark.cached.relays : tHistory'[r] # 0
    BY <1>t, <1>r, <2>1, <2>3
  <2>6. Trust!Matches(tDisk)' <=> Trust!Matches(b.mark)
    BY <2>2 DEF Trust!Matches
  <2>7. Trust!Matches(tMemory)' <=> Trust!Matches(tMemory)
    BY <2>2 DEF Trust!Matches
  <2> QED BY <1>m, <2>2, <2>4, <2>5, <2>6, <2>7 DEF TrustHistory
<1>11. ASSUME NEW t \in SnapshotTasks, Trust!DropCommitting(t) PROVE TrustHistory'
  <2> DEFINE s == tTask[t].snapshot
             records == Trust!Listed(tKnown, s.relays, s.generation)
             b == [number |-> tCrashes, mark |-> Trust!Marked(s), records |-> records]
  <2>1. s \in ControlSnapshots
    BY <1>11 DEF Trust!DropCommitting, TrustAccepted
  <2>2. /\ tDetached' = tDetached \cup {b}
        /\ UNCHANGED <<tDisk, tMemory, tHistory, tKnown, tPhase, tObserved, tExpired>>
    BY <1>11 DEF Trust!DropCommitting
  <2>3. b.mark.cached = s /\ b.records = records
    BY DEF Trust!Marked
  <2> HIDE DEF s, b
  <2>4. \A r \in s.relays : records[r] # 0
    BY <1>t, <1>r, <2>1, TrustRecords, TrustListed
  <2> HIDE DEF records
  <2>5. \A c \in tDetached' : \A r \in c.mark.cached.relays : c.records[r] # 0
    BY <2>2, <2>3, <2>4 DEF TrustHistory
  <2> QED BY <2>2, <2>5 DEF TrustHistory, Trust!Matches
<1>9. CASE UNCHANGED <<tDisk, tMemory, tHistory, tKnown, tPhase, tObserved, tExpired, tDetached>>
  BY <1>9 DEF TrustHistory, Trust!Matches
<1> QED
  BY <1>0, <1>1, <1>2, <1>3, <1>4, <1>5, <1>6, <1>7, <1>8, <1>9, <1>10, <1>11
     DEF Trust!Next, Trust!TaskStep, Trust!Receive, Trust!CommitFails, Trust!ShowTrust,
         Trust!ShowDirectory, Trust!ShowCatalog, Trust!DropShowing

LEMMA TrustMarkedReflexive ==
  ASSUME NEW s \in ControlSnapshots
  PROVE  /\ Trust!AtLeast(Trust!Marked(s), Trust!Marked(s))
         /\ Trust!Marked(s).generation = s.generation
<1>1. s.trust \in Nat /\ s.epoch \in Nat /\ s.generation \in Nat
  BY TrustRecords
<1> QED BY <1>1 DEF Trust!AtLeast, Trust!Marked

LEMMA TrustShownStep ==
  ASSUME Trust!TypeOK, TrustAccepted, TrustShown, [Trust!Next]_(Trust!vars)
  PROVE  TrustShown'
<1>t. /\ tMemory \in Trust!Marks
      /\ tTask \in [SnapshotTasks -> TrustTask] /\ \A t \in SnapshotTasks : tTask[t] \in TrustTask
      /\ tShown \in [trust : Nat, directory : Nat, catalog : Nat]
      /\ \A t \in Trust!Showing : tPhase = "running" /\ tTask[t].snapshot \in ControlSnapshots
  BY DEF Trust!TypeOK, TrustTask, TrustAccepted, Trust!Showing
<1>0. CASE UNCHANGED <<tMemory, tPhase, tShown, tTask>>
  BY <1>0 DEF TrustShown, Trust!Showing
<1>1. CASE Trust!Load
  <2> DEFINE m == Trust!Raised(Trust!Loaded)
  <2>1. m \in Trust!Marks
    BY TrustLoaded
  <2>2. tMemory' = m /\ tShown' = Trust!ShownAt(m) /\ tTask' = tTask /\ tPhase = "stopped"
    BY <1>1 DEF Trust!Load
  <2> HIDE DEF m
  <2>3. ASSUME tShown'.directory # 0
        PROVE  \E s \in ControlSnapshots : s.generation = tShown'.directory /\ Trust!AtLeast(m, Trust!Marked(s))
    <3>1. Trust!Matches(m) /\ tShown'.directory = m.cached.generation
      BY <2>1, <2>2, <2>3, TrustShownAt
    <3>2. m.cached \in ControlSnapshots
      BY <2>1, <3>1 DEF Trust!Matches, Trust!Marks
    <3>3. Trust!AtLeast(m, Trust!Marked(m.cached))
      BY <2>1, <3>1, <3>2, TrustRecords DEF Trust!Matches, Trust!AtLeast, Trust!Marked, Trust!Marks
    <3> QED BY <3>1, <3>2, <3>3
  <2>4. Trust!Showing' = {}
    BY <2>2 DEF Trust!Showing, TrustAccepted
  <2>5. \A s : Trust!AtLeast(tMemory', Trust!Marked(s)) <=> Trust!AtLeast(m, Trust!Marked(s))
    BY <2>2
  <2> QED BY <2>2, <2>3, <2>4 DEF TrustShown, Trust!AtLeast, Trust!Marked
<1>2. CASE tPhase # "stopped" /\ UNCHANGED <<tMemory, tShown, tTask>>
  BY <1>2 DEF TrustShown, Trust!Showing
<1>4. CASE Trust!Crash
  <2>1. tPhase' = "stopped" /\ Trust!Showing' = {}
    BY <1>4, TrustRecords DEF Trust!Crash, Trust!Showing
  <2> QED BY <2>1 DEF TrustShown
<1>5. ASSUME NEW t \in SnapshotTasks, Trust!Commit(t) PROVE TrustShown'
  <2> DEFINE m == Trust!Marked(tTask[t].snapshot)
  <2>1. tTask[t].at = "committing" /\ tTask[t].snapshot \in ControlSnapshots /\ tPhase = "running"
    BY <1>5 DEF Trust!Commit, TrustAccepted
  <2>2. Trust!AtLeast(m, tMemory) /\ m \in Trust!Marks
    BY <1>t, <2>1, TrustNewer, TrustRecords DEF TrustAccepted
  <2>3. tMemory' = m /\ UNCHANGED <<tShown, tPhase>>
    BY <1>5 DEF Trust!Commit
  <2>4. /\ tTask'[t].at = "trust" /\ tTask'[t].snapshot = tTask[t].snapshot
        /\ \A u \in SnapshotTasks : u # t => tTask'[u] = tTask[u]
    BY <1>5, TrustAdvance DEF Trust!Commit
  <2>5. Trust!AtLeast(m, m)
    BY <2>1, TrustMarkedReflexive
  <2> HIDE DEF m
  <2>6. \A s \in ControlSnapshots :
           Trust!AtLeast(tMemory, Trust!Marked(s)) => Trust!AtLeast(m, Trust!Marked(s))
    BY <1>t, <2>1, <2>2, TrustOrder, TrustRecords
  <2>7. ASSUME NEW u \in Trust!Showing' PROVE Trust!AtLeast(m, Trust!Marked(tTask'[u].snapshot))
    <3>1. CASE u = t
      BY <2>4, <2>5, <3>1 DEF m
    <3>2. CASE u # t
      <4>1. u \in Trust!Showing /\ tTask'[u] = tTask[u]
        BY <2>4, <2>7, <3>2 DEF Trust!Showing
      <4> QED BY <1>t, <2>6, <4>1 DEF TrustShown
    <3> QED BY <3>1, <3>2
  <2>8. tShown.directory # 0 => \E s \in ControlSnapshots :
           s.generation = tShown.directory /\ Trust!AtLeast(m, Trust!Marked(s))
    BY <2>1, <2>6 DEF TrustShown
  <2> QED BY <2>3, <2>7, <2>8 DEF TrustShown
<1>6. ASSUME NEW t \in SnapshotTasks, Trust!ShowTrust(t) \/ Trust!ShowCatalog(t) \/ Trust!CommitFails(t)
             \/ Trust!DropCommitting(t) \/ Trust!DropShowing(t)
      PROVE  TrustShown'
  <2>1. tShown'.directory = tShown.directory /\ UNCHANGED <<tMemory, tPhase>>
    BY <1>6, <1>t DEF Trust!ShowTrust, Trust!ShowCatalog, Trust!CommitFails, Trust!DropCommitting,
                        Trust!DropShowing
  <2>2. \A u \in Trust!Showing' : u \in Trust!Showing /\ tTask'[u].snapshot = tTask[u].snapshot
    <3>1. CASE Trust!ShowTrust(t)
      <4>1. tTask[t].at = "trust" /\ tTask' = [tTask EXCEPT ![t].at = "directory"]
        BY <3>1 DEF Trust!ShowTrust
      <4> QED BY <4>1, TrustAdvance DEF Trust!Showing
    <3>2. CASE Trust!ShowCatalog(t) \/ Trust!CommitFails(t) \/ Trust!DropCommitting(t) \/ Trust!DropShowing(t)
      <4>1. tTask' = [tTask EXCEPT ![t] = Trust!Idle]
        BY <3>2 DEF Trust!ShowCatalog, Trust!CommitFails, Trust!DropCommitting, Trust!DropShowing
      <4> QED BY <4>1, TrustOneTask, TrustRecords DEF Trust!Showing
    <3> QED BY <1>6, <3>1, <3>2
  <2> QED BY <2>1, <2>2 DEF TrustShown
<1>7. ASSUME NEW t \in SnapshotTasks, Trust!ShowDirectory(t) PROVE TrustShown'
  <2>1. t \in Trust!Showing /\ tTask[t].at = "directory"
    BY <1>7 DEF Trust!ShowDirectory, Trust!Showing
  <2>2. tShown'.directory = tTask[t].snapshot.generation /\ UNCHANGED <<tMemory, tPhase>>
    BY <1>7, <1>t DEF Trust!ShowDirectory
  <2>3. \A u \in Trust!Showing' : u \in Trust!Showing /\ tTask'[u].snapshot = tTask[u].snapshot
    <3>1. tTask' = [tTask EXCEPT ![t].at = "catalog"]
      BY <1>7 DEF Trust!ShowDirectory
    <3> QED BY <2>1, <3>1, TrustAdvance DEF Trust!Showing
  <2>4. Trust!AtLeast(tMemory, Trust!Marked(tTask[t].snapshot)) /\ tTask[t].snapshot \in ControlSnapshots
    BY <1>t, <2>1 DEF TrustShown
  <2> QED BY <2>2, <2>3, <2>4 DEF TrustShown
<1>8. ASSUME NEW t \in SnapshotTasks, NEW x \in ControlSnapshots, Trust!Receive(t, x) PROVE TrustShown'
  <2>1. [at |-> "committing", snapshot |-> x] \in TrustTask /\ UNCHANGED <<tMemory, tPhase, tShown>>
    BY <1>8 DEF TrustTask, Trust!Receive
  <2>2. \A u \in SnapshotTasks : tTask'[u] = IF u = t THEN [at |-> "committing", snapshot |-> x] ELSE tTask[u]
    BY <1>8, <2>1, TrustOneTask DEF Trust!Receive
  <2>3. tTask'[t].at = "committing" /\ \A u \in SnapshotTasks \ {t} : tTask'[u] = tTask[u]
    BY <2>2
  <2>4. \A u \in Trust!Showing' : u \in Trust!Showing /\ tTask'[u].snapshot = tTask[u].snapshot
    BY <2>3 DEF Trust!Showing
  <2> QED BY <2>1, <2>4 DEF TrustShown
<1> QED
  BY <1>0, <1>1, <1>2, <1>4, <1>5, <1>6, <1>7, <1>8
     DEF Trust!Next, Trust!vars, Trust!TaskStep, Trust!RemoveLegacy, Trust!LoadHistory, Trust!ObserveRelay,
         Trust!WriteObservation, Trust!WriteDetached, Trust!InstallTrust, Trust!Expire

LEMMA TrustTogetherStep ==
  ASSUME Trust!TypeOK, TrustAccepted, TrustTogether, [Trust!Next]_(Trust!vars)
  PROVE  TrustTogether'
<1>t. /\ tTask \in [SnapshotTasks -> TrustTask] /\ \A t \in SnapshotTasks : tTask[t] \in TrustTask
      /\ tShown \in [trust : Nat, directory : Nat, catalog : Nat] /\ tOverlap \in BOOLEAN
      /\ \A t \in Trust!Showing : tPhase = "running" /\ tTask[t].snapshot \in ControlSnapshots
  BY DEF Trust!TypeOK, TrustTask, TrustAccepted, Trust!Showing
<1>0. CASE UNCHANGED <<tMemory, tShown, tTask, tOverlap>>
  BY <1>0 DEF TrustTogether, Trust!Showing
<1>1. CASE Trust!Load
  <2> DEFINE m == Trust!Raised(Trust!Loaded)
  <2>1. m \in Trust!Marks
    BY TrustLoaded
  <2>2. tMemory' = m /\ tShown' = Trust!ShownAt(m) /\ tTask' = tTask /\ tPhase = "stopped"
    BY <1>1 DEF Trust!Load
  <2> HIDE DEF m
  <2>3. /\ Trust!ShownAt(m).directory = Trust!ShownAt(m).catalog
        /\ Trust!ShownAt(m).directory \in {0, m.generation}
    BY <2>1, TrustShownAt DEF Trust!Matches
  <2>4. Trust!Showing' = {}
    BY <2>2 DEF Trust!Showing, TrustAccepted
  <2> QED BY <2>2, <2>3, <2>4 DEF TrustTogether
<1>4. CASE Trust!Crash
  <2>1. Trust!Showing' = {}
    BY <1>4, TrustRecords DEF Trust!Crash, Trust!Showing
  <2>2. tShown'.directory = 0 /\ tShown'.catalog = 0
    BY <1>4 DEF Trust!Crash, Trust!Nothing
  <2> QED BY <2>1, <2>2 DEF TrustTogether
<1>5. ASSUME NEW t \in SnapshotTasks, Trust!Commit(t) PROVE TrustTogether'
  <2>1. tTask[t].snapshot \in ControlSnapshots
    BY <1>5 DEF Trust!Commit, TrustAccepted
  <2>2. tMemory' = Trust!Marked(tTask[t].snapshot) /\ tShown' = tShown
        /\ tOverlap' = (Trust!Showing # {})
    BY <1>5 DEF Trust!Commit
  <2>3. tMemory'.generation = tTask[t].snapshot.generation
    BY <2>1, <2>2, TrustMarkedReflexive
  <2>4. /\ tTask'[t].at = "trust" /\ tTask'[t].snapshot = tTask[t].snapshot
        /\ \A u \in SnapshotTasks : u # t => tTask'[u] = tTask[u]
    BY <1>5, TrustAdvance DEF Trust!Commit
  <2>5. ~tOverlap' => Trust!Showing = {}
    BY <1>t, <2>2
  <2>6. ~tOverlap' => Trust!Showing' = {t}
    BY <2>4, <2>5 DEF Trust!Showing
  <2> QED BY <2>3, <2>4, <2>6 DEF TrustTogether
<1>6. ASSUME NEW t \in SnapshotTasks, Trust!ShowTrust(t) \/ Trust!ShowDirectory(t)
      PROVE  TrustTogether'
  <2>0. PICK at \in {"directory", "catalog"} : tTask' = [tTask EXCEPT ![t].at = at]
    BY <1>6 DEF Trust!ShowTrust, Trust!ShowDirectory
  <2>1. /\ tTask'[t].at = at /\ tTask'[t].snapshot = tTask[t].snapshot
        /\ \A u \in SnapshotTasks : u # t => tTask'[u] = tTask[u]
    BY <2>0, TrustAdvance
  <2>2. t \in Trust!Showing /\ tTask[t].at # "catalog" /\ UNCHANGED <<tMemory, tOverlap>>
    BY <1>6 DEF Trust!ShowTrust, Trust!ShowDirectory, Trust!Showing
  <2>3. Trust!Showing' = Trust!Showing
    BY <2>1, <2>2 DEF Trust!Showing
  <2>4. at = "catalog" => tShown'.directory = tTask[t].snapshot.generation
    <3>1. CASE Trust!ShowTrust(t)
      <4>1. tTask' = [tTask EXCEPT ![t].at = "directory"]
        BY <3>1 DEF Trust!ShowTrust
      <4>2. tTask'[t].at = "directory"
        BY <4>1, TrustAdvance
      <4> QED BY <2>1, <4>2
    <3>2. CASE Trust!ShowDirectory(t)
      BY <1>t, <3>2 DEF Trust!ShowDirectory
    <3> QED BY <1>6, <3>1, <3>2
  <2> QED BY <2>1, <2>2, <2>3, <2>4 DEF TrustTogether
<1>7. ASSUME NEW t \in SnapshotTasks, Trust!ShowCatalog(t) PROVE TrustTogether'
  <2>1. t \in Trust!Showing /\ tTask[t].at = "catalog" /\ UNCHANGED <<tMemory, tOverlap>>
    BY <1>7 DEF Trust!ShowCatalog, Trust!Showing
  <2>2. tShown'.directory = tShown.directory /\ tShown'.catalog = tTask[t].snapshot.generation
    BY <1>7, <1>t DEF Trust!ShowCatalog
  <2>3. tTask'[t].at = "idle" /\ \A u \in SnapshotTasks : u # t => tTask'[u] = tTask[u]
    BY <1>7, TrustOneTask, TrustRecords DEF Trust!ShowCatalog
  <2>4. Trust!Showing' \subseteq Trust!Showing \ {t}
    BY <2>3 DEF Trust!Showing
  <2> QED BY <2>1, <2>2, <2>3, <2>4 DEF TrustTogether
<1>8. ASSUME NEW t \in SnapshotTasks, tTask[t].at \in {"idle", "committing"},
             NEW k \in TrustTask, k.at \in {"idle", "committing"}, tTask' = [tTask EXCEPT ![t] = k],
             UNCHANGED <<tMemory, tShown, tOverlap>>
      PROVE  TrustTogether'
  <2>1. tTask'[t] = k /\ \A u \in SnapshotTasks : u # t => tTask'[u] = tTask[u]
    BY <1>8, TrustOneTask
  <2>2. Trust!Showing' = Trust!Showing /\ \A u \in Trust!Showing : tTask'[u] = tTask[u]
    BY <1>8, <2>1 DEF Trust!Showing
  <2> QED BY <1>8, <2>2 DEF TrustTogether
<1>9. ASSUME NEW t \in SnapshotTasks, Trust!TaskStep(t) PROVE TrustTogether'
  <2>1. ASSUME NEW x \in ControlSnapshots, Trust!Receive(t, x) PROVE TrustTogether'
    <3>1. PICK k \in TrustTask : k = [at |-> "committing", snapshot |-> x]
      BY DEF TrustTask
    <3>2. k.at = "committing"
      BY <3>1
    <3>3. tTask[t].at = "idle" /\ tTask' = [tTask EXCEPT ![t] = k] /\ UNCHANGED <<tMemory, tShown, tOverlap>>
      BY <2>1, <3>1 DEF Trust!Receive
    <3> QED BY <1>8, <3>2, <3>3
  <2>2. CASE Trust!CommitFails(t) \/ Trust!DropCommitting(t)
    <3>1. tTask[t].at = "committing" /\ tTask' = [tTask EXCEPT ![t] = Trust!Idle]
          /\ UNCHANGED <<tMemory, tShown, tOverlap>>
      BY <2>2 DEF Trust!CommitFails, Trust!DropCommitting
    <3> QED BY <1>8, <3>1, TrustRecords
  <2>3. CASE Trust!DropShowing(t)
    BY <2>3 DEF Trust!DropShowing, TrustTogether
  <2> QED BY <1>5, <1>6, <1>7, <1>9, <2>1, <2>2, <2>3 DEF Trust!TaskStep
<1> QED
  BY <1>0, <1>1, <1>4, <1>9
     DEF Trust!Next, Trust!vars, Trust!RemoveLegacy, Trust!LoadHistory, Trust!ObserveRelay,
         Trust!WriteObservation, Trust!WriteDetached, Trust!InstallTrust, Trust!Expire

TrustInv == Trust!TypeOK /\ TrustAccepted /\ TrustHistory /\ TrustShown /\ TrustTogether

LEMMA TrustInvariant ==
  ControlSpec => [](comp = "trust" => TrustInv)
<1>1. ControlInit /\ comp = "trust" => TrustInv
  <2> SUFFICES ASSUME Trust!Init PROVE TrustInv
    BY DEF ControlInit
  <2>1. \A t \in SnapshotTasks : tTask[t].at = "idle"
    BY TrustRecords DEF Trust!Init
  <2>2. tDisk = Absent /\ tPhase = "stopped" /\ tShown.directory = 0 /\ tShown.catalog = 0 /\ tObserved = {}
        /\ tDetached = {} /\ ~tAbandoned
        /\ \A r \in Trust!KnownRelays : tKnown[r] = 0
    BY DEF Trust!Init, Trust!Nothing
  <2>3. Trust!Showing = {}
    BY <2>1 DEF Trust!Showing
  <2> QED BY <2>1, <2>2, <2>3, TrustTypeInit DEF TrustInv, TrustAccepted, TrustHistory, TrustShown, TrustTogether
<1>2. (comp = "trust" => TrustInv) /\ [ControlNext]_<<vars, shared, comp>> => (comp = "trust" => TrustInv)'
  <2> SUFFICES ASSUME comp = "trust" => TrustInv, [ControlNext]_<<vars, shared, comp>>, comp' = "trust"
               PROVE  TrustInv'
    OBVIOUS
  <2>1. TrustInv /\ [Trust!Next]_(Trust!vars)
    BY TrustTurn
  <2> QED BY <2>1, TrustTypes, TrustAcceptedStep, TrustHistoryStep, TrustShownStep, TrustTogetherStep DEF TrustInv
<1> QED BY <1>1, <1>2, PTL DEF ControlSpec

\* The durable control mark of a Travel never goes back (ControlTrustState), unless the
\* task of a commit was dropped and no later commit has made good for it.
THEOREM ControlMarkNeverRegresses == ControlSpec => MarkNeverRegresses
<1>1. (comp = "trust" => TrustInv) /\ [ControlNext]_<<vars, shared, comp>>
        => [comp = "trust" => Trust!MarkKept]_<<vars, shared, comp>>
  <2> SUFFICES ASSUME comp = "trust", TrustInv, [ControlNext]_<<vars, shared, comp>> PROVE Trust!MarkKept
    OBVIOUS
  <2>1. [Trust!Next]_(Trust!vars)
    BY DEF ControlNext, DirectoryStep, LoginStep, TrustStep, NewHomeStep, RemoteStep,
           HomesStep, SessionStep, shared, Trust!vars
  <2> QED BY <2>1, TrustMarkStep DEF TrustInv
<1> QED BY <1>1, TrustInvariant, PTL DEF ControlSpec, MarkNeverRegresses

\* What a Travel has accepted is on disk, unless the task of a commit was dropped, and
\* the Relays of the accepted and of the durable snapshot stay startup candidates
\* (ControlTrustState::accept, bootstrap_candidate_pool).
THEOREM ControlAcceptedIsKept == ControlSpec => []AcceptedIsKept
<1>1. (comp = "trust" => TrustInv) => AcceptedIsKept
  <2> SUFFICES ASSUME TrustInv PROVE Trust!AcceptedIsDurable /\ Trust!ListedRelaysAreKept
    BY DEF AcceptedIsKept
  <2>1. Trust!AcceptedIsDurable
    BY DEF TrustInv, TrustAccepted, TrustHistory, TrustShown, Trust!AcceptedIsDurable
  <2>2. tPhase = "running" /\ Trust!Matches(tMemory) => tMemory.cached.relays \subseteq Trust!KnownRelays
    BY DEF TrustInv, Trust!TypeOK, Trust!Marks, Trust!Matches, Trust!KnownRelays
  <2>3. Trust!ListedRelaysAreKept
    BY <2>2 DEF TrustInv, TrustHistory, Trust!ListedRelaysAreKept, Trust!Candidates
  <2> QED BY <2>1, <2>3
<1> QED BY <1>1, TrustInvariant, PTL

\* Directory and catalog that a Travel shows are those of one snapshot, the accepted
\* one, unless two tasks have been showing theirs at once or one was dropped on the
\* way, since a snapshot was last shown alone (apply_control_snapshot).
THEOREM ControlShownTogether == ControlSpec => []ShownTogether
<1>1. (comp = "trust" => TrustInv) => ShownTogether
  BY DEF TrustInv, TrustTogether, ShownTogether, Trust!ShownTogether
<1> QED BY <1>1, TrustInvariant, PTL

-----------------------------------------------------------------------------
(* Travel login sessions (module TravelLogin).                              *)

lGrant == v1
lNext == v2
lLogin == v3
lEpoch == v4
lKnown == v5
lConn == v6
lAsk == v7
lReleased == v8
lSid == v9
lAccepted == v10
lIds == v11
lFailures == v12
lRaced == v13
USE DEF lGrant, lNext, lLogin, lEpoch, lKnown, lConn, lAsk, lReleased, lSid, lAccepted,
        lIds, lFailures, lRaced

LEMMA LoginTurn ==
  ASSUME [ControlNext]_<<vars, shared, comp>>, comp' = "login"
  PROVE  comp = "login" /\ [Login!Next]_(Login!vars)
  BY DEF ControlNext, DirectoryStep, LoginStep, TrustStep, NewHomeStep, RemoteStep,
         HomesStep, SessionStep, shared, Login!vars

LoginConn == [at : {"closed", "open", "asking", "renewing", "parting"}, owner : TravelProcesses,
              session : 0..MaxIds, purpose : {"catalog", "route"}, lease : 0..MaxIds,
              alive : BOOLEAN, epoch : Nat]
LoginAsk == [at : {"idle", "queued", "checked", "read"}, session : 0..MaxIds, lease : 0..MaxIds,
             granted : BOOLEAN, waiting : BOOLEAN]

\* The kinds of the values.  A connection that is not closed has a session.
LoginTypes ==
    /\ lGrant \in BOOLEAN /\ lNext \in 1..(MaxSigned + 1) /\ lEpoch \in Nat /\ lIds \in 0..MaxIds
    /\ lLogin \in [session : 0..MaxIds, leases : SUBSET (1..MaxIds)]
    /\ (lLogin.session = 0) <=> (lLogin.leases = {})
    /\ lReleased \subseteq 1..MaxIds
    /\ lSid \in [TravelProcesses -> 1..MaxIds]
    /\ lConn \in [Login!Conns -> LoginConn] /\ lAsk \in [Login!Conns -> LoginAsk]

\* Every lease was given to one connection, which has not released it; a request
\* that its Relay waits for is about the connection as it is; and a request that
\* found no grant is the last there is.
LoginLeases ==
    /\ \A l \in lReleased : l <= lIds
    /\ \A c \in Login!Conns :
          /\ lConn[c].lease <= lIds /\ lConn[c].epoch <= lEpoch
          /\ lConn[c].at = "closed" => lConn[c].lease = 0
          /\ lConn[c].at # "closed" => lConn[c].session # 0
          /\ lConn[c].lease \notin lReleased
          /\ \A d \in Login!Conns : lConn[c].lease # 0 /\ lConn[d].lease = lConn[c].lease => c = d
          /\ lAsk[c].at # "idle" => lAsk[c].session # 0
          /\ lAsk[c].waiting => /\ lAsk[c].at # "idle" /\ lConn[c].at \in Login!Waiting
                                /\ lAsk[c].session = lConn[c].session
                                /\ lAsk[c].lease = lConn[c].lease
          /\ lAsk[c].at \in {"checked", "read"} /\ ~lAsk[c].granted => ~lGrant

\* An authorized lease, of a request that is answered next or of a connection that
\* this Server has opened, is registered.
LoginHolds ==
    lGrant => \A c \in Login!Conns :
        /\ lAsk[c].at = "read" /\ lAsk[c].lease # 0 =>
              lLogin.session = lAsk[c].session /\ lAsk[c].lease \in lLogin.leases
        /\ lConn[c].at = "open" /\ lConn[c].lease # 0 /\ lConn[c].epoch = lEpoch =>
              lLogin.session = lConn[c].session /\ lConn[c].lease \in lLogin.leases

LEMMA LoginRecords ==
  /\ Login!Closed \in LoginConn /\ Login!Closed.at = "closed" /\ Login!Closed.lease = 0
  /\ Login!Closed.epoch = 0
  /\ Login!NoAsk \in LoginAsk /\ Login!NoAsk.at = "idle" /\ Login!NoAsk.waiting = FALSE
<1>1. (CHOOSE p \in TravelProcesses : TRUE) \in TravelProcesses
  BY LoginConstants
<1>2. PICK zero \in 0..MaxIds : zero = 0
  BY LoginConstants
<1>3. 0 \in Nat
  OBVIOUS
<1>4. Login!Closed \in LoginConn
  BY <1>1, <1>2, <1>3 DEF Login!Closed, LoginConn
<1>5. Login!NoAsk \in LoginAsk
  BY <1>2 DEF Login!NoAsk, LoginAsk
<1> QED BY <1>4, <1>5 DEF Login!Closed, Login!NoAsk

\* FiniteSets as the component has it.
LEMMA LoginCardinality == \A S : Login!Cardinality(S) = Cardinality(S)
  BY Zenon DEF Login!Cardinality, Cardinality

LEMMA LoginTypeInit ==
  ASSUME Login!Init
  PROVE  LoginTypes /\ LoginLeases /\ LoginHolds
<1> DEFINE n == Cardinality(TravelProcesses)
           Apart(f) == \A p, q \in TravelProcesses : p # q => f[p] # f[q]
<1>1. n \in Nat /\ ExistsBijection(1..n, TravelProcesses)
  BY LoginConstants, FS_CardinalityType
<1>2. PICK f \in Bijection(TravelProcesses, 1..n) : TRUE
  BY <1>1, Fun_ExistsBijSymmetric DEF ExistsBijection
<1>3. f \in [TravelProcesses -> 1..n] /\ \A p, q \in TravelProcesses : p # q => f[p] # f[q]
  BY <1>2 DEF Bijection, Injection, IsInjective
<1>4. lSid \in [TravelProcesses -> 1..n]
  <2>1. lSid = CHOOSE g \in [TravelProcesses -> 1..n] : Apart(g)
    BY LoginCardinality DEF Login!Init
  <2>2. f \in [TravelProcesses -> 1..n] /\ Apart(f)
    BY <1>3
  <2> HIDE DEF Apart, n
  <2> QED BY <2>1, <2>2
<1> HIDE DEF n, Apart
<1>5. lSid \in [TravelProcesses -> 1..MaxIds] /\ n \in 0..MaxIds
  BY <1>1, <1>4, LoginConstants DEF n
<1>6. lLogin \in [session : 0..MaxIds, leases : SUBSET (1..MaxIds)]
  BY LoginConstants DEF Login!Init
<1>b. lGrant = TRUE /\ lIds = n
  BY LoginCardinality DEF Login!Init, n
<1>7. /\ lGrant = TRUE /\ lNext = 1 /\ lEpoch = 1 /\ lIds = n /\ lReleased = {}
      /\ lLogin.session = 0 /\ lLogin.leases = {}
  BY <1>b DEF Login!Init
<1>a. /\ \A c \in Login!Conns : lConn[c] = Login!Closed /\ lAsk[c] = Login!NoAsk
      /\ lConn \in [Login!Conns -> LoginConn] /\ lAsk \in [Login!Conns -> LoginAsk]
  <2>1. lConn = [c \in Login!Conns |-> Login!Closed] /\ lAsk = [c \in Login!Conns |-> Login!NoAsk]
    BY DEF Login!Init
  <2> QED BY <2>1, LoginRecords
<1>8. LoginTypes
  BY <1>5, <1>6, <1>7, <1>a, LoginConstants DEF LoginTypes
<1>9. LoginLeases
  BY <1>5, <1>7, <1>a, LoginRecords DEF LoginLeases
<1> QED BY <1>7, <1>8, <1>9, <1>a, LoginRecords DEF LoginHolds

\* What a step that concerns one connection and its request gives them, and what it
\* may do to the rest.
LoginFits(c, r, a) ==
    /\ lConn' = [lConn EXCEPT ![c] = r] /\ lAsk' = [lAsk EXCEPT ![c] = a]
    /\ lGrant' = lGrant /\ lEpoch' = lEpoch /\ lSid' = lSid
    /\ lNext' \in 1..(MaxSigned + 1) /\ lIds' \in 0..MaxIds /\ lIds' >= lIds
    /\ \/ r.lease \in {lConn[c].lease, 0}
       \/ r.lease = lIds' /\ lIds' > lIds
    /\ r.at = "closed" => r.lease = 0
    /\ r.at # "closed" => r.session # 0
    /\ r.epoch <= lEpoch
    /\ a.at # "idle" => a.session # 0
    /\ a.waiting => /\ a.at # "idle" /\ r.at \in Login!Waiting
                    /\ a.session = r.session /\ a.lease = r.lease
    /\ a.at \in {"checked", "read"} /\ ~a.granted => ~lGrant
    /\ \/ lReleased' = lReleased
       \/ lReleased' = lReleased \cup {lConn[c].lease} /\ lConn[c].lease # 0 /\ r.lease = 0

LoginHeld(login, session, lease) == login.session = session /\ lease \in login.leases

LEMMA LoginConnStep ==
  ASSUME LoginTypes, LoginLeases, NEW c \in Login!Conns, NEW r \in LoginConn, NEW a \in LoginAsk,
         LoginFits(c, r, a),
         lLogin' \in [session : 0..MaxIds, leases : SUBSET (1..MaxIds)],
         (lLogin'.session = 0) <=> (lLogin'.leases = {})
  PROVE  LoginTypes' /\ LoginLeases'
<1>1. /\ lConn'[c] = r /\ lAsk'[c] = a
      /\ \A d \in Login!Conns : d # c => lConn'[d] = lConn[d] /\ lAsk'[d] = lAsk[d]
      /\ lConn' \in [Login!Conns -> LoginConn] /\ lAsk' \in [Login!Conns -> LoginAsk]
  BY DEF LoginTypes, LoginFits
<1>2. \A d \in Login!Conns : lConn[d].lease \in 0..MaxIds
  BY DEF LoginTypes, LoginConn
<1>p. /\ lGrant' \in BOOLEAN /\ lNext' \in 1..(MaxSigned + 1) /\ lEpoch' \in Nat /\ lIds' \in 0..MaxIds
      /\ lSid' \in [TravelProcesses -> 1..MaxIds]
  BY DEF LoginTypes, LoginFits
<1>q. lReleased' \subseteq 1..MaxIds
  <2>1. CASE lReleased' = lReleased
    BY <2>1 DEF LoginTypes
  <2>2. CASE lReleased' = lReleased \cup {lConn[c].lease} /\ lConn[c].lease # 0
    <3>1. lConn[c].lease \in 1..MaxIds
      BY <1>2, <2>2, LoginConstants
    <3> QED BY <2>2, <3>1 DEF LoginTypes
  <2> QED BY <2>1, <2>2 DEF LoginFits
<1>3. LoginTypes'
  BY <1>1, <1>p, <1>q DEF LoginTypes
<1>i. lIds \in Nat /\ lIds' \in Nat /\ r.lease \in Nat
  BY <1>3, LoginConstants DEF LoginTypes, LoginConn
<1>4. \A d \in Login!Conns : lConn'[d].lease <= lIds'
  BY <1>1, <1>2, <1>i DEF LoginLeases, LoginFits, LoginTypes
<1>5. \A l \in lReleased' : l <= lIds'
  <2>1. ASSUME NEW l \in lReleased PROVE l <= lIds'
    <3>1. l \in Nat /\ l <= lIds
      BY <2>1, LoginConstants DEF LoginTypes, LoginLeases
    <3> QED BY <3>1, <1>i DEF LoginFits
  <2>2. lConn[c].lease <= lIds'
    <3>1. lConn[c].lease \in Nat /\ lConn[c].lease <= lIds
      BY <1>2, LoginConstants DEF LoginLeases
    <3> QED BY <3>1, <1>i DEF LoginFits
  <2> QED BY <2>1, <2>2 DEF LoginFits
<1>6. \A d, e \in Login!Conns : lConn'[d].lease # 0 /\ lConn'[e].lease = lConn'[d].lease => d = e
  BY <1>1, <1>2, <1>i DEF LoginLeases, LoginFits
<1>7. \A d \in Login!Conns : lConn'[d].lease \notin lReleased'
  <2>1. ASSUME NEW d \in Login!Conns, d # c PROVE lConn[d].lease \notin lReleased'
    BY <2>1 DEF LoginLeases, LoginFits
  <2>2. 0 \notin lReleased /\ 0 \notin lReleased'
    BY <1>3 DEF LoginTypes
  <2>3. r.lease \notin lReleased'
    <3>1. CASE r.lease = 0
      BY <2>2, <3>1
    <3>2. CASE r.lease # 0 /\ r.lease = lConn[c].lease
      BY <3>2 DEF LoginLeases, LoginFits
    <3>3. CASE r.lease = lIds' /\ lIds' > lIds
      BY <1>2, <1>i, <3>3 DEF LoginLeases, LoginFits, LoginTypes
    <3> QED BY <3>1, <3>2, <3>3 DEF LoginFits
  <2> QED BY <1>1, <2>1, <2>3
<1>8. ASSUME NEW d \in Login!Conns
      PROVE  /\ lConn'[d].epoch <= lEpoch'
             /\ lConn'[d].at = "closed" => lConn'[d].lease = 0
             /\ lConn'[d].at # "closed" => lConn'[d].session # 0
             /\ lAsk'[d].at # "idle" => lAsk'[d].session # 0
             /\ lAsk'[d].waiting => /\ lAsk'[d].at # "idle" /\ lConn'[d].at \in Login!Waiting
                                    /\ lAsk'[d].session = lConn'[d].session
                                    /\ lAsk'[d].lease = lConn'[d].lease
             /\ lAsk'[d].at \in {"checked", "read"} /\ ~lAsk'[d].granted => ~lGrant'
  <2>1. CASE d = c
    BY <1>1, <2>1 DEF LoginFits
  <2>2. CASE d # c
    BY <1>1, <2>2 DEF LoginFits, LoginLeases
  <2> QED BY <2>1, <2>2
<1>9. LoginLeases'
  BY <1>4, <1>5, <1>6, <1>7, <1>8 DEF LoginLeases, Login!Waiting
<1> QED BY <1>3, <1>9

LEMMA LoginConnHolds ==
  ASSUME LoginTypes, LoginLeases, LoginHolds, NEW c \in Login!Conns, NEW r, NEW a, LoginFits(c, r, a),
         \A s, l : s # 0 /\ LoginHeld(lLogin, s, l) => LoginHeld(lLogin', s, l),
         lGrant /\ a.at = "read" /\ a.lease # 0 => LoginHeld(lLogin', a.session, a.lease),
         lGrant /\ r.at = "open" /\ r.lease # 0 /\ r.epoch = lEpoch => LoginHeld(lLogin', r.session, r.lease)
  PROVE  LoginHolds'
<1>1. /\ lConn'[c] = r /\ lAsk'[c] = a
      /\ \A d \in Login!Conns : d # c => lConn'[d] = lConn[d] /\ lAsk'[d] = lAsk[d]
      /\ lGrant' = lGrant /\ lEpoch' = lEpoch
  BY DEF LoginTypes, LoginFits
<1>2. SUFFICES ASSUME lGrant, NEW d \in Login!Conns
               PROVE  /\ lAsk'[d].at = "read" /\ lAsk'[d].lease # 0 => LoginHeld(lLogin', lAsk'[d].session, lAsk'[d].lease)
                      /\ lConn'[d].at = "open" /\ lConn'[d].lease # 0 /\ lConn'[d].epoch = lEpoch
                           => LoginHeld(lLogin', lConn'[d].session, lConn'[d].lease)
  BY <1>1 DEF LoginHolds, LoginHeld
<1>3. CASE d = c
  BY <1>1, <1>2, <1>3 DEF LoginHeld
<1>4. CASE d # c
  <2>1. lAsk[d].at = "read" /\ lAsk[d].lease # 0 => lAsk[d].session # 0 /\ LoginHeld(lLogin, lAsk[d].session, lAsk[d].lease)
    BY <1>2 DEF LoginHolds, LoginLeases, LoginHeld
  <2>2. lConn[d].at = "open" /\ lConn[d].lease # 0 /\ lConn[d].epoch = lEpoch
           => lConn[d].session # 0 /\ LoginHeld(lLogin, lConn[d].session, lConn[d].lease)
    BY <1>2 DEF LoginHolds, LoginLeases, LoginHeld
  <2> QED BY <1>1, <1>4, <2>1, <2>2 DEF LoginHeld
<1> QED BY <1>3, <1>4

LoginInv == LoginTypes /\ LoginLeases /\ LoginHolds

\* A step of one connection that leaves the registry alone.
LEMMA LoginKeeps ==
  ASSUME LoginInv, NEW c \in Login!Conns, NEW r \in LoginConn, NEW a \in LoginAsk, LoginFits(c, r, a),
         lLogin' = lLogin,
         a.at = "read" => a = lAsk[c] \/ a = [lAsk[c] EXCEPT !.waiting = FALSE],
         r.at = "open" /\ r.lease # 0 =>
            \/ lConn[c].at = "open" /\ r.lease = lConn[c].lease /\ r.session = lConn[c].session
               /\ r.epoch = lConn[c].epoch
            \/ lAsk[c].at = "read" /\ r.lease = lAsk[c].lease /\ r.session = lAsk[c].session
  PROVE  LoginInv'
<1>1. LoginTypes' /\ LoginLeases'
  BY LoginConnStep DEF LoginInv, LoginTypes
<1>2. lAsk[c] \in LoginAsk
  BY DEF LoginInv, LoginTypes
<1>3. a.at = "read" => lAsk[c].at = "read" /\ a.lease = lAsk[c].lease /\ a.session = lAsk[c].session
  BY <1>2 DEF LoginAsk
<1>4. \A s, l : LoginHeld(lLogin, s, l) => LoginHeld(lLogin', s, l)
  BY DEF LoginHeld
<1>5. lGrant /\ a.at = "read" /\ a.lease # 0 => LoginHeld(lLogin', a.session, a.lease)
  BY <1>3 DEF LoginInv, LoginHolds, LoginHeld
<1>6. lGrant /\ r.at = "open" /\ r.lease # 0 /\ r.epoch = lEpoch => LoginHeld(lLogin', r.session, r.lease)
  BY DEF LoginInv, LoginHolds, LoginHeld
<1>7. LoginHolds'
  BY <1>4, <1>5, <1>6, LoginConnHolds DEF LoginInv
<1> QED BY <1>1, <1>7 DEF LoginInv

\* The kinds of what a connection and its request hold.
LEMMA LoginAt ==
  ASSUME LoginInv, NEW c \in Login!Conns
  PROVE  /\ lConn[c] \in LoginConn /\ lAsk[c] \in LoginAsk
         /\ lAsk = [lAsk EXCEPT ![c] = lAsk[c]] /\ lConn = [lConn EXCEPT ![c] = lConn[c]]
         /\ lEpoch \in Nat /\ lConn[c].epoch \in Nat /\ lIds \in Nat /\ lIds >= lIds
         /\ lNext \in 1..(MaxSigned + 1) /\ lIds \in 0..MaxIds
<1>1. lConn[c] \in LoginConn /\ lAsk[c] \in LoginAsk
  BY DEF LoginInv, LoginTypes
<1>2. lAsk = [lAsk EXCEPT ![c] = lAsk[c]] /\ lConn = [lConn EXCEPT ![c] = lConn[c]]
  BY DEF LoginInv, LoginTypes
<1>3. lEpoch \in Nat /\ lIds \in 0..MaxIds /\ lIds \in Nat /\ lNext \in 1..(MaxSigned + 1)
  BY LoginConstants DEF LoginInv, LoginTypes
<1> QED BY <1>1, <1>2, <1>3 DEF LoginConn

\* The Relay asks the Server about a connection.
LEMMA LoginRequest ==
  ASSUME LoginInv, NEW c \in Login!Conns, NEW r \in LoginConn, Login!Request(c, r),
         r.at \in Login!Waiting, r.session # 0, r.epoch <= lEpoch,
         UNCHANGED <<lGrant, lNext, lLogin, lEpoch, lReleased, lSid>>,
         lIds' \in 0..MaxIds, lIds' >= lIds,
         r.lease \in {lConn[c].lease, 0} \/ (r.lease = lIds' /\ lIds' > lIds)
  PROVE  LoginInv'
<1>1. PICK a : a = [Login!NoAsk EXCEPT !.at = "queued", !.waiting = TRUE,
                          !.session = r.session, !.lease = r.lease]
  OBVIOUS
<1>2. /\ a \in LoginAsk /\ a.at = "queued" /\ a.session = r.session /\ a.lease = r.lease
  BY <1>1 DEF Login!NoAsk, LoginAsk, LoginConn
<1>3. lConn' = [lConn EXCEPT ![c] = r] /\ lAsk' = [lAsk EXCEPT ![c] = a]
  BY <1>1 DEF Login!Request
<1>4. LoginFits(c, r, a)
  BY <1>2, <1>3, LoginAt DEF LoginFits, Login!Waiting
<1>5. r.at # "open" /\ a.at # "read"
  BY <1>2 DEF Login!Waiting
<1> QED BY <1>2, <1>4, <1>5, LoginKeeps

\* A connection ends.
LEMMA LoginEnds ==
  ASSUME LoginInv, NEW c \in Login!Conns, NEW a \in LoginAsk, ~a.waiting,
         lConn' = [lConn EXCEPT ![c] = Login!Closed], lAsk' = [lAsk EXCEPT ![c] = a],
         a.at # "idle" => /\ a.at = lAsk[c].at /\ a.session = lAsk[c].session
                          /\ a.lease = lAsk[c].lease /\ a.granted = lAsk[c].granted,
         lReleased' = lReleased \/ (lReleased' = lReleased \cup {lConn[c].lease} /\ lConn[c].lease # 0),
         UNCHANGED <<lGrant, lLogin, lEpoch, lSid, lIds>>, lNext' \in 1..(MaxSigned + 1)
  PROVE  LoginInv'
<1>1. lAsk[c] \in LoginAsk /\ lAsk[c].at # "idle" => lAsk[c].session # 0
  BY DEF LoginInv, LoginLeases, LoginTypes
<1>2. a.at \in {"checked", "read"} /\ ~a.granted => ~lGrant
  BY DEF LoginInv, LoginLeases
<1>3. LoginFits(c, Login!Closed, a)
  BY <1>1, <1>2, LoginAt, LoginRecords DEF LoginFits
<1>4. a.at = "read" => a = lAsk[c] \/ a = [lAsk[c] EXCEPT !.waiting = FALSE]
  <2>1. a.at # "idle" => a = [lAsk[c] EXCEPT !.waiting = FALSE]
    BY LoginAt DEF LoginAsk
  <2> QED BY <2>1
<1> QED BY <1>3, <1>4, LoginRecords, LoginKeeps

LEMMA LoginEnded ==
  ASSUME NEW c, Login!End(c)
  PROVE  /\ lConn' = [lConn EXCEPT ![c] = Login!Closed]
         /\ lReleased' = lReleased \/ (lReleased' = lReleased \cup {lConn[c].lease} /\ lConn[c].lease # 0)
<1>1. lConn' = [lConn EXCEPT ![c] = Login!Closed]
  BY Zenon DEF Login!End
<1>2. lReleased' = IF lConn[c].lease # 0 THEN lReleased \cup {lConn[c].lease} ELSE lReleased
  BY Zenon DEF Login!End
<1> QED BY Zenon, <1>1, <1>2

LEMMA LoginConnect ==
  ASSUME LoginInv, NEW c \in Login!Conns, NEW p \in TravelProcesses, NEW purpose \in {"catalog", "route"},
         Login!Connect(c, p, purpose)
  PROVE  LoginInv'
<1>1. PICK zero \in 0..MaxIds : zero = 0
  BY LoginConstants
<1>2. PICK lease : lease = IF purpose = "catalog" THEN lIds + 1 ELSE zero
  OBVIOUS
<1>3. lIds \in 0..MaxIds /\ lSid[p] \in 1..MaxIds
  BY DEF LoginInv, LoginTypes
<1>4. /\ lIds' \in 0..MaxIds /\ lIds' >= lIds /\ lease \in 0..MaxIds
      /\ lease = 0 \/ (lease = lIds' /\ lIds' > lIds)
  <2>1. CASE purpose = "catalog"
    <3>1. lease = lIds + 1 /\ lIds' = lIds + 1 /\ lIds < MaxIds
      BY <1>2, <2>1 DEF Login!Connect
    <3> QED BY <3>1, <1>3, LoginConstants
  <2>2. CASE purpose # "catalog"
    <3>1. lease = 0
      BY <1>1, <1>2, <2>2
    <3>2. lIds' = lIds
      BY <2>2 DEF Login!Connect
    <3> QED BY <1>1, <1>2, <2>2, <3>1, <3>2, <1>3
  <2> QED BY <2>1, <2>2
<1>5. PICK r : r = [at |-> "asking", owner |-> p, session |-> lSid[p], purpose |-> purpose,
                    alive |-> TRUE, epoch |-> zero, lease |-> lease]
  OBVIOUS
<1>6. zero \in Nat /\ lSid[p] \in 0..MaxIds /\ lSid[p] # 0
  BY <1>1, <1>3, LoginConstants
<1>7. /\ r \in LoginConn /\ r.at = "asking" /\ r.session = lSid[p] /\ r.lease = lease /\ r.epoch = 0
  BY <1>1, <1>4, <1>5, <1>6 DEF LoginConn
<1>8. /\ Login!Request(c, r) /\ UNCHANGED <<lGrant, lNext, lLogin, lEpoch, lReleased, lSid>>
  BY <1>1, <1>2, <1>5 DEF Login!Connect
<1>9. r.epoch <= lEpoch /\ r.at \in Login!Waiting
  BY <1>7, LoginAt DEF Login!Waiting
<1> QED BY <1>4, <1>6, <1>7, <1>8, <1>9, LoginRequest

LEMMA LoginAsksAgain ==
  ASSUME LoginInv, NEW c \in Login!Conns, Login!Renew(c) \/ Login!Part(c)
  PROVE  LoginInv'
<1>1. PICK at \in {"renewing", "parting"} :
          /\ Login!Request(c, [lConn[c] EXCEPT !.at = at]) /\ lConn[c].at = "open"
          /\ UNCHANGED <<lGrant, lNext, lLogin, lEpoch, lReleased, lSid, lIds>>
  <2>1. CASE Login!Renew(c)
    BY <2>1 DEF Login!Renew
  <2>2. CASE Login!Part(c)
    BY <2>2 DEF Login!Part
  <2> QED BY <2>1, <2>2
<1>2. PICK r : r = [lConn[c] EXCEPT !.at = at]
  OBVIOUS
<1>3. r \in LoginConn /\ r.at = at /\ r.session = lConn[c].session /\ r.lease = lConn[c].lease
      /\ r.epoch = lConn[c].epoch
  BY <1>2, LoginAt DEF LoginConn
<1>4. lConn[c].session # 0 /\ lConn[c].epoch <= lEpoch
  BY <1>1 DEF LoginInv, LoginLeases
<1>5. r.at \in Login!Waiting /\ r.session # 0 /\ r.epoch <= lEpoch /\ r.lease \in {lConn[c].lease, 0}
  BY <1>3, <1>4 DEF Login!Waiting
<1>6. Login!Request(c, r)
  BY <1>1, <1>2
<1>7. lIds' \in 0..MaxIds /\ lIds' >= lIds
  <2>1. lIds' = lIds
    BY <1>1
  <2> QED BY <2>1, LoginAt
<1> QED BY <1>1, <1>3, <1>5, <1>6, <1>7, LoginRequest

LEMMA LoginHangsUp ==
  ASSUME LoginInv, NEW c \in Login!Conns, Login!HangUp(c)
  PROVE  LoginInv'
<1>1. ~lAsk[c].waiting
  BY DEF LoginInv, LoginLeases, Login!HangUp, Login!Waiting
<1>2. /\ lConn' = [lConn EXCEPT ![c] = Login!Closed] /\ lAsk' = lAsk
      /\ lReleased' = lReleased \/ (lReleased' = lReleased \cup {lConn[c].lease} /\ lConn[c].lease # 0)
      /\ UNCHANGED <<lGrant, lLogin, lEpoch, lSid, lIds, lNext>>
  BY LoginEnded DEF Login!HangUp
<1> QED BY <1>1, <1>2, LoginAt, LoginEnds

LEMMA LoginTimesOut ==
  ASSUME LoginInv, NEW c \in Login!Conns, Login!TimesOut(c)
  PROVE  LoginInv'
<1>1. PICK a : a = [lAsk[c] EXCEPT !.waiting = FALSE]
  OBVIOUS
<1>2. /\ a \in LoginAsk /\ ~a.waiting /\ a.at = lAsk[c].at /\ a.session = lAsk[c].session
      /\ a.lease = lAsk[c].lease /\ a.granted = lAsk[c].granted
  BY <1>1, LoginAt DEF LoginAsk
<1>3. /\ lConn' = [lConn EXCEPT ![c] = Login!Closed] /\ lAsk' = [lAsk EXCEPT ![c] = a]
      /\ lReleased' = lReleased \/ (lReleased' = lReleased \cup {lConn[c].lease} /\ lConn[c].lease # 0)
      /\ UNCHANGED <<lGrant, lLogin, lEpoch, lSid, lIds, lNext>>
  <2>1. CASE lConn[c].at = "asking"
    BY Zenon, <1>1, <2>1 DEF Login!TimesOut
  <2>2. CASE lConn[c].at # "asking"
    <3>1. Login!End(c) /\ lAsk' = [lAsk EXCEPT ![c] = a]
          /\ UNCHANGED <<lGrant, lLogin, lEpoch, lSid, lIds, lNext>>
      BY <1>1, <2>2 DEF Login!TimesOut
    <3> QED BY Zenon, <3>1, LoginEnded
  <2> QED BY <2>1, <2>2
<1> QED BY <1>2, <1>3, LoginAt, LoginEnds

LEMMA LoginReadsGrants ==
  ASSUME LoginInv, NEW c \in Login!Conns, Login!ReadGrants(c)
  PROVE  LoginInv'
<1>1. PICK a : a = [lAsk[c] EXCEPT !.at = "checked", !.granted = lGrant]
  OBVIOUS
<1>2. /\ a \in LoginAsk /\ a.at = "checked" /\ a.session = lAsk[c].session
      /\ a.lease = lAsk[c].lease /\ a.granted = lGrant /\ a.waiting = lAsk[c].waiting
  BY <1>1, LoginAt DEF LoginAsk, LoginInv, LoginTypes
<1>3. /\ lAsk' = [lAsk EXCEPT ![c] = a] /\ lConn' = lConn /\ lAsk[c].at = "queued"
      /\ UNCHANGED <<lReleased, lGrant, lLogin, lEpoch, lSid, lIds, lNext>>
  <2>1. lAsk' = [lAsk EXCEPT ![c].at = "checked", ![c].granted = lGrant]
    BY DEF Login!ReadGrants
  <2>2. lAsk' = [lAsk EXCEPT ![c] = a]
    BY <2>1, <1>1, LoginAt DEF LoginInv, LoginTypes
  <2> QED BY <2>2 DEF Login!ReadGrants
<1>4. LoginFits(c, lConn[c], a)
  BY <1>2, <1>3, LoginAt DEF LoginFits, LoginInv, LoginLeases
<1>5. a.at # "read"
  BY <1>2
<1> QED BY <1>2, <1>3, <1>4, <1>5, LoginAt, LoginKeeps

LEMMA LoginDenied ==
  ASSUME LoginInv, NEW c \in Login!Conns, Login!Denied(c)
  PROVE  LoginInv'
<1>1. /\ lAsk' = [lAsk EXCEPT ![c] = Login!NoAsk]
      /\ UNCHANGED <<lGrant, lLogin, lEpoch, lSid, lIds, lNext>>
  BY DEF Login!Denied
<1>2. CASE lConn' = [lConn EXCEPT ![c] = Login!Closed]
           /\ (lReleased' = lReleased \/ (lReleased' = lReleased \cup {lConn[c].lease} /\ lConn[c].lease # 0))
  BY <1>1, <1>2, LoginAt, LoginRecords, LoginEnds
<1>3. CASE lConn' = lConn /\ lReleased' = lReleased
  <2>1. LoginFits(c, lConn[c], Login!NoAsk)
    BY <1>1, <1>3, LoginAt, LoginRecords DEF LoginFits, LoginInv, LoginLeases
  <2> QED BY <1>1, <2>1, LoginAt, LoginRecords, LoginKeeps
<1>4. CASE Login!End(c)
  BY <1>2, <1>4, LoginEnded
<1>5. CASE lConn' = [lConn EXCEPT ![c] = Login!Closed] /\ lReleased' = lReleased
  BY Zenon, <1>2, <1>5
<1> QED BY <1>3, <1>4, <1>5 DEF Login!Denied

LEMMA LoginDrops ==
  ASSUME LoginInv, NEW c \in Login!Conns, Login!Drop(c)
  PROVE  LoginInv'
<1>1. PICK r : r = [lConn[c] EXCEPT !.alive = FALSE]
  OBVIOUS
<1>2. /\ r \in LoginConn /\ r.at = lConn[c].at /\ r.session = lConn[c].session
      /\ r.lease = lConn[c].lease /\ r.epoch = lConn[c].epoch
  BY <1>1, LoginAt DEF LoginConn
<1>3. /\ lConn' = [lConn EXCEPT ![c] = r] /\ lAsk' = lAsk
      /\ UNCHANGED <<lReleased, lGrant, lLogin, lEpoch, lSid, lIds, lNext>>
  BY <1>1 DEF Login!Drop
<1>4. LoginFits(c, r, lAsk[c])
  BY <1>2, <1>3, LoginAt DEF LoginFits, LoginInv, LoginLeases
<1> QED BY <1>2, <1>3, <1>4, LoginAt, LoginKeeps

LEMMA LoginSigns ==
  ASSUME LoginInv, NEW c \in Login!Conns, Login!Sign(c)
  PROVE  LoginInv'
<1>1. /\ lAsk' = [lAsk EXCEPT ![c] = Login!NoAsk] /\ lAsk[c].at = "read"
      /\ UNCHANGED <<lGrant, lLogin, lEpoch, lSid, lIds>>
  BY DEF Login!Sign
<1>2. lNext' \in 1..(MaxSigned + 1)
  BY LoginConstants DEF Login!Sign, LoginInv, LoginTypes
<1>3. CASE lConn' = [lConn EXCEPT ![c] = Login!Closed]
           /\ (lReleased' = lReleased \/ (lReleased' = lReleased \cup {lConn[c].lease} /\ lConn[c].lease # 0))
  BY <1>1, <1>2, <1>3, LoginAt, LoginRecords, LoginEnds
<1>4. CASE lConn' = lConn /\ lReleased' = lReleased
  <2>1. LoginFits(c, lConn[c], Login!NoAsk)
    BY <1>1, <1>2, <1>4, LoginAt, LoginRecords DEF LoginFits, LoginInv, LoginLeases
  <2> QED BY <1>1, <2>1, LoginAt, LoginRecords, LoginKeeps
<1>5. CASE /\ lConn' = [lConn EXCEPT ![c].at = "open", ![c].epoch = lEpoch]
           /\ lReleased' = lReleased /\ lAsk[c].waiting
  <2>1. PICK r : r = [lConn[c] EXCEPT !.at = "open", !.epoch = lEpoch]
    OBVIOUS
  <2>2. /\ r \in LoginConn /\ r.at = "open" /\ r.session = lConn[c].session
        /\ r.lease = lConn[c].lease /\ r.epoch = lEpoch
    BY <2>1, LoginAt DEF LoginConn
  <2>3. lConn' = [lConn EXCEPT ![c] = r]
    BY <1>5, <2>1 DEF LoginInv, LoginTypes
  <2>4. /\ lAsk[c].session = lConn[c].session /\ lAsk[c].lease = lConn[c].lease
        /\ lConn[c].session # 0
    BY <1>5 DEF LoginInv, LoginLeases, Login!Waiting
  <2>5. LoginFits(c, r, Login!NoAsk)
    <3>1. r.lease \in {lConn[c].lease, 0} /\ r.at # "closed" /\ r.session # 0 /\ r.epoch <= lEpoch
      BY <2>2, <2>4, LoginAt
    <3> QED BY <1>1, <1>2, <1>5, <2>3, <3>1, LoginAt, LoginRecords DEF LoginFits
  <2> QED BY <1>1, <2>2, <2>4, <2>5, LoginRecords, LoginKeeps
<1>6. CASE Login!End(c)
  BY <1>3, <1>6, LoginEnded
<1> QED BY <1>4, <1>5, <1>6 DEF Login!Sign

\* A login that admits a lease keeps those it has.
LEMMA LoginAuthorizes ==
  ASSUME LoginInv, NEW c \in Login!Conns, Login!Authorize(c)
  PROVE  LoginInv'
<1>1. PICK a : a = [lAsk[c] EXCEPT !.at = "read"]
  OBVIOUS
<1>2. /\ a \in LoginAsk /\ a.at = "read" /\ a.session = lAsk[c].session
      /\ a.lease = lAsk[c].lease /\ a.granted = lAsk[c].granted /\ a.waiting = lAsk[c].waiting
  BY <1>1, LoginAt DEF LoginAsk
<1>3. /\ lAsk' = [lAsk EXCEPT ![c] = a] /\ lConn' = lConn /\ lAsk[c].at = "checked"
      /\ UNCHANGED <<lReleased, lGrant, lEpoch, lSid, lIds, lNext>>
  BY <1>1 DEF Login!Authorize
<1>4. LoginFits(c, lConn[c], a)
  BY <1>2, <1>3, LoginAt DEF LoginFits, LoginInv, LoginLeases
<1>5. /\ a.session \in 0..MaxIds /\ a.session # 0 /\ a.lease \in 0..MaxIds
      /\ ~a.granted => ~lGrant
  BY <1>2, <1>3 DEF LoginInv, LoginLeases, LoginAsk
<1>6. /\ lLogin \in [session : 0..MaxIds, leases : SUBSET (1..MaxIds)]
      /\ (lLogin.session = 0) <=> (lLogin.leases = {})
  BY DEF LoginInv, LoginTypes
<1>7. /\ lLogin' \in [session : 0..MaxIds, leases : SUBSET (1..MaxIds)]
      /\ (lLogin'.session = 0) <=> (lLogin'.leases = {})
      /\ \A s, l : s # 0 /\ LoginHeld(lLogin, s, l) => LoginHeld(lLogin', s, l)
      /\ lGrant /\ a.lease # 0 => LoginHeld(lLogin', a.session, a.lease)
  <2>1. CASE ~a.granted
    <3>1. lLogin' = lLogin
      BY <1>2, <2>1 DEF Login!Authorize
    <3> QED BY <1>5, <1>6, <2>1, <3>1 DEF LoginHeld
  <2>2. CASE a.granted /\ lLogin.session = a.session /\ a.lease = 0
    <3>1. lLogin' = [lLogin EXCEPT !.leases = lLogin.leases]
      BY <1>2, <2>2 DEF Login!Authorize, Login!LoggedIn
    <3>2. lLogin' = lLogin
      BY <3>1, <1>6
    <3> QED BY <3>2, <1>6, <2>2 DEF LoginHeld
  <2>3. CASE a.granted /\ lLogin.session = a.session /\ a.lease # 0
    <3>1. lLogin' = [lLogin EXCEPT !.leases = lLogin.leases \cup {a.lease}]
      BY <1>2, <1>6, <2>3 DEF Login!Authorize, Login!LoggedIn
    <3>2. a.lease \in 1..MaxIds
      BY <1>5, <2>3, LoginConstants
    <3> DEFINE more == lLogin.leases \cup {a.lease}
    <3>4. more \in SUBSET (1..MaxIds) /\ lLogin' = [lLogin EXCEPT !.leases = more]
      BY <1>6, <3>1, <3>2
    <3> HIDE DEF more
    <3>5. lLogin'.session = lLogin.session /\ lLogin'.leases = more
          /\ lLogin' \in [session : 0..MaxIds, leases : SUBSET (1..MaxIds)]
      BY <1>6, <3>4
    <3>3. lLogin'.session = lLogin.session /\ lLogin'.leases = lLogin.leases \cup {a.lease}
          /\ lLogin' \in [session : 0..MaxIds, leases : SUBSET (1..MaxIds)]
      BY <3>5 DEF more
    <3> QED BY <1>5, <1>6, <2>3, <3>3 DEF LoginHeld
  <2>4. CASE a.granted /\ lLogin.session # a.session
    <3>1. lLogin' = [session |-> a.session, leases |-> {a.lease}] /\ lLogin.session = 0 /\ a.lease # 0
      BY <1>2, <2>4 DEF Login!Authorize, Login!LoggedIn, Login!Admitted
    <3>2. a.lease \in 1..MaxIds
      BY <1>5, <3>1, LoginConstants
    <3> QED BY <1>5, <1>6, <3>1, <3>2 DEF LoginHeld
  <2> QED BY <2>1, <2>2, <2>3, <2>4
<1>8. LoginTypes' /\ LoginLeases'
  BY <1>2, <1>4, <1>7, LoginAt, LoginConnStep DEF LoginInv
<1>9. lGrant /\ lConn[c].at = "open" /\ lConn[c].lease # 0 /\ lConn[c].epoch = lEpoch
         => LoginHeld(lLogin', lConn[c].session, lConn[c].lease)
  BY <1>7 DEF LoginInv, LoginHolds, LoginLeases, LoginHeld
<1>a. LoginHolds'
  BY <1>4, <1>7, <1>9, LoginConnHolds DEF LoginInv
<1> QED BY <1>8, <1>a DEF LoginInv

LEMMA LoginConnSteps ==
  ASSUME LoginInv, NEW c \in Login!Conns, Login!ConnStep(c)
  PROVE  LoginInv'
  BY LoginConnect, LoginAsksAgain, LoginHangsUp, LoginTimesOut, LoginReadsGrants, LoginAuthorizes,
     LoginDenied, LoginSigns, LoginDrops DEF Login!ConnStep

\* Losing a lease that no connection and no request has.
LEMMA LoginForgets ==
  ASSUME LoginInv, NEW lease \in 1..MaxIds,
         \A c \in Login!Conns : lConn[c].lease # lease /\ (lAsk[c].at # "idle" => lAsk[c].lease # lease),
         lLogin' = lLogin \/ lLogin' = Login!Forget(lease),
         lReleased' \subseteq lReleased,
         UNCHANGED <<lGrant, lNext, lEpoch, lConn, lAsk, lSid, lIds>>
  PROVE  LoginInv'
<1>1. /\ lLogin \in [session : 0..MaxIds, leases : SUBSET (1..MaxIds)]
      /\ (lLogin.session = 0) <=> (lLogin.leases = {})
  BY DEF LoginInv, LoginTypes
<1>2. /\ lLogin' \in [session : 0..MaxIds, leases : SUBSET (1..MaxIds)]
      /\ (lLogin'.session = 0) <=> (lLogin'.leases = {})
      /\ \A s, l : l # lease /\ LoginHeld(lLogin, s, l) => LoginHeld(lLogin', s, l)
  <2>1. CASE lLogin' = lLogin
    BY <1>1, <2>1 DEF LoginHeld
  <2> DEFINE rest == lLogin.leases \ {lease}
  <2>2. CASE lLogin' = Login!Forget(lease) /\ rest = {}
    <3>1. PICK zero \in 0..MaxIds : zero = 0
      BY LoginConstants
    <3>2. lLogin' = [session |-> zero, leases |-> {}]
      BY <2>2, <3>1 DEF Login!Forget
    <3> QED BY <1>1, <2>2, <3>1, <3>2 DEF LoginHeld
  <2>3. CASE lLogin' = Login!Forget(lease) /\ rest # {}
    <3>1. lLogin' = [lLogin EXCEPT !.leases = rest]
      BY <2>3 DEF Login!Forget
    <3>2. rest \in SUBSET (1..MaxIds) /\ lLogin.leases # {} /\ rest # {}
      BY <1>1, <2>3
    <3>r. \A l : l \in lLogin.leases /\ l # lease => l \in rest
      OBVIOUS
    <3> HIDE DEF rest
    <3>3. lLogin' \in [session : 0..MaxIds, leases : SUBSET (1..MaxIds)]
          /\ lLogin'.session = lLogin.session /\ lLogin'.leases = rest
      BY <1>1, <3>1, <3>2
    <3> QED BY <1>1, <3>2, <3>r, <3>3 DEF LoginHeld
  <2> QED BY <2>1, <2>2, <2>3
<1>3. LoginTypes'
  BY <1>2 DEF LoginInv, LoginTypes
<1>4. LoginLeases'
  BY DEF LoginInv, LoginLeases
<1>5. LoginHolds'
  BY <1>2 DEF LoginInv, LoginHolds, LoginHeld, LoginLeases
<1> QED BY <1>3, <1>4, <1>5 DEF LoginInv

LEMMA LoginServerRestarts ==
  ASSUME LoginInv, Login!ServerRestart
  PROVE  LoginInv'
<1>1. PICK zero \in 0..MaxIds : zero = 0
  BY LoginConstants
<1>2. /\ lLogin' = [session |-> zero, leases |-> {}]
      /\ lLogin'.session = 0 /\ lLogin'.leases = {} /\ lEpoch' = lEpoch + 1 /\ lReleased' = {}
      /\ UNCHANGED <<lGrant, lNext, lSid, lIds>>
  BY <1>1 DEF Login!ServerRestart
<1>3. \A c \in Login!Conns :
         /\ lAsk'[c] = Login!NoAsk
         /\ lConn'[c] = IF lConn[c].at \in Login!Waiting THEN Login!Closed ELSE lConn[c]
  BY DEF Login!ServerRestart
<1>4. lConn' \in [Login!Conns -> LoginConn] /\ lAsk' \in [Login!Conns -> LoginAsk]
  <2>1. \A c \in Login!Conns :
           (IF lConn[c].at \in Login!Waiting THEN Login!Closed ELSE lConn[c]) \in LoginConn
    BY LoginRecords DEF LoginInv, LoginTypes
  <2>2. lConn' = [c \in Login!Conns |-> IF lConn[c].at \in Login!Waiting THEN Login!Closed ELSE lConn[c]]
        /\ lAsk' = [c \in Login!Conns |-> Login!NoAsk]
    BY DEF Login!ServerRestart
  <2> QED BY <2>1, <2>2, LoginRecords
<1>5. LoginTypes'
  BY <1>1, <1>2, <1>4, LoginConstants DEF LoginInv, LoginTypes
<1>6. ASSUME NEW c \in Login!Conns
      PROVE  /\ lConn'[c].lease <= lIds' /\ lConn'[c].epoch <= lEpoch /\ lConn'[c].lease \in {0, lConn[c].lease}
             /\ lConn'[c].at = "closed" => lConn'[c].lease = 0
             /\ lConn'[c].at # "closed" => lConn'[c].session # 0
             /\ lAsk'[c].at = "idle" /\ ~lAsk'[c].waiting
  <2>1. /\ lConn[c].lease <= lIds /\ lConn[c].epoch <= lEpoch
        /\ lConn[c].at = "closed" => lConn[c].lease = 0
        /\ lConn[c].at # "closed" => lConn[c].session # 0
    BY DEF LoginInv, LoginLeases
  <2>2. CASE lConn[c].at \in Login!Waiting
    BY <1>2, <1>3, <2>2, LoginAt, LoginRecords
  <2>3. CASE lConn[c].at \notin Login!Waiting
    BY <1>2, <1>3, <2>1, <2>3, LoginRecords
  <2> QED BY <2>2, <2>3
<1>7. lEpoch \in Nat /\ \A c \in Login!Conns : lConn'[c].epoch \in Nat
  BY <1>4 DEF LoginInv, LoginTypes, LoginConn
<1>8. \A c, d \in Login!Conns : lConn'[c].lease # 0 /\ lConn'[d].lease = lConn'[c].lease => c = d
  BY <1>6 DEF LoginInv, LoginLeases
<1>9. LoginLeases'
  BY <1>2, <1>6, <1>7, <1>8 DEF LoginLeases
<1>a. LoginHolds'
  BY <1>2, <1>6, <1>7 DEF LoginHolds
<1> QED BY <1>5, <1>9, <1>a DEF LoginInv

LEMMA LoginProcessRestarts ==
  ASSUME LoginInv, NEW p \in TravelProcesses, Login!ProcessRestart(p)
  PROVE  LoginInv'
<1>1. PICK dead \in BOOLEAN : dead = FALSE
  OBVIOUS
<1>2. /\ lIds < MaxIds /\ lIds' = lIds + 1 /\ lSid' = [lSid EXCEPT ![p] = lIds + 1]
      /\ UNCHANGED <<lGrant, lNext, lLogin, lEpoch, lAsk, lReleased>>
      /\ lConn' = [c \in Login!Conns |-> IF lConn[c].owner = p
                                         THEN [lConn[c] EXCEPT !.alive = dead] ELSE lConn[c]]
  BY <1>1 DEF Login!ProcessRestart
<1>3. \A c \in Login!Conns :
         /\ [lConn[c] EXCEPT !.alive = dead] \in LoginConn
         /\ LET r == [lConn[c] EXCEPT !.alive = dead]
            IN  r.at = lConn[c].at /\ r.session = lConn[c].session /\ r.lease = lConn[c].lease
                /\ r.epoch = lConn[c].epoch
  BY LoginAt DEF LoginConn
<1>4. lConn' \in [Login!Conns -> LoginConn]
  BY <1>2, <1>3, LoginAt
<1>5. \A c \in Login!Conns : lConn'[c].at = lConn[c].at /\ lConn'[c].session = lConn[c].session
                             /\ lConn'[c].lease = lConn[c].lease /\ lConn'[c].epoch = lConn[c].epoch
  BY <1>2, <1>3
<1>6. lIds \in 0..MaxIds /\ lIds + 1 \in 0..MaxIds /\ lIds + 1 \in 1..MaxIds
  BY <1>2, LoginConstants DEF LoginInv, LoginTypes
<1>7. lSid' \in [TravelProcesses -> 1..MaxIds]
  BY <1>2, <1>6 DEF LoginInv, LoginTypes
<1>8. LoginTypes'
  BY <1>2, <1>4, <1>6, <1>7 DEF LoginInv, LoginTypes
<1>9. \A c \in Login!Conns : lConn[c].lease \in 0..MaxIds /\ lConn[c].lease <= lIds
  BY DEF LoginInv, LoginTypes, LoginConn, LoginLeases
<1>a. LoginLeases'
  <2>1. \A l \in lReleased' : l <= lIds'
    BY <1>2, <1>6, LoginConstants DEF LoginInv, LoginLeases, LoginTypes
  <2>2. \A c \in Login!Conns : lConn'[c].lease <= lIds'
    BY <1>2, <1>5, <1>6, <1>9, LoginConstants
  <2> QED BY <1>2, <1>5, <2>1, <2>2 DEF LoginInv, LoginLeases
<1>b. LoginHolds'
  BY <1>2, <1>5 DEF LoginInv, LoginHolds
<1> QED BY <1>8, <1>a, <1>b DEF LoginInv

LEMMA LoginNext ==
  ASSUME LoginInv, [Login!Next]_(Login!vars)
  PROVE  LoginInv'
<1>1. CASE \E c \in Login!Conns : Login!ConnStep(c)
  BY <1>1, LoginConnSteps
<1>2. ASSUME NEW lease \in 1..MaxIds, Login!Release(lease)
      PROVE  LoginInv'
  <2>1. \A c \in Login!Conns : lConn[c].lease # lease
    BY <1>2 DEF LoginInv, LoginLeases, Login!Release
  <2> QED BY <1>2, <2>1, LoginForgets DEF Login!Release
<1>3. ASSUME NEW lease \in 1..MaxIds, Login!Prune(lease)
      PROVE  LoginInv'
  BY <1>3, LoginForgets DEF Login!Prune
<1>4. ASSUME NEW lease \in 1..MaxIds, Login!ReleaseLost(lease)
      PROVE  LoginInv'
  BY <1>4 DEF Login!ReleaseLost, LoginInv, LoginTypes, LoginLeases, LoginHolds
<1>5. CASE \E p \in TravelProcesses : Login!ProcessRestart(p)
  BY <1>5, LoginProcessRestarts
<1>6. CASE Login!Learn
  BY <1>6 DEF Login!Learn, LoginInv, LoginTypes, LoginLeases, LoginHolds
<1>7. CASE Login!Revoke
  <2>1. /\ lGrant' = FALSE
        /\ UNCHANGED <<lNext, lLogin, lEpoch, lConn, lAsk, lReleased, lSid, lIds>>
    BY <1>7 DEF Login!Revoke
  <2>2. LoginTypes'
    BY <2>1 DEF LoginInv, LoginTypes
  <2>3. LoginLeases'
    BY <2>1 DEF LoginInv, LoginLeases
  <2> QED BY <2>1, <2>2, <2>3 DEF LoginInv, LoginHolds
<1>8. CASE Login!ServerRestart
  BY <1>8, LoginServerRestarts
<1>9. CASE UNCHANGED Login!vars
  BY <1>9 DEF Login!vars, LoginInv, LoginTypes, LoginLeases, LoginHolds
<1> QED BY <1>1, <1>2, <1>3, <1>4, <1>5, <1>6, <1>7, <1>8, <1>9 DEF Login!Next

LEMMA LoginAlways == ControlSpec => [](comp = "login" => LoginInv)
<1> DEFINE Inv == comp = "login" => LoginInv
<1>1. ControlInit => Inv
  BY LoginTypeInit DEF ControlInit, LoginInv
<1>2. Inv /\ [ControlNext]_<<vars, shared, comp>> => Inv'
  <2> SUFFICES ASSUME Inv, [ControlNext]_<<vars, shared, comp>>, comp' = "login"
               PROVE  LoginInv'
    OBVIOUS
  <2>1. comp = "login" /\ [Login!Next]_(Login!vars)
    BY LoginTurn
  <2> QED BY <2>1, LoginNext
<1> QED BY <1>1, <1>2, PTL DEF ControlSpec

\* Two sessions of one Travel identity are never both logged in, and a connection
\* that was renewed has its lease (TravelSessionRegistry).
THEOREM ControlOneLogin == ControlSpec => []OneLogin
<1>1. (comp = "login" => LoginInv) => OneLogin
  BY DEF LoginInv, LoginHolds, OneLogin, Login!OneLogin, Login!OpenHasItsLease
<1> QED BY <1>1, LoginAlways, PTL

-----------------------------------------------------------------------------
(* The Relay directory (module RelayDirectory).                             *)

dNext == v1
dCurrent == v2
dRegistry == v3
dPublished == v4
dTask == v5
dAdvertised == v6
dCopy == v7
dChanges == v8
dFailures == v9
dOverlap == v10
dStrays == v11
USE DEF dNext, dCurrent, dRegistry, dPublished, dTask, dAdvertised, dCopy, dChanges,
        dFailures, dOverlap, dStrays

DirTask ==
    [relay : DirectoryRelays, at : Directory!Stages, endpoint : Directory!Reports,
     shutdown : BOOLEAN, held : Directory!Directory, dirty : BOOLEAN, open : BOOLEAN,
     news : BOOLEAN, up : Seq(Directory!Reports), down : Seq(Directory!Directory)]

Serving == {"adding", "running", "changing"}
Entered == Serving \cup {"leaving", "removing", "superseded", "failed"}
Publishing == {"adding", "changing", "dropping"}

\* Entry of a Relay: its task has not cleaned up, and while it serves the entry
\* shows the endpoint of the task.
DirEntry(reg, task, r) ==
    reg.session[r] # 0 =>
        LET t == task[reg.session[r]]
        IN  /\ t.relay = r /\ t.at \in Entered
            /\ t.at \in Serving => reg.endpoint[r] = t.endpoint

\* What a Relay reported last, on a session that has nothing more to report, is the
\* endpoint it has.
DirReported(t, advertised) ==
    /\ t.at = "hello" => t.up # <<>>
    /\ t.open /\ ~t.news /\ t.at \in Serving \cup {"hello", "joined"} =>
          IF t.up = <<>> THEN t.endpoint = advertised[t.relay]
                         ELSE t.up[Len(t.up)] = advertised[t.relay]

\* A session that has seen the watch channel has sent what is in it, and what it
\* sent and the Relay has read is in the Relay's copy, or a newer one is.
DirSent(t, published, copy) ==
    t.open /\ ~t.dirty /\ t.at = "running" =>
        IF t.down = <<>> THEN copy[t.relay].generation >= published.generation
                         ELSE t.down[Len(t.down)] = published

\* Changes that have not overlapped are published in their order.
DirOrder ==
    ~dOverlap =>
        /\ \A s, u \in Directory!Holding : s = u
        /\ \A s \in Directory!Holding : dTask[s].held = Directory!DirectoryOf(dRegistry)
        /\ Directory!Holding = {} => dPublished = Directory!DirectoryOf(dRegistry)

\* Every directory there is, and the one that stands for none.
SeenIn(d, reg, published, task, copy) ==
    \/ d = Directory!NoDirectory \/ d = Directory!DirectoryOf(reg) \/ d = published
    \/ \E r \in DirectoryRelays : d = copy[r]
    \/ \E s \in Directory!Sessions :
          d = task[s].held \/ \E i \in DOMAIN task[s].down : d = task[s].down[i]

Seen(d) == SeenIn(d, dRegistry, dPublished, dTask, dCopy)

DirGenerations ==
    /\ dNext = dRegistry.generation + 1
    /\ \A d : Seen(d) => d.generation <= dRegistry.generation
    /\ \A d, e : Seen(d) /\ Seen(e) /\ d.generation = e.generation => d = e

DirInv ==
    /\ Directory!TypeOK
    /\ \A r \in DirectoryRelays : DirEntry(dRegistry, dTask, r)
    /\ \A s \in Directory!Sessions :
          DirReported(dTask[s], dAdvertised) /\ DirSent(dTask[s], dPublished, dCopy)
    /\ DirOrder /\ DirGenerations

LEMMA DirTurn ==
  ASSUME [ControlNext]_<<vars, shared, comp>>, comp' = "directory"
  PROVE  comp = "directory" /\ [Directory!Next]_(Directory!vars)
  BY DEF ControlNext, DirectoryStep, LoginStep, TrustStep, NewHomeStep, RemoteStep,
         HomesStep, SessionStep, shared, Directory!vars

LEMMA DirDirectories ==
  /\ Directory!NoDirectory \in Directory!Directory /\ Directory!NoDirectory.generation = 0
  /\ \A reg \in [generation : Nat, session : [DirectoryRelays -> 0..MaxSessions],
                 endpoint : [DirectoryRelays -> Directory!Reports]] :
        /\ Directory!DirectoryOf(reg) \in Directory!Directory
        /\ Directory!DirectoryOf(reg).generation = reg.generation
<1>1. [r \in DirectoryRelays |-> Absent] \in [DirectoryRelays -> Directory!Reports]
  BY DEF Directory!Reports
<1>2. PICK zero \in Nat : zero = 0
  OBVIOUS
<1>3. Directory!NoDirectory \in Directory!Directory /\ Directory!NoDirectory.generation = 0
  BY <1>1, <1>2 DEF Directory!NoDirectory, Directory!Directory
<1>4. ASSUME NEW reg \in [generation : Nat, session : [DirectoryRelays -> 0..MaxSessions],
                          endpoint : [DirectoryRelays -> Directory!Reports]]
      PROVE  /\ Directory!DirectoryOf(reg) \in Directory!Directory
             /\ Directory!DirectoryOf(reg).generation = reg.generation
  <2> DEFINE listed == [r \in DirectoryRelays |->
                          IF reg.session[r] = 0 THEN Absent ELSE reg.endpoint[r]]
  <2>1. listed \in [DirectoryRelays -> Directory!Reports]
    BY DEF Directory!Reports
  <2> HIDE DEF listed
  <2>2. Directory!DirectoryOf(reg) = [generation |-> reg.generation, relays |-> listed]
    BY DEF Directory!DirectoryOf, listed
  <2> QED BY <2>1, <2>2 DEF Directory!Directory
<1> QED BY <1>3, <1>4

\* A task that is free, and one that is over or about to be.
LEMMA DirFree ==
  ASSUME NEW r \in DirectoryRelays
  PROVE  /\ Directory!Free(r) \in DirTask
         /\ Directory!Free(r).relay = r /\ Directory!Free(r).at = "free"
         /\ Directory!Free(r).held = Directory!NoDirectory
         /\ Directory!Free(r).down = <<>> /\ Directory!Free(r).up = <<>>
         /\ ~Directory!Free(r).open
<1>1. Absent \in Directory!Reports /\ "free" \in Directory!Stages
  BY DEF Directory!Reports, Directory!Stages
<1>2. PICK e : e = <<>>
  OBVIOUS
<1>3. e \in Seq(Directory!Reports) /\ e \in Seq(Directory!Directory)
  BY <1>2, EmptySeq
<1>4. Directory!Free(r) \in DirTask
  BY <1>1, <1>2, <1>3, DirDirectories DEF Directory!Free, DirTask
<1> QED BY <1>4 DEF Directory!Free

LEMMA DirEnded ==
  ASSUME Directory!TypeOK, NEW s \in Directory!Sessions, NEW at \in Directory!Stages
  PROVE  LET t == Directory!Ended(s, at)
         IN  /\ t \in DirTask /\ t.relay = dTask[s].relay /\ t.at = at
             /\ t.held = Directory!NoDirectory
             /\ t.down = dTask[s].down /\ t.open = dTask[s].open
<1>1. dTask[s] \in DirTask
  BY DEF Directory!TypeOK, DirTask
<1>2. dTask[s].relay \in DirectoryRelays /\ dTask[s].open \in BOOLEAN
      /\ dTask[s].down \in Seq(Directory!Directory)
  BY <1>1 DEF DirTask
<1>3. PICK f : f = Directory!Free(dTask[s].relay)
  OBVIOUS
<1>4. Directory!Ended(s, at) = [f EXCEPT !.at = at, !.open = dTask[s].open, !.down = dTask[s].down]
  BY <1>3 DEF Directory!Ended
<1>5. f \in DirTask /\ f.relay = dTask[s].relay /\ f.held = Directory!NoDirectory
  BY <1>2, <1>3, DirFree
<1> QED BY <1>2, <1>4, <1>5 DEF DirTask

LEMMA DirTypeInit ==
  ASSUME Directory!Init
  PROVE  DirInv
<1>1. PICK zero \in 0..MaxSessions : zero = 0
  BY DirectoryConstants
<1>2. PICK r0 \in DirectoryRelays : dTask = [s \in Directory!Sessions |-> Directory!Free(r0)]
  BY DirectoryConstants DEF Directory!Init
<1>3. dTask \in [Directory!Sessions -> DirTask]
  BY <1>2, DirFree
<1>4. \A s \in Directory!Sessions :
         /\ dTask[s].at = "free" /\ dTask[s].held = Directory!NoDirectory
         /\ dTask[s].down = <<>> /\ ~dTask[s].open
  BY <1>2, DirFree
<1> DEFINE nobody == [r \in DirectoryRelays |-> zero]
           nowhere == [r \in DirectoryRelays |-> Absent]
<1>5. nobody \in [DirectoryRelays -> 0..MaxSessions] /\ nowhere \in [DirectoryRelays -> Directory!Reports]
      /\ \A r \in DirectoryRelays : nobody[r] = 0
  BY <1>1 DEF Directory!Reports
<1>6. /\ dCurrent = nobody /\ dRegistry = [generation |-> 1, session |-> nobody, endpoint |-> nowhere]
      /\ Directory!NoDirectory = [generation |-> 0, relays |-> nowhere]
  BY <1>1 DEF Directory!Init, Directory!NoDirectory
<1>a. Directory!DirectoryOf(dRegistry) = [generation |-> 1, relays |-> nowhere]
  BY <1>5, <1>6 DEF Directory!DirectoryOf
<1>b. dPublished = [generation |-> 1, relays |-> nowhere]
  BY <1>6 DEF Directory!Init
<1> HIDE DEF nobody, nowhere
<1>7. /\ dRegistry \in [generation : Nat, session : [DirectoryRelays -> 0..MaxSessions],
                        endpoint : [DirectoryRelays -> Directory!Reports]]
      /\ dRegistry.generation = 1 /\ \A r \in DirectoryRelays : dRegistry.session[r] = 0
      /\ dPublished \in Directory!Directory
  BY <1>5, <1>6, <1>b DEF Directory!Directory
<1>8. /\ dNext = 2 /\ dAdvertised \in [DirectoryRelays -> Directory!Reports]
      /\ dCopy \in [DirectoryRelays -> Directory!Directory]
      /\ \A r \in DirectoryRelays : dCopy[r] = Directory!NoDirectory
      /\ dChanges \in Nat /\ dFailures \in Nat /\ dOverlap \in BOOLEAN
      /\ dStrays \subseteq DirectoryRelays
  BY DirDirectories, DirectoryConstants DEF Directory!Init, Directory!Reports
<1>9. Directory!TypeOK
  BY <1>3, <1>5, <1>6, <1>7, <1>8 DEF Directory!TypeOK, DirTask
<1>c. \A d : Seen(d) => d = Directory!NoDirectory \/ d = dPublished
  BY <1>4, <1>8, <1>a, <1>b DEF Seen, SeenIn
<1>d. DirGenerations
  BY <1>7, <1>8, <1>b, <1>c, DirDirectories DEF DirGenerations
<1>e. DirOrder
  BY <1>4, <1>a, <1>b DEF DirOrder, Directory!Holding
<1>f. \A r \in DirectoryRelays : DirEntry(dRegistry, dTask, r)
  BY <1>7 DEF DirEntry
<1>g. \A s \in Directory!Sessions :
          DirReported(dTask[s], dAdvertised) /\ DirSent(dTask[s], dPublished, dCopy)
  BY <1>4 DEF DirReported, DirSent, Serving
<1> QED BY <1>9, <1>d, <1>e, <1>f, <1>g DEF DirInv

LEMMA DirAt ==
  ASSUME DirInv, NEW s \in Directory!Sessions
  PROVE  /\ dTask[s] \in DirTask /\ dTask = [dTask EXCEPT ![s] = dTask[s]]
         /\ DirReported(dTask[s], dAdvertised) /\ DirSent(dTask[s], dPublished, dCopy)
         /\ dTask[s].held \in Directory!Directory /\ Seen(dTask[s].held)
         /\ \A i \in DOMAIN dTask[s].down : Seen(dTask[s].down[i])
<1>1. dTask[s] \in DirTask /\ dTask = [dTask EXCEPT ![s] = dTask[s]]
  BY DEF DirInv, Directory!TypeOK, DirTask
<1>2. DirReported(dTask[s], dAdvertised) /\ DirSent(dTask[s], dPublished, dCopy)
  BY DEF DirInv
<1>3. dTask[s].held \in Directory!Directory
  BY <1>1 DEF DirTask
<1>4. Seen(dTask[s].held) /\ \A i \in DOMAIN dTask[s].down : Seen(dTask[s].down[i])
  BY DEF Seen, SeenIn
<1> QED BY <1>1, <1>2, <1>3, <1>4

LEMMA DirKnown ==
  ASSUME DirInv
  PROVE  /\ Seen(Directory!NoDirectory) /\ Seen(Directory!DirectoryOf(dRegistry)) /\ Seen(dPublished)
         /\ \A r \in DirectoryRelays : Seen(dCopy[r]) /\ dCopy[r] \in Directory!Directory
         /\ dPublished \in Directory!Directory /\ dPublished.generation \in Nat
         /\ \A r \in DirectoryRelays : dCopy[r].generation \in Nat
         /\ dRegistry.generation \in Nat /\ dNext \in Nat
         /\ Directory!DirectoryOf(dRegistry) \in Directory!Directory
         /\ Directory!DirectoryOf(dRegistry).generation = dRegistry.generation
<1>1. /\ dPublished \in Directory!Directory /\ dRegistry.generation \in Nat /\ dNext \in Nat
      /\ \A r \in DirectoryRelays : dCopy[r] \in Directory!Directory
      /\ dRegistry \in [generation : Nat, session : [DirectoryRelays -> 0..MaxSessions],
                        endpoint : [DirectoryRelays -> Directory!Reports]]
  BY DEF DirInv, Directory!TypeOK
<1>2. \A d \in Directory!Directory : d.generation \in Nat
  BY DEF Directory!Directory
<1>3. /\ Seen(Directory!NoDirectory) /\ Seen(Directory!DirectoryOf(dRegistry)) /\ Seen(dPublished)
      /\ \A r \in DirectoryRelays : Seen(dCopy[r])
  BY DEF Seen, SeenIn
<1> QED BY <1>1, <1>2, <1>3, DirDirectories

\* Whatever there is after a step was there, or is what the registry now says.
LEMMA DirGrows ==
  ASSUME DirInv,
         \A d : SeenIn(d, dRegistry', dPublished', dTask', dCopy')
                  => Seen(d) \/ d = Directory!DirectoryOf(dRegistry'),
         dRegistry' \in [generation : Nat, session : [DirectoryRelays -> 0..MaxSessions],
                         endpoint : [DirectoryRelays -> Directory!Reports]],
         \/ dRegistry' = dRegistry /\ dNext' = dNext
         \/ dRegistry'.generation = dNext /\ dNext' = dNext + 1
  PROVE  DirGenerations'
<1>1. /\ dNext = dRegistry.generation + 1 /\ dRegistry.generation \in Nat /\ dNext \in Nat
      /\ \A d : Seen(d) => d.generation <= dRegistry.generation
      /\ \A d, e : Seen(d) /\ Seen(e) /\ d.generation = e.generation => d = e
  BY DirKnown DEF DirInv, DirGenerations
<1>2. \A d : Seen(d) => d.generation \in Nat
  <2> SUFFICES ASSUME NEW d, Seen(d) PROVE d \in Directory!Directory
    BY DEF Directory!Directory
  <2>1. CASE \E s \in Directory!Sessions :
               d = dTask[s].held \/ \E i \in DOMAIN dTask[s].down : d = dTask[s].down[i]
    <3>1. PICK s \in Directory!Sessions :
               d = dTask[s].held \/ \E i \in DOMAIN dTask[s].down : d = dTask[s].down[i]
      BY <2>1
    <3>2. dTask[s].held \in Directory!Directory /\ dTask[s].down \in Seq(Directory!Directory)
      BY DirAt DEF DirTask
    <3>3. \A i \in DOMAIN dTask[s].down : dTask[s].down[i] \in Directory!Directory
      BY <3>2, ElementOfSeq, LenProperties
    <3> QED BY <3>1, <3>2, <3>3
  <2> QED BY <2>1, DirKnown, DirDirectories DEF Seen, SeenIn
<1>3. Directory!DirectoryOf(dRegistry').generation = dRegistry'.generation
  BY DirDirectories
<1>4. CASE dRegistry' = dRegistry /\ dNext' = dNext
  <2>1. \A d : SeenIn(d, dRegistry', dPublished', dTask', dCopy') => Seen(d)
    BY <1>4, DirKnown
  <2> QED BY <1>1, <1>4, <2>1 DEF DirGenerations, Seen
<1>5. CASE dRegistry'.generation = dNext /\ dNext' = dNext + 1
  <2>1. \A d : Seen(d) => d.generation < dRegistry'.generation
    BY <1>1, <1>2, <1>5
  <2>2. \A d : SeenIn(d, dRegistry', dPublished', dTask', dCopy')
                 => d = Directory!DirectoryOf(dRegistry') \/ (Seen(d) /\ d.generation < dRegistry'.generation)
    BY <2>1
  <2>3. dNext' = dRegistry'.generation + 1
    BY <1>5
  <2>4. \A d : SeenIn(d, dRegistry', dPublished', dTask', dCopy') => d.generation <= dRegistry'.generation
    BY <1>2, <1>3, <2>2
  <2>5. ASSUME NEW d, NEW e, SeenIn(d, dRegistry', dPublished', dTask', dCopy'),
               SeenIn(e, dRegistry', dPublished', dTask', dCopy'), d.generation = e.generation
        PROVE  d = e
    <3>1. CASE d = Directory!DirectoryOf(dRegistry') \/ e = Directory!DirectoryOf(dRegistry')
      <4>1. \A x : Seen(x) => x.generation # dRegistry'.generation
        BY <1>2, <2>1, <1>5, <1>1
      <4> QED BY <2>5, <1>3, <2>2, <3>1, <4>1
    <3>2. CASE Seen(d) /\ Seen(e)
      BY <2>5, <1>1, <3>2
    <3> QED BY <2>5, <2>2, <3>1, <3>2
  <2> QED BY <2>3, <2>4, <2>5 DEF DirGenerations, Seen
<1> QED BY <1>4, <1>5

\* What a step that changes one task and leaves registry and watch channel alone
\* makes of the task.
DirFits(s, t) ==
    /\ dTask' = [dTask EXCEPT ![s] = t]
    /\ UNCHANGED <<dNext, dRegistry, dPublished, dAdvertised, dOverlap>>
    /\ dTask[s].at # "free" => t.relay = dTask[s].relay
    /\ dTask[s].at \in Entered => t.at \in Entered \/ dRegistry.session[dTask[s].relay] # s
    /\ t.at \in Serving => \/ dTask[s].at \in Serving
                           \/ dTask[s].at \notin Entered
    /\ t.at \in Serving /\ dTask[s].at \in Serving => t.endpoint = dTask[s].endpoint
    /\ (t.at \in Publishing) <=> (dTask[s].at \in Publishing)
    /\ t.at \in Publishing => t.held = dTask[s].held
    /\ Seen(t.held) /\ \A i \in DOMAIN t.down : Seen(t.down[i])
    /\ DirReported(t, dAdvertised) /\ DirSent(t, dPublished, dCopy')

LEMMA DirKeeps ==
  ASSUME DirInv, NEW s \in Directory!Sessions, NEW t \in DirTask, DirFits(s, t),
         dCurrent' \in [DirectoryRelays -> 0..MaxSessions], dChanges' \in Nat, dFailures' \in Nat,
         dCopy' \in [DirectoryRelays -> Directory!Directory],
         \A r \in DirectoryRelays :
            Seen(dCopy'[r]) /\ dCopy'[r].generation >= dCopy[r].generation,
         dStrays' \subseteq DirectoryRelays
  PROVE  DirInv'
<1>1. /\ dTask'[s] = t /\ \A u \in Directory!Sessions : u # s => dTask'[u] = dTask[u]
      /\ dTask' \in [Directory!Sessions -> DirTask]
      /\ UNCHANGED <<dNext, dRegistry, dPublished, dAdvertised, dOverlap>>
  BY DEF DirFits, DirInv, Directory!TypeOK, DirTask
<1>2. Directory!TypeOK'
  BY <1>1 DEF DirInv, Directory!TypeOK, DirTask
<1>3. ASSUME NEW r \in DirectoryRelays PROVE DirEntry(dRegistry, dTask', r)
  <2>1. DirEntry(dRegistry, dTask, r) /\ dRegistry.session[r] \in 0..MaxSessions
    BY DEF DirInv, Directory!TypeOK
  <2>2. CASE dRegistry.session[r] = s /\ dRegistry.session[r] # 0
    <3>1. /\ dTask[s].relay = r /\ dTask[s].at \in Entered /\ dTask[s].at # "free"
          /\ dTask[s].at \in Serving => dRegistry.endpoint[r] = dTask[s].endpoint
      BY <2>1, <2>2 DEF DirEntry, Entered, Serving
    <3>2. t.relay = r /\ t.at \in Entered /\ (t.at \in Serving => dTask[s].at \in Serving)
          /\ (t.at \in Serving /\ dTask[s].at \in Serving => t.endpoint = dTask[s].endpoint)
      BY <2>2, <3>1 DEF DirFits
    <3> QED BY <1>1, <2>2, <3>1, <3>2 DEF DirEntry
  <2>3. CASE dRegistry.session[r] # s /\ dRegistry.session[r] # 0
    <3>1. dRegistry.session[r] \in Directory!Sessions
      BY <2>1, <2>3, DirectoryConstants DEF Directory!Sessions
    <3> QED BY <1>1, <2>1, <2>3, <3>1 DEF DirEntry
  <2>4. CASE dRegistry.session[r] = 0
    BY <2>4 DEF DirEntry
  <2> QED BY <2>2, <2>3, <2>4
<1>4. ASSUME NEW u \in Directory!Sessions
      PROVE  DirReported(dTask'[u], dAdvertised) /\ DirSent(dTask'[u], dPublished, dCopy')
  <2>1. CASE u = s
    BY <1>1, <2>1 DEF DirFits
  <2>2. CASE u # s
    <3>1. dTask[u].relay \in DirectoryRelays
      BY DirAt DEF DirTask
    <3>2. DirSent(dTask[u], dPublished, dCopy')
      <4>1. /\ dCopy[dTask[u].relay].generation \in Nat /\ dPublished.generation \in Nat
            /\ dCopy'[dTask[u].relay].generation >= dCopy[dTask[u].relay].generation
            /\ dCopy'[dTask[u].relay].generation \in Nat
        BY <3>1, DirKnown DEF Directory!Directory
      <4> QED BY <4>1, DirAt DEF DirSent
    <3> QED BY <1>1, <2>2, <3>2, DirAt
  <2> QED BY <2>1, <2>2
<1>5. DirOrder'
  <2>1. /\ Directory!Holding' = Directory!Holding
        /\ \A u \in Directory!Holding : dTask'[u].held = dTask[u].held
    BY <1>1 DEF Directory!Holding, DirFits, Publishing
  <2> QED BY <1>1, <2>1 DEF DirInv, DirOrder
<1>6. DirGenerations'
  <2>1. ASSUME NEW d, SeenIn(d, dRegistry', dPublished', dTask', dCopy') PROVE Seen(d)
    <3>1. CASE \E u \in Directory!Sessions :
                  d = dTask'[u].held \/ \E i \in DOMAIN dTask'[u].down : d = dTask'[u].down[i]
      <4>1. PICK u \in Directory!Sessions :
                  d = dTask'[u].held \/ \E i \in DOMAIN dTask'[u].down : d = dTask'[u].down[i]
        BY <3>1
      <4>2. CASE u = s
        BY <1>1, <4>1, <4>2 DEF DirFits
      <4>3. CASE u # s
        BY <1>1, <4>1, <4>3, DirAt
      <4> QED BY <4>2, <4>3
    <3> QED BY <1>1, <2>1, <3>1, DirKnown DEF SeenIn
  <2>2. dRegistry' \in [generation : Nat, session : [DirectoryRelays -> 0..MaxSessions],
                        endpoint : [DirectoryRelays -> Directory!Reports]]
    BY <1>2 DEF Directory!TypeOK
  <2> QED BY <1>1, <2>1, <2>2, DirGrows
<1>7. \A r \in DirectoryRelays : DirEntry(dRegistry', dTask', r)
  BY <1>1, <1>3
<1>8. \A u \in Directory!Sessions :
         DirReported(dTask'[u], dAdvertised') /\ DirSent(dTask'[u], dPublished', dCopy')
  BY <1>1, <1>4
<1> QED BY <1>2, <1>5, <1>6, <1>7, <1>8 DEF DirInv

\* The same of a step that leaves the copies alone.
LEMMA DirKeepsCopies ==
  ASSUME DirInv, NEW s \in Directory!Sessions, NEW t \in DirTask, DirFits(s, t), dCopy' = dCopy,
         dCurrent' \in [DirectoryRelays -> 0..MaxSessions], dChanges' \in Nat, dFailures' \in Nat,
         dStrays' \subseteq DirectoryRelays
  PROVE  DirInv'
<1>1. /\ dCopy' \in [DirectoryRelays -> Directory!Directory]
      /\ \A r \in DirectoryRelays :
            Seen(dCopy'[r]) /\ dCopy'[r].generation >= dCopy[r].generation
  <2>1. dCopy \in [DirectoryRelays -> Directory!Directory]
    BY DEF DirInv, Directory!TypeOK
  <2>2. \A r \in DirectoryRelays : Seen(dCopy[r]) /\ dCopy[r].generation >= dCopy[r].generation
    BY DirKnown
  <2> QED BY <2>1, <2>2
<1> QED BY <1>1, DirKeeps

LEMMA DirCounts ==
  ASSUME DirInv
  PROVE  /\ dCurrent \in [DirectoryRelays -> 0..MaxSessions] /\ dChanges \in Nat /\ dFailures \in Nat
         /\ dFailures + 1 \in Nat /\ dChanges + 1 \in Nat
         /\ dAdvertised \in [DirectoryRelays -> Directory!Reports]
         /\ dRegistry \in [generation : Nat, session : [DirectoryRelays -> 0..MaxSessions],
                           endpoint : [DirectoryRelays -> Directory!Reports]]
  BY DEF DirInv, Directory!TypeOK

\* A task that ends, or is about to.
LEMMA DirEnds ==
  ASSUME DirInv, NEW s \in Directory!Sessions,
         NEW at \in {"leaving", "removing", "superseded", "gone", "failed"},
         dTask' = [dTask EXCEPT ![s] = Directory!Ended(s, at)],
         dTask[s].at \notin Publishing,
         at = "gone" => dTask[s].at \notin Entered \/ dRegistry.session[dTask[s].relay] # s,
         UNCHANGED <<dNext, dRegistry, dPublished, dAdvertised, dCopy, dOverlap>>,
         dCurrent' \in [DirectoryRelays -> 0..MaxSessions], dChanges' \in Nat, dFailures' \in Nat,
         dStrays' \subseteq DirectoryRelays
  PROVE  DirInv'
<1>1. PICK t : t = Directory!Ended(s, at)
  OBVIOUS
<1>2. at \in Directory!Stages /\ Directory!TypeOK
  BY DEF Directory!Stages, DirInv
<1>3. /\ t \in DirTask /\ t.relay = dTask[s].relay /\ t.at = at
      /\ t.held = Directory!NoDirectory /\ t.down = dTask[s].down
  BY <1>1, <1>2, DirEnded
<1>4. t.at \notin Serving \cup {"hello", "joined"} /\ t.at \notin Publishing
  BY <1>3 DEF Serving, Publishing
<1>5. DirReported(t, dAdvertised) /\ DirSent(t, dPublished, dCopy')
  BY <1>4 DEF DirReported, DirSent, Serving
<1>6. at # "gone" => at \in Entered
  BY DEF Entered
<1>7. DirFits(s, t)
  BY <1>1, <1>3, <1>4, <1>5, <1>6, DirAt, DirKnown DEF DirFits
<1> QED BY <1>3, <1>7, DirKeepsCopies

\* The Relay's side ends.
LEMMA DirCloses ==
  ASSUME DirInv, NEW s \in Directory!Sessions,
         dTask' = [dTask EXCEPT ![s] = Directory!Closed(dTask[s])],
         UNCHANGED <<dNext, dRegistry, dPublished, dAdvertised, dCopy, dOverlap>>,
         dCurrent' = dCurrent, dChanges' \in Nat, dFailures' \in Nat,
         dStrays' \subseteq DirectoryRelays
  PROVE  DirInv'
<1>0. PICK no \in BOOLEAN : no = FALSE
  OBVIOUS
<1>e. PICK e : e = <<>>
  OBVIOUS
<1>1. e = <<>> /\ no = FALSE
  BY <1>0, <1>e
<1>2. PICK t : t = [dTask[s] EXCEPT !.open = no, !.news = no, !.down = e]
  OBVIOUS
<1>3. t = Directory!Closed(dTask[s])
  BY <1>1, <1>2 DEF Directory!Closed
<1>4. e \in Seq(Directory!Directory) /\ DOMAIN e = {}
  BY <1>1
<1>5. /\ t \in DirTask /\ t.relay = dTask[s].relay /\ t.at = dTask[s].at /\ t.held = dTask[s].held
      /\ t.endpoint = dTask[s].endpoint /\ t.down = e /\ ~t.open /\ t.up = dTask[s].up
  BY <1>1, <1>2, <1>4, DirAt DEF DirTask
<1>6. DirReported(t, dAdvertised) /\ DirSent(t, dPublished, dCopy')
  BY <1>5, DirAt DEF DirReported, DirSent
<1>7. DirFits(s, t)
  BY <1>3, <1>4, <1>5, <1>6, DirAt DEF DirFits
<1> QED BY <1>5, <1>7, DirCounts, DirKeepsCopies

LEMMA DirDials ==
  ASSUME DirInv, NEW s \in Directory!Sessions, NEW r \in DirectoryRelays, Directory!Dial(s, r),
         dStrays' \subseteq DirectoryRelays
  PROVE  DirInv'
<1>0. PICK yes \in BOOLEAN : yes = TRUE
  OBVIOUS
<1>q. PICK q : q = <<dAdvertised[r]>>
  OBVIOUS
<1>1. q = <<dAdvertised[r]>> /\ yes = TRUE
  BY <1>0, <1>q
<1>2. q \in Seq(Directory!Reports) /\ q # <<>> /\ Len(q) = 1 /\ q[Len(q)] = dAdvertised[r]
  BY <1>1, DirCounts
<1>3. PICK f : f = Directory!Free(r)
  OBVIOUS
<1>4. f \in DirTask /\ f.relay = r /\ f.held = Directory!NoDirectory /\ f.down = <<>>
  BY <1>3, DirFree
<1>5. PICK t : t = [f EXCEPT !.at = "hello", !.open = yes, !.up = q]
  OBVIOUS
<1>6. /\ t \in DirTask /\ t.relay = r /\ t.at = "hello" /\ t.held = Directory!NoDirectory
      /\ t.down = <<>> /\ t.up = q
  BY <1>2, <1>4, <1>5 DEF DirTask, Directory!Stages
<1>7. /\ dTask' = [dTask EXCEPT ![s] = t] /\ dTask[s].at = "free"
      /\ UNCHANGED <<dNext, dRegistry, dPublished, dAdvertised, dCopy, dOverlap, dCurrent, dChanges, dFailures>>
  BY <1>1, <1>3, <1>5 DEF Directory!Dial, Directory!Dialled, Directory!Set
<1>8. DirReported(t, dAdvertised) /\ DirSent(t, dPublished, dCopy')
  BY <1>2, <1>6 DEF DirReported, DirSent
<1>9. DirFits(s, t)
  BY <1>6, <1>7, <1>8, DirKnown DEF DirFits, Serving, Entered, Publishing
<1> QED BY <1>6, <1>7, <1>9, DirCounts, DirKeepsCopies

LEMMA DirSends ==
  ASSUME DirInv, NEW s \in Directory!Sessions, Directory!SendDirectory(s),
         dStrays' \subseteq DirectoryRelays
  PROVE  DirInv'
<1> DEFINE sent == Directory!Send(dTask[s], dPublished)
<1>1. /\ sent \in Seq(Directory!Directory) /\ \A i \in DOMAIN sent : Seen(sent[i])
      /\ dTask[s].open => sent # <<>> /\ sent[Len(sent)] = dPublished
  <2>1. dTask[s].down \in Seq(Directory!Directory)
    BY DirAt DEF DirTask
  <2>2. CASE ~dTask[s].open
    BY <2>1, <2>2, DirAt DEF Directory!Send
  <2>3. CASE dTask[s].open
    <3> DEFINE down == dTask[s].down
    <3>1. sent = Append(down, dPublished)
      BY <2>3 DEF Directory!Send
    <3>2. down \in Seq(Directory!Directory) /\ dPublished \in Directory!Directory
          /\ \A i \in DOMAIN down : Seen(down[i])
      BY <2>1, DirAt, DirKnown
    <3> HIDE DEF down, sent
    <3>3. /\ sent \in Seq(Directory!Directory) /\ Len(sent) = Len(down) + 1 /\ Len(down) \in Nat
          /\ sent[Len(down) + 1] = dPublished
          /\ \A i \in 1..Len(down) : sent[i] = down[i]
      BY <3>1, <3>2, AppendProperties
    <3>4. ASSUME NEW i \in DOMAIN sent PROVE Seen(sent[i])
      <4>1. i \in 1..Len(down) \/ i = Len(down) + 1
        BY <3>3, LenProperties
      <4> QED BY <3>2, <3>3, <4>1, DirKnown, LenProperties
    <3> QED BY <3>3, <3>4
  <2> QED BY <2>2, <2>3
<1> HIDE DEF sent
<1>2. PICK no \in BOOLEAN : no = FALSE
  OBVIOUS
<1>3. PICK t : t = [dTask[s] EXCEPT !.dirty = no, !.down = sent]
  OBVIOUS
<1>4. /\ t \in DirTask /\ t.relay = dTask[s].relay /\ t.at = dTask[s].at /\ t.held = dTask[s].held
      /\ t.endpoint = dTask[s].endpoint /\ t.down = sent /\ t.open = dTask[s].open
      /\ t.up = dTask[s].up /\ t.news = dTask[s].news
  BY <1>1, <1>3, DirAt DEF DirTask
<1>5. /\ dTask' = [dTask EXCEPT ![s] = t]
      /\ UNCHANGED <<dNext, dRegistry, dPublished, dAdvertised, dCopy, dOverlap, dCurrent, dChanges, dFailures>>
  BY <1>2, <1>3 DEF Directory!SendDirectory, Directory!Set, sent
<1>6. DirReported(t, dAdvertised) /\ DirSent(t, dPublished, dCopy')
  BY <1>1, <1>4, DirAt DEF DirReported, DirSent
<1>7. DirFits(s, t)
  BY <1>1, <1>4, <1>5, <1>6, DirAt DEF DirFits
<1> QED BY <1>4, <1>5, <1>7, DirCounts, DirKeepsCopies

LEMMA DirReports ==
  ASSUME DirInv, NEW s \in Directory!Sessions, Directory!ReportEndpoint(s),
         dStrays' \subseteq DirectoryRelays
  PROVE  DirInv'
<1> DEFINE up == dTask[s].up
           more == Append(up, dAdvertised[dTask[s].relay])
<1>1. dTask[s].relay \in DirectoryRelays /\ up \in Seq(Directory!Reports)
      /\ dAdvertised[dTask[s].relay] \in Directory!Reports
  BY DirAt, DirCounts DEF DirTask
<1>2. more \in Seq(Directory!Reports) /\ more # <<>>
      /\ more[Len(more)] = dAdvertised[dTask[s].relay]
  <2> HIDE DEF up
  <2>1. /\ more \in Seq(Directory!Reports) /\ Len(more) = Len(up) + 1 /\ Len(up) \in Nat
        /\ more[Len(up) + 1] = dAdvertised[dTask[s].relay]
    BY <1>1, AppendProperties
  <2> QED BY <2>1
<1> HIDE DEF more, up
<1>3. PICK no \in BOOLEAN : no = FALSE
  OBVIOUS
<1>4. PICK t : t = [dTask[s] EXCEPT !.news = no, !.up = more]
  OBVIOUS
<1>5. /\ t \in DirTask /\ t.relay = dTask[s].relay /\ t.at = dTask[s].at /\ t.held = dTask[s].held
      /\ t.endpoint = dTask[s].endpoint /\ t.down = dTask[s].down /\ t.open = dTask[s].open
      /\ t.up = more /\ t.dirty = dTask[s].dirty
  BY <1>2, <1>4, DirAt DEF DirTask
<1>6. /\ dTask' = [dTask EXCEPT ![s] = t]
      /\ UNCHANGED <<dNext, dRegistry, dPublished, dAdvertised, dCopy, dOverlap, dCurrent, dChanges, dFailures>>
  BY <1>3, <1>4 DEF Directory!ReportEndpoint, Directory!Set, more, up
<1>7. DirReported(t, dAdvertised) /\ DirSent(t, dPublished, dCopy')
  BY <1>2, <1>5, <1>6, DirAt DEF DirReported, DirSent
<1>8. DirFits(s, t)
  BY <1>5, <1>6, <1>7, DirAt DEF DirFits
<1> QED BY <1>5, <1>6, <1>8, DirCounts, DirKeepsCopies

LEMMA DirApplies ==
  ASSUME DirInv, NEW s \in Directory!Sessions, Directory!ApplyDirectory(s),
         dStrays' \subseteq DirectoryRelays
  PROVE  DirInv'
<1> DEFINE r == dTask[s].relay
           down == dTask[s].down
           first == Head(down)
           rest == Tail(down)
<1>1. r \in DirectoryRelays /\ down \in Seq(Directory!Directory) /\ down # <<>>
  BY DirAt DEF DirTask, Directory!ApplyDirectory
<1>s. \A i \in DOMAIN down : Seen(down[i])
  BY DirAt
<1>2. /\ first \in Directory!Directory /\ Seen(first)
      /\ rest \in Seq(Directory!Directory) /\ \A i \in DOMAIN rest : Seen(rest[i])
      /\ rest = <<>> => first = down[Len(down)]
      /\ rest # <<>> => rest[Len(rest)] = down[Len(down)]
  <2> HIDE DEF down
  <2>1. /\ first = down[1] /\ rest \in Seq(Directory!Directory) /\ Len(down) \in Nat \ {0}
        /\ Len(rest) = Len(down) - 1 /\ \A i \in 1..Len(rest) : rest[i] = down[i + 1]
        /\ first \in Directory!Directory
    BY <1>1, HeadTailProperties
  <2>2. DOMAIN down = 1..Len(down) /\ DOMAIN rest = 1..Len(rest)
    BY <1>1, <2>1, LenProperties
  <2>3. ASSUME NEW i \in DOMAIN rest PROVE Seen(rest[i])
    <3>1. i + 1 \in DOMAIN down /\ rest[i] = down[i + 1]
      BY <2>1, <2>2
    <3> QED BY <3>1, <1>s
  <2>4. Seen(first)
    BY <1>s, <2>1, <2>2
  <2> HIDE DEF rest, first
  <2>5. rest = <<>> => Len(down) = 1
    BY <2>1
  <2>6. rest # <<>> => Len(rest) \in 1..Len(rest) /\ Len(rest) + 1 = Len(down)
    BY <2>1, EmptySeq
  <2> QED BY <2>1, <2>3, <2>4, <2>5, <2>6
<1>3. /\ dCopy' = IF first.generation > dCopy[r].generation
                  THEN [dCopy EXCEPT ![r] = first] ELSE dCopy
      /\ UNCHANGED <<dNext, dRegistry, dPublished, dAdvertised, dOverlap, dCurrent, dChanges, dFailures>>
      /\ dTask' = [dTask EXCEPT ![s] = IF first.generation = dCopy[r].generation /\ first # dCopy[r]
                                       THEN Directory!Closed(dTask[s])
                                       ELSE [dTask[s] EXCEPT !.down = rest]]
  BY DEF Directory!ApplyDirectory, Directory!Set
<1> HIDE DEF r, down, first, rest
<1>4. first.generation \in Nat /\ \A x \in DirectoryRelays : dCopy[x].generation \in Nat
  BY <1>2, DirKnown DEF Directory!Directory
<1>5. /\ dCopy' \in [DirectoryRelays -> Directory!Directory]
      /\ \A x \in DirectoryRelays :
            Seen(dCopy'[x]) /\ dCopy'[x].generation >= dCopy[x].generation
      /\ dCopy'[r].generation >= first.generation
  <2>1. dCopy \in [DirectoryRelays -> Directory!Directory]
    BY DEF DirInv, Directory!TypeOK
  <2>2. CASE first.generation > dCopy[r].generation
    BY <1>1, <1>2, <1>3, <1>4, <2>1, <2>2, DirKnown
  <2>3. CASE ~(first.generation > dCopy[r].generation)
    BY <1>1, <1>2, <1>3, <1>4, <2>1, <2>3, DirKnown
  <2> QED BY <2>2, <2>3
<1>6. CASE first.generation = dCopy[r].generation /\ first # dCopy[r]
  <2>1. dCopy' = dCopy /\ dTask' = [dTask EXCEPT ![s] = Directory!Closed(dTask[s])]
    BY <1>1, <1>3, <1>4, <1>6
  <2> QED BY <1>3, <2>1, DirCounts, DirCloses
<1>7. CASE ~(first.generation = dCopy[r].generation /\ first # dCopy[r])
  <2>1. PICK t : t = [dTask[s] EXCEPT !.down = rest]
    OBVIOUS
  <2>2. /\ t \in DirTask /\ t.relay = dTask[s].relay /\ t.at = dTask[s].at /\ t.held = dTask[s].held
        /\ t.endpoint = dTask[s].endpoint /\ t.down = rest /\ t.open = dTask[s].open
        /\ t.up = dTask[s].up /\ t.dirty = dTask[s].dirty /\ t.news = dTask[s].news
    BY <1>2, <2>1, DirAt DEF DirTask
  <2>3. dTask' = [dTask EXCEPT ![s] = t]
    BY <1>3, <1>7, <2>1
  <2>4. DirReported(t, dAdvertised)
    BY <2>2, DirAt DEF DirReported
  <2>5. DirSent(t, dPublished, dCopy')
    <3>1. t.open /\ ~t.dirty /\ t.at = "running" => down[Len(down)] = dPublished
      BY <1>1, <2>2, DirAt DEF DirSent, down
    <3>2. t.relay = r
      BY <2>2 DEF r
    <3> QED BY <1>2, <1>5, <2>2, <3>1, <3>2 DEF DirSent
  <2>6. DirFits(s, t)
    BY <1>2, <1>3, <2>2, <2>3, <2>4, <2>5, DirAt DEF DirFits
  <2> QED BY <1>3, <1>5, <2>2, <2>6, DirCounts, DirKeeps
<1> QED BY <1>6, <1>7

\* A step of several tasks that leaves registry and watch channel alone.
LEMMA DirPoints ==
  ASSUME DirInv, dTask' \in [Directory!Sessions -> DirTask],
         UNCHANGED <<dNext, dRegistry, dPublished, dCopy, dFailures, dOverlap>>,
         dCurrent' \in [DirectoryRelays -> 0..MaxSessions], dChanges' \in Nat,
         dAdvertised' \in [DirectoryRelays -> Directory!Reports],
         \A u \in Directory!Sessions :
            /\ dTask[u].at \in Entered =>
                 /\ dTask'[u].relay = dTask[u].relay /\ dTask'[u].at = dTask[u].at
                 /\ dTask'[u].endpoint = dTask[u].endpoint
            /\ (dTask'[u].at \in Publishing) <=> (dTask[u].at \in Publishing)
            /\ dTask'[u].at \in Publishing => dTask'[u].held = dTask[u].held
            /\ Seen(dTask'[u].held) /\ \A i \in DOMAIN dTask'[u].down : Seen(dTask'[u].down[i])
            /\ DirReported(dTask'[u], dAdvertised') /\ DirSent(dTask'[u], dPublished, dCopy),
         dStrays' \subseteq DirectoryRelays
  PROVE  DirInv'
<1>1. Directory!TypeOK'
  BY DirCounts DEF DirInv, Directory!TypeOK, DirTask
<1>2. ASSUME NEW r \in DirectoryRelays PROVE DirEntry(dRegistry, dTask', r)
  <2>1. DirEntry(dRegistry, dTask, r) /\ dRegistry.session[r] \in 0..MaxSessions
    BY DEF DirInv, Directory!TypeOK
  <2>2. dRegistry.session[r] # 0 => dRegistry.session[r] \in Directory!Sessions
    BY <2>1, DirectoryConstants DEF Directory!Sessions
  <2> QED BY <2>1, <2>2 DEF DirEntry
<1>3. DirOrder'
  <2>1. /\ Directory!Holding' = Directory!Holding
        /\ \A u \in Directory!Holding : dTask'[u].held = dTask[u].held
    BY DEF Directory!Holding, Publishing
  <2> QED BY <2>1 DEF DirInv, DirOrder
<1>4. DirGenerations'
  <2>1. ASSUME NEW d, SeenIn(d, dRegistry', dPublished', dTask', dCopy') PROVE Seen(d)
    <3>1. CASE \E u \in Directory!Sessions :
                  d = dTask'[u].held \/ \E i \in DOMAIN dTask'[u].down : d = dTask'[u].down[i]
      BY <3>1
    <3> QED BY <2>1, <3>1, DirKnown DEF SeenIn
  <2>2. dRegistry' \in [generation : Nat, session : [DirectoryRelays -> 0..MaxSessions],
                        endpoint : [DirectoryRelays -> Directory!Reports]]
    BY <1>1 DEF Directory!TypeOK
  <2>3. dRegistry' = dRegistry /\ dNext' = dNext
    OBVIOUS
  <2> QED BY <2>1, <2>2, <2>3, DirGrows
<1>5. \A r \in DirectoryRelays : DirEntry(dRegistry', dTask', r)
  BY <1>2
<1>6. \A u \in Directory!Sessions :
         DirReported(dTask'[u], dAdvertised') /\ DirSent(dTask'[u], dPublished', dCopy')
  OBVIOUS
<1> QED BY <1>1, <1>3, <1>4, <1>5, <1>6 DEF DirInv

\* Every open session of a Relay has its new endpoint to report.
LEMMA DirNews ==
  ASSUME DirInv, NEW r \in DirectoryRelays, NEW e \in Directory!Reports,
         dAdvertised' = [dAdvertised EXCEPT ![r] = e]
  PROVE  /\ dAdvertised' \in [DirectoryRelays -> Directory!Reports]
         /\ Directory!News(r) \in [Directory!Sessions -> DirTask]
         /\ \A u \in Directory!Sessions : LET n == Directory!News(r)[u] IN
            /\ n.relay = dTask[u].relay /\ n.at = dTask[u].at /\ n.endpoint = dTask[u].endpoint
            /\ n.held = dTask[u].held /\ n.down = dTask[u].down
            /\ DirReported(n, dAdvertised') /\ DirSent(n, dPublished, dCopy)
<1>1. dAdvertised \in [DirectoryRelays -> Directory!Reports]
  BY DirCounts
<1>2. PICK yes \in BOOLEAN : yes = TRUE
  OBVIOUS
<1>3. Directory!News(r) = [u \in Directory!Sessions |->
          IF dTask[u].relay = r /\ dTask[u].open THEN [dTask[u] EXCEPT !.news = yes] ELSE dTask[u]]
  BY <1>2 DEF Directory!News
<1>4. ASSUME NEW u \in Directory!Sessions
      PROVE  LET n == Directory!News(r)[u] IN
            /\ n \in DirTask
            /\ n.relay = dTask[u].relay /\ n.at = dTask[u].at /\ n.endpoint = dTask[u].endpoint
            /\ n.held = dTask[u].held /\ n.down = dTask[u].down
            /\ DirReported(n, dAdvertised') /\ DirSent(n, dPublished, dCopy)
  <2>0. dTask[u] \in DirTask /\ dTask[u].relay \in DirectoryRelays
    BY DirAt DEF DirTask
  <2>1. CASE dTask[u].relay = r /\ dTask[u].open
    <3>1. PICK n : n = [dTask[u] EXCEPT !.news = yes]
      OBVIOUS
    <3>2. /\ n \in DirTask /\ n.relay = dTask[u].relay /\ n.at = dTask[u].at
          /\ n.endpoint = dTask[u].endpoint /\ n.held = dTask[u].held /\ n.down = dTask[u].down
          /\ n.up = dTask[u].up /\ n.open = dTask[u].open /\ n.dirty = dTask[u].dirty /\ n.news
      BY <1>2, <3>1, <2>0 DEF DirTask
    <3>3. DirReported(n, dAdvertised') /\ DirSent(n, dPublished, dCopy)
      BY <3>2, DirAt DEF DirReported, DirSent
    <3>4. Directory!News(r)[u] = n
      BY <1>3, <2>1, <3>1
    <3> QED BY <3>2, <3>3, <3>4
  <2>2. CASE ~(dTask[u].relay = r /\ dTask[u].open)
    <3>1. Directory!News(r)[u] = dTask[u]
      BY <1>3, <2>2
    <3>2. dTask[u].open => dAdvertised'[dTask[u].relay] = dAdvertised[dTask[u].relay]
      BY <1>1, <2>0, <2>2
    <3>3. DirReported(dTask[u], dAdvertised')
      BY <3>2, DirAt DEF DirReported
    <3> QED BY <2>0, <3>1, <3>3, DirAt
  <2> QED BY <2>1, <2>2
<1>5. Directory!News(r) \in [Directory!Sessions -> DirTask]
  <2>1. Directory!News(r) = [u \in Directory!Sessions |-> Directory!News(r)[u]]
    BY <1>3
  <2> QED BY <1>4, <2>1
<1>6. dAdvertised' \in [DirectoryRelays -> Directory!Reports]
  BY <1>1
<1> QED BY <1>4, <1>5, <1>6

LEMMA DirMoves ==
  ASSUME DirInv, NEW r \in DirectoryRelays, NEW e \in Directory!Reports, Directory!EndpointChanges(r, e),
         dStrays' \subseteq DirectoryRelays
  PROVE  DirInv'
<1>1. /\ dAdvertised' = [dAdvertised EXCEPT ![r] = e] /\ dTask' = Directory!News(r)
      /\ dChanges' = dChanges + 1
      /\ UNCHANGED <<dNext, dRegistry, dPublished, dCopy, dFailures, dOverlap, dCurrent>>
  BY DEF Directory!EndpointChanges
<1>2. \A u \in Directory!Sessions : LET n == dTask'[u] IN
            /\ n.relay = dTask[u].relay /\ n.at = dTask[u].at /\ n.endpoint = dTask[u].endpoint
            /\ n.held = dTask[u].held /\ n.down = dTask[u].down
            /\ DirReported(n, dAdvertised') /\ DirSent(n, dPublished, dCopy)
  BY <1>1, DirNews
<1>3. \A u \in Directory!Sessions :
         Seen(dTask'[u].held) /\ \A i \in DOMAIN dTask'[u].down : Seen(dTask'[u].down[i])
  BY <1>2, DirAt
<1>4. dTask' \in [Directory!Sessions -> DirTask] /\ dAdvertised' \in [DirectoryRelays -> Directory!Reports]
  BY <1>1, DirNews
<1>5. dCurrent' \in [DirectoryRelays -> 0..MaxSessions] /\ dChanges' \in Nat
  BY <1>1, DirCounts
<1> QED BY <1>1, <1>2, <1>3, <1>4, <1>5, DirPoints

LEMMA DirDiscovers ==
  ASSUME DirInv, NEW s \in Directory!Sessions, NEW r \in DirectoryRelays, NEW e \in Addresses,
         Directory!DialAndDiscover(s, r, e),
         dStrays' \subseteq DirectoryRelays
  PROVE  DirInv'
<1>0. PICK yes \in BOOLEAN : yes = TRUE
  OBVIOUS
<1>q. PICK q : q = <<e>>
  OBVIOUS
<1>e. e \in Directory!Reports
  BY DEF Directory!Reports
<1>2. q \in Seq(Directory!Reports) /\ q # <<>> /\ Len(q) = 1 /\ q[Len(q)] = e
  BY <1>q, <1>e
<1>3. PICK f : f = Directory!Free(r)
  OBVIOUS
<1>4. f \in DirTask /\ f.relay = r /\ f.held = Directory!NoDirectory /\ f.down = <<>>
  BY <1>3, DirFree
<1>5. PICK t : t = [f EXCEPT !.at = "hello", !.open = yes, !.up = q]
  OBVIOUS
<1>6. /\ t \in DirTask /\ t.relay = r /\ t.at = "hello" /\ t.held = Directory!NoDirectory
      /\ t.down = <<>> /\ t.up = q
  BY <1>2, <1>4, <1>5 DEF DirTask, Directory!Stages
<1>7. /\ dTask' = [Directory!News(r) EXCEPT ![s] = t] /\ dTask[s].at = "free"
      /\ dAdvertised' = [dAdvertised EXCEPT ![r] = e] /\ dChanges' = dChanges + 1
      /\ UNCHANGED <<dNext, dRegistry, dPublished, dCopy, dOverlap, dCurrent, dFailures>>
  BY <1>0, <1>q, <1>3, <1>5 DEF Directory!DialAndDiscover, Directory!Dialled
<1>8. /\ dAdvertised' \in [DirectoryRelays -> Directory!Reports]
      /\ Directory!News(r) \in [Directory!Sessions -> DirTask]
      /\ \A u \in Directory!Sessions : LET n == Directory!News(r)[u] IN
            /\ n.relay = dTask[u].relay /\ n.at = dTask[u].at /\ n.endpoint = dTask[u].endpoint
            /\ n.held = dTask[u].held /\ n.down = dTask[u].down
            /\ DirReported(n, dAdvertised') /\ DirSent(n, dPublished, dCopy)
  BY <1>7, <1>e, DirNews
<1>9. /\ dTask' \in [Directory!Sessions -> DirTask] /\ dTask'[s] = t
      /\ \A u \in Directory!Sessions : u # s => dTask'[u] = Directory!News(r)[u]
  BY <1>6, <1>7, <1>8
<1>a. dAdvertised'[r] = e
  BY <1>7, DirCounts
<1>b. DirReported(t, dAdvertised') /\ DirSent(t, dPublished, dCopy)
  BY <1>2, <1>6, <1>a DEF DirReported, DirSent
<1>c. ASSUME NEW u \in Directory!Sessions
      PROVE  /\ dTask[u].at \in Entered =>
                 /\ dTask'[u].relay = dTask[u].relay /\ dTask'[u].at = dTask[u].at
                 /\ dTask'[u].endpoint = dTask[u].endpoint
             /\ (dTask'[u].at \in Publishing) <=> (dTask[u].at \in Publishing)
             /\ dTask'[u].at \in Publishing => dTask'[u].held = dTask[u].held
             /\ Seen(dTask'[u].held) /\ \A i \in DOMAIN dTask'[u].down : Seen(dTask'[u].down[i])
             /\ DirReported(dTask'[u], dAdvertised') /\ DirSent(dTask'[u], dPublished, dCopy)
  <2>1. CASE u = s
    BY <1>6, <1>7, <1>9, <1>b, <2>1, DirKnown DEF Entered, Serving, Publishing
  <2>2. CASE u # s
    BY <1>8, <1>9, <2>2, DirAt
  <2> QED BY <2>1, <2>2
<1>d. dCurrent' \in [DirectoryRelays -> 0..MaxSessions] /\ dChanges' \in Nat
  BY <1>7, DirCounts
<1> QED BY <1>7, <1>8, <1>9, <1>c, <1>d, DirPoints

LEMMA DirJoins ==
  ASSUME DirInv, NEW s \in Directory!Sessions, Directory!Join(s),
         dStrays' \subseteq DirectoryRelays
  PROVE  DirInv'
<1> DEFINE up == dTask[s].up
           first == Head(up)
           rest == Tail(up)
           previous == dCurrent[dTask[s].relay]
<1>1. dTask[s] \in DirTask /\ dTask[s].relay \in DirectoryRelays /\ up \in Seq(Directory!Reports)
      /\ dTask[s].at = "hello" /\ up # <<>>
  BY DirAt DEF DirTask, Directory!Join, DirReported
<1>u. dTask[s].open /\ ~dTask[s].news => up[Len(up)] = dAdvertised[dTask[s].relay]
  BY <1>1, DirAt DEF DirReported
<1>2. /\ first \in Directory!Reports /\ rest \in Seq(Directory!Reports)
      /\ rest = <<>> => first = up[Len(up)]
      /\ rest # <<>> => rest[Len(rest)] = up[Len(up)]
  <2> HIDE DEF up
  <2>1. /\ first = up[1] /\ rest \in Seq(Directory!Reports) /\ Len(up) \in Nat \ {0}
        /\ Len(rest) = Len(up) - 1 /\ \A i \in 1..Len(rest) : rest[i] = up[i + 1]
        /\ first \in Directory!Reports
    BY <1>1, HeadTailProperties
  <2> HIDE DEF rest, first
  <2>2. rest = <<>> => Len(up) = 1
    BY <2>1
  <2>3. rest # <<>> => Len(rest) \in 1..Len(rest) /\ Len(rest) + 1 = Len(up)
    BY <2>1, EmptySeq
  <2> QED BY <2>1, <2>2, <2>3
<1>3. PICK yes \in BOOLEAN : yes = TRUE
  OBVIOUS
<1>4. PICK t : t = [dTask[s] EXCEPT !.at = "joined", !.endpoint = first, !.up = rest]
  OBVIOUS
<1>5. /\ dTask' = [u \in Directory!Sessions |->
               IF u = s THEN t
               ELSE IF u = previous THEN [dTask[u] EXCEPT !.shutdown = yes] ELSE dTask[u]]
      /\ dCurrent' = [dCurrent EXCEPT ![dTask[s].relay] = s]
      /\ UNCHANGED <<dNext, dRegistry, dPublished, dCopy, dFailures, dOverlap, dAdvertised, dChanges>>
  BY <1>3, <1>4 DEF Directory!Join
<1> HIDE DEF first, rest, previous, up
<1>6. /\ t \in DirTask /\ t.relay = dTask[s].relay /\ t.at = "joined" /\ t.held = dTask[s].held
      /\ t.endpoint = first /\ t.down = dTask[s].down /\ t.open = dTask[s].open
      /\ t.up = rest /\ t.news = dTask[s].news
  BY <1>1, <1>2, <1>4 DEF DirTask, Directory!Stages
<1>7. DirReported(t, dAdvertised) /\ DirSent(t, dPublished, dCopy)
  BY <1>2, <1>6, <1>u DEF DirReported, DirSent
<1>8. ASSUME NEW u \in Directory!Sessions
      PROVE  /\ dTask'[u] \in DirTask
             /\ dTask[u].at \in Entered =>
                 /\ dTask'[u].relay = dTask[u].relay /\ dTask'[u].at = dTask[u].at
                 /\ dTask'[u].endpoint = dTask[u].endpoint
             /\ (dTask'[u].at \in Publishing) <=> (dTask[u].at \in Publishing)
             /\ dTask'[u].at \in Publishing => dTask'[u].held = dTask[u].held
             /\ Seen(dTask'[u].held) /\ \A i \in DOMAIN dTask'[u].down : Seen(dTask'[u].down[i])
             /\ DirReported(dTask'[u], dAdvertised') /\ DirSent(dTask'[u], dPublished, dCopy)
  <2>1. CASE u = s
    <3>1. dTask'[u] = t
      BY <1>5, <2>1
    <3> QED BY <1>1, <1>5, <1>6, <1>7, <2>1, <3>1, DirAt DEF Entered, Serving, Publishing
  <2>2. CASE u # s /\ u = previous
    <3>1. PICK n : n = [dTask[u] EXCEPT !.shutdown = yes]
      OBVIOUS
    <3>2. dTask'[u] = n
      BY <1>5, <2>2, <3>1
    <3>3. /\ n \in DirTask /\ n.relay = dTask[u].relay /\ n.at = dTask[u].at
          /\ n.endpoint = dTask[u].endpoint /\ n.held = dTask[u].held /\ n.down = dTask[u].down
          /\ n.up = dTask[u].up /\ n.open = dTask[u].open /\ n.dirty = dTask[u].dirty
          /\ n.news = dTask[u].news
      BY <3>1, DirAt DEF DirTask
    <3>4. DirReported(n, dAdvertised) /\ DirSent(n, dPublished, dCopy)
      BY <3>3, DirAt DEF DirReported, DirSent
    <3> QED BY <1>5, <3>2, <3>3, <3>4, DirAt
  <2>3. CASE u # s /\ u # previous
    <3>1. dTask'[u] = dTask[u]
      BY <1>5, <2>3
    <3> QED BY <1>5, <3>1, DirAt
  <2> QED BY <2>1, <2>2, <2>3
<1>9. dTask' \in [Directory!Sessions -> DirTask]
  <2>1. dTask' = [u \in Directory!Sessions |-> dTask'[u]]
    BY <1>5
  <2> QED BY <1>8, <2>1
<1>a. dCurrent' \in [DirectoryRelays -> 0..MaxSessions] /\ dChanges' \in Nat
      /\ dAdvertised' \in [DirectoryRelays -> Directory!Reports]
  <2>1. s \in 0..MaxSessions
    BY DirectoryConstants DEF Directory!Sessions
  <2> QED BY <1>5, <2>1, DirCounts
<1> QED BY <1>5, <1>8, <1>9, <1>a, DirPoints

\* A change of the directory, which its task has yet to publish.
LEMMA DirChanges ==
  ASSUME DirInv, NEW s \in Directory!Sessions, NEW t \in DirTask, NEW reg,
         reg \in [generation : Nat, session : [DirectoryRelays -> 0..MaxSessions],
                  endpoint : [DirectoryRelays -> Directory!Reports]],
         reg.generation = dNext, dNext' = dNext + 1, dRegistry' = reg,
         dTask' = [dTask EXCEPT ![s] = t],
         t.at \in Publishing, t.held = Directory!DirectoryOf(reg), t.down = dTask[s].down,
         t.relay = dTask[s].relay, DirReported(t, dAdvertised),
         \A r \in DirectoryRelays : r # dTask[s].relay =>
            reg.session[r] = dRegistry.session[r] /\ reg.endpoint[r] = dRegistry.endpoint[r],
         DirEntry(reg, dTask', dTask[s].relay),
         dOverlap' = (dOverlap \/ Directory!Holding # {}),
         UNCHANGED <<dCurrent, dPublished, dAdvertised, dCopy, dChanges, dFailures>>,
         dStrays' \subseteq DirectoryRelays
  PROVE  DirInv'
<1>1. /\ dTask'[s] = t /\ \A u \in Directory!Sessions : u # s => dTask'[u] = dTask[u]
      /\ dTask' \in [Directory!Sessions -> DirTask]
  BY DEF DirInv, Directory!TypeOK, DirTask
<1>2. Directory!TypeOK'
  <2>1. dNext' \in Nat /\ dOverlap' \in BOOLEAN
    BY DirKnown DEF DirInv, Directory!TypeOK
  <2> QED BY <1>1, <2>1 DEF DirInv, Directory!TypeOK, DirTask
<1>3. ASSUME NEW r \in DirectoryRelays PROVE DirEntry(reg, dTask', r)
  <2>1. CASE r = t.relay
    BY <2>1
  <2>2. CASE r # t.relay
    <3>1. DirEntry(dRegistry, dTask, r) /\ dRegistry.session[r] \in 0..MaxSessions
      BY DEF DirInv, Directory!TypeOK
    <3>2. CASE dRegistry.session[r] # 0
      <4>1. dRegistry.session[r] \in Directory!Sessions
        BY <3>1, <3>2, DirectoryConstants DEF Directory!Sessions
      <4>2. dTask[dRegistry.session[r]].relay = r
        BY <3>1, <3>2 DEF DirEntry
      <4>3. dTask'[dRegistry.session[r]] = dTask[dRegistry.session[r]]
        BY <1>1, <2>2, <4>1, <4>2
      <4> QED BY <2>2, <3>1, <4>3 DEF DirEntry
    <3>3. CASE dRegistry.session[r] = 0
      BY <2>2, <3>3 DEF DirEntry
    <3> QED BY <3>2, <3>3
  <2> QED BY <2>1, <2>2
<1>4. ASSUME NEW u \in Directory!Sessions
      PROVE  DirReported(dTask'[u], dAdvertised) /\ DirSent(dTask'[u], dPublished, dCopy)
  <2>1. CASE u = s
    BY <1>1, <2>1 DEF DirSent, Publishing
  <2>2. CASE u # s
    BY <1>1, <2>2, DirAt
  <2> QED BY <2>1, <2>2
<1>5. DirOrder'
  <2> SUFFICES ASSUME ~dOverlap' PROVE DirOrder'
    BY DEF DirOrder
  <2>1. Directory!Holding = {}
    OBVIOUS
  <2>2. Directory!Holding' = {s}
    BY <1>1, <2>1 DEF Directory!Holding, Publishing
  <2> QED BY <1>1, <2>2 DEF DirOrder
<1>6. DirGenerations'
  <2>1. ASSUME NEW d, SeenIn(d, dRegistry', dPublished', dTask', dCopy')
        PROVE  Seen(d) \/ d = Directory!DirectoryOf(dRegistry')
    <3>1. CASE \E u \in Directory!Sessions :
                  d = dTask'[u].held \/ \E i \in DOMAIN dTask'[u].down : d = dTask'[u].down[i]
      <4>1. PICK u \in Directory!Sessions :
                  d = dTask'[u].held \/ \E i \in DOMAIN dTask'[u].down : d = dTask'[u].down[i]
        BY <3>1
      <4>2. CASE u = s
        BY <1>1, <4>1, <4>2, DirAt
      <4>3. CASE u # s
        BY <1>1, <4>1, <4>3, DirAt
      <4> QED BY <4>2, <4>3
    <3> QED BY <1>1, <2>1, <3>1, DirKnown DEF SeenIn
  <2> QED BY <2>1, DirGrows
<1>7. \A r \in DirectoryRelays : DirEntry(dRegistry', dTask', r)
  BY <1>3
<1>8. \A u \in Directory!Sessions :
         DirReported(dTask'[u], dAdvertised') /\ DirSent(dTask'[u], dPublished', dCopy')
  BY <1>4
<1> QED BY <1>2, <1>5, <1>6, <1>7, <1>8 DEF DirInv

\* The registry with an entry changed.
LEMMA DirRegistry ==
  ASSUME DirInv, NEW r \in DirectoryRelays, NEW u \in 0..MaxSessions, NEW e \in Directory!Reports
  PROVE  LET reg == [generation |-> dNext, session |-> [dRegistry.session EXCEPT ![r] = u],
                     endpoint |-> [dRegistry.endpoint EXCEPT ![r] = e]]
         IN  /\ reg \in [generation : Nat, session : [DirectoryRelays -> 0..MaxSessions],
                         endpoint : [DirectoryRelays -> Directory!Reports]]
             /\ reg.generation = dNext /\ reg.session[r] = u /\ reg.endpoint[r] = e
             /\ \A x \in DirectoryRelays : x # r =>
                   reg.session[x] = dRegistry.session[x] /\ reg.endpoint[x] = dRegistry.endpoint[x]
  BY DirCounts, DirKnown

LEMMA DirReplaces ==
  ASSUME DirInv, NEW s \in Directory!Sessions, Directory!ReplaceSession(s),
         dStrays' \subseteq DirectoryRelays
  PROVE  DirInv'
<1>1. dTask[s] \in DirTask /\ dTask[s].relay \in DirectoryRelays
      /\ dTask[s].endpoint \in Directory!Reports /\ dTask[s].at = "joined"
  BY DirAt DEF DirTask, Directory!ReplaceSession
<1>2. s \in 0..MaxSessions /\ s # 0
  BY DirectoryConstants DEF Directory!Sessions
<1>3. PICK reg : reg = [generation |-> dNext,
                        session |-> [dRegistry.session EXCEPT ![dTask[s].relay] = s],
                        endpoint |-> [dRegistry.endpoint EXCEPT ![dTask[s].relay] = dTask[s].endpoint]]
  OBVIOUS
<1>4. /\ reg \in [generation : Nat, session : [DirectoryRelays -> 0..MaxSessions],
                  endpoint : [DirectoryRelays -> Directory!Reports]]
      /\ reg.generation = dNext /\ reg.session[dTask[s].relay] = s
      /\ reg.endpoint[dTask[s].relay] = dTask[s].endpoint
      /\ \A x \in DirectoryRelays : x # dTask[s].relay =>
            reg.session[x] = dRegistry.session[x] /\ reg.endpoint[x] = dRegistry.endpoint[x]
  BY <1>1, <1>2, <1>3, DirRegistry
<1>5. /\ Directory!Change(s, "adding", [dRegistry EXCEPT !.session[dTask[s].relay] = s,
                                           !.endpoint[dTask[s].relay] = dTask[s].endpoint])
  BY DEF Directory!ReplaceSession
<1>6. dRegistry' = reg
  <2>1. dRegistry' = [[dRegistry EXCEPT !.session[dTask[s].relay] = s,
                                           !.endpoint[dTask[s].relay] = dTask[s].endpoint]
                        EXCEPT !.generation = dNext]
    BY <1>5 DEF Directory!Change
  <2> DEFINE a == [dRegistry.session EXCEPT ![dTask[s].relay] = s]
             b == [dRegistry.endpoint EXCEPT ![dTask[s].relay] = dTask[s].endpoint]
  <2>2. dRegistry' = [[dRegistry EXCEPT !.session = a, !.endpoint = b] EXCEPT !.generation = dNext]
    BY <2>1
  <2> HIDE DEF a, b
  <2>3. dRegistry' = [generation |-> dNext, session |-> a, endpoint |-> b]
    BY <2>2, DirCounts
  <2> QED BY <1>3, <2>3 DEF a, b
<1>7. PICK t : t = [dTask[s] EXCEPT !.at = "adding", !.held = Directory!DirectoryOf(reg)]
  OBVIOUS
<1>8. /\ t \in DirTask /\ t.at = "adding" /\ t.held = Directory!DirectoryOf(reg)
      /\ t.down = dTask[s].down /\ t.relay = dTask[s].relay /\ t.endpoint = dTask[s].endpoint
      /\ t.up = dTask[s].up /\ t.open = dTask[s].open /\ t.news = dTask[s].news
  BY <1>1, <1>4, <1>7, DirDirectories DEF DirTask, Directory!Stages
<1>9. /\ dTask' = [dTask EXCEPT ![s] = t] /\ dNext' = dNext + 1
      /\ dOverlap' = (dOverlap \/ Directory!Holding # {})
      /\ UNCHANGED <<dCurrent, dPublished, dAdvertised, dCopy, dChanges, dFailures>>
  BY <1>5, <1>6, <1>7 DEF Directory!Change, Directory!Set, Directory!Allocates
<1>a. DirReported(t, dAdvertised) /\ t.at \in Publishing /\ t.at \in Serving
  BY <1>1, <1>8, DirAt DEF DirReported, Publishing, Serving
<1>b. dTask'[s] = t
  BY <1>9 DEF DirInv, Directory!TypeOK
<1>c. DirEntry(reg, dTask', dTask[s].relay)
  BY <1>4, <1>8, <1>a, <1>b DEF DirEntry, Entered
<1>d. /\ t.at \in Publishing /\ DirReported(t, dAdvertised)
      /\ reg \in [generation : Nat, session : [DirectoryRelays -> 0..MaxSessions],
                  endpoint : [DirectoryRelays -> Directory!Reports]]
      /\ reg.generation = dNext
      /\ \A x \in DirectoryRelays : x # dTask[s].relay =>
            reg.session[x] = dRegistry.session[x] /\ reg.endpoint[x] = dRegistry.endpoint[x]
      /\ t \in DirTask /\ t.held = Directory!DirectoryOf(reg) /\ t.down = dTask[s].down
      /\ t.relay = dTask[s].relay
  BY <1>4, <1>8, <1>a
<1> QED BY <1>6, <1>9, <1>c, <1>d, DirChanges

LEMMA DirUnregisters ==
  ASSUME DirInv, NEW s \in Directory!Sessions, Directory!Unregister(s),
         dStrays' \subseteq DirectoryRelays
  PROVE  DirInv'
<1>1. dTask[s] \in DirTask /\ dTask[s].relay \in DirectoryRelays /\ dTask[s].at = "removing"
  BY DirAt DEF DirTask, Directory!Unregister
<1>0. PICK zero \in 0..MaxSessions : zero = 0
  BY DirectoryConstants
<1>2. dRegistry.endpoint[dTask[s].relay] \in Directory!Reports
  BY <1>1, DirCounts
<1>3. PICK reg : reg = [generation |-> dNext,
                        session |-> [dRegistry.session EXCEPT ![dTask[s].relay] = zero],
                        endpoint |-> [dRegistry.endpoint EXCEPT ![dTask[s].relay] =
                                        dRegistry.endpoint[dTask[s].relay]]]
  OBVIOUS
<1>4. /\ reg \in [generation : Nat, session : [DirectoryRelays -> 0..MaxSessions],
                  endpoint : [DirectoryRelays -> Directory!Reports]]
      /\ reg.generation = dNext /\ reg.session[dTask[s].relay] = 0
      /\ \A x \in DirectoryRelays : x # dTask[s].relay =>
            reg.session[x] = dRegistry.session[x] /\ reg.endpoint[x] = dRegistry.endpoint[x]
  BY <1>0, <1>1, <1>2, <1>3, DirRegistry
<1>5. Directory!Change(s, "dropping", [dRegistry EXCEPT !.session[dTask[s].relay] = zero])
  BY <1>0 DEF Directory!Unregister
<1>6. dRegistry' = reg
  <2>1. dRegistry' = [[dRegistry EXCEPT !.session[dTask[s].relay] = zero]
                        EXCEPT !.generation = dNext]
    BY <1>5 DEF Directory!Change
  <2> DEFINE a == [dRegistry.session EXCEPT ![dTask[s].relay] = zero]
             b == [dRegistry.endpoint EXCEPT ![dTask[s].relay] = dRegistry.endpoint[dTask[s].relay]]
  <2>2. dRegistry' = [[dRegistry EXCEPT !.session = a] EXCEPT !.generation = dNext]
    BY <2>1
  <2>3. b = dRegistry.endpoint
    BY <1>1, DirCounts
  <2> HIDE DEF a, b
  <2>4. dRegistry' = [generation |-> dNext, session |-> a, endpoint |-> dRegistry.endpoint]
    BY <2>2, DirCounts
  <2> QED BY <1>3, <2>3, <2>4 DEF a, b
<1>7. PICK t : t = [dTask[s] EXCEPT !.at = "dropping", !.held = Directory!DirectoryOf(reg)]
  OBVIOUS
<1>8. /\ t \in DirTask /\ t.at = "dropping" /\ t.held = Directory!DirectoryOf(reg)
      /\ t.down = dTask[s].down /\ t.relay = dTask[s].relay
  BY <1>1, <1>4, <1>7, DirDirectories DEF DirTask, Directory!Stages
<1>9. /\ dTask' = [dTask EXCEPT ![s] = t] /\ dNext' = dNext + 1
      /\ dOverlap' = (dOverlap \/ Directory!Holding # {})
      /\ UNCHANGED <<dCurrent, dPublished, dAdvertised, dCopy, dChanges, dFailures>>
  BY <1>5, <1>6, <1>7 DEF Directory!Change, Directory!Set, Directory!Allocates
<1>a. DirReported(t, dAdvertised) /\ t.at \in Publishing
  BY <1>8 DEF DirReported, Publishing, Serving
<1>b. DirEntry(reg, dTask', dTask[s].relay)
  BY <1>4 DEF DirEntry
<1> QED BY <1>4, <1>6, <1>8, <1>9, <1>a, <1>b, DirChanges

LEMMA DirUpdates ==
  ASSUME DirInv, NEW s \in Directory!Sessions, Directory!UpdateSession(s),
         dStrays' \subseteq DirectoryRelays
  PROVE  DirInv'
<1> DEFINE up == dTask[s].up
           first == Head(up)
           rest == Tail(up)
           r == dTask[s].relay
<1>1. dTask[s] \in DirTask /\ r \in DirectoryRelays /\ up \in Seq(Directory!Reports)
      /\ dTask[s].at = "running" /\ up # <<>> /\ dRegistry.session[r] = s
  BY DirAt DEF DirTask, Directory!UpdateSession
<1>u. dTask[s].open /\ ~dTask[s].news => up[Len(up)] = dAdvertised[r]
  BY <1>1, DirAt DEF DirReported, Serving
<1>2. /\ first \in Directory!Reports /\ rest \in Seq(Directory!Reports)
      /\ rest = <<>> => first = up[Len(up)]
      /\ rest # <<>> => rest[Len(rest)] = up[Len(up)]
  <2> HIDE DEF up
  <2>1. /\ first = up[1] /\ rest \in Seq(Directory!Reports) /\ Len(up) \in Nat \ {0}
        /\ Len(rest) = Len(up) - 1 /\ \A i \in 1..Len(rest) : rest[i] = up[i + 1]
        /\ first \in Directory!Reports
    BY <1>1, HeadTailProperties
  <2> HIDE DEF rest, first
  <2>2. rest = <<>> => Len(up) = 1
    BY <2>1
  <2>3. rest # <<>> => Len(rest) \in 1..Len(rest) /\ Len(rest) + 1 = Len(up)
    BY <2>1, EmptySeq
  <2> QED BY <2>1, <2>2, <2>3
<1>3. dRegistry' = [dRegistry EXCEPT !.generation = dNext, !.endpoint[r] = first]
  BY DEF Directory!UpdateSession
<1>4. dTask' = [dTask EXCEPT ![s] = [dTask[s] EXCEPT !.at = "changing", !.endpoint = first, !.up = rest,
                                                    !.held = Directory!DirectoryOf(dRegistry')]]
  BY DEF Directory!UpdateSession, Directory!Set
<1>5. /\ dNext' = dNext + 1 /\ dOverlap' = (dOverlap \/ Directory!Holding # {})
      /\ UNCHANGED <<dCurrent, dPublished, dAdvertised, dCopy, dChanges, dFailures>>
  BY DEF Directory!UpdateSession, Directory!Allocates
<1> HIDE DEF up, first, rest
<1>6. PICK reg : reg = [generation |-> dNext, session |-> [dRegistry.session EXCEPT ![r] = s],
                        endpoint |-> [dRegistry.endpoint EXCEPT ![r] = first]]
  OBVIOUS
<1>s. s \in 0..MaxSessions
  BY <1>1, DirCounts
<1>7. /\ reg \in [generation : Nat, session : [DirectoryRelays -> 0..MaxSessions],
                  endpoint : [DirectoryRelays -> Directory!Reports]]
      /\ reg.generation = dNext /\ reg.session[r] = s /\ reg.endpoint[r] = first
      /\ \A x \in DirectoryRelays : x # r =>
            reg.session[x] = dRegistry.session[x] /\ reg.endpoint[x] = dRegistry.endpoint[x]
  BY <1>1, <1>2, <1>6, <1>s, DirRegistry
<1>8. dRegistry' = reg
  <2> DEFINE a == [dRegistry.session EXCEPT ![r] = s]
             b == [dRegistry.endpoint EXCEPT ![r] = first]
  <2>1. dRegistry' = [dRegistry EXCEPT !.generation = dNext, !.endpoint = b]
    BY <1>3
  <2>2. a = dRegistry.session
    BY <1>1, DirCounts
  <2> HIDE DEF a, b
  <2>3. dRegistry' = [generation |-> dNext, session |-> dRegistry.session, endpoint |-> b]
    BY <2>1, DirCounts
  <2> QED BY <1>6, <2>2, <2>3 DEF a, b
<1>9. PICK t : t = [dTask[s] EXCEPT !.at = "changing", !.endpoint = first, !.up = rest,
                                    !.held = Directory!DirectoryOf(reg)]
  OBVIOUS
<1>a. /\ t \in DirTask /\ t.at = "changing" /\ t.held = Directory!DirectoryOf(reg)
      /\ t.down = dTask[s].down /\ t.relay = r /\ t.endpoint = first
      /\ t.up = rest /\ t.open = dTask[s].open /\ t.news = dTask[s].news
  BY <1>1, <1>2, <1>7, <1>9, DirDirectories DEF DirTask, Directory!Stages
<1>b. dTask' = [dTask EXCEPT ![s] = t]
  BY <1>4, <1>8, <1>9
<1>c. DirReported(t, dAdvertised) /\ t.at \in Publishing /\ t.at \in Serving
  BY <1>1, <1>2, <1>u, <1>a DEF DirReported, Publishing, Serving
<1>d. dTask'[s] = t
  BY <1>b DEF DirInv, Directory!TypeOK
<1>e. DirEntry(reg, dTask', r)
  BY <1>7, <1>a, <1>c, <1>d DEF DirEntry, Entered
<1>f. /\ t.at \in Publishing /\ DirReported(t, dAdvertised)
      /\ reg \in [generation : Nat, session : [DirectoryRelays -> 0..MaxSessions],
                  endpoint : [DirectoryRelays -> Directory!Reports]]
      /\ reg.generation = dNext
      /\ \A x \in DirectoryRelays : x # r =>
            reg.session[x] = dRegistry.session[x] /\ reg.endpoint[x] = dRegistry.endpoint[x]
      /\ t \in DirTask /\ t.held = Directory!DirectoryOf(reg) /\ t.down = dTask[s].down
      /\ t.relay = r
  BY <1>7, <1>a, <1>c
<1> QED BY <1>5, <1>8, <1>b, <1>e, <1>f, DirChanges

LEMMA DirPublishes ==
  ASSUME DirInv, NEW s \in Directory!Sessions, Directory!Publish(s),
         dStrays' \subseteq DirectoryRelays
  PROVE  DirInv'
<1> DEFINE held == dTask[s].held
           sent == Directory!Send(dTask[s], held)
<1>1. /\ dTask[s] \in DirTask /\ dTask[s].relay \in DirectoryRelays
      /\ dTask[s].at \in {"adding", "changing", "dropping"}
      /\ held \in Directory!Directory /\ Seen(held)
  BY DirAt DEF DirTask, Directory!Publish, Directory!Holding
<1>2. /\ sent \in Seq(Directory!Directory) /\ \A i \in DOMAIN sent : Seen(sent[i])
      /\ dTask[s].open => sent # <<>> /\ sent[Len(sent)] = held
  <2>1. dTask[s].down \in Seq(Directory!Directory)
    BY DirAt DEF DirTask
  <2>2. CASE ~dTask[s].open
    BY <2>1, <2>2, DirAt DEF Directory!Send
  <2>3. CASE dTask[s].open
    <3> DEFINE down == dTask[s].down
    <3>1. sent = Append(down, held)
      BY <2>3 DEF Directory!Send
    <3>2. down \in Seq(Directory!Directory) /\ \A i \in DOMAIN down : Seen(down[i])
      BY <2>1, DirAt
    <3> HIDE DEF down, sent, held
    <3>3. /\ sent \in Seq(Directory!Directory) /\ Len(sent) = Len(down) + 1 /\ Len(down) \in Nat
          /\ sent[Len(down) + 1] = held
          /\ \A i \in 1..Len(down) : sent[i] = down[i]
      BY <1>1, <3>1, <3>2, AppendProperties
    <3>4. ASSUME NEW i \in DOMAIN sent PROVE Seen(sent[i])
      <4>1. i \in 1..Len(down) \/ i = Len(down) + 1
        BY <3>3, LenProperties
      <4> QED BY <1>1, <3>2, <3>3, <4>1, LenProperties
    <3> QED BY <3>3, <3>4
  <2> QED BY <2>2, <2>3
<1> HIDE DEF sent
<1>3. PICK no \in BOOLEAN : no = FALSE
  OBVIOUS
<1>4. PICK yes \in BOOLEAN : yes = TRUE
  OBVIOUS
<1>a. PICK added : added = [dTask[s] EXCEPT !.at = "running", !.dirty = no,
                                            !.held = Directory!NoDirectory, !.down = sent]
  OBVIOUS
<1>b. PICK changed : changed = [dTask[s] EXCEPT !.at = "running", !.dirty = yes,
                                                !.held = Directory!NoDirectory]
  OBVIOUS
<1>c. PICK gone : gone = Directory!Ended(s, "gone")
  OBVIOUS
<1>5. /\ dPublished' = held
      /\ dTask' = [u \in Directory!Sessions |->
               IF u # s
               THEN [dTask[u] EXCEPT !.dirty = dTask[u].at \in {"joined", "adding", "running", "changing"}]
               ELSE IF dTask[s].at = "adding" THEN added
               ELSE IF dTask[s].at = "changing" THEN changed ELSE gone]
      /\ UNCHANGED <<dNext, dCurrent, dRegistry, dAdvertised, dCopy, dChanges, dFailures, dOverlap>>
  BY <1>3, <1>4, <1>a, <1>b, <1>c DEF Directory!Publish, sent
<1>6. ASSUME NEW u \in Directory!Sessions, u # s
      PROVE  LET n == dTask'[u] IN
             /\ n \in DirTask /\ n.relay = dTask[u].relay /\ n.at = dTask[u].at
             /\ n.endpoint = dTask[u].endpoint /\ n.held = dTask[u].held /\ n.down = dTask[u].down
             /\ DirReported(n, dAdvertised) /\ DirSent(n, held, dCopy)
  <2> DEFINE woken == dTask[u].at \in {"joined", "adding", "running", "changing"}
  <2>a. woken \in BOOLEAN
    OBVIOUS
  <2> HIDE DEF woken
  <2>b. PICK seen \in BOOLEAN : seen = woken
    BY Zenon, <2>a
  <2>1. seen = (dTask[u].at \in {"joined", "adding", "running", "changing"})
    BY <2>b DEF woken
  <2>2. PICK n : n = [dTask[u] EXCEPT !.dirty = seen]
    OBVIOUS
  <2>3. dTask'[u] = n
    BY <1>5, <1>6, <2>1, <2>2
  <2>4. /\ n \in DirTask /\ n.relay = dTask[u].relay /\ n.at = dTask[u].at
        /\ n.endpoint = dTask[u].endpoint /\ n.held = dTask[u].held /\ n.down = dTask[u].down
        /\ n.up = dTask[u].up /\ n.open = dTask[u].open /\ n.news = dTask[u].news /\ n.dirty = seen
    BY <2>2, DirAt DEF DirTask
  <2>5. DirReported(n, dAdvertised)
    BY <2>4, DirAt DEF DirReported
  <2>6. DirSent(n, held, dCopy)
    BY <2>1, <2>4 DEF DirSent
  <2> QED BY <2>3, <2>4, <2>5, <2>6
<1>7. LET n == dTask'[s] IN
      /\ n \in DirTask /\ n.relay = dTask[s].relay /\ n.at \notin Publishing
      /\ dTask[s].at \in Entered => n.at = "running" /\ n.endpoint = dTask[s].endpoint
      /\ Seen(n.held) /\ \A i \in DOMAIN n.down : Seen(n.down[i])
      /\ DirReported(n, dAdvertised) /\ DirSent(n, held, dCopy)
  <2>1. CASE dTask[s].at = "adding"
    <3>1. dTask'[s] = added
      BY <1>5, <2>1
    <3>2. /\ added \in DirTask /\ added.relay = dTask[s].relay /\ added.at = "running"
          /\ added.endpoint = dTask[s].endpoint /\ added.held = Directory!NoDirectory
          /\ added.down = sent /\ added.up = dTask[s].up /\ added.open = dTask[s].open
          /\ added.news = dTask[s].news
      BY <1>1, <1>2, <1>a, DirDirectories DEF DirTask, Directory!Stages
    <3>3. DirReported(added, dAdvertised) /\ DirSent(added, held, dCopy)
      BY <1>2, <2>1, <3>2, DirAt DEF DirReported, DirSent, Serving
    <3> QED BY <1>2, <3>1, <3>2, <3>3, DirKnown DEF Publishing
  <2>2. CASE dTask[s].at = "changing"
    <3>1. dTask'[s] = changed
      BY <1>5, <2>2
    <3>2. /\ changed \in DirTask /\ changed.relay = dTask[s].relay /\ changed.at = "running"
          /\ changed.endpoint = dTask[s].endpoint /\ changed.held = Directory!NoDirectory
          /\ changed.down = dTask[s].down /\ changed.up = dTask[s].up /\ changed.open = dTask[s].open
          /\ changed.news = dTask[s].news /\ changed.dirty
      BY <1>1, <1>4, <1>b, DirDirectories DEF DirTask, Directory!Stages
    <3>3. DirReported(changed, dAdvertised) /\ DirSent(changed, held, dCopy)
      BY <2>2, <3>2, DirAt DEF DirReported, DirSent, Serving
    <3> QED BY <3>1, <3>2, <3>3, DirKnown, DirAt DEF Publishing
  <2>3. CASE dTask[s].at = "dropping"
    <3>1. dTask'[s] = gone
      BY <1>5, <2>3
    <3>2. "gone" \in Directory!Stages /\ Directory!TypeOK
      BY DEF Directory!Stages, DirInv
    <3>3. /\ gone \in DirTask /\ gone.relay = dTask[s].relay /\ gone.at = "gone"
          /\ gone.held = Directory!NoDirectory /\ gone.down = dTask[s].down
      BY <1>c, <3>2, DirEnded
    <3>4. DirReported(gone, dAdvertised) /\ DirSent(gone, held, dCopy)
      BY <3>3 DEF DirReported, DirSent, Serving
    <3>5. dTask[s].at \notin Entered
      BY <2>3 DEF Entered, Serving
    <3> QED BY <3>1, <3>3, <3>4, <3>5, DirKnown, DirAt DEF Publishing
  <2> QED BY <1>1, <2>1, <2>2, <2>3
<1>8. dTask' \in [Directory!Sessions -> DirTask]
  <2>1. dTask' = [u \in Directory!Sessions |-> dTask'[u]]
    BY <1>5
  <2> QED BY <1>6, <1>7, <2>1
<1>9. Directory!TypeOK'
  BY <1>1, <1>5, <1>8 DEF DirInv, Directory!TypeOK, DirTask
<1>d. ASSUME NEW r \in DirectoryRelays PROVE DirEntry(dRegistry', dTask', r)
  <2>1. DirEntry(dRegistry, dTask, r) /\ dRegistry.session[r] \in 0..MaxSessions
    BY DEF DirInv, Directory!TypeOK
  <2>2. dRegistry.session[r] # 0 => dRegistry.session[r] \in Directory!Sessions
    BY <2>1, DirectoryConstants DEF Directory!Sessions
  <2>3. CASE dRegistry.session[r] = s /\ dRegistry.session[r] # 0
    <3>1. dTask[s].relay = r /\ dTask[s].at \in Entered
      BY <2>1, <2>3 DEF DirEntry
    <3>2. dTask[s].at \in Serving
      BY <1>1, <3>1 DEF Entered, Serving
    <3>3. dRegistry.endpoint[r] = dTask[s].endpoint
      BY <2>1, <2>3, <3>2 DEF DirEntry
    <3>4. "running" \in Entered
      BY DEF Entered, Serving
    <3> QED BY <1>5, <1>7, <2>3, <3>1, <3>3, <3>4 DEF DirEntry
  <2>4. CASE dRegistry.session[r] # s /\ dRegistry.session[r] # 0
    BY <1>5, <1>6, <2>1, <2>2, <2>4 DEF DirEntry
  <2>5. CASE dRegistry.session[r] = 0
    BY <1>5, <2>5 DEF DirEntry
  <2> QED BY <2>3, <2>4, <2>5
<1>e. DirOrder'
  <2> SUFFICES ASSUME ~dOverlap PROVE DirOrder'
    BY <1>5 DEF DirOrder
  <2>1. s \in Directory!Holding
    BY DEF Directory!Publish
  <2>2. held = Directory!DirectoryOf(dRegistry) /\ Directory!Holding = {s}
    BY <2>1 DEF DirInv, DirOrder
  <2>3. Directory!Holding' = {}
    BY <1>6, <1>7, <2>2 DEF Directory!Holding, Publishing
  <2> HIDE DEF held
  <2> QED BY <1>5, <2>2, <2>3 DEF DirOrder
<1>f. DirGenerations'
  <2>1. ASSUME NEW d, SeenIn(d, dRegistry', dPublished', dTask', dCopy') PROVE Seen(d)
    <3>1. CASE \E u \in Directory!Sessions :
                  d = dTask'[u].held \/ \E i \in DOMAIN dTask'[u].down : d = dTask'[u].down[i]
      <4>1. PICK u \in Directory!Sessions :
                  d = dTask'[u].held \/ \E i \in DOMAIN dTask'[u].down : d = dTask'[u].down[i]
        BY <3>1
      <4>2. CASE u = s
        BY <1>7, <4>1, <4>2
      <4>3. CASE u # s
        BY <1>6, <4>1, <4>3, DirAt
      <4> QED BY <4>2, <4>3
    <3> QED BY <1>1, <1>5, <2>1, <3>1, DirKnown DEF SeenIn
  <2>2. dRegistry' \in [generation : Nat, session : [DirectoryRelays -> 0..MaxSessions],
                        endpoint : [DirectoryRelays -> Directory!Reports]]
    BY <1>9 DEF Directory!TypeOK
  <2> QED BY <1>5, <2>1, <2>2, DirGrows
<1>g. \A u \in Directory!Sessions :
         DirReported(dTask'[u], dAdvertised') /\ DirSent(dTask'[u], dPublished', dCopy')
  BY <1>5, <1>6, <1>7
<1> QED BY <1>9, <1>d, <1>e, <1>f, <1>g DEF DirInv

LEMMA DirRestarts ==
  ASSUME DirInv, Directory!ServerRestart,
         dStrays' \subseteq DirectoryRelays
  PROVE  DirInv'
<1>1. PICK zero \in 0..MaxSessions : zero = 0
  BY DirectoryConstants
<1> DEFINE nobody == [r \in DirectoryRelays |-> zero]
           nowhere == [r \in DirectoryRelays |-> Absent]
<1>2. nobody \in [DirectoryRelays -> 0..MaxSessions] /\ nowhere \in [DirectoryRelays -> Directory!Reports]
      /\ \A r \in DirectoryRelays : nobody[r] = 0
  BY <1>1 DEF Directory!Reports
<1>3. /\ dCurrent' = nobody /\ dRegistry' = [generation |-> dNext, session |-> nobody, endpoint |-> nowhere]
      /\ dPublished' = [generation |-> dNext, relays |-> nowhere]
      /\ dNext' = dNext + 1 /\ dFailures' = dFailures + 1
      /\ UNCHANGED <<dAdvertised, dCopy, dChanges, dOverlap>>
  BY <1>1 DEF Directory!ServerRestart, Directory!NoDirectory, Directory!Allocates
<1>4. Directory!DirectoryOf(dRegistry') = dPublished'
  BY <1>2, <1>3 DEF Directory!DirectoryOf
<1>5. \A u \in Directory!Sessions :
         dTask'[u] = IF dTask[u].at = "free" THEN dTask[u] ELSE Directory!Ended(u, "gone")
  BY DEF Directory!ServerRestart
<1>6. dTask' = [u \in Directory!Sessions |-> dTask'[u]]
  BY DEF Directory!ServerRestart
<1> HIDE DEF nobody, nowhere
<1>7. ASSUME NEW u \in Directory!Sessions
      PROVE  /\ dTask'[u] \in DirTask /\ dTask'[u].at \in {"free", "gone"}
             /\ Seen(dTask'[u].held) /\ \A i \in DOMAIN dTask'[u].down : Seen(dTask'[u].down[i])
  <2>1. CASE dTask[u].at = "free"
    BY <1>5, <2>1, DirAt
  <2>2. CASE dTask[u].at # "free"
    <3>1. PICK gone : gone = Directory!Ended(u, "gone")
      OBVIOUS
    <3>2. "gone" \in Directory!Stages /\ Directory!TypeOK
      BY DEF Directory!Stages, DirInv
    <3>3. /\ gone \in DirTask /\ gone.at = "gone"
          /\ gone.held = Directory!NoDirectory /\ gone.down = dTask[u].down
      BY <3>1, <3>2, DirEnded
    <3> QED BY <1>5, <2>2, <3>1, <3>3, DirAt, DirKnown
  <2> QED BY <2>1, <2>2
<1>8. dTask' \in [Directory!Sessions -> DirTask]
  BY <1>6, <1>7
<1>9. dRegistry' \in [generation : Nat, session : [DirectoryRelays -> 0..MaxSessions],
                      endpoint : [DirectoryRelays -> Directory!Reports]]
      /\ dRegistry'.generation = dNext /\ dPublished' \in Directory!Directory
  BY <1>2, <1>3, DirKnown DEF Directory!Directory
<1>a. Directory!TypeOK'
  <2>1. dNext' \in Nat /\ dFailures' \in Nat
    BY <1>3, DirKnown, DirCounts
  <2> QED BY <1>2, <1>3, <1>8, <1>9, <2>1 DEF DirInv, Directory!TypeOK, DirTask
<1>b. \A r \in DirectoryRelays : DirEntry(dRegistry', dTask', r)
  BY <1>2, <1>3 DEF DirEntry
<1>c. DirOrder'
  <2>1. Directory!Holding' = {}
    BY <1>7 DEF Directory!Holding
  <2> QED BY <1>4, <2>1 DEF DirOrder
<1>d. DirGenerations'
  <2>1. ASSUME NEW d, SeenIn(d, dRegistry', dPublished', dTask', dCopy')
        PROVE  Seen(d) \/ d = Directory!DirectoryOf(dRegistry')
    BY <1>3, <1>4, <1>7, <2>1, DirKnown DEF SeenIn
  <2> QED BY <1>3, <1>9, <2>1, DirGrows
<1>e. \A u \in Directory!Sessions :
         DirReported(dTask'[u], dAdvertised') /\ DirSent(dTask'[u], dPublished', dCopy')
  BY <1>7 DEF DirReported, DirSent, Serving
<1> QED BY <1>a, <1>b, <1>c, <1>d, <1>e DEF DirInv

LEMMA DirSessionSteps ==
  ASSUME DirInv, NEW s \in Directory!Sessions, Directory!SessionStep(s),
         dStrays' \subseteq DirectoryRelays
  PROVE  DirInv'
<1>0. dTask[s] \in DirTask /\ dTask[s].relay \in DirectoryRelays
  BY DirAt DEF DirTask
<1>1. CASE \E r \in DirectoryRelays :
              Directory!Dial(s, r) \/ \E e \in Addresses : Directory!DialAndDiscover(s, r, e)
  BY <1>1, DirDials, DirDiscovers
<1>2. CASE Directory!Join(s) \/ Directory!ReplaceSession(s) \/ Directory!UpdateSession(s)
           \/ Directory!Publish(s) \/ Directory!SendDirectory(s) \/ Directory!Unregister(s)
           \/ Directory!ReportEndpoint(s) \/ Directory!ApplyDirectory(s)
  BY <1>2, DirJoins, DirReplaces, DirUpdates, DirPublishes, DirSends, DirUnregisters,
     DirReports, DirApplies
<1>3. CASE Directory!UpdateRefused(s) \/ Directory!LoopEnds(s)
  <2>1. /\ dTask' = [dTask EXCEPT ![s] = Directory!Ended(s, "leaving")]
        /\ dTask[s].at \notin Publishing
        /\ UNCHANGED <<dNext, dRegistry, dPublished, dAdvertised, dCopy, dOverlap, dCurrent, dChanges, dFailures>>
    BY <1>3 DEF Directory!UpdateRefused, Directory!LoopEnds, Directory!Set, Publishing
  <2> QED BY <2>1, DirCounts, DirEnds
<1>4. CASE Directory!HelloFails(s) \/ Directory!NothingToRemove(s)
  <2>1. /\ dTask' = [dTask EXCEPT ![s] = Directory!Ended(s, "gone")]
        /\ dTask[s].at \notin Publishing
        /\ dTask[s].at \notin Entered \/ dRegistry.session[dTask[s].relay] # s
        /\ UNCHANGED <<dNext, dRegistry, dPublished, dAdvertised, dCopy, dOverlap, dCurrent, dChanges, dFailures>>
    BY <1>4 DEF Directory!HelloFails, Directory!NothingToRemove, Directory!Set, Publishing, Entered, Serving
  <2> QED BY <2>1, DirCounts, DirEnds
<1>5. CASE Directory!Leave(s)
  <2>1. PICK at \in {"removing", "superseded"} :
           dTask' = [dTask EXCEPT ![s] = Directory!Ended(s, at)]
    BY <1>5 DEF Directory!Leave, Directory!Set
  <2>2. PICK zero \in 0..MaxSessions : zero = 0
    BY DirectoryConstants
  <2>3. dCurrent' \in [DirectoryRelays -> 0..MaxSessions]
    <3>1. dCurrent' = dCurrent \/ dCurrent' = [dCurrent EXCEPT ![dTask[s].relay] = zero]
      BY <1>5, <2>2 DEF Directory!Leave
    <3> QED BY <3>1, DirCounts
  <2>4. /\ dTask[s].at \notin Publishing
        /\ UNCHANGED <<dNext, dRegistry, dPublished, dAdvertised, dCopy, dOverlap, dChanges, dFailures>>
    BY <1>5 DEF Directory!Leave, Publishing
  <2> QED BY <2>1, <2>3, <2>4, DirCounts, DirEnds
<1>6. CASE Directory!AllocationFails(s)
  <2>1. PICK at \in {"leaving", "failed"} :
           dTask' = [dTask EXCEPT ![s] = Directory!Ended(s, at)]
    BY <1>6 DEF Directory!AllocationFails, Directory!Set
  <2>2. /\ dTask[s].at \notin Publishing /\ dFailures' = dFailures + 1
        /\ UNCHANGED <<dNext, dRegistry, dPublished, dAdvertised, dCopy, dOverlap, dChanges, dCurrent>>
    BY <1>6 DEF Directory!AllocationFails, Publishing
  <2> QED BY <2>1, <2>2, DirCounts, DirEnds
<1>7. CASE Directory!RelayLeaves(s) \/ Directory!Cut(s)
  <2>1. /\ dTask' = [dTask EXCEPT ![s] = Directory!Closed(dTask[s])]
        /\ dFailures' \in {dFailures, dFailures + 1}
        /\ UNCHANGED <<dNext, dRegistry, dPublished, dAdvertised, dCopy, dOverlap, dChanges, dCurrent>>
    BY <1>7 DEF Directory!RelayLeaves, Directory!Cut, Directory!Set
  <2> QED BY <2>1, DirCounts, DirCloses
<1> QED BY <1>1, <1>2, <1>3, <1>4, <1>5, <1>6, <1>7 DEF Directory!SessionStep

LEMMA DirNext ==
  ASSUME DirInv, [Directory!Next]_(Directory!vars)
  PROVE  DirInv'
<1>1. CASE UNCHANGED Directory!vars
  <2>1. UNCHANGED <<dNext, dCurrent, dRegistry, dPublished, dTask, dAdvertised, dCopy, dChanges,
                    dFailures, dOverlap, dStrays>>
    BY <1>1 DEF Directory!vars
  <2>2. Directory!TypeOK' /\ Directory!Holding' = Directory!Holding
    BY <2>1 DEF DirInv, Directory!TypeOK, Directory!Holding
  <2> QED BY <2>1, <2>2 DEF DirInv, DirOrder, DirGenerations, Seen
<1>2. CASE Directory!Next
  <2>1. dStrays \subseteq DirectoryRelays /\ \A s \in Directory!Sessions : dTask[s].relay \in DirectoryRelays
    BY DirAt DEF DirInv, Directory!TypeOK, DirTask
  <2>2. \/ dStrays' \subseteq dStrays
        \/ \E s \in Directory!Sessions : dStrays' = dStrays \cup {dTask[s].relay}
    <3>1. CASE \E s \in Directory!Sessions :
                 Directory!ReplaceSession(s) \/ Directory!Leave(s) \/ Directory!AllocationFails(s)
      BY <3>1 DEF Directory!ReplaceSession, Directory!Leave, Directory!AllocationFails
    <3>2. CASE Directory!ServerRestart
      BY <3>2 DEF Directory!ServerRestart
    <3>3. CASE dStrays' = dStrays
      BY <3>3
    <3> QED
      BY <1>2, <3>1, <3>2, <3>3
         DEF Directory!Next, Directory!SessionStep, Directory!Dial, Directory!DialAndDiscover, Directory!Join,
             Directory!UpdateSession, Directory!UpdateRefused, Directory!Publish, Directory!SendDirectory,
             Directory!LoopEnds, Directory!HelloFails, Directory!Unregister, Directory!NothingToRemove,
             Directory!ReportEndpoint, Directory!ApplyDirectory, Directory!RelayLeaves, Directory!Cut,
             Directory!EndpointChanges
  <2>3. dStrays' \subseteq DirectoryRelays
    BY <2>1, <2>2
  <2> QED BY <1>2, <2>3, DirSessionSteps, DirMoves, DirRestarts DEF Directory!Next
<1> QED BY <1>1, <1>2

\* A Relay's current session is one that joined and has not left as such; and an entry
\* that is another session's is on its way out or about to be replaced, but for a stray.
DirLeft ==
    \A r \in DirectoryRelays :
        LET s == dRegistry.session[r]
            c == dCurrent[r]
        IN  /\ c # 0 => dTask[c].relay = r /\ dTask[c].at \in Serving \cup {"joined", "leaving"}
            /\ s \notin {0, c} /\ r \notin dStrays =>
                  \/ dTask[s].at = "removing"
                  \/ c # 0 /\ dTask[c].at \in {"joined", "leaving"}

\* The tasks that hold an entry or are a Relay's current session only advance.
DirOnwards ==
    \A u \in Directory!Sessions :
        dTask[u].at \in Entered \cup {"joined"} =>
            \/ dTask'[u].relay = dTask[u].relay /\ dTask'[u].at = dTask[u].at
            \/ dTask'[u].relay = dTask[u].relay /\ dTask[u].at \in Serving
               /\ dTask'[u].at \in Serving \cup {"leaving"}
            \/ dTask'[u].relay = dTask[u].relay /\ dTask[u].at = "joined" /\ dTask'[u].at = "leaving"
            \/ dTask[u].at = "removing" /\ dRegistry.session[dTask[u].relay] # u

\* Where the entry and the current session of a Relay are.
LEMMA DirHolders ==
  ASSUME DirInv, DirLeft, NEW r \in DirectoryRelays
  PROVE  /\ dRegistry.session[r] # 0 =>
              /\ dRegistry.session[r] \in Directory!Sessions /\ dTask[dRegistry.session[r]].relay = r
              /\ dTask[dRegistry.session[r]].at \in Entered
         /\ dCurrent[r] # 0 =>
              /\ dCurrent[r] \in Directory!Sessions /\ dTask[dCurrent[r]].relay = r
              /\ dTask[dCurrent[r]].at \in Serving \cup {"joined", "leaving"}
<1>1. DirEntry(dRegistry, dTask, r) /\ dRegistry.session[r] \in 0..MaxSessions /\ dCurrent[r] \in 0..MaxSessions
  BY DEF DirInv, Directory!TypeOK
<1>2. \A n \in 0..MaxSessions : n # 0 => n \in Directory!Sessions
  BY DirectoryConstants DEF Directory!Sessions
<1> QED BY <1>1, <1>2 DEF DirEntry, DirLeft

LEMMA DirLeftKeeps ==
  ASSUME DirInv, DirLeft, DirOnwards, UNCHANGED <<dCurrent, dStrays>>,
         dRegistry'.session = dRegistry.session
  PROVE  DirLeft'
<1> SUFFICES ASSUME NEW r \in DirectoryRelays
             PROVE  LET s == dRegistry.session[r]
                        c == dCurrent[r]
                    IN  /\ c # 0 => dTask'[c].relay = r /\ dTask'[c].at \in Serving \cup {"joined", "leaving"}
                        /\ s \notin {0, c} /\ r \notin dStrays =>
                              \/ dTask'[s].at = "removing"
                              \/ c # 0 /\ dTask'[c].at \in {"joined", "leaving"}
  BY DEF DirLeft
<1> DEFINE s == dRegistry.session[r]
           c == dCurrent[r]
<1>1. /\ s # 0 => s \in Directory!Sessions /\ dTask[s].relay = r /\ dTask[s].at \in Entered
      /\ c # 0 => c \in Directory!Sessions /\ dTask[c].relay = r
                  /\ dTask[c].at \in Serving \cup {"joined", "leaving"}
  BY DirHolders
<1>2. s \notin {0, c} /\ r \notin dStrays =>
          dTask[s].at = "removing" \/ (c # 0 /\ dTask[c].at \in {"joined", "leaving"})
  BY DEF DirLeft
<1> HIDE DEF s, c
<1>3. c # 0 => /\ dTask'[c].relay = r /\ dTask'[c].at \in Serving \cup {"joined", "leaving"}
               /\ dTask[c].at \in {"joined", "leaving"} => dTask'[c].at \in {"joined", "leaving"}
  BY <1>1 DEF DirOnwards, Entered, Serving
<1>4. s # 0 /\ dTask[s].at = "removing" => dTask'[s].at = "removing"
  BY <1>1 DEF DirOnwards, Entered, Serving, s
<1> QED BY <1>2, <1>3, <1>4 DEF s, c

\* The task of a step, and what the step leaves of the others.
LEMMA DirOneTask ==
  ASSUME DirInv, NEW s \in Directory!Sessions, NEW t, dTask' = [dTask EXCEPT ![s] = t]
  PROVE  dTask'[s] = t /\ \A u \in Directory!Sessions : u # s => dTask'[u] = dTask[u]
  BY DEF DirInv, Directory!TypeOK

LEMMA DirLeftStages ==
  ASSUME DirInv, NEW s \in Directory!Sessions, NEW at \in Directory!Stages,
         dTask' = [dTask EXCEPT ![s] = Directory!Ended(s, at)]
  PROVE  /\ dTask'[s].at = at /\ dTask'[s].relay = dTask[s].relay
         /\ \A u \in Directory!Sessions : u # s => dTask'[u] = dTask[u]
<1>1. PICK t : t = Directory!Ended(s, at)
  OBVIOUS
<1>2. t.at = at /\ t.relay = dTask[s].relay
  BY <1>1, DirEnded DEF DirInv
<1> QED BY <1>1, <1>2, DirOneTask

\* The steps that change neither the current sessions nor whose the entries are.
LEMMA DirLeftOnwards ==
  ASSUME DirInv,
         \/ \E s \in Directory!Sessions :
               \/ \E r \in DirectoryRelays : Directory!Dial(s, r)
               \/ Directory!UpdateSession(s) \/ Directory!UpdateRefused(s) \/ Directory!LoopEnds(s)
               \/ Directory!SendDirectory(s) \/ Directory!HelloFails(s) \/ Directory!NothingToRemove(s)
               \/ Directory!ReportEndpoint(s) \/ Directory!ApplyDirectory(s)
               \/ Directory!RelayLeaves(s) \/ Directory!Cut(s)
  PROVE  DirOnwards
<1> PICK s \in Directory!Sessions :
               \/ \E r \in DirectoryRelays : Directory!Dial(s, r)
               \/ Directory!UpdateSession(s) \/ Directory!UpdateRefused(s) \/ Directory!LoopEnds(s)
               \/ Directory!SendDirectory(s) \/ Directory!HelloFails(s) \/ Directory!NothingToRemove(s)
               \/ Directory!ReportEndpoint(s) \/ Directory!ApplyDirectory(s)
               \/ Directory!RelayLeaves(s) \/ Directory!Cut(s)
  OBVIOUS
<1>t. dTask[s] \in DirTask
  BY DirAt
<1>1. CASE \E r \in DirectoryRelays : Directory!Dial(s, r)
  <2>1. \E t : dTask' = [dTask EXCEPT ![s] = t]
    BY <1>1 DEF Directory!Dial, Directory!Set
  <2>2. dTask[s].at \notin Entered \cup {"joined"}
    BY <1>1 DEF Directory!Dial, Directory!Dialled, Entered, Serving
  <2> QED BY <2>1, <2>2, DirOneTask DEF DirOnwards
<1>2. CASE Directory!UpdateRefused(s) \/ Directory!LoopEnds(s)
  <2>1. dTask' = [dTask EXCEPT ![s] = Directory!Ended(s, "leaving")] /\ dTask[s].at \in {"joined", "running"}
    BY <1>2 DEF Directory!UpdateRefused, Directory!LoopEnds, Directory!Set
  <2>2. /\ dTask'[s].at = "leaving" /\ dTask'[s].relay = dTask[s].relay
        /\ \A u \in Directory!Sessions : u # s => dTask'[u] = dTask[u]
    BY <2>1, DirLeftStages DEF Directory!Stages
  <2> QED BY <2>1, <2>2 DEF DirOnwards, Serving
<1>3. CASE Directory!HelloFails(s) \/ Directory!NothingToRemove(s)
  <2>1. dTask' = [dTask EXCEPT ![s] = Directory!Ended(s, "gone")]
        /\ \/ dTask[s].at = "hello"
           \/ dTask[s].at = "removing" /\ dRegistry.session[dTask[s].relay] # s
    BY <1>3 DEF Directory!HelloFails, Directory!NothingToRemove, Directory!Set
  <2>2. \A u \in Directory!Sessions : u # s => dTask'[u] = dTask[u]
    BY <2>1, DirLeftStages DEF Directory!Stages
  <2> QED BY <2>1, <2>2 DEF DirOnwards, Entered, Serving
<1>4. CASE \/ Directory!SendDirectory(s) \/ Directory!ReportEndpoint(s) \/ Directory!ApplyDirectory(s)
           \/ Directory!RelayLeaves(s) \/ Directory!Cut(s) \/ Directory!UpdateSession(s)
  <2>1. PICK t : dTask' = [dTask EXCEPT ![s] = t] /\ t.relay = dTask[s].relay
                 /\ \/ t.at = dTask[s].at
                    \/ dTask[s].at = "running" /\ t.at = "changing"
    <3>1. CASE Directory!SendDirectory(s)
      <4>1. PICK t : t = [dTask[s] EXCEPT !.dirty = FALSE, !.down = Directory!Send(dTask[s], dPublished)]
        OBVIOUS
      <4>2. t.relay = dTask[s].relay /\ t.at = dTask[s].at
        BY <1>t, <4>1 DEF DirTask
      <4> QED BY <3>1, <4>1, <4>2 DEF Directory!SendDirectory, Directory!Set
    <3>2. CASE Directory!ReportEndpoint(s)
      <4>1. PICK q : q = Append(dTask[s].up, dAdvertised[dTask[s].relay])
        OBVIOUS
      <4>2. PICK t : t = [dTask[s] EXCEPT !.news = FALSE, !.up = q]
        OBVIOUS
      <4>3. t.relay = dTask[s].relay /\ t.at = dTask[s].at
        BY <1>t, <4>2 DEF DirTask
      <4> QED BY <3>2, <4>1, <4>2, <4>3 DEF Directory!ReportEndpoint, Directory!Set
    <3>3. Directory!Closed(dTask[s]).relay = dTask[s].relay /\ Directory!Closed(dTask[s]).at = dTask[s].at
      BY <1>t DEF Directory!Closed, DirTask
    <3>4. CASE Directory!RelayLeaves(s) \/ Directory!Cut(s)
      BY <3>3, <3>4 DEF Directory!RelayLeaves, Directory!Cut, Directory!Set
    <3>5. CASE Directory!ApplyDirectory(s)
      <4>1. PICK t : t = [dTask[s] EXCEPT !.down = Tail(dTask[s].down)]
        OBVIOUS
      <4>2. t.relay = dTask[s].relay /\ t.at = dTask[s].at
        BY <1>t, <4>1 DEF DirTask
      <4>3. \/ dTask' = [dTask EXCEPT ![s] = Directory!Closed(dTask[s])]
            \/ dTask' = [dTask EXCEPT ![s] = t]
        BY <3>5, <4>1 DEF Directory!ApplyDirectory, Directory!Set
      <4> QED BY <3>3, <4>2, <4>3
    <3>6. CASE Directory!UpdateSession(s)
      <4>1. PICK e, q, d : e = Head(dTask[s].up) /\ q = Tail(dTask[s].up) /\ d = Directory!DirectoryOf(dRegistry')
        OBVIOUS
      <4>2. PICK t : t = [dTask[s] EXCEPT !.at = "changing", !.endpoint = e, !.up = q, !.held = d]
        OBVIOUS
      <4>3. t.relay = dTask[s].relay /\ t.at = "changing"
        BY <1>t, <4>2 DEF DirTask
      <4>4. dTask[s].at = "running" /\ dTask' = [dTask EXCEPT ![s] = t]
        BY <3>6, <4>1, <4>2 DEF Directory!UpdateSession, Directory!Set
      <4> QED BY <4>3, <4>4
    <3> QED BY <1>4, <3>1, <3>2, <3>4, <3>5, <3>6
  <2>2. dTask'[s] = t /\ \A u \in Directory!Sessions : u # s => dTask'[u] = dTask[u]
    BY <2>1, DirOneTask
  <2> QED BY <2>1, <2>2 DEF DirOnwards, Serving
<1> QED BY <1>1, <1>2, <1>3, <1>4

\* The steps that touch several tasks, none of which changes its stage but one.
LEMMA DirLeftSeveral ==
  ASSUME DirInv
  PROVE  /\ \A r \in DirectoryRelays, e \in Directory!Reports : Directory!EndpointChanges(r, e) => DirOnwards
         /\ \A s \in Directory!Sessions, r \in DirectoryRelays, e \in Addresses :
               Directory!DialAndDiscover(s, r, e) => DirOnwards
         /\ \A s \in Directory!Sessions : Directory!Publish(s) => DirOnwards
<1>t. \A u \in Directory!Sessions : dTask[u] \in DirTask
  BY DirAt
<1>n. \A r, u : u \in Directory!Sessions =>
          Directory!News(r)[u].relay = dTask[u].relay /\ Directory!News(r)[u].at = dTask[u].at
  <2> SUFFICES ASSUME NEW r, NEW u \in Directory!Sessions
               PROVE  Directory!News(r)[u].relay = dTask[u].relay /\ Directory!News(r)[u].at = dTask[u].at
    OBVIOUS
  <2>1. PICK n : n = [dTask[u] EXCEPT !.news = TRUE]
    OBVIOUS
  <2>2. n.relay = dTask[u].relay /\ n.at = dTask[u].at
    BY <1>t, <2>1 DEF DirTask
  <2>3. Directory!News(r)[u] = n \/ Directory!News(r)[u] = dTask[u]
    BY <2>1 DEF Directory!News
  <2> QED BY <2>2, <2>3
<1>1. ASSUME NEW r \in DirectoryRelays, NEW e \in Directory!Reports, Directory!EndpointChanges(r, e)
      PROVE  DirOnwards
  BY <1>1, <1>n DEF Directory!EndpointChanges, DirOnwards
<1>2. ASSUME NEW s \in Directory!Sessions, NEW r \in DirectoryRelays, NEW e \in Addresses,
             Directory!DialAndDiscover(s, r, e)
      PROVE  DirOnwards
  <2>1. PICK t : dTask' = [Directory!News(r) EXCEPT ![s] = t]
    BY <1>2 DEF Directory!DialAndDiscover
  <2>2. \A u \in Directory!Sessions : u # s => dTask'[u] = Directory!News(r)[u]
    BY <2>1 DEF Directory!News
  <2>3. dTask[s].at \notin Entered \cup {"joined"}
    BY <1>2 DEF Directory!DialAndDiscover, Directory!Dialled, Entered, Serving
  <2> QED BY <1>n, <2>2, <2>3 DEF DirOnwards
<1>3. ASSUME NEW s \in Directory!Sessions, Directory!Publish(s) PROVE DirOnwards
  <2>1. ASSUME NEW u \in Directory!Sessions, u # s
        PROVE  dTask'[u].relay = dTask[u].relay /\ dTask'[u].at = dTask[u].at
    <3>1. PICK woken : woken = (dTask[u].at \in {"joined", "adding", "running", "changing"})
      OBVIOUS
    <3>2. PICK n : n = [dTask[u] EXCEPT !.dirty = woken]
      OBVIOUS
    <3>3. n.relay = dTask[u].relay /\ n.at = dTask[u].at
      BY <1>t, <3>2 DEF DirTask
    <3>4. dTask'[u] = n
      BY <1>3, <2>1, <3>1, <3>2 DEF Directory!Publish
    <3> QED BY <3>3, <3>4
  <2>2. CASE dTask[s].at = "adding"
    <3>1. PICK q : q = Directory!Send(dTask[s], dTask[s].held)
      OBVIOUS
    <3>2. PICK n : n = [dTask[s] EXCEPT !.at = "running", !.dirty = FALSE,
                                        !.held = Directory!NoDirectory, !.down = q]
      OBVIOUS
    <3>3. n.relay = dTask[s].relay /\ n.at = "running"
      BY <1>t, <3>2 DEF DirTask
    <3>4. dTask'[s] = n
      BY <1>3, <2>2, <3>1, <3>2 DEF Directory!Publish
    <3> QED BY <2>1, <2>2, <3>3, <3>4 DEF DirOnwards, Serving
  <2>3. CASE dTask[s].at = "changing"
    <3>2. PICK n : n = [dTask[s] EXCEPT !.at = "running", !.dirty = TRUE, !.held = Directory!NoDirectory]
      OBVIOUS
    <3>3. n.relay = dTask[s].relay /\ n.at = "running"
      BY <1>t, <3>2 DEF DirTask
    <3>4. dTask'[s] = n
      BY <1>3, <2>3, <3>2 DEF Directory!Publish
    <3> QED BY <2>1, <2>3, <3>3, <3>4 DEF DirOnwards, Serving
  <2>4. CASE dTask[s].at \notin {"adding", "changing"}
    <3>1. dTask[s].at \notin Entered \cup {"joined"}
      BY <1>3, <2>4 DEF Directory!Publish, Directory!Holding, Entered, Serving
    <3> QED BY <2>1, <3>1 DEF DirOnwards
  <2> QED BY <2>2, <2>3, <2>4
<1> QED BY <1>1, <1>2, <1>3

LEMMA DirLeftJoins ==
  ASSUME DirInv, DirLeft, NEW s \in Directory!Sessions, Directory!Join(s)
  PROVE  DirLeft'
<1> DEFINE r == dTask[s].relay
<1>1. dTask[s] \in DirTask /\ r \in DirectoryRelays /\ dTask[s].at = "hello"
  BY DirAt DEF DirTask, Directory!Join
<1>2. dTask'[s].at = "joined" /\ dTask'[s].relay = r
  <2>1. PICK e, q : e = Head(dTask[s].up) /\ q = Tail(dTask[s].up)
    OBVIOUS
  <2>2. PICK t : t = [dTask[s] EXCEPT !.at = "joined", !.endpoint = e, !.up = q]
    OBVIOUS
  <2>3. t.at = "joined" /\ t.relay = r
    BY <1>1, <2>2 DEF DirTask
  <2>4. dTask'[s] = t
    BY <2>1, <2>2 DEF Directory!Join
  <2> QED BY <2>3, <2>4
<1>3. ASSUME NEW u \in Directory!Sessions, u # s
      PROVE  dTask'[u].relay = dTask[u].relay /\ dTask'[u].at = dTask[u].at
  <2>1. PICK n : n = [dTask[u] EXCEPT !.shutdown = TRUE]
    OBVIOUS
  <2>2. n.relay = dTask[u].relay /\ n.at = dTask[u].at
    BY <2>1, DirAt DEF DirTask
  <2>3. dTask'[u] = n \/ dTask'[u] = dTask[u]
    BY <1>3, <2>1 DEF Directory!Join
  <2> QED BY <2>2, <2>3
<1>4. /\ dCurrent' = [dCurrent EXCEPT ![r] = s] /\ dCurrent \in [DirectoryRelays -> 0..MaxSessions]
      /\ dRegistry' = dRegistry /\ dStrays' = dStrays
  BY DirCounts DEF Directory!Join
<1> HIDE DEF r
<1>5. ASSUME NEW x \in DirectoryRelays, x # r
      PROVE  /\ dRegistry.session[x] # 0 => dRegistry.session[x] \in Directory!Sessions \ {s}
             /\ dCurrent[x] # 0 => dCurrent[x] \in Directory!Sessions \ {s}
  BY <1>1, <1>5, DirHolders DEF r
<1>6. dCurrent'[r] = s /\ \A x \in DirectoryRelays : x # r => dCurrent'[x] = dCurrent[x]
  BY <1>1, <1>4
<1>7. /\ dCurrent'[r] # 0 => dTask'[dCurrent'[r]].relay = r
      /\ dCurrent'[r] # 0 => dTask'[dCurrent'[r]].at \in Serving \cup {"joined", "leaving"}
      /\ dCurrent'[r] # 0 /\ dTask'[dCurrent'[r]].at \in {"joined", "leaving"}
  <2>1. s # 0
    BY DEF Directory!Sessions
  <2> QED BY <1>2, <1>6, <2>1
<1>8. ASSUME NEW x \in DirectoryRelays, x # r
      PROVE  /\ dCurrent'[x] # 0 => /\ dTask'[dCurrent'[x]].relay = x
                                    /\ dTask'[dCurrent'[x]].at \in Serving \cup {"joined", "leaving"}
             /\ dRegistry'.session[x] \notin {0, dCurrent'[x]} /\ x \notin dStrays' =>
                   \/ dTask'[dRegistry'.session[x]].at = "removing"
                   \/ dCurrent'[x] # 0 /\ dTask'[dCurrent'[x]].at \in {"joined", "leaving"}
  <2>1. dCurrent'[x] = dCurrent[x] /\ dRegistry' = dRegistry /\ dStrays' = dStrays
    BY <1>4, <1>6, <1>8
  <2>2. \A u \in Directory!Sessions \ {s} :
           dTask'[u].relay = dTask[u].relay /\ dTask'[u].at = dTask[u].at
    BY <1>3
  <2>3. /\ dRegistry.session[x] # 0 => dRegistry.session[x] \in Directory!Sessions \ {s}
        /\ dCurrent[x] # 0 => dCurrent[x] \in Directory!Sessions \ {s}
    BY <1>5, <1>8
  <2> QED BY <1>8, <2>1, <2>2, <2>3 DEF DirLeft
<1> QED BY <1>7, <1>8 DEF DirLeft

LEMMA DirLeftReplaces ==
  ASSUME DirInv, DirLeft, NEW s \in Directory!Sessions, Directory!ReplaceSession(s)
  PROVE  DirLeft'
<1> DEFINE r == dTask[s].relay
<1>1. dTask[s] \in DirTask /\ r \in DirectoryRelays /\ dTask[s].at = "joined"
  BY DirAt DEF DirTask, Directory!ReplaceSession
<1>2. /\ dTask'[s].at = "adding" /\ dTask'[s].relay = r
      /\ \A u \in Directory!Sessions : u # s => dTask'[u] = dTask[u]
  <2>1. PICK d : d = Directory!DirectoryOf(dRegistry')
    OBVIOUS
  <2>2. PICK t : t = [dTask[s] EXCEPT !.at = "adding", !.held = d]
    OBVIOUS
  <2>3. t.at = "adding" /\ t.relay = r
    BY <1>1, <2>2 DEF DirTask
  <2>4. dTask' = [dTask EXCEPT ![s] = t]
    BY <2>1, <2>2 DEF Directory!ReplaceSession, Directory!Change, Directory!Set
  <2> QED BY <2>3, <2>4, DirOneTask
<1>3. /\ dRegistry'.session[r] = s /\ \A x \in DirectoryRelays : x # r => dRegistry'.session[x] = dRegistry.session[x]
      /\ dCurrent' = dCurrent /\ dStrays' = IF dCurrent[r] = s THEN dStrays \ {r} ELSE dStrays \cup {r}
  BY <1>1, DirCounts DEF Directory!ReplaceSession, Directory!Change
<1> HIDE DEF r
<1>4. ASSUME NEW x \in DirectoryRelays, x # r
      PROVE  /\ dRegistry.session[x] # 0 => dRegistry.session[x] \in Directory!Sessions \ {s}
             /\ dCurrent[x] # 0 => dCurrent[x] \in Directory!Sessions \ {s}
  BY <1>1, <1>4, DirHolders DEF r
<1>5. "adding" \in Serving
  BY DEF Serving
<1>6. dCurrent[r] # 0 => dCurrent[r] \in Directory!Sessions
  BY <1>1, DirHolders
<1> QED BY <1>1, <1>2, <1>3, <1>4, <1>5, <1>6 DEF DirLeft

LEMMA DirLeftLeaves ==
  ASSUME DirInv, DirLeft, NEW s \in Directory!Sessions, Directory!Leave(s)
  PROVE  DirLeft'
<1> DEFINE r == dTask[s].relay
<1>1. dTask[s] \in DirTask /\ r \in DirectoryRelays /\ dTask[s].at = "leaving" /\ s # 0
  BY DirAt, DirectoryConstants DEF DirTask, Directory!Leave, Directory!Sessions
<1>h. \A x \in DirectoryRelays :
         /\ dRegistry.session[x] # 0 =>
              dRegistry.session[x] \in Directory!Sessions /\ dTask[dRegistry.session[x]].relay = x
         /\ dCurrent[x] # 0 => dCurrent[x] \in Directory!Sessions /\ dTask[dCurrent[x]].relay = x
  BY DirHolders
<1>2. CASE dCurrent[r] = s
  <2>1. /\ dTask' = [dTask EXCEPT ![s] = Directory!Ended(s, "removing")]
        /\ dCurrent' = [dCurrent EXCEPT ![r] = 0] /\ dRegistry' = dRegistry
        /\ dStrays' = IF dRegistry.session[r] \in {0, s} THEN dStrays ELSE dStrays \cup {r}
    BY <1>2 DEF Directory!Leave, Directory!Set
  <2>2. /\ dTask'[s].at = "removing" /\ dTask'[s].relay = r
        /\ \A u \in Directory!Sessions : u # s => dTask'[u] = dTask[u]
    BY <2>1, DirLeftStages DEF Directory!Stages
  <2>3. dCurrent'[r] = 0 /\ \A x \in DirectoryRelays : x # r => dCurrent'[x] = dCurrent[x]
    BY <1>1, <2>1, DirCounts
  <2>4. ASSUME NEW x \in DirectoryRelays, x # r
        PROVE  /\ dRegistry.session[x] # 0 => dRegistry.session[x] \in Directory!Sessions \ {s}
               /\ dCurrent[x] # 0 => dCurrent[x] \in Directory!Sessions \ {s}
    BY <1>h, <2>4
  <2> HIDE DEF r
  <2> QED BY <1>1, <2>1, <2>2, <2>3, <2>4 DEF DirLeft
<1>3. CASE dCurrent[r] # s
  <2>1. /\ dTask' = [dTask EXCEPT ![s] = Directory!Ended(s, "superseded")]
        /\ UNCHANGED <<dCurrent, dRegistry, dStrays>>
    BY <1>3 DEF Directory!Leave, Directory!Set
  <2>2. \A u \in Directory!Sessions : u # s => dTask'[u] = dTask[u]
    BY <2>1, DirLeftStages DEF Directory!Stages
  <2>3. \A x \in DirectoryRelays : dCurrent[x] # 0 => dCurrent[x] \in Directory!Sessions \ {s}
    BY <1>h, <1>3
  <2>4. \A x \in DirectoryRelays : dRegistry.session[x] # 0 /\ dTask[dRegistry.session[x]].at = "removing" =>
           dTask'[dRegistry.session[x]].at = "removing"
    BY <1>1, <1>h, <2>2
  <2> QED BY <2>1, <2>2, <2>3, <2>4 DEF DirLeft
<1> QED BY <1>2, <1>3

LEMMA DirLeftStep ==
  ASSUME DirInv, DirLeft, [Directory!Next]_(Directory!vars)
  PROVE  DirLeft'
<1>h. \A x \in DirectoryRelays :
         /\ dRegistry.session[x] # 0 =>
              dRegistry.session[x] \in Directory!Sessions /\ dTask[dRegistry.session[x]].relay = x
         /\ dCurrent[x] # 0 =>
              /\ dCurrent[x] \in Directory!Sessions /\ dTask[dCurrent[x]].relay = x
              /\ dTask[dCurrent[x]].at \in Serving \cup {"joined", "leaving"}
  BY DirHolders
<1>0. CASE UNCHANGED Directory!vars
  BY <1>0 DEF Directory!vars, DirLeft
<1>1. CASE \E s \in Directory!Sessions :
              \/ \E r \in DirectoryRelays : Directory!Dial(s, r) \/ \E e \in Addresses : Directory!DialAndDiscover(s, r, e)
              \/ Directory!UpdateSession(s) \/ Directory!UpdateRefused(s) \/ Directory!Publish(s)
              \/ Directory!SendDirectory(s) \/ Directory!LoopEnds(s) \/ Directory!HelloFails(s)
              \/ Directory!NothingToRemove(s) \/ Directory!ReportEndpoint(s) \/ Directory!ApplyDirectory(s)
              \/ Directory!RelayLeaves(s) \/ Directory!Cut(s)
  <2>1. UNCHANGED <<dCurrent, dStrays>> /\ dRegistry'.session = dRegistry.session
    BY <1>1, DirCounts
       DEF Directory!Dial, Directory!DialAndDiscover, Directory!UpdateSession, Directory!UpdateRefused,
           Directory!Publish, Directory!SendDirectory, Directory!LoopEnds, Directory!HelloFails,
           Directory!NothingToRemove, Directory!ReportEndpoint, Directory!ApplyDirectory,
           Directory!RelayLeaves, Directory!Cut
  <2>2. DirOnwards
    BY <1>1, DirLeftOnwards, DirLeftSeveral
  <2> QED BY <2>1, <2>2, DirLeftKeeps
<1>2. CASE \E r \in DirectoryRelays, e \in Directory!Reports : Directory!EndpointChanges(r, e)
  <2>1. UNCHANGED <<dCurrent, dStrays, dRegistry>>
    BY <1>2 DEF Directory!EndpointChanges
  <2> QED BY <1>2, <2>1, DirLeftSeveral, DirLeftKeeps
<1>3. ASSUME NEW s \in Directory!Sessions, Directory!Unregister(s) PROVE DirLeft'
  <2> DEFINE r == dTask[s].relay
  <2>1. dTask[s] \in DirTask /\ r \in DirectoryRelays /\ dTask[s].at = "removing"
    BY <1>3, DirAt DEF DirTask, Directory!Unregister
  <2>2. /\ dRegistry'.session[r] = 0 /\ \A x \in DirectoryRelays : x # r => dRegistry'.session[x] = dRegistry.session[x]
        /\ UNCHANGED <<dCurrent, dStrays>> /\ \E t : dTask' = [dTask EXCEPT ![s] = t]
    BY <1>3, <2>1, DirCounts DEF Directory!Unregister, Directory!Change, Directory!Set
  <2>3. \A u \in Directory!Sessions : u # s => dTask'[u] = dTask[u]
    BY <2>2, DirOneTask
  <2>4. \A x \in DirectoryRelays :
           /\ dCurrent[x] # 0 => dCurrent[x] \in Directory!Sessions \ {s}
           /\ dRegistry.session[x] # 0 /\ x # r => dRegistry.session[x] \in Directory!Sessions \ {s}
    BY <1>h, <2>1 DEF Serving
  <2> HIDE DEF r
  <2> QED BY <2>1, <2>2, <2>3, <2>4 DEF DirLeft
<1>4. ASSUME NEW s \in Directory!Sessions, Directory!AllocationFails(s) PROVE DirLeft'
  <2>1. CASE dTask[s].at # "removing"
    <3>1. /\ dTask' = [dTask EXCEPT ![s] = Directory!Ended(s, "leaving")]
          /\ UNCHANGED <<dCurrent, dRegistry, dStrays>> /\ dTask[s].at \in {"joined", "running"}
      BY <1>4, <2>1 DEF Directory!AllocationFails, Directory!Set
    <3>2. /\ dTask'[s].at = "leaving" /\ dTask'[s].relay = dTask[s].relay
          /\ \A u \in Directory!Sessions : u # s => dTask'[u] = dTask[u]
      BY <3>1, DirLeftStages DEF Directory!Stages
    <3>3. DirOnwards
      BY <3>1, <3>2 DEF DirOnwards, Serving
    <3> QED BY <3>1, <3>3, DirLeftKeeps
  <2>2. CASE dTask[s].at = "removing"
    <3> DEFINE r == dTask[s].relay
    <3>1. /\ dTask' = [dTask EXCEPT ![s] = Directory!Ended(s, "failed")]
          /\ UNCHANGED <<dCurrent, dRegistry>> /\ dStrays' = dStrays \cup {r}
      BY <1>4, <2>2 DEF Directory!AllocationFails, Directory!Set
    <3>2. \A u \in Directory!Sessions : u # s => dTask'[u] = dTask[u]
      BY <3>1, DirLeftStages DEF Directory!Stages
    <3>3. \A x \in DirectoryRelays :
             /\ dCurrent[x] # 0 => dCurrent[x] \in Directory!Sessions \ {s}
             /\ dRegistry.session[x] # 0 /\ x # r => dRegistry.session[x] \in Directory!Sessions \ {s}
      BY <1>h, <2>2 DEF Serving
    <3> HIDE DEF r
    <3> QED BY <3>1, <3>2, <3>3 DEF DirLeft
  <2> QED BY <2>1, <2>2
<1>5. CASE Directory!ServerRestart
  <2>1. \A x \in DirectoryRelays : dCurrent'[x] = 0 /\ dRegistry'.session[x] = 0
    BY <1>5 DEF Directory!ServerRestart
  <2> QED BY <2>1 DEF DirLeft
<1> QED
  BY <1>0, <1>1, <1>2, <1>3, <1>4, <1>5, DirLeftJoins, DirLeftReplaces, DirLeftLeaves
     DEF Directory!Next, Directory!SessionStep

LEMMA DirAlways == ControlSpec => [](comp = "directory" => DirInv /\ DirLeft)
<1> DEFINE Inv == comp = "directory" => DirInv /\ DirLeft
<1>1. ControlInit => Inv
  <2> SUFFICES ASSUME Directory!Init PROVE DirInv /\ DirLeft
    BY DEF ControlInit
  <2>1. \A r \in DirectoryRelays : dCurrent[r] = 0 /\ dRegistry.session[r] = 0
    BY DEF Directory!Init
  <2> QED BY <2>1, DirTypeInit DEF DirLeft
<1>2. Inv /\ [ControlNext]_<<vars, shared, comp>> => Inv'
  <2> SUFFICES ASSUME Inv, [ControlNext]_<<vars, shared, comp>>, comp' = "directory"
               PROVE  DirInv' /\ DirLeft'
    OBVIOUS
  <2>1. comp = "directory" /\ [Directory!Next]_(Directory!vars)
    BY DirTurn
  <2> QED BY <2>1, DirNext, DirLeftStep
<1> QED BY <1>1, <1>2, PTL DEF ControlSpec

\* One Relay directory exists per generation, wherever copies of it are; the entry of
\* a Relay session that ended is gone or about to be replaced, but for the three cases
\* in which the code leaves it; and an entry shows the endpoint its Relay has now
\* (server main.rs, RelayDirectoryRegistry and run_relay_session).
THEOREM ControlDirectoryIsSound == ControlSpec => []DirectoryIsSound
<1>1. DirInv => Directory!OneDirectoryPerGeneration
  <2> SUFFICES ASSUME DirInv PROVE Directory!OneDirectoryPerGeneration
    OBVIOUS
  <2>1. \A d \in Directory!Directories : Seen(d)
    BY DEF Directory!Directories, Directory!InFlight, Seen, SeenIn
  <2> QED BY <2>1 DEF DirInv, DirGenerations, Directory!OneDirectoryPerGeneration
<1>2. DirInv /\ DirLeft => Directory!CleanedUp
  <2> SUFFICES ASSUME DirInv, DirLeft, NEW r \in DirectoryRelays, dRegistry.session[r] # 0
               PROVE  LET s == dRegistry.session[r]
                      IN  /\ dTask[s].at # "gone"
                          /\ r \notin dStrays /\ dTask[s].at \in {"superseded", "failed"} =>
                                dCurrent[r] # 0 /\ dTask[dCurrent[r]].at \in {"joined", "leaving"}
    BY DEF Directory!CleanedUp
  <2>1. dTask[dRegistry.session[r]].at \in Entered
        /\ (dCurrent[r] # 0 => dTask[dCurrent[r]].at \in Serving \cup {"joined", "leaving"})
    BY DirHolders
  <2> QED BY <2>1 DEF DirLeft, Entered, Serving
<1>3. DirInv => Directory!EntryIsCurrent
  <2> SUFFICES ASSUME DirInv, NEW s \in Directory!Sessions,
                      dTask[s].at = "running", dTask[s].open, ~dTask[s].news, dTask[s].up = <<>>,
                      dRegistry.session[dTask[s].relay] = s
               PROVE  /\ dRegistry.endpoint[dTask[s].relay] = dAdvertised[dTask[s].relay]
                      /\ dTask[s].endpoint = dAdvertised[dTask[s].relay]
    BY DEF Directory!EntryIsCurrent
  <2>1. dTask[s].relay \in DirectoryRelays /\ s # 0
    BY DirAt, DirectoryConstants DEF DirTask, Directory!Sessions
  <2>2. dTask[s].at \in Serving
    BY DEF Serving
  <2> QED BY <2>1, <2>2, DirAt DEF DirInv, DirEntry, DirReported
<1>4. (comp = "directory" => DirInv /\ DirLeft) => DirectoryIsSound
  BY <1>1, <1>2, <1>3 DEF DirectoryIsSound
<1> QED BY <1>4, DirAlways, PTL

\* Once every change is published and read, a connected Relay holds the directory
\* (replace_relay_session_endpoint, apply_relay_directory).
THEOREM ControlRelaysShareTheDirectory == ControlSpec => []RelaysShareTheDirectory
<1>1. ASSUME DirInv PROVE Directory!RelaysShareTheDirectory
  <2> SUFFICES ASSUME NEW s \in Directory!Sessions, dTask[s].at = "running", dTask[s].open,
                      ~dTask[s].dirty, dTask[s].down = <<>>, Directory!Holding = {}, ~dOverlap
               PROVE  dCopy[dTask[s].relay] = Directory!DirectoryOf(dRegistry)
    BY DEF Directory!RelaysShareTheDirectory
  <2>1. dTask[s].relay \in DirectoryRelays
    BY <1>1, DirAt DEF DirTask
  <2>2. dPublished = Directory!DirectoryOf(dRegistry)
    BY <1>1 DEF DirInv, DirOrder
  <2>3. dCopy[dTask[s].relay].generation >= dRegistry.generation
    BY <1>1, <2>2, DirAt, DirKnown DEF DirSent
  <2>4. Seen(dCopy[dTask[s].relay]) /\ dCopy[dTask[s].relay].generation <= dRegistry.generation
    BY <1>1, <2>1, DirKnown DEF DirInv, DirGenerations
  <2>5. dCopy[dTask[s].relay].generation = Directory!DirectoryOf(dRegistry).generation
    BY <1>1, <2>1, <2>3, <2>4, DirKnown
  <2> QED BY <1>1, <2>4, <2>5, DirKnown DEF DirInv, DirGenerations
<1>2. (comp = "directory" => DirInv /\ DirLeft) => RelaysShareTheDirectory
  BY <1>1 DEF RelaysShareTheDirectory
<1> QED BY <1>2, DirAlways, PTL

-----------------------------------------------------------------------------
(* Remote enrollment of a Travel (module RemoteEnrollment).                 *)

rOutbox == v1
rIdentity == v2
rChanges == v3
rPoll == v4
rWaiting == v5
rPending == v6
rToHome == v7
rToServer == v8
rToTravel == v9
rInbox == v10
rLedger == v11
rApproval == v12
rPublished == v13
rSigned == v14
rConfirmed == v15
rMishaps == v16
rUnjournaled == v17
USE DEF rOutbox, rIdentity, rChanges, rPoll, rWaiting, rPending, rToHome, rToServer, rToTravel,
        rInbox, rLedger, rApproval, rPublished, rSigned, rConfirmed, rMishaps, rUnjournaled

\* One credential is published.  The file of the ledger has it, or the write that should
\* have put it there failed; the memory of the ledger is the file, or ahead of it by such
\* a credential; and later approvals answer with what is published.
RemotePublished ==
    /\ \A m, n \in rPublished.credentials : m = n
    /\ \A n \in rPublished.credentials : n \in rUnjournaled \/ n = rLedger.disk.credential
    /\ rLedger.disk.credential \in {0, rLedger.memory.credential}
    /\ rLedger.memory.credential # 0 =>
          \/ rLedger.memory.credential = rLedger.disk.credential
          \/ rLedger.memory.credential \in rUnjournaled
    /\ rLedger.memory.published => rLedger.memory.credential \in rPublished.credentials
    /\ rLedger.disk.published => rLedger.disk.credential \in rPublished.credentials
    /\ rInbox.response # 0 => rInbox.response \in rPublished.credentials

\* So is every credential on its way to the Travel.
Carries(queue, credentials) ==
    \A i \in 1..Len(queue) : queue[i].response # 0 => queue[i].response \in credentials

RemoteCarried ==
    /\ Carries(rToServer, rPublished.credentials)
    /\ Carries(rToTravel, rPublished.credentials)
    /\ rOutbox.response # 0 => rOutbox.response \in rPublished.credentials

\* An approval works with the credential in the memory of the ledger, or has yet to put
\* it there; and one at a time works on the ledger.
AtLedger == {"issuing", "publishing", "marking"}

ApprovalFits(a, held, credentials) ==
    /\ a.at = "issuing" => held = 0 /\ a.credential # 0
    /\ a.at \in {"publishing", "marking"} => a.credential = held /\ a.credential # 0
    /\ a.at \in {"marking", "committing"} => a.credential \in credentials

RemoteLedger ==
    /\ \A a \in InboxApprovers :
          ApprovalFits(rApproval[a], rLedger.memory.credential, rPublished.credentials)
    /\ \A a, b \in InboxApprovers :
          rApproval[a].at \in AtLedger /\ rApproval[b].at \in AtLedger => a = b

\* The raises to come have numbers; and the session knows of what is due, or a writer
\* has yet to raise the generation, or the generation is not the one it has checked or
\* is about to have checked.
RemoteScans ==
    /\ rChanges.generation + rChanges.owed <= MaxChanges
    /\ rPoll.loaded <= rChanges.generation /\ rPoll.checked <= rChanges.generation
    /\ rOutbox.known => rChanges.generation + rChanges.owed > 0
    /\ rPoll.inflight => rPoll.pending /\ rPoll.at = "idle"
    /\ Remote!Due # "nothing" /\ rChanges.owed = 0 =>
          /\ rPoll.at = "idle" => rPoll.pending \/ rChanges.generation # rPoll.checked
          /\ rPoll.at = "scanned" =>
                rPoll.found.due # "nothing" \/ rChanges.generation # rPoll.loaded

RemoteInv ==
    Remote!TypeOK /\ RemotePublished /\ RemoteCarried /\ RemoteLedger /\ RemoteScans

LEMMA RemoteTurn ==
  ASSUME [ControlNext]_<<vars, shared, comp>>, comp' = "remote"
  PROVE  comp = "remote" /\ [Remote!Next]_(Remote!vars)
  BY DEF ControlNext, DirectoryStep, LoginStep, TrustStep, NewHomeStep, RemoteStep,
         HomesStep, SessionStep, shared, Remote!vars, Remote!travel, Remote!network, Remote!home

\* The kinds of the values, by the program that keeps them.
RemotePoll ==
    [at : {"idle", "scanning", "scanned"}, loaded : 0..MaxChanges,
     found : [due : {"nothing"} \cup Remote!Stages, credential : 0..MaxCredentials],
     checked : 0..MaxChanges, pending : BOOLEAN, inflight : BOOLEAN]
USE DEF RemotePoll

TravelKinds ==
    /\ rOutbox \in Remote!Record
    /\ rIdentity \in [stored : {"old", "new"}, running : {"old", "new"}]
    /\ rChanges \in [generation : 0..MaxChanges, owed : 0..MaxChanges]
    /\ rPoll \in RemotePoll
NetworkKinds ==
    /\ rWaiting \in [Remote!Stages -> {"none", "live", "stale"}]
    /\ rPending \in {"none"} \cup Remote!Stages
    /\ rToHome \in Seq(Remote!Stages)
    /\ rToServer \in Seq(Remote!Result) /\ rToTravel \in Seq(Remote!Result)
HomeKinds ==
    /\ rInbox \in Remote!Record
    /\ rLedger \in [disk : Remote!Issue, memory : Remote!Issue]
    /\ rUnjournaled \subseteq 1..MaxCredentials
    /\ rApproval \in [InboxApprovers ->
          [at : {"idle", "read", "issuing", "publishing", "marking", "committing"},
           read : Remote!Record, credential : 0..MaxCredentials]]
    /\ rPublished \in [credentials : SUBSET (1..MaxCredentials),
                       revoked : SUBSET (1..MaxCredentials)]
    /\ rSigned \in 0..MaxCredentials /\ rConfirmed \in BOOLEAN

LEMMA RemoteKinds ==
  Remote!TypeOK <=> TravelKinds /\ NetworkKinds /\ HomeKinds /\ rMishaps \in 0..MaxMishaps
  BY DEF Remote!TypeOK, TravelKinds, NetworkKinds, HomeKinds, Remote!CredentialIds

\* The mishaps are counted.
LEMMA RemoteMishaps ==
  ASSUME rMishaps \in 0..MaxMishaps, Remote!Mishap \/ UNCHANGED rMishaps
  PROVE  rMishaps' \in 0..MaxMishaps
  BY EnrollmentConstants DEF Remote!Mishap

LEMMA RemoteMishapsStep ==
  ASSUME rMishaps \in 0..MaxMishaps, Remote!Next
  PROVE  rMishaps' \in 0..MaxMishaps
<1>1. Remote!Mishap \/ UNCHANGED rMishaps
  BY Zenon DEF Remote!Next, Remote!CreateRequest, Remote!MarkOutboxChanged, Remote!LoadGeneration,
     Remote!Scan, Remote!Poll, Remote!GiveUpInflight, Remote!ApplyResult,
     Remote!ApplyAcknowledgement, Remote!Install, Remote!RestartTravel, Remote!RelayTimesOut,
     Remote!ServerExpires, Remote!CompleteResult, Remote!CompleteAcknowledgement,
     Remote!TakeResponse, Remote!PersistRequest, Remote!ConfirmInstalled, Remote!ReadInbox,
     Remote!RefuseApproval, Remote!FindInLedger, Remote!JournalPending,
     Remote!JournalFails, Remote!Publish, Remote!MarkPublished, Remote!MarkFails,
     Remote!CommitResponse, Remote!issuer, Remote!Revoke, Remote!HomeRestart,
     Remote!PruneInbox, Remote!PruneOutbox
<1> QED BY <1>1, RemoteMishaps

\* The records of the module, field by field.
LEMMA RemoteRecords ==
  /\ Remote!NoRecord \in Remote!Record
  /\ Remote!NoRecord.known = FALSE /\ Remote!NoRecord.response = 0
  /\ Remote!NoRecord.installed = FALSE
  /\ Remote!Nothing \in [due : {"nothing"} \cup Remote!Stages, credential : 0..MaxCredentials]
  /\ Remote!Nothing.due = "nothing"
<1>1. PICK zero \in 0..MaxCredentials : zero = 0
  BY EnrollmentConstants
<1>2. PICK no \in BOOLEAN : no = FALSE
  OBVIOUS
<1>3. Remote!NoRecord = [known |-> no, response |-> zero, installed |-> no]
  BY <1>1, <1>2 DEF Remote!NoRecord, Remote!None
<1>4. PICK nothing \in {"nothing"} \cup Remote!Stages : nothing = "nothing"
  OBVIOUS
<1>5. Remote!Nothing = [due |-> nothing, credential |-> zero]
  BY <1>1, <1>4 DEF Remote!Nothing, Remote!None
<1>6. Remote!NoRecord \in Remote!Record
  BY <1>3 DEF Remote!Record
<1>7. Remote!Nothing \in [due : {"nothing"} \cup Remote!Stages, credential : 0..MaxCredentials]
  BY <1>5
<1> QED BY <1>6, <1>7 DEF Remote!NoRecord, Remote!Nothing, Remote!None

(***************************************************************************)
(* What the Travel keeps: its record, its generations and its poll.        *)
(***************************************************************************)
LEMMA TravelIdle ==
  ASSUME TravelKinds, RemoteScans, UNCHANGED <<rOutbox, rIdentity, rChanges, rPoll>>
  PROVE  TravelKinds' /\ RemoteScans'
  BY DEF TravelKinds, RemoteScans, Remote!Due, Remote!Record, Remote!Stages

\* A change of the record that leaves a writer owing its generation.
LEMMA TravelOwes ==
  ASSUME TravelKinds, RemoteScans, Remote!Owes, rOutbox' \in Remote!Record,
         rIdentity' \in [stored : {"old", "new"}, running : {"old", "new"}],
         \/ UNCHANGED rPoll
         \/ rPoll.at = "idle" /\ rPoll' = [rPoll EXCEPT !.inflight = FALSE]
  PROVE  TravelKinds' /\ RemoteScans'
<1> DEFINE c == rChanges'
<1>1. /\ rChanges' \in [generation : 0..MaxChanges, owed : 0..MaxChanges]
      /\ rChanges'.generation = rChanges.generation /\ rChanges'.owed = rChanges.owed + 1
      /\ rChanges.generation + rChanges.owed < MaxChanges
  BY EnrollmentConstants DEF Remote!Owes, TravelKinds
<1>2. PICK no \in BOOLEAN : no = FALSE
  OBVIOUS
<1>3. /\ rPoll' \in RemotePoll
      /\ rPoll'.loaded = rPoll.loaded /\ rPoll'.checked = rPoll.checked
      /\ rPoll'.at = rPoll.at /\ rPoll'.pending = rPoll.pending
      /\ rPoll'.inflight => rPoll.inflight
  BY <1>2 DEF TravelKinds
<1>4. TravelKinds'
  BY <1>1, <1>3 DEF TravelKinds
<1>5. /\ rPoll.loaded <= rChanges.generation /\ rPoll.checked <= rChanges.generation
      /\ rPoll.inflight => rPoll.pending /\ rPoll.at = "idle"
      /\ rChanges.generation \in Nat /\ rChanges.owed \in Nat
  BY DEF RemoteScans, TravelKinds
<1>6. rChanges'.owed # 0 /\ rChanges'.generation + rChanges'.owed > 0
      /\ rChanges'.generation + rChanges'.owed <= MaxChanges
  BY <1>1, <1>5, EnrollmentConstants
<1>7. rPoll'.inflight => rPoll'.pending /\ rPoll'.at = "idle"
  BY <1>3, <1>5
<1>8. RemoteScans'
  BY <1>1, <1>3, <1>5, <1>6, <1>7 DEF RemoteScans
<1> QED BY <1>4, <1>8

\* A session that begins knows of a record by the generation.
LEMMA TravelRenewed ==
  ASSUME TravelKinds, RemoteScans, rChanges' \in [generation : 0..MaxChanges, owed : 0..MaxChanges],
         rOutbox' \in Remote!Record,
         rIdentity' \in [stored : {"old", "new"}, running : {"old", "new"}],
         rChanges'.generation + rChanges'.owed <= MaxChanges,
         rOutbox'.known => rChanges'.generation + rChanges'.owed > 0,
         rPoll' = Remote!NewSession(rChanges'.generation)
  PROVE  TravelKinds' /\ RemoteScans'
<1> DEFINE g == rChanges'.generation
           some == g # 0
<1>1. PICK zero \in 0..MaxChanges : zero = 0
  BY EnrollmentConstants
<1>2. PICK no \in BOOLEAN : no = FALSE
  OBVIOUS
<1>3. PICK at \in {"idle", "scanning", "scanned"} : at = "idle"
  OBVIOUS
<1>4. some \in BOOLEAN /\ (some <=> g # 0)
  OBVIOUS
<1>5. rPoll' = [at |-> at, loaded |-> zero, found |-> Remote!Nothing, checked |-> zero,
                pending |-> some, inflight |-> no]
  BY <1>1, <1>2, <1>3 DEF Remote!NewSession
<1> HIDE DEF some
<1>6. PICK seen \in BOOLEAN : seen = some
  BY <1>4, Zenon
<1>7. rPoll' = [at |-> at, loaded |-> zero, found |-> Remote!Nothing, checked |-> zero,
                pending |-> seen, inflight |-> no]
  BY <1>5, <1>6
<1>8. /\ rPoll' \in RemotePoll
      /\ rPoll'.loaded = 0 /\ rPoll'.checked = 0 /\ rPoll'.at = "idle" /\ rPoll'.inflight = FALSE
      /\ rPoll'.pending = seen
  BY <1>1, <1>2, <1>3, <1>7, RemoteRecords
<1>9. seen <=> g # 0
  BY <1>4, <1>6, Zenon
<1>10. TravelKinds'
  BY <1>8 DEF TravelKinds
<1>11. Remote!Due' # "nothing" => rOutbox'.known
  BY DEF Remote!Due
<1>12. g \in Nat /\ rChanges'.owed \in Nat
  BY EnrollmentConstants
<1>13. RemoteScans'
  BY <1>8, <1>9, <1>11, <1>12 DEF RemoteScans
<1> QED BY <1>10, <1>13

LEMMA TravelEnds ==
  ASSUME TravelKinds, RemoteScans, Remote!EndSession, UNCHANGED <<rOutbox, rIdentity, rChanges>>
  PROVE  TravelKinds' /\ RemoteScans'
<1>1. /\ rChanges' \in [generation : 0..MaxChanges, owed : 0..MaxChanges]
      /\ rOutbox' \in Remote!Record
      /\ rIdentity' \in [stored : {"old", "new"}, running : {"old", "new"}]
  BY DEF TravelKinds
<1>2. /\ rChanges'.generation + rChanges'.owed <= MaxChanges
      /\ rOutbox'.known => rChanges'.generation + rChanges'.owed > 0
  BY DEF RemoteScans
<1>3. rPoll' = Remote!NewSession(rChanges'.generation)
  BY DEF Remote!EndSession
<1> QED BY <1>1, <1>2, <1>3, TravelRenewed

\* A request in flight that is given up or answered stays known to the session.
LEMMA TravelLands ==
  ASSUME TravelKinds, RemoteScans, rPoll.at = "idle",
         rPoll' = [rPoll EXCEPT !.inflight = FALSE], UNCHANGED <<rOutbox, rIdentity, rChanges>>
  PROVE  TravelKinds' /\ RemoteScans'
<1>2. PICK no \in BOOLEAN : no = FALSE
  OBVIOUS
<1>3. /\ rPoll' \in RemotePoll
      /\ rPoll'.loaded = rPoll.loaded /\ rPoll'.checked = rPoll.checked
      /\ rPoll'.at = rPoll.at /\ rPoll'.pending = rPoll.pending
      /\ rPoll'.inflight = FALSE /\ rPoll'.found = rPoll.found
  BY <1>2 DEF TravelKinds
<1>4. TravelKinds'
  BY <1>3 DEF TravelKinds
<1>5. Remote!Due' = Remote!Due
  BY DEF Remote!Due
<1>6. RemoteScans'
  BY <1>3, <1>5 DEF RemoteScans
<1> QED BY <1>4, <1>6

LEMMA TravelCreates ==
  ASSUME TravelKinds, RemoteScans, Remote!CreateRequest
  PROVE  TravelKinds' /\ RemoteScans'
<1>1. PICK yes \in BOOLEAN : yes = TRUE
  OBVIOUS
<1>2. rOutbox' = [Remote!NoRecord EXCEPT !.known = yes]
  BY <1>1 DEF Remote!CreateRequest
<1>3. rOutbox' \in Remote!Record
  BY <1>2, RemoteRecords DEF Remote!Record
<1>4. Remote!Owes /\ UNCHANGED <<rIdentity, rPoll>>
  BY DEF Remote!CreateRequest
<1>5. rIdentity' \in [stored : {"old", "new"}, running : {"old", "new"}]
  BY <1>4 DEF TravelKinds
<1> QED BY <1>3, <1>4, <1>5, TravelOwes

LEMMA TravelMarks ==
  ASSUME TravelKinds, RemoteScans, Remote!MarkOutboxChanged
  PROVE  TravelKinds' /\ RemoteScans'
<1>1. /\ rChanges.owed > 0 /\ UNCHANGED <<rOutbox, rIdentity, rPoll>>
      /\ rChanges' = [generation |-> rChanges.generation + 1, owed |-> rChanges.owed - 1]
  BY DEF Remote!MarkOutboxChanged
<1>2. /\ rChanges.generation \in 0..MaxChanges /\ rChanges.owed \in 0..MaxChanges
      /\ rChanges.generation + rChanges.owed <= MaxChanges
      /\ rPoll.loaded <= rChanges.generation /\ rPoll.checked <= rChanges.generation
      /\ rPoll.loaded \in 0..MaxChanges /\ rPoll.checked \in 0..MaxChanges
  BY DEF TravelKinds, RemoteScans
<1>3. /\ rChanges.generation + 1 \in 0..MaxChanges /\ rChanges.owed - 1 \in 0..MaxChanges
      /\ rChanges.generation + 1 + (rChanges.owed - 1) <= MaxChanges
      /\ rChanges.generation + 1 + (rChanges.owed - 1) > 0
      /\ rPoll.loaded <= rChanges.generation + 1 /\ rPoll.checked <= rChanges.generation + 1
      /\ rPoll.loaded # rChanges.generation + 1 /\ rPoll.checked # rChanges.generation + 1
  BY <1>1, <1>2, EnrollmentConstants
<1>4. TravelKinds'
  BY <1>1, <1>3 DEF TravelKinds
<1>5. rPoll.inflight => rPoll.pending /\ rPoll.at = "idle"
  BY DEF RemoteScans
<1>6. RemoteScans'
  BY <1>1, <1>3, <1>5 DEF RemoteScans
<1> QED BY <1>4, <1>6

LEMMA TravelLoads ==
  ASSUME TravelKinds, RemoteScans, Remote!LoadGeneration
  PROVE  TravelKinds' /\ RemoteScans'
<1>1. /\ rPoll.at = "idle" /\ ~rPoll.inflight /\ UNCHANGED <<rOutbox, rIdentity, rChanges>>
      /\ rPoll' = [rPoll EXCEPT !.at = "scanning", !.loaded = rChanges.generation]
  BY DEF Remote!LoadGeneration, Remote!ScanNeeded
<1>2. PICK at \in {"idle", "scanning", "scanned"} : at = "scanning"
  OBVIOUS
<1>3. rPoll' = [rPoll EXCEPT !.at = at, !.loaded = rChanges.generation]
  BY <1>1, <1>2
<1>4. /\ rPoll' \in RemotePoll
      /\ rPoll'.at = at /\ rPoll'.loaded = rChanges.generation
      /\ rPoll'.checked = rPoll.checked /\ rPoll'.inflight = rPoll.inflight
  BY <1>3 DEF TravelKinds
<1>5. TravelKinds'
  BY <1>1, <1>4 DEF TravelKinds
<1>6. rChanges.generation <= rChanges.generation
  BY DEF TravelKinds
<1>7. RemoteScans'
  BY <1>1, <1>2, <1>4, <1>6 DEF RemoteScans
<1> QED BY <1>5, <1>7

LEMMA TravelScans ==
  ASSUME TravelKinds, RemoteScans, Remote!Scan
  PROVE  TravelKinds' /\ RemoteScans'
<1> DEFINE due == Remote!Due
           found == [due |-> due, credential |-> rOutbox.response]
<1>1. /\ rPoll.at = "scanning" /\ UNCHANGED <<rOutbox, rIdentity, rChanges>>
      /\ rPoll' = [rPoll EXCEPT !.at = "scanned", !.found = found]
  BY DEF Remote!Scan
<1>2. PICK at \in {"idle", "scanning", "scanned"} : at = "scanned"
  OBVIOUS
<1>3. due \in {"nothing"} \cup Remote!Stages
  BY DEF Remote!Due, Remote!Stages
<1>4. rOutbox.response \in 0..MaxCredentials
  BY DEF TravelKinds, Remote!Record
<1> HIDE DEF due
<1>5. /\ found \in [due : {"nothing"} \cup Remote!Stages, credential : 0..MaxCredentials]
      /\ found.due = due
  BY <1>3, <1>4
<1> HIDE DEF found
<1>6. rPoll' = [rPoll EXCEPT !.at = at, !.found = found]
  BY <1>1, <1>2
<1>7. /\ rPoll' \in RemotePoll
      /\ rPoll'.at = at /\ rPoll'.found = found /\ rPoll'.loaded = rPoll.loaded
      /\ rPoll'.checked = rPoll.checked /\ rPoll'.inflight = rPoll.inflight
  BY <1>5, <1>6 DEF TravelKinds
<1>8. TravelKinds'
  BY <1>1, <1>7 DEF TravelKinds
<1>9. Remote!Due' = due
  BY <1>1 DEF due, Remote!Due
<1>10. RemoteScans'
  BY <1>1, <1>2, <1>5, <1>7, <1>9 DEF RemoteScans
<1> QED BY <1>8, <1>10

LEMMA TravelPolls ==
  ASSUME TravelKinds, RemoteScans, Remote!Poll
  PROVE  TravelKinds' /\ RemoteScans'
<1> DEFINE some == rPoll.found.due # "nothing"
           upto == IF rPoll.found.due = "nothing" THEN rPoll.loaded ELSE rPoll.checked
<1>1. PICK sent \in BOOLEAN :
        /\ rPoll.at = "scanned" /\ UNCHANGED <<rOutbox, rIdentity, rChanges>>
        /\ sent = FALSE => rPoll' = Remote!Checked
        /\ sent = TRUE => rPoll.found.due # "nothing" /\ rPoll' = [Remote!Checked EXCEPT !.inflight = sent]
  <2>1. rPoll.at = "scanned" /\ UNCHANGED <<rOutbox, rIdentity, rChanges>>
    BY DEF Remote!Poll
  <2>2. CASE rPoll' = Remote!Checked
    <3>1. PICK no \in BOOLEAN : no = FALSE
      OBVIOUS
    <3> QED BY <2>1, <2>2, <3>1
  <2>3. CASE rPoll.found.due # "nothing" /\ rPoll' = [Remote!Checked EXCEPT !.inflight = TRUE]
    <3>1. PICK yes \in BOOLEAN : yes = TRUE
      OBVIOUS
    <3> QED BY <2>1, <2>3, <3>1
  <2>4. \/ rPoll' = Remote!Checked
        \/ rPoll.found.due # "nothing" /\ rPoll' = [Remote!Checked EXCEPT !.inflight = TRUE]
    BY DEF Remote!Poll
  <2> QED BY <2>2, <2>3, <2>4
<1>2. PICK at \in {"idle", "scanning", "scanned"} : at = "idle"
  OBVIOUS
<1>3. PICK zero \in 0..MaxChanges : zero = 0
  BY EnrollmentConstants
<1>4. some \in BOOLEAN
  OBVIOUS
<1>5. upto \in 0..MaxChanges /\ upto <= rChanges.generation
  BY DEF TravelKinds, RemoteScans
<1>6. Remote!Checked = [rPoll EXCEPT !.at = at, !.loaded = zero, !.found = Remote!Nothing,
                                     !.pending = some, !.checked = upto]
  BY <1>2, <1>3 DEF Remote!Checked
<1>7. /\ some => rPoll.found.due # "nothing"
      /\ ~some => rPoll.found.due = "nothing" /\ upto = rPoll.loaded
  OBVIOUS
<1>8. rPoll.inflight = FALSE
  BY <1>1 DEF RemoteScans, TravelKinds
<1> HIDE DEF some, upto
<1>9. PICK seen \in BOOLEAN : seen = some
  BY <1>4, Zenon
<1>10. rPoll' = [at |-> at, loaded |-> zero, found |-> Remote!Nothing, checked |-> upto,
                 pending |-> seen, inflight |-> sent]
  <2>1. Remote!Checked = [rPoll EXCEPT !.at = at, !.loaded = zero, !.found = Remote!Nothing,
                                       !.pending = seen, !.checked = upto]
    BY <1>6, <1>9
  <2>2. Remote!Checked = [at |-> at, loaded |-> zero, found |-> Remote!Nothing, checked |-> upto,
                          pending |-> seen, inflight |-> rPoll.inflight]
    BY <2>1 DEF TravelKinds
  <2> QED BY <1>1, <1>8, <2>2
<1>11. /\ rPoll' \in RemotePoll
       /\ rPoll'.at = at /\ rPoll'.loaded = zero /\ rPoll'.checked = upto
       /\ rPoll'.pending = seen /\ rPoll'.inflight = sent
  BY <1>5, <1>10, RemoteRecords
<1>12. TravelKinds'
  BY <1>1, <1>11 DEF TravelKinds
<1>13. sent = TRUE => seen = TRUE
  BY <1>1, <1>7, <1>9, Zenon
<1>14. Remote!Due' = Remote!Due
  BY <1>1 DEF Remote!Due
<1>15. Remote!Due # "nothing" /\ rChanges.owed = 0 => seen = TRUE \/ rChanges.generation # upto
  <2>1. Remote!Due # "nothing" /\ rChanges.owed = 0 =>
          rPoll.found.due # "nothing" \/ rChanges.generation # rPoll.loaded
    BY <1>1 DEF RemoteScans
  <2> QED BY <2>1, <1>7, <1>9, Zenon
<1>16. /\ rChanges.generation + rChanges.owed <= MaxChanges /\ rChanges.generation \in Nat
       /\ rOutbox.known => rChanges.generation + rChanges.owed > 0
  BY DEF RemoteScans, TravelKinds
<1>17. RemoteScans'
  BY <1>1, <1>2, <1>3, <1>5, <1>11, <1>13, <1>14, <1>15, <1>16 DEF RemoteScans
<1> QED BY <1>12, <1>17

LEMMA TravelGivesUp ==
  ASSUME TravelKinds, RemoteScans, Remote!GiveUpInflight
  PROVE  TravelKinds' /\ RemoteScans'
<1>1. /\ rPoll.at = "idle" /\ UNCHANGED <<rOutbox, rIdentity, rChanges>>
      /\ rPoll' = [rPoll EXCEPT !.inflight = FALSE]
  BY DEF Remote!GiveUpInflight
<1> QED BY <1>1, TravelLands

\* A result at the head of the queue carries a credential number.
LEMMA TravelHead ==
  ASSUME NetworkKinds, rToTravel # <<>>
  PROVE  Head(rToTravel) \in Remote!Result /\ Head(rToTravel).response \in 0..MaxCredentials
<1>1. Head(rToTravel) \in Remote!Result
  BY HeadTailProperties DEF NetworkKinds
<1> QED BY <1>1 DEF Remote!Result

LEMMA TravelApplies ==
  ASSUME TravelKinds, RemoteScans, NetworkKinds, Remote!ApplyResult
  PROVE  TravelKinds' /\ RemoteScans'
<1> DEFINE result == Head(rToTravel)
<1>1. rPoll.at = "idle" /\ rToTravel # <<>> /\ UNCHANGED rIdentity
  BY DEF Remote!ApplyResult
<1>2. result.response \in 0..MaxCredentials
  BY <1>1, TravelHead
<1>3. \/ rPoll' = [rPoll EXCEPT !.inflight = FALSE] /\ UNCHANGED <<rOutbox, rChanges>>
      \/ /\ rOutbox' = [rOutbox EXCEPT !.response = result.response]
         /\ rPoll' = [rPoll EXCEPT !.inflight = FALSE] /\ Remote!Owes
      \/ Remote!EndSession /\ UNCHANGED <<rOutbox, rChanges>>
  BY DEF Remote!ApplyResult
<1> HIDE DEF result
<1>4. CASE rPoll' = [rPoll EXCEPT !.inflight = FALSE] /\ UNCHANGED <<rOutbox, rChanges>>
  BY <1>1, <1>4, TravelLands
<1>5. CASE /\ rOutbox' = [rOutbox EXCEPT !.response = result.response]
           /\ rPoll' = [rPoll EXCEPT !.inflight = FALSE] /\ Remote!Owes
  <2>1. rOutbox' \in Remote!Record
    BY <1>2, <1>5 DEF TravelKinds, Remote!Record
  <2>2. rIdentity' \in [stored : {"old", "new"}, running : {"old", "new"}]
    BY <1>1 DEF TravelKinds
  <2> QED BY <1>1, <1>5, <2>1, <2>2, TravelOwes
<1>6. CASE Remote!EndSession /\ UNCHANGED <<rOutbox, rChanges>>
  BY <1>1, <1>6, TravelEnds
<1> QED BY <1>3, <1>4, <1>5, <1>6

LEMMA TravelAcknowledges ==
  ASSUME TravelKinds, RemoteScans, Remote!ApplyAcknowledgement
  PROVE  TravelKinds' /\ RemoteScans'
<1>1. rPoll.at = "idle" /\ UNCHANGED rIdentity
  BY DEF Remote!ApplyAcknowledgement
<1>2. \/ rPoll' = [rPoll EXCEPT !.inflight = FALSE] /\ UNCHANGED <<rOutbox, rChanges>>
      \/ /\ rOutbox' = Remote!NoRecord
         /\ rPoll' = [rPoll EXCEPT !.inflight = FALSE] /\ Remote!Owes
      \/ Remote!EndSession /\ UNCHANGED <<rOutbox, rChanges>>
  BY DEF Remote!ApplyAcknowledgement
<1>3. CASE rPoll' = [rPoll EXCEPT !.inflight = FALSE] /\ UNCHANGED <<rOutbox, rChanges>>
  BY <1>1, <1>3, TravelLands
<1>4. CASE /\ rOutbox' = Remote!NoRecord
           /\ rPoll' = [rPoll EXCEPT !.inflight = FALSE] /\ Remote!Owes
  <2>1. rOutbox' \in Remote!Record
    BY <1>4, RemoteRecords
  <2>2. rIdentity' \in [stored : {"old", "new"}, running : {"old", "new"}]
    BY <1>1 DEF TravelKinds
  <2> QED BY <1>1, <1>4, <2>1, <2>2, TravelOwes
<1>5. CASE Remote!EndSession /\ UNCHANGED <<rOutbox, rChanges>>
  BY <1>1, <1>5, TravelEnds
<1> QED BY <1>2, <1>3, <1>4, <1>5

LEMMA TravelInstalls ==
  ASSUME TravelKinds, RemoteScans, Remote!Install
  PROVE  TravelKinds' /\ RemoteScans'
<1>1. PICK yes \in BOOLEAN : yes = TRUE
  OBVIOUS
<1>2. PICK new \in {"old", "new"} : new = "new"
  OBVIOUS
<1>3. /\ rOutbox' = [rOutbox EXCEPT !.installed = yes]
      /\ rIdentity' = [rIdentity EXCEPT !.stored = new] /\ Remote!Owes /\ UNCHANGED rPoll
  BY <1>1, <1>2 DEF Remote!Install
<1>4. rOutbox' \in Remote!Record
  BY <1>3 DEF TravelKinds, Remote!Record
<1>5. rIdentity' \in [stored : {"old", "new"}, running : {"old", "new"}]
  BY <1>3 DEF TravelKinds
<1> QED BY <1>3, <1>4, <1>5, TravelOwes

LEMMA TravelRestarts ==
  ASSUME TravelKinds, RemoteScans, Remote!RestartTravel
  PROVE  TravelKinds' /\ RemoteScans'
<1> DEFINE first == IF rOutbox.known THEN 1 ELSE 0
<1>1. /\ rIdentity' = [rIdentity EXCEPT !.running = rIdentity.stored]
      /\ rChanges' = [generation |-> first, owed |-> 0]
      /\ rPoll' = Remote!NewSession(first) /\ UNCHANGED rOutbox
  BY DEF Remote!RestartTravel
<1>2. first \in 0..MaxChanges /\ first + 0 <= MaxChanges /\ 0 \in 0..MaxChanges
      /\ (rOutbox.known => first + 0 > 0)
  BY EnrollmentConstants
<1> HIDE DEF first
<1>3. rIdentity' \in [stored : {"old", "new"}, running : {"old", "new"}]
  BY <1>1 DEF TravelKinds
<1>4. /\ rChanges' \in [generation : 0..MaxChanges, owed : 0..MaxChanges]
      /\ rChanges'.generation = first /\ rChanges'.owed = 0
  BY <1>1, <1>2
<1>5. rOutbox' \in Remote!Record
  BY <1>1 DEF TravelKinds
<1>6. /\ rChanges'.generation + rChanges'.owed <= MaxChanges
      /\ rOutbox'.known => rChanges'.generation + rChanges'.owed > 0
      /\ rPoll' = Remote!NewSession(rChanges'.generation)
  BY <1>1, <1>2, <1>4
<1> QED BY <1>3, <1>4, <1>5, <1>6, TravelRenewed

LEMMA TravelPrunes ==
  ASSUME TravelKinds, RemoteScans, Remote!PruneOutbox
  PROVE  TravelKinds' /\ RemoteScans'
<1>1. rOutbox' = Remote!NoRecord /\ UNCHANGED <<rIdentity, rChanges, rPoll>>
  BY DEF Remote!PruneOutbox
<1>2. TravelKinds'
  BY <1>1, RemoteRecords DEF TravelKinds
<1>3. rOutbox'.known = FALSE /\ Remote!Due' = "nothing"
  BY <1>1, RemoteRecords DEF Remote!Due
<1>4. RemoteScans'
  BY <1>1, <1>3 DEF RemoteScans
<1> QED BY <1>2, <1>4

\* The steps of the Travel.
LEMMA TravelActs ==
  ASSUME [Remote!Next]_(Remote!vars)
  PROVE  \/ UNCHANGED Remote!travel
         \/ Remote!CreateRequest \/ Remote!MarkOutboxChanged \/ Remote!LoadGeneration \/ Remote!Scan
         \/ Remote!Poll \/ Remote!GiveUpInflight \/ Remote!ApplyResult \/ Remote!ApplyAcknowledgement
         \/ Remote!Install \/ Remote!RestartTravel \/ Remote!PruneOutbox
  BY Zenon DEF Remote!Next, Remote!vars, Remote!travel, Remote!network, Remote!home,
     Remote!RelayTimesOut,
     Remote!ServerExpires, Remote!CompleteResult, Remote!CompleteAcknowledgement,
     Remote!TakeResponse, Remote!PersistRequest, Remote!ConfirmInstalled, Remote!ReadInbox,
     Remote!RefuseApproval, Remote!FindInLedger, Remote!JournalPending,
     Remote!JournalFails, Remote!Publish, Remote!MarkPublished, Remote!MarkFails,
     Remote!CommitResponse, Remote!issuer, Remote!Revoke, Remote!HomeRestart,
     Remote!PruneInbox

LEMMA TravelStep ==
  ASSUME TravelKinds, RemoteScans, NetworkKinds, [Remote!Next]_(Remote!vars)
  PROVE  TravelKinds' /\ RemoteScans'
<1>1. CASE UNCHANGED Remote!travel
  BY <1>1, TravelIdle DEF Remote!travel
<1>2. CASE Remote!CreateRequest \/ Remote!MarkOutboxChanged \/ Remote!LoadGeneration \/ Remote!Scan
  BY <1>2, TravelCreates, TravelMarks, TravelLoads, TravelScans
<1>3. CASE Remote!Poll \/ Remote!GiveUpInflight \/ Remote!ApplyResult \/ Remote!ApplyAcknowledgement
  BY <1>3, TravelPolls, TravelGivesUp, TravelApplies, TravelAcknowledges
<1>4. CASE Remote!Install \/ Remote!RestartTravel \/ Remote!PruneOutbox
  BY <1>4, TravelInstalls, TravelRestarts, TravelPrunes
<1> QED BY <1>1, <1>2, <1>3, <1>4, TravelActs

(***************************************************************************)
(* What the Home keeps: its record, its ledger and its approvals.          *)
(***************************************************************************)
RemoteApproval ==
    [at : {"idle", "read", "issuing", "publishing", "marking", "committing"},
     read : Remote!Record, credential : 0..MaxCredentials]

LEMMA NoApprovalKind ==
  Remote!NoApproval \in RemoteApproval /\ Remote!NoApproval.at = "idle"
<1>1. PICK zero \in 0..MaxCredentials : zero = 0
  BY EnrollmentConstants
<1>2. PICK at \in {"idle", "read", "issuing", "publishing", "marking", "committing"} : at = "idle"
  OBVIOUS
<1>3. Remote!NoApproval = [at |-> at, read |-> Remote!NoRecord, credential |-> zero]
  BY <1>1, <1>2 DEF Remote!NoApproval, Remote!None
<1> QED BY <1>2, <1>3, RemoteRecords DEF RemoteApproval

LEMMA HomeIdle ==
  ASSUME HomeKinds, RemoteLedger, RemotePublished, UNCHANGED <<Remote!home, rConfirmed>>
  PROVE  HomeKinds' /\ RemoteLedger' /\ RemotePublished'
<1>1. UNCHANGED <<rInbox, rLedger, rApproval, rPublished, rSigned, rUnjournaled, rConfirmed>>
  BY DEF Remote!home
<1>2. HomeKinds'
  BY <1>1 DEF HomeKinds, Remote!Record
<1>3. RemoteLedger'
  BY <1>1 DEF RemoteLedger, ApprovalFits
<1>4. RemotePublished'
  BY <1>1 DEF RemotePublished
<1> QED BY <1>2, <1>3, <1>4

\* One approval takes a step, as one that has the ledger or with nobody at it.
LEMMA ApprovalSteps ==
  ASSUME HomeKinds, RemoteLedger, NEW a \in InboxApprovers, NEW t \in RemoteApproval,
         rApproval' = [rApproval EXCEPT ![a] = t],
         rPublished.credentials \subseteq rPublished'.credentials,
         ApprovalFits(t, rLedger'.memory.credential, rPublished'.credentials),
         t.at \in AtLedger => rApproval[a].at \in AtLedger \/ Remote!LedgerFree,
         \/ rLedger'.memory.credential = rLedger.memory.credential
         \/ rApproval[a].at \in AtLedger
  PROVE  rApproval' \in [InboxApprovers -> RemoteApproval] /\ RemoteLedger'
<1>1. /\ rApproval \in [InboxApprovers -> RemoteApproval]
      /\ rApproval' \in [InboxApprovers -> RemoteApproval]
      /\ \A b \in InboxApprovers : rApproval'[b] = IF b = a THEN t ELSE rApproval[b]
  BY DEF HomeKinds, RemoteApproval
<1>2. ASSUME NEW b \in InboxApprovers
      PROVE  ApprovalFits(rApproval'[b], rLedger'.memory.credential, rPublished'.credentials)
  <2>1. CASE b = a
    BY <1>1, <2>1
  <2>2. CASE b # a
    <3>1. rApproval'[b] = rApproval[b]
      BY <1>1, <2>2
    <3>2. ApprovalFits(rApproval[b], rLedger.memory.credential, rPublished.credentials)
      BY DEF RemoteLedger
    <3>3. rApproval[a].at \in AtLedger => rApproval[b].at \notin AtLedger
      BY <2>2 DEF RemoteLedger, AtLedger
    <3> QED BY <3>1, <3>2, <3>3 DEF ApprovalFits, AtLedger
  <2> QED BY <2>1, <2>2
<1>3. ASSUME NEW b \in InboxApprovers, NEW c \in InboxApprovers,
             rApproval'[b].at \in AtLedger, rApproval'[c].at \in AtLedger
      PROVE  b = c
  <2>1. \A d \in InboxApprovers : rApproval[d].at \in AtLedger /\ rApproval[a].at \in AtLedger => d = a
    BY DEF RemoteLedger
  <2>2. Remote!LedgerFree => \A d \in InboxApprovers : rApproval[d].at \notin AtLedger
    BY DEF Remote!LedgerFree, AtLedger
  <2>3. CASE b = a
    <3>1. CASE c # a
      BY <1>1, <1>3, <2>1, <2>2, <2>3, <3>1
    <3> QED BY <2>3, <3>1
  <2>4. CASE c = a
    <3>1. CASE b # a
      BY <1>1, <1>3, <2>1, <2>2, <2>4, <3>1
    <3> QED BY <2>4, <3>1
  <2>5. CASE b # a /\ c # a
    BY <1>1, <1>3, <2>5 DEF RemoteLedger
  <2> QED BY <2>3, <2>4, <2>5
<1> QED BY <1>1, <1>2, <1>3 DEF RemoteLedger

LEMMA HomeReads ==
  ASSUME HomeKinds, RemoteLedger, RemotePublished, NEW a \in InboxApprovers,
         Remote!ReadInbox(a) \/ Remote!RefuseApproval(a)
  PROVE  HomeKinds' /\ RemoteLedger' /\ RemotePublished'
<1>1. PICK t \in RemoteApproval :
        t.at \in {"idle", "read"} /\ rApproval' = [rApproval EXCEPT ![a] = t]
  <2>1. CASE Remote!RefuseApproval(a)
    BY <2>1, NoApprovalKind DEF Remote!RefuseApproval
  <2>2. CASE Remote!ReadInbox(a)
    <3>1. PICK at \in {"idle", "read", "issuing", "publishing", "marking", "committing"} : at = "read"
      OBVIOUS
    <3> DEFINE t == [Remote!NoApproval EXCEPT !.at = at, !.read = rInbox]
    <3>2. t \in RemoteApproval /\ t.at = at
      BY NoApprovalKind DEF RemoteApproval, HomeKinds
    <3>3. rApproval' = [rApproval EXCEPT ![a] = t]
      BY <2>2, <3>1 DEF Remote!ReadInbox
    <3> HIDE DEF t
    <3> QED BY <3>1, <3>2, <3>3
  <2> QED BY <2>1, <2>2
<1>2. UNCHANGED <<rInbox, rLedger, rPublished, rSigned, rConfirmed, rUnjournaled>>
  BY DEF Remote!ReadInbox, Remote!RefuseApproval, Remote!issuer
<1>3. ApprovalFits(t, rLedger'.memory.credential, rPublished'.credentials) /\ t.at \notin AtLedger
  BY <1>1 DEF ApprovalFits, AtLedger
<1>4. rApproval' \in [InboxApprovers -> RemoteApproval] /\ RemoteLedger'
  BY <1>1, <1>2, <1>3, ApprovalSteps
<1>5. HomeKinds'
  BY <1>2, <1>4 DEF HomeKinds, RemoteApproval
<1>6. RemotePublished'
  BY <1>2 DEF RemotePublished
<1> QED BY <1>4, <1>5, <1>6

LEMMA HomeFinds ==
  ASSUME HomeKinds, RemoteLedger, RemotePublished, NEW a \in InboxApprovers,
         Remote!FindInLedger(a)
  PROVE  HomeKinds' /\ RemoteLedger' /\ RemotePublished'
<1> DEFINE record == rLedger.memory
<1>0. rApproval[a] \in RemoteApproval
  BY DEF HomeKinds, RemoteApproval
<1>1. /\ Remote!LedgerFree /\ UNCHANGED <<rInbox, rLedger, rPublished, rConfirmed, rUnjournaled>>
      /\ \/ /\ record.credential = 0 /\ rSigned < MaxCredentials /\ rSigned' = rSigned + 1
            /\ rApproval' = [rApproval EXCEPT ![a].at = "issuing", ![a].credential = rSigned + 1]
         \/ /\ record.credential # 0 /\ rSigned' = rSigned
            /\ rApproval' = [rApproval EXCEPT
                  ![a].at = IF record.published THEN "committing" ELSE "publishing",
                  ![a].credential = record.credential]
         \/ rSigned' = rSigned /\ rApproval' = [rApproval EXCEPT ![a] = Remote!NoApproval]
  BY DEF Remote!FindInLedger, Remote!None, Remote!issuer
<1>2. PICK t \in RemoteApproval :
        /\ rApproval' = [rApproval EXCEPT ![a] = t] /\ rSigned' \in 0..MaxCredentials
        /\ ApprovalFits(t, record.credential, rPublished.credentials)
  <2>1. CASE /\ record.credential = 0 /\ rSigned < MaxCredentials /\ rSigned' = rSigned + 1
             /\ rApproval' = [rApproval EXCEPT ![a].at = "issuing", ![a].credential = rSigned + 1]
    <3>1. PICK at \in {"idle", "read", "issuing", "publishing", "marking", "committing"} : at = "issuing"
      OBVIOUS
    <3> DEFINE n == rSigned + 1
               t == [rApproval[a] EXCEPT !.at = at, !.credential = n]
    <3>2. n \in 0..MaxCredentials /\ n # 0
      BY <2>1, EnrollmentConstants DEF HomeKinds
    <3>3. rApproval' = [rApproval EXCEPT ![a] = t]
      BY <2>1, <3>1 DEF HomeKinds
    <3> HIDE DEF n
    <3>4. t \in RemoteApproval /\ t.at = at /\ t.credential = n
      BY <1>0, <3>2 DEF RemoteApproval
    <3>5. rSigned' \in 0..MaxCredentials
      BY <2>1, <3>2 DEF n
    <3> HIDE DEF t
    <3>6. ApprovalFits(t, record.credential, rPublished.credentials)
      BY <2>1, <3>1, <3>2, <3>4 DEF ApprovalFits
    <3> QED BY <3>3, <3>4, <3>5, <3>6
  <2>2. CASE /\ record.credential # 0 /\ rSigned' = rSigned
             /\ rApproval' = [rApproval EXCEPT
                   ![a].at = IF record.published THEN "committing" ELSE "publishing",
                   ![a].credential = record.credential]
    <3> DEFINE at == IF record.published THEN "committing" ELSE "publishing"
               n == record.credential
               t == [rApproval[a] EXCEPT !.at = at, !.credential = n]
    <3>1. at \in {"publishing", "committing"} /\ (at = "committing" => record.published)
      OBVIOUS
    <3>2. n \in 0..MaxCredentials /\ rSigned' \in 0..MaxCredentials
      BY <2>2 DEF HomeKinds, Remote!Issue
    <3>3. rApproval' = [rApproval EXCEPT ![a] = t]
      BY <2>2 DEF HomeKinds
    <3> HIDE DEF at
    <3>4. PICK where \in {"idle", "read", "issuing", "publishing", "marking", "committing"} : where = at
      BY <3>1
    <3>5. t = [rApproval[a] EXCEPT !.at = where, !.credential = n]
      BY <3>4
    <3> HIDE DEF t
    <3>6. t \in RemoteApproval /\ t.at = where /\ t.credential = n
      BY <1>0, <3>2, <3>5 DEF RemoteApproval
    <3>7. record.published => record.credential \in rPublished.credentials
      BY DEF RemotePublished
    <3>8. ApprovalFits(t, record.credential, rPublished.credentials)
      BY <2>2, <3>1, <3>4, <3>6, <3>7 DEF ApprovalFits
    <3> QED BY <3>2, <3>3, <3>6, <3>8
  <2>3. CASE rSigned' = rSigned /\ rApproval' = [rApproval EXCEPT ![a] = Remote!NoApproval]
    <3>1. ApprovalFits(Remote!NoApproval, record.credential, rPublished.credentials)
      BY NoApprovalKind DEF ApprovalFits
    <3>2. rSigned' \in 0..MaxCredentials
      BY <2>3 DEF HomeKinds
    <3> QED BY <2>3, <3>1, <3>2, NoApprovalKind
  <2> QED BY <1>1, <2>1, <2>2, <2>3
<1>3. rApproval' \in [InboxApprovers -> RemoteApproval] /\ RemoteLedger'
  BY <1>1, <1>2, ApprovalSteps
<1>4. HomeKinds'
  BY <1>1, <1>2, <1>3 DEF HomeKinds, RemoteApproval
<1>5. RemotePublished'
  BY <1>1 DEF RemotePublished
<1> QED BY <1>3, <1>4, <1>5

\* The records of the ledger, and a write of one that reaches the file or does not.
LEMMA IssueKind ==
  ASSUME NEW n \in 0..MaxCredentials
  PROVE  /\ [Remote!NoIssue EXCEPT !.credential = n] \in Remote!Issue
         /\ [Remote!NoIssue EXCEPT !.credential = n].credential = n
         /\ [Remote!NoIssue EXCEPT !.credential = n].published = FALSE
<1>1. PICK no \in BOOLEAN : no = FALSE
  OBVIOUS
<1>2. Remote!NoIssue = [credential |-> Remote!None, published |-> no]
  BY <1>1 DEF Remote!NoIssue
<1>3. [Remote!NoIssue EXCEPT !.credential = n] = [credential |-> n, published |-> no]
  BY <1>2
<1> QED BY <1>1, <1>3 DEF Remote!Issue

LEMMA MarkKind ==
  ASSUME NEW r \in Remote!Issue
  PROVE  /\ [r EXCEPT !.published = TRUE] \in Remote!Issue
         /\ [r EXCEPT !.published = TRUE].credential = r.credential
<1>1. PICK yes \in BOOLEAN : yes = TRUE
  OBVIOUS
<1>2. [r EXCEPT !.published = yes] \in Remote!Issue
      /\ [r EXCEPT !.published = yes].credential = r.credential
  BY DEF Remote!Issue
<1> QED BY <1>1, <1>2

LEMMA LedgerKinds ==
  ASSUME HomeKinds
  PROVE  /\ rLedger.memory \in Remote!Issue /\ rLedger.disk \in Remote!Issue
         /\ rLedger.memory.credential \in 0..MaxCredentials
         /\ rLedger.disk.credential \in 0..MaxCredentials
<1>1. rLedger.memory \in Remote!Issue /\ rLedger.disk \in Remote!Issue
  BY DEF HomeKinds
<1> QED BY <1>1 DEF Remote!Issue

LEMMA LedgerWrites ==
  ASSUME HomeKinds, NEW r \in Remote!Issue,
         \/ rLedger' = [disk |-> r, memory |-> r]
         \/ rLedger' = [rLedger EXCEPT !.memory = r]
  PROVE  /\ rLedger' \in [disk : Remote!Issue, memory : Remote!Issue]
         /\ rLedger'.memory = r
         /\ rLedger' = [disk |-> r, memory |-> r] => rLedger'.disk = r
         /\ rLedger' # [disk |-> r, memory |-> r] => rLedger'.disk = rLedger.disk
  BY DEF HomeKinds

LEMMA HomeJournals ==
  ASSUME HomeKinds, RemoteLedger, RemotePublished, NEW a \in InboxApprovers,
         Remote!JournalPending(a) \/ Remote!JournalFails(a)
  PROVE  HomeKinds' /\ RemoteLedger' /\ RemotePublished'
<1> DEFINE n == rApproval[a].credential
           r == [Remote!NoIssue EXCEPT !.credential = n]
<1>0. rApproval[a] \in RemoteApproval /\ n \in 0..MaxCredentials
  BY DEF HomeKinds, RemoteApproval
<1>1. r \in Remote!Issue /\ r.credential = n /\ r.published = FALSE
  BY <1>0, IssueKind
<1>2. /\ rApproval[a].at = "issuing" /\ UNCHANGED <<rInbox, rPublished, rSigned, rConfirmed>>
      /\ \/ rLedger' = [disk |-> r, memory |-> r] /\ rUnjournaled' = rUnjournaled
         \/ /\ rLedger' = [rLedger EXCEPT !.memory = r]
            /\ rUnjournaled' = rUnjournaled \cup {r.credential}
      /\ \/ rApproval' = [rApproval EXCEPT ![a].at = "publishing"]
         \/ rApproval' = [rApproval EXCEPT ![a] = Remote!NoApproval]
  BY DEF Remote!JournalPending, Remote!JournalFails
<1>3. rLedger.memory.credential = 0 /\ n # 0 /\ rApproval[a].at \in AtLedger
  BY <1>2 DEF RemoteLedger, ApprovalFits, AtLedger
<1>4. PICK t \in RemoteApproval :
        /\ rApproval' = [rApproval EXCEPT ![a] = t]
        /\ t.at = "idle" \/ (t.at = "publishing" /\ t.credential = n)
  <2>1. CASE rApproval' = [rApproval EXCEPT ![a] = Remote!NoApproval]
    BY <2>1, NoApprovalKind
  <2>2. CASE rApproval' = [rApproval EXCEPT ![a].at = "publishing"]
    <3>1. PICK at \in {"idle", "read", "issuing", "publishing", "marking", "committing"} : at = "publishing"
      OBVIOUS
    <3> DEFINE t == [rApproval[a] EXCEPT !.at = at]
    <3>2. rApproval' = [rApproval EXCEPT ![a] = t]
      BY <2>2, <3>1 DEF HomeKinds
    <3>3. t \in RemoteApproval /\ t.at = at /\ t.credential = n
      BY <1>0 DEF RemoteApproval
    <3> HIDE DEF t
    <3> QED BY <3>1, <3>2, <3>3
  <2> QED BY <1>2, <2>1, <2>2
<1> HIDE DEF r
<1>5. /\ rLedger' \in [disk : Remote!Issue, memory : Remote!Issue]
      /\ rLedger'.memory.credential = n /\ rLedger'.memory.published = FALSE
      /\ \/ /\ rLedger'.disk.credential = n /\ rLedger'.disk.published = FALSE
            /\ rUnjournaled' = rUnjournaled
         \/ rLedger'.disk = rLedger.disk /\ rUnjournaled' = rUnjournaled \cup {n}
  BY <1>1, <1>2, LedgerWrites
<1> HIDE DEF n
<1>6. ApprovalFits(t, rLedger'.memory.credential, rPublished'.credentials)
  BY <1>3, <1>4, <1>5 DEF ApprovalFits
<1>7. rPublished.credentials \subseteq rPublished'.credentials
  BY <1>2
<1>8. rApproval' \in [InboxApprovers -> RemoteApproval] /\ RemoteLedger'
  BY <1>3, <1>4, <1>6, <1>7, ApprovalSteps
<1>9. rUnjournaled' \subseteq 1..MaxCredentials
  <2>1. n \in 1..MaxCredentials
    BY <1>0, <1>3
  <2>2. rUnjournaled \subseteq 1..MaxCredentials
    BY DEF HomeKinds
  <2>3. rUnjournaled' = rUnjournaled \/ rUnjournaled' = rUnjournaled \cup {n}
    BY <1>5
  <2> QED BY <2>1, <2>2, <2>3
<1>10. HomeKinds'
  BY <1>2, <1>5, <1>8, <1>9 DEF HomeKinds, RemoteApproval
<1>11. \A m \in rPublished.credentials : m \in rUnjournaled
  <2>1. rLedger.disk.credential = 0
    BY <1>3 DEF RemotePublished
  <2>2. \A m \in rPublished.credentials : m # 0
    BY DEF HomeKinds
  <2> QED BY <2>1, <2>2 DEF RemotePublished
<1>12. RemotePublished'
  BY <1>2, <1>3, <1>5, <1>11 DEF RemotePublished
<1> QED BY <1>8, <1>10, <1>12

LEMMA HomePublishes ==
  ASSUME HomeKinds, RemoteLedger, RemotePublished, NEW a \in InboxApprovers, Remote!Publish(a)
  PROVE  HomeKinds' /\ RemoteLedger' /\ RemotePublished'
<1> DEFINE n == rApproval[a].credential
           grown == rPublished.credentials \cup {n}
<1>0. rApproval[a] \in RemoteApproval /\ n \in 0..MaxCredentials
  BY DEF HomeKinds, RemoteApproval
<1>1. /\ rApproval[a].at = "publishing" /\ UNCHANGED <<rInbox, rLedger, rSigned, rConfirmed, rUnjournaled>>
      /\ \/ /\ rPublished.credentials \subseteq {n}
            /\ rPublished' = [rPublished EXCEPT !.credentials = grown]
            /\ \/ rApproval' = [rApproval EXCEPT ![a].at = "marking"]
               \/ rApproval' = [rApproval EXCEPT ![a] = Remote!NoApproval]
         \/ rPublished' = rPublished /\ rApproval' = [rApproval EXCEPT ![a] = Remote!NoApproval]
  BY DEF Remote!Publish, Remote!Imports, Remote!issuer
<1>2. n = rLedger.memory.credential /\ n # 0 /\ rApproval[a].at \in AtLedger
  BY <1>1 DEF RemoteLedger, ApprovalFits, AtLedger
<1>3. /\ rPublished' \in [credentials : SUBSET (1..MaxCredentials),
                          revoked : SUBSET (1..MaxCredentials)]
      /\ rPublished.credentials \subseteq rPublished'.credentials
      /\ rPublished'.credentials \subseteq grown
  <2>1. grown \in SUBSET (1..MaxCredentials) /\ rPublished.credentials \subseteq grown
    BY <1>0, <1>2 DEF HomeKinds
  <2> HIDE DEF grown
  <2> QED BY <1>1, <2>1 DEF HomeKinds
<1>4. PICK t \in RemoteApproval :
        /\ rApproval' = [rApproval EXCEPT ![a] = t]
        /\ ApprovalFits(t, rLedger'.memory.credential, rPublished'.credentials)
  <2>1. CASE rApproval' = [rApproval EXCEPT ![a] = Remote!NoApproval]
    <3>1. ApprovalFits(Remote!NoApproval, rLedger'.memory.credential, rPublished'.credentials)
      BY NoApprovalKind DEF ApprovalFits
    <3> QED BY <2>1, <3>1, NoApprovalKind
  <2>2. CASE /\ rPublished' = [rPublished EXCEPT !.credentials = grown]
             /\ rApproval' = [rApproval EXCEPT ![a].at = "marking"]
    <3>1. PICK at \in {"idle", "read", "issuing", "publishing", "marking", "committing"} : at = "marking"
      OBVIOUS
    <3> DEFINE t == [rApproval[a] EXCEPT !.at = at]
    <3>2. rApproval' = [rApproval EXCEPT ![a] = t]
      BY <2>2, <3>1 DEF HomeKinds
    <3>3. t \in RemoteApproval /\ t.at = at /\ t.credential = n
      BY <1>0 DEF RemoteApproval
    <3>4. n \in rPublished'.credentials
      BY <2>2 DEF HomeKinds
    <3>5. n = rLedger'.memory.credential /\ n # 0
      BY <1>1, <1>2
    <3> HIDE DEF t, n
    <3>6. ApprovalFits(t, rLedger'.memory.credential, rPublished'.credentials)
      BY <3>1, <3>3, <3>4, <3>5 DEF ApprovalFits
    <3> QED BY <3>2, <3>3, <3>6
  <2> QED BY <1>1, <2>1, <2>2
<1>5. rLedger'.memory.credential = rLedger.memory.credential
  BY <1>1
<1>6. rApproval' \in [InboxApprovers -> RemoteApproval] /\ RemoteLedger'
  BY <1>2, <1>3, <1>4, <1>5, ApprovalSteps
<1>7. HomeKinds'
  BY <1>1, <1>3, <1>6 DEF HomeKinds, RemoteApproval
<1>8. \/ rPublished'.credentials = rPublished.credentials
      \/ \A m \in rPublished'.credentials : m = n
  BY <1>1, <1>3
<1>9. n \in rUnjournaled \/ n = rLedger.disk.credential
  BY <1>2 DEF RemotePublished
<1>10. RemotePublished'
  BY <1>1, <1>3, <1>8, <1>9 DEF RemotePublished
<1> QED BY <1>6, <1>7, <1>10

LEMMA HomeMarks ==
  ASSUME HomeKinds, RemoteLedger, RemotePublished, NEW a \in InboxApprovers,
         Remote!MarkPublished(a) \/ Remote!MarkFails(a)
  PROVE  HomeKinds' /\ RemoteLedger' /\ RemotePublished'
<1> DEFINE n == rApproval[a].credential
           r == [rLedger.memory EXCEPT !.published = TRUE]
<1>0. rApproval[a] \in RemoteApproval
  BY DEF HomeKinds, RemoteApproval
<1>1. r \in Remote!Issue /\ r.credential = rLedger.memory.credential
  BY LedgerKinds, MarkKind
<1>2. /\ rApproval[a].at = "marking" /\ UNCHANGED <<rInbox, rPublished, rSigned, rConfirmed>>
      /\ \/ /\ rLedger' = [disk |-> r, memory |-> r]
            /\ rUnjournaled' = rUnjournaled \ {r.credential}
         \/ rLedger' = [rLedger EXCEPT !.memory = r] /\ rUnjournaled' = rUnjournaled
      /\ \/ rApproval' = [rApproval EXCEPT ![a].at = "committing"]
         \/ rApproval' = [rApproval EXCEPT ![a] = Remote!NoApproval]
  BY DEF Remote!MarkPublished, Remote!MarkFails
<1>3. n \in rPublished.credentials /\ n = rLedger.memory.credential /\ rApproval[a].at \in AtLedger
  BY <1>2 DEF RemoteLedger, ApprovalFits, AtLedger
<1>4. PICK t \in RemoteApproval :
        /\ rApproval' = [rApproval EXCEPT ![a] = t]
        /\ t.at = "idle" \/ (t.at = "committing" /\ t.credential = n)
  <2>1. CASE rApproval' = [rApproval EXCEPT ![a] = Remote!NoApproval]
    BY <2>1, NoApprovalKind
  <2>2. CASE rApproval' = [rApproval EXCEPT ![a].at = "committing"]
    <3>1. PICK at \in {"idle", "read", "issuing", "publishing", "marking", "committing"} : at = "committing"
      OBVIOUS
    <3> DEFINE t == [rApproval[a] EXCEPT !.at = at]
    <3>2. rApproval' = [rApproval EXCEPT ![a] = t]
      BY <2>2, <3>1 DEF HomeKinds
    <3>3. t \in RemoteApproval /\ t.at = at /\ t.credential = n
      BY <1>0 DEF RemoteApproval
    <3> HIDE DEF t
    <3> QED BY <3>1, <3>2, <3>3
  <2> QED BY <1>2, <2>1, <2>2
<1> HIDE DEF r
<1>5. /\ rLedger' \in [disk : Remote!Issue, memory : Remote!Issue]
      /\ rLedger'.memory.credential = n
      /\ \/ rLedger'.disk.credential = n /\ rUnjournaled' = rUnjournaled \ {n}
         \/ rLedger'.disk = rLedger.disk /\ rUnjournaled' = rUnjournaled
  BY <1>1, <1>2, <1>3, LedgerWrites
<1> HIDE DEF n
<1>6. ApprovalFits(t, rLedger'.memory.credential, rPublished'.credentials) /\ t.at \notin AtLedger
  BY <1>2, <1>3, <1>4 DEF ApprovalFits, AtLedger
<1>7. rPublished.credentials \subseteq rPublished'.credentials
  BY <1>2
<1>8. rApproval' \in [InboxApprovers -> RemoteApproval] /\ RemoteLedger'
  BY <1>3, <1>4, <1>6, <1>7, ApprovalSteps
<1>9. HomeKinds'
  BY <1>2, <1>5, <1>8 DEF HomeKinds, RemoteApproval
<1>10. \A m \in rPublished.credentials : m = n
  BY <1>3 DEF RemotePublished
<1>11. RemotePublished'
  BY <1>2, <1>3, <1>5, <1>10 DEF RemotePublished
<1> QED BY <1>8, <1>9, <1>11

LEMMA HomeCommits ==
  ASSUME HomeKinds, RemoteLedger, RemotePublished, NEW a \in InboxApprovers,
         Remote!CommitResponse(a)
  PROVE  HomeKinds' /\ RemoteLedger' /\ RemotePublished'
<1> DEFINE n == rApproval[a].credential
<1>0. n \in 0..MaxCredentials /\ rApproval[a].read \in Remote!Record
  BY DEF HomeKinds
<1>1. /\ rApproval[a].at = "committing"
      /\ UNCHANGED <<rLedger, rPublished, rSigned, rConfirmed, rUnjournaled>>
      /\ rInbox' = [rApproval[a].read EXCEPT !.response = n]
      /\ rApproval' = [rApproval EXCEPT ![a] = Remote!NoApproval]
  BY DEF Remote!CommitResponse, Remote!issuer
<1>2. n \in rPublished.credentials
  BY <1>1 DEF RemoteLedger, ApprovalFits
<1>3. rInbox' \in Remote!Record /\ rInbox'.response = n
  BY <1>0, <1>1 DEF Remote!Record
<1>4. /\ ApprovalFits(Remote!NoApproval, rLedger'.memory.credential, rPublished'.credentials)
      /\ Remote!NoApproval.at \notin AtLedger
  BY NoApprovalKind DEF ApprovalFits, AtLedger
<1>5. rPublished.credentials \subseteq rPublished'.credentials /\ rLedger' = rLedger
  BY <1>1
<1>6. rApproval' \in [InboxApprovers -> RemoteApproval] /\ RemoteLedger'
  BY <1>1, <1>4, <1>5, NoApprovalKind, ApprovalSteps
<1>7. HomeKinds'
  BY <1>1, <1>3, <1>6 DEF HomeKinds, RemoteApproval
<1>8. RemotePublished'
  BY <1>1, <1>2, <1>3 DEF RemotePublished
<1> QED BY <1>6, <1>7, <1>8

LEMMA HomeRevokes ==
  ASSUME HomeKinds, RemoteLedger, RemotePublished, Remote!Revoke
  PROVE  HomeKinds' /\ RemoteLedger' /\ RemotePublished'
<1>1. /\ UNCHANGED <<rInbox, rLedger, rApproval, rSigned, rConfirmed, rUnjournaled>>
      /\ rPublished' = [rPublished EXCEPT !.revoked = rPublished.credentials]
  BY DEF Remote!Revoke, Remote!issuer
<1>2. /\ rPublished' \in [credentials : SUBSET (1..MaxCredentials),
                          revoked : SUBSET (1..MaxCredentials)]
      /\ rPublished'.credentials = rPublished.credentials
  BY <1>1 DEF HomeKinds
<1>3. HomeKinds'
  BY <1>1, <1>2 DEF HomeKinds
<1>4. RemoteLedger'
  BY <1>1, <1>2 DEF RemoteLedger, ApprovalFits
<1>5. RemotePublished'
  BY <1>1, <1>2 DEF RemotePublished
<1> QED BY <1>3, <1>4, <1>5

LEMMA HomeRestarts ==
  ASSUME HomeKinds, RemoteLedger, RemotePublished, Remote!HomeRestart
  PROVE  HomeKinds' /\ RemoteLedger' /\ RemotePublished'
<1>1. /\ UNCHANGED <<rInbox, rPublished, rSigned, rConfirmed, rUnjournaled>>
      /\ rApproval' = [a \in InboxApprovers |-> Remote!NoApproval]
      /\ rLedger' = [rLedger EXCEPT !.memory = rLedger.disk]
  BY DEF Remote!HomeRestart
<1>2. /\ rApproval' \in [InboxApprovers -> RemoteApproval]
      /\ \A a \in InboxApprovers : rApproval'[a].at = "idle"
  BY <1>1, NoApprovalKind
<1>3. /\ rLedger' \in [disk : Remote!Issue, memory : Remote!Issue]
      /\ rLedger'.memory = rLedger.disk /\ rLedger'.disk = rLedger.disk
  BY <1>1 DEF HomeKinds
<1>4. HomeKinds'
  BY <1>1, <1>2, <1>3 DEF HomeKinds, RemoteApproval
<1>5. RemoteLedger'
  BY <1>2 DEF RemoteLedger, ApprovalFits, AtLedger
<1>6. RemotePublished'
  BY <1>1, <1>3 DEF RemotePublished
<1> QED BY <1>4, <1>5, <1>6

\* The record in the inbox changes, and answers with what it answered with or nothing.
LEMMA InboxChanges ==
  ASSUME HomeKinds, RemoteLedger, RemotePublished, rInbox' \in Remote!Record,
         rInbox'.response \in {0, rInbox.response}, rConfirmed' \in BOOLEAN,
         UNCHANGED <<rLedger, rApproval, rPublished, rSigned, rUnjournaled>>
  PROVE  HomeKinds' /\ RemoteLedger' /\ RemotePublished'
<1>1. HomeKinds'
  BY DEF HomeKinds
<1>2. RemoteLedger'
  BY DEF RemoteLedger, ApprovalFits
<1>3. RemotePublished'
  BY DEF RemotePublished
<1> QED BY <1>1, <1>2, <1>3

LEMMA HomeRecords ==
  ASSUME HomeKinds, RemoteLedger, RemotePublished,
         Remote!PersistRequest \/ Remote!ConfirmInstalled \/ Remote!PruneInbox
  PROVE  HomeKinds' /\ RemoteLedger' /\ RemotePublished'
<1>1. UNCHANGED <<rLedger, rApproval, rPublished, rSigned, rUnjournaled>>
  BY DEF Remote!PersistRequest, Remote!ConfirmInstalled, Remote!PruneInbox, Remote!issuer
<1>2. PICK yes \in BOOLEAN : yes = TRUE
  OBVIOUS
<1>3. PICK zero \in 0..MaxCredentials : zero = 0
  BY EnrollmentConstants
<1>4. rInbox \in Remote!Record /\ rInbox.response \in 0..MaxCredentials /\ rConfirmed \in BOOLEAN
  BY DEF HomeKinds, Remote!Record
<1>5. CASE Remote!PruneInbox
  <2>1. rInbox' = Remote!NoRecord /\ rConfirmed' = rConfirmed
    BY <1>5 DEF Remote!PruneInbox
  <2> QED BY <1>1, <1>4, <2>1, InboxChanges, RemoteRecords
<1>6. CASE Remote!PersistRequest
  <2>1. (rInbox' = [rInbox EXCEPT !.known = yes] \/ rInbox' = rInbox) /\ rConfirmed' = rConfirmed
    BY <1>2, <1>6 DEF Remote!PersistRequest
  <2>2. rInbox' \in Remote!Record /\ rInbox'.response = rInbox.response
    BY <1>4, <2>1 DEF Remote!Record
  <2> QED BY <1>1, <1>4, <2>1, <2>2, InboxChanges
<1>7. CASE Remote!ConfirmInstalled
  <2> DEFINE n == IF rInbox.installed THEN rInbox.response ELSE zero
  <2>1. \/ rInbox' = [rInbox EXCEPT !.response = n, !.installed = yes] /\ rConfirmed' = TRUE
        \/ rInbox' = rInbox /\ rConfirmed' = rConfirmed
    BY <1>2, <1>3, <1>7 DEF Remote!ConfirmInstalled, Remote!None
  <2>2. n \in 0..MaxCredentials /\ n \in {0, rInbox.response}
    BY <1>3, <1>4
  <2> HIDE DEF n
  <2>3. rInbox' \in Remote!Record /\ rInbox'.response \in {0, rInbox.response}
    BY <1>4, <2>1, <2>2 DEF Remote!Record
  <2>4. rConfirmed' \in BOOLEAN
    BY <1>4, <2>1
  <2> QED BY <1>1, <2>3, <2>4, InboxChanges
<1> QED BY <1>5, <1>6, <1>7

\* The steps of the Home, the import of a credential included.
LEMMA HomeActs ==
  ASSUME [Remote!Next]_(Remote!vars)
  PROVE  \/ UNCHANGED <<Remote!home, rConfirmed>>
         \/ \E a \in InboxApprovers :
                \/ Remote!ReadInbox(a) \/ Remote!RefuseApproval(a) \/ Remote!FindInLedger(a)
                \/ Remote!JournalPending(a) \/ Remote!JournalFails(a) \/ Remote!Publish(a)
                \/ Remote!MarkPublished(a) \/ Remote!MarkFails(a) \/ Remote!CommitResponse(a)
         \/ Remote!PersistRequest \/ Remote!ConfirmInstalled \/ Remote!PruneInbox
         \/ Remote!Revoke \/ Remote!HomeRestart
  BY Zenon DEF Remote!Next, Remote!vars, Remote!travel, Remote!network, Remote!home,
     Remote!CreateRequest, Remote!MarkOutboxChanged, Remote!LoadGeneration,
     Remote!Scan, Remote!Poll, Remote!GiveUpInflight, Remote!ApplyResult,
     Remote!ApplyAcknowledgement, Remote!Install, Remote!RestartTravel, Remote!RelayTimesOut,
     Remote!ServerExpires, Remote!CompleteResult, Remote!CompleteAcknowledgement,
     Remote!TakeResponse, Remote!PruneOutbox

LEMMA HomeStep ==
  ASSUME HomeKinds, RemoteLedger, RemotePublished, [Remote!Next]_(Remote!vars)
  PROVE  HomeKinds' /\ RemoteLedger' /\ RemotePublished'
<1>1. CASE UNCHANGED <<Remote!home, rConfirmed>>
  BY <1>1, HomeIdle
<1>2. CASE \E a \in InboxApprovers :
             \/ Remote!ReadInbox(a) \/ Remote!RefuseApproval(a) \/ Remote!FindInLedger(a)
             \/ Remote!JournalPending(a) \/ Remote!JournalFails(a) \/ Remote!Publish(a)
             \/ Remote!MarkPublished(a) \/ Remote!MarkFails(a) \/ Remote!CommitResponse(a)
  BY <1>2, HomeReads, HomeFinds, HomeJournals, HomePublishes, HomeMarks, HomeCommits
<1>3. CASE Remote!PersistRequest \/ Remote!ConfirmInstalled \/ Remote!PruneInbox
  BY <1>3, HomeRecords
<1>4. CASE Remote!Revoke \/ Remote!HomeRestart
  BY <1>4, HomeRevokes, HomeRestarts
<1> QED BY <1>1, <1>2, <1>3, <1>4, HomeActs

(***************************************************************************)
(* What is on the way between them.                                        *)
(***************************************************************************)
LEMMA CarriedTail ==
  ASSUME NEW queue \in Seq(Remote!Result), queue # <<>>, NEW P, Carries(queue, P)
  PROVE  /\ Tail(queue) \in Seq(Remote!Result) /\ Carries(Tail(queue), P)
         /\ Head(queue) \in Remote!Result
         /\ Head(queue).response # 0 => Head(queue).response \in P
<1> DEFINE rest == Tail(queue)
<1>1. /\ rest \in Seq(Remote!Result) /\ Len(rest) = Len(queue) - 1
      /\ Head(queue) \in Remote!Result /\ Len(queue) \in Nat /\ Len(queue) # 0
      /\ Head(queue) = queue[1]
      /\ \A i \in 1..Len(rest) : rest[i] = queue[i + 1]
  BY HeadTailProperties, LenProperties, EmptySeq
<1> HIDE DEF rest
<1>2. \A i \in 1..Len(rest) : i + 1 \in 1..Len(queue) /\ rest[i] = queue[i + 1]
  BY <1>1
<1>3. Carries(rest, P)
  BY <1>2 DEF Carries
<1>4. 1 \in 1..Len(queue)
  BY <1>1
<1>5. Head(queue).response # 0 => Head(queue).response \in P
  BY <1>1, <1>4 DEF Carries
<1> QED BY <1>1, <1>3, <1>5 DEF rest

LEMMA CarriedAppend ==
  ASSUME NEW queue \in Seq(Remote!Result), NEW P, Carries(queue, P), NEW r \in Remote!Result,
         r.response # 0 => r.response \in P
  PROVE  Append(queue, r) \in Seq(Remote!Result) /\ Carries(Append(queue, r), P)
<1> DEFINE longer == Append(queue, r)
<1>1. /\ longer \in Seq(Remote!Result) /\ Len(longer) = Len(queue) + 1 /\ Len(queue) \in Nat
      /\ \A i \in 1..Len(queue) : longer[i] = queue[i]
      /\ longer[Len(queue) + 1] = r
  BY AppendProperties, LenProperties
<1> HIDE DEF longer
<1>2. \A i \in 1..Len(longer) : i \in 1..Len(queue) \/ i = Len(queue) + 1
  BY <1>1
<1>3. Carries(longer, P)
  BY <1>1, <1>2 DEF Carries
<1> QED BY <1>1, <1>3 DEF longer

LEMMA CarriedEmpty ==
  ASSUME NEW P
  PROVE  <<>> \in Seq(Remote!Result) /\ Carries(<<>>, P) /\ <<>> \in Seq(Remote!Stages)
<1>1. PICK e : e = <<>>
  OBVIOUS
<1>2. e \in Seq(Remote!Result) /\ Len(e) = 0 /\ e \in Seq(Remote!Stages)
  BY <1>1
<1>3. Carries(e, P)
  BY <1>2 DEF Carries
<1> QED BY <1>1, <1>2, <1>3

LEMMA CarriedGrows ==
  ASSUME NEW queue, NEW P, NEW Q, Carries(queue, P), P \subseteq Q
  PROVE  Carries(queue, Q)
  BY DEF Carries

\* Published credentials stay published.
LEMMA PublishedStays ==
  ASSUME HomeKinds, [Remote!Next]_(Remote!vars)
  PROVE  rPublished.credentials \subseteq rPublished'.credentials
<1>1. \/ UNCHANGED rPublished
      \/ \E a \in InboxApprovers : Remote!Publish(a)
      \/ Remote!Revoke
  BY HomeActs, Zenon
     DEF Remote!home, Remote!PersistRequest, Remote!ConfirmInstalled, Remote!ReadInbox,
         Remote!RefuseApproval, Remote!FindInLedger, Remote!JournalPending, Remote!JournalFails,
         Remote!MarkPublished, Remote!MarkFails, Remote!CommitResponse, Remote!HomeRestart,
         Remote!PruneInbox
<1>2. CASE \E a \in InboxApprovers : Remote!Publish(a)
  <2>1. PICK a \in InboxApprovers : Remote!Publish(a)
    BY <1>2
  <2> DEFINE grown == rPublished.credentials \cup {rApproval[a].credential}
  <2>2. rPublished' = rPublished \/ rPublished' = [rPublished EXCEPT !.credentials = grown]
    BY <2>1 DEF Remote!Publish
  <2> QED BY <2>2 DEF HomeKinds
<1>3. CASE Remote!Revoke
  BY <1>3 DEF Remote!Revoke, HomeKinds
<1> QED BY <1>1, <1>2, <1>3

\* The answers that a program makes up.
LEMMA RefusalKind ==
  ASSUME NEW s \in Remote!Stages
  PROVE  Remote!Refusal(s) \in Remote!Result /\ Remote!Refusal(s).response = 0
<1>1. PICK zero \in 0..MaxCredentials : zero = 0
  BY EnrollmentConstants
<1>2. PICK no \in BOOLEAN : no = FALSE
  OBVIOUS
<1>3. Remote!Refusal(s) = [stage |-> s, accepted |-> no, response |-> zero]
  BY <1>1, <1>2 DEF Remote!Refusal, Remote!None
<1> QED BY <1>1, <1>3 DEF Remote!Result

LEMMA AnswerKind ==
  ASSUME NEW s \in Remote!Stages, NEW n \in 0..MaxCredentials
  PROVE  Remote!Answer(s, n) \in Remote!Result /\ Remote!Answer(s, n).response = n
<1>1. PICK yes \in BOOLEAN : yes = TRUE
  OBVIOUS
<1>2. Remote!Answer(s, n) = [stage |-> s, accepted |-> yes, response |-> n]
  BY <1>1 DEF Remote!Answer
<1> QED BY <1>2 DEF Remote!Result

\* A stage that is registered, forgotten, or goes stale with its session.
LEMMA WaitingKind ==
  ASSUME rWaiting \in [Remote!Stages -> {"none", "live", "stale"}]
  PROVE  /\ \A s \in Remote!Stages :
              /\ [rWaiting EXCEPT ![s] = "none"] \in [Remote!Stages -> {"none", "live", "stale"}]
              /\ [rWaiting EXCEPT ![s] = "live"] \in [Remote!Stages -> {"none", "live", "stale"}]
         /\ [s \in Remote!Stages |-> IF rWaiting[s] = "live" THEN "stale" ELSE rWaiting[s]]
               \in [Remote!Stages -> {"none", "live", "stale"}]
<1>1. PICK none \in {"none", "live", "stale"} : none = "none"
  OBVIOUS
<1>2. PICK live \in {"none", "live", "stale"} : live = "live"
  OBVIOUS
<1>3. \A s \in Remote!Stages :
        /\ [rWaiting EXCEPT ![s] = none] \in [Remote!Stages -> {"none", "live", "stale"}]
        /\ [rWaiting EXCEPT ![s] = live] \in [Remote!Stages -> {"none", "live", "stale"}]
  OBVIOUS
<1>4. \A s \in Remote!Stages :
        (IF rWaiting[s] = "live" THEN "stale" ELSE rWaiting[s]) \in {"none", "live", "stale"}
  OBVIOUS
<1> DEFINE next(s) == IF rWaiting[s] = "live" THEN "stale" ELSE rWaiting[s]
<1>5. \A s \in Remote!Stages : next(s) \in {"none", "live", "stale"}
  BY <1>4
<1> HIDE DEF next
<1>6. [s \in Remote!Stages |-> next(s)] \in [Remote!Stages -> {"none", "live", "stale"}]
  BY <1>5
<1> QED BY <1>1, <1>2, <1>3, <1>6 DEF next

\* The kinds of what is on the way, and its credentials among those in P.
NetworkCarries(P) ==
    /\ NetworkKinds
    /\ Carries(rToServer, P)
    /\ Carries(rToTravel, P)

LEMMA NetworkPolls ==
  ASSUME TravelKinds, NEW P, NetworkCarries(P), Remote!Poll
  PROVE  NetworkKinds' /\ Carries(rToServer', P) /\ Carries(rToTravel', P)
<1> DEFINE stage == rPoll.found.due
<1>1. /\ NetworkKinds /\ Carries(rToServer, P) /\ Carries(rToTravel, P)
      /\ rToTravel \in Seq(Remote!Result) /\ rToHome \in Seq(Remote!Stages)
      /\ rWaiting \in [Remote!Stages -> {"none", "live", "stale"}]
  BY DEF NetworkCarries, NetworkKinds
<1>2. /\ rToServer' = rToServer
      /\ \/ UNCHANGED <<rWaiting, rPending, rToHome, rToTravel>>
         \/ /\ stage # "nothing" /\ rWaiting' = [rWaiting EXCEPT ![stage] = "live"]
            /\ rPending' = stage /\ rToHome' = Append(rToHome, stage) /\ rToTravel' = rToTravel
         \/ /\ stage # "nothing" /\ rToTravel' = Append(rToTravel, Remote!Refusal(stage))
            /\ UNCHANGED <<rWaiting, rPending, rToHome>>
  BY DEF Remote!Poll, Remote!Forward
<1>3. stage \in {"nothing"} \cup Remote!Stages
  BY DEF TravelKinds
<1> HIDE DEF stage
<1>4. CASE UNCHANGED <<rWaiting, rPending, rToHome, rToTravel>>
  BY <1>1, <1>2, <1>4 DEF NetworkKinds
<1>5. CASE /\ stage # "nothing" /\ rWaiting' = [rWaiting EXCEPT ![stage] = "live"]
           /\ rPending' = stage /\ rToHome' = Append(rToHome, stage) /\ rToTravel' = rToTravel
  <2>1. stage \in Remote!Stages
    BY <1>3, <1>5
  <2>2. rToHome' \in Seq(Remote!Stages)
    BY <1>1, <1>5, <2>1, AppendProperties
  <2>3. rWaiting' \in [Remote!Stages -> {"none", "live", "stale"}]
    BY <1>1, <1>5, <2>1, WaitingKind
  <2> QED BY <1>1, <1>2, <1>5, <2>1, <2>2, <2>3 DEF NetworkKinds
<1>6. CASE /\ stage # "nothing" /\ rToTravel' = Append(rToTravel, Remote!Refusal(stage))
           /\ UNCHANGED <<rWaiting, rPending, rToHome>>
  <2>1. stage \in Remote!Stages
    BY <1>3, <1>6
  <2>2. rToTravel' \in Seq(Remote!Result) /\ Carries(rToTravel', P)
    BY <1>1, <1>6, <2>1, RefusalKind, CarriedAppend
  <2> QED BY <1>1, <1>2, <1>6, <2>2 DEF NetworkKinds
<1> QED BY <1>2, <1>4, <1>5, <1>6

\* The session of the Travel takes a result, or ends and forgets them all.
LEMMA NetworkTakes ==
  ASSUME NEW P, NetworkCarries(P), UNCHANGED <<rPending, rToHome, rToServer>>,
         \/ rToTravel # <<>> /\ rToTravel' = Tail(rToTravel) /\ rWaiting' = rWaiting
         \/ /\ rToTravel' = <<>>
            /\ rWaiting' = [s \in Remote!Stages |->
                              IF rWaiting[s] = "live" THEN "stale" ELSE rWaiting[s]]
  PROVE  NetworkKinds' /\ Carries(rToServer', P) /\ Carries(rToTravel', P)
<1>1. /\ NetworkKinds /\ Carries(rToServer, P) /\ Carries(rToTravel, P)
      /\ rToTravel \in Seq(Remote!Result)
      /\ rWaiting \in [Remote!Stages -> {"none", "live", "stale"}]
  BY DEF NetworkCarries, NetworkKinds
<1>2. rToTravel' \in Seq(Remote!Result) /\ Carries(rToTravel', P)
  BY <1>1, CarriedTail, CarriedEmpty
<1>3. rWaiting' \in [Remote!Stages -> {"none", "live", "stale"}]
  BY <1>1, WaitingKind
<1> QED BY <1>1, <1>2, <1>3 DEF NetworkKinds

LEMMA NetworkSessions ==
  ASSUME NEW P, NetworkCarries(P),
         Remote!ApplyResult \/ Remote!ApplyAcknowledgement \/ Remote!RestartTravel
  PROVE  NetworkKinds' /\ Carries(rToServer', P) /\ Carries(rToTravel', P)
<1>1. UNCHANGED <<rPending, rToHome, rToServer>>
  BY DEF Remote!ApplyResult, Remote!ApplyAcknowledgement, Remote!RestartTravel
<1>2. \/ rToTravel # <<>> /\ rToTravel' = Tail(rToTravel) /\ rWaiting' = rWaiting
      \/ /\ rToTravel' = <<>>
         /\ rWaiting' = [s \in Remote!Stages |->
                           IF rWaiting[s] = "live" THEN "stale" ELSE rWaiting[s]]
  BY Zenon DEF Remote!ApplyResult, Remote!ApplyAcknowledgement, Remote!RestartTravel,
     Remote!EndSession
<1> QED BY <1>1, <1>2, NetworkTakes

LEMMA NetworkExpires ==
  ASSUME NEW P, NetworkCarries(P),
         Remote!ServerExpires \/ \E s \in Remote!Stages : Remote!RelayTimesOut(s)
  PROVE  NetworkKinds' /\ Carries(rToServer', P) /\ Carries(rToTravel', P)
<1>1. /\ NetworkKinds /\ Carries(rToServer, P) /\ Carries(rToTravel, P)
      /\ rToTravel \in Seq(Remote!Result)
      /\ rWaiting \in [Remote!Stages -> {"none", "live", "stale"}]
  BY DEF NetworkCarries, NetworkKinds
<1>2. CASE Remote!ServerExpires
  BY <1>1, <1>2 DEF Remote!ServerExpires, NetworkKinds
<1>3. CASE \E s \in Remote!Stages : Remote!RelayTimesOut(s)
  <2>1. PICK s \in Remote!Stages : Remote!RelayTimesOut(s)
    BY <1>3
  <2>2. /\ UNCHANGED <<rPending, rToHome, rToServer>>
        /\ rWaiting' = [rWaiting EXCEPT ![s] = "none"]
        /\ rToTravel' = Append(rToTravel, Remote!Refusal(s)) \/ rToTravel' = rToTravel
    BY <2>1 DEF Remote!RelayTimesOut
  <2>3. rToTravel' \in Seq(Remote!Result) /\ Carries(rToTravel', P)
    BY <1>1, <2>2, RefusalKind, CarriedAppend
  <2>4. rWaiting' \in [Remote!Stages -> {"none", "live", "stale"}]
    BY <1>1, <2>2, WaitingKind
  <2> QED BY <1>1, <2>2, <2>3, <2>4 DEF NetworkKinds
<1> QED BY <1>2, <1>3

LEMMA NetworkCompletes ==
  ASSUME NEW P, NetworkCarries(P), NEW s \in Remote!Stages, Remote!TakeResponse(s)
  PROVE  NetworkKinds' /\ Carries(rToServer', P) /\ Carries(rToTravel', P)
<1> DEFINE result == Head(rToServer)
<1>1. /\ NetworkKinds /\ Carries(rToServer, P) /\ Carries(rToTravel, P)
      /\ rToTravel \in Seq(Remote!Result) /\ rToServer \in Seq(Remote!Result)
      /\ rWaiting \in [Remote!Stages -> {"none", "live", "stale"}]
  BY DEF NetworkCarries, NetworkKinds
<1>2. /\ rToServer # <<>>
      /\ \/ rToServer' = Tail(rToServer) /\ UNCHANGED <<rPending, rWaiting, rToTravel, rToHome>>
         \/ rToServer' = <<>> /\ rToHome' = <<>> /\ UNCHANGED <<rPending, rWaiting, rToTravel>>
         \/ /\ rPending' = "none" /\ rToServer' = Tail(rToServer) /\ rToHome' = rToHome
            /\ rToTravel' = Append(rToTravel, result) \/ rToTravel' = rToTravel
            /\ rWaiting' = [rWaiting EXCEPT ![result.stage] = "none"]
  BY DEF Remote!TakeResponse, Remote!Deliver
<1>3. /\ Tail(rToServer) \in Seq(Remote!Result) /\ Carries(Tail(rToServer), P)
      /\ result \in Remote!Result
      /\ result.response # 0 => result.response \in P
  BY <1>1, <1>2, CarriedTail
<1>4. /\ Append(rToTravel, result) \in Seq(Remote!Result)
      /\ Carries(Append(rToTravel, result), P)
  BY <1>1, <1>3, CarriedAppend
<1>5. result.stage \in Remote!Stages
  BY <1>3 DEF Remote!Result
<1> HIDE DEF result
<1>6. CASE rToServer' = Tail(rToServer) /\ UNCHANGED <<rPending, rWaiting, rToTravel, rToHome>>
  BY <1>1, <1>3, <1>6 DEF NetworkKinds
<1>7. CASE rToServer' = <<>> /\ rToHome' = <<>> /\ UNCHANGED <<rPending, rWaiting, rToTravel>>
  <2>1. /\ rToServer' \in Seq(Remote!Result) /\ Carries(rToServer', P)
        /\ rToHome' \in Seq(Remote!Stages)
    BY <1>7, CarriedEmpty
  <2> QED BY <1>1, <1>7, <2>1 DEF NetworkKinds
<1>8. CASE /\ rPending' = "none" /\ rToServer' = Tail(rToServer) /\ rToHome' = rToHome
           /\ rToTravel' = Append(rToTravel, result) \/ rToTravel' = rToTravel
           /\ rWaiting' = [rWaiting EXCEPT ![result.stage] = "none"]
  <2>1. rToTravel' \in Seq(Remote!Result) /\ Carries(rToTravel', P)
    BY <1>1, <1>4, <1>8
  <2>2. rWaiting' \in [Remote!Stages -> {"none", "live", "stale"}]
    BY <1>1, <1>5, <1>8, WaitingKind
  <2> QED BY <1>1, <1>3, <1>8, <2>1, <2>2 DEF NetworkKinds
<1> QED BY <1>2, <1>6, <1>7, <1>8

LEMMA NetworkAnswers ==
  ASSUME HomeKinds, NEW P, NetworkCarries(P), rInbox.response # 0 => rInbox.response \in P,
         Remote!PersistRequest \/ Remote!ConfirmInstalled \/ Remote!HomeRestart
  PROVE  NetworkKinds' /\ Carries(rToServer', P) /\ Carries(rToTravel', P)
<1>1. /\ NetworkKinds /\ Carries(rToServer, P) /\ Carries(rToTravel, P)
      /\ rToServer \in Seq(Remote!Result) /\ rToHome \in Seq(Remote!Stages)
  BY DEF NetworkCarries, NetworkKinds
<1>2. UNCHANGED <<rWaiting, rPending, rToTravel>>
  BY DEF Remote!PersistRequest, Remote!ConfirmInstalled, Remote!HomeRestart
<1>3. CASE Remote!HomeRestart
  <2>1. /\ rToServer' \in Seq(Remote!Result) /\ Carries(rToServer', P)
        /\ rToHome' \in Seq(Remote!Stages)
    BY <1>3, CarriedEmpty DEF Remote!HomeRestart
  <2> QED BY <1>1, <1>2, <2>1 DEF NetworkKinds
<1>4. CASE Remote!PersistRequest \/ Remote!ConfirmInstalled
  <2>1. rInbox.response \in 0..MaxCredentials
    BY DEF HomeKinds, Remote!Record
  <2>2. PICK zero \in 0..MaxCredentials : zero = 0
    BY EnrollmentConstants
  <2>3. "submit" \in Remote!Stages /\ "installed" \in Remote!Stages
    BY DEF Remote!Stages
  <2>4. PICK answer \in {Remote!Answer("submit", rInbox.response), Remote!Answer("installed", zero),
                         Remote!Refusal("submit"), Remote!Refusal("installed")} :
          rToServer' = Append(rToServer, answer)
    BY <1>4, <2>2 DEF Remote!PersistRequest, Remote!ConfirmInstalled, Remote!None
  <2>5. answer \in Remote!Result /\ (answer.response = 0 \/ answer.response = rInbox.response)
    BY <2>1, <2>2, <2>3, <2>4, AnswerKind, RefusalKind
  <2>6. rToServer' \in Seq(Remote!Result) /\ Carries(rToServer', P)
    BY <1>1, <2>4, <2>5, CarriedAppend
  <2>7. rToHome # <<>> /\ rToHome' = Tail(rToHome)
    BY <1>4 DEF Remote!PersistRequest, Remote!ConfirmInstalled
  <2>8. rToHome' \in Seq(Remote!Stages)
    BY <1>1, <2>7, HeadTailProperties
  <2> QED BY <1>1, <1>2, <2>6, <2>8 DEF NetworkKinds
<1> QED BY <1>3, <1>4

LEMMA NetworkStep ==
  ASSUME TravelKinds, HomeKinds, NEW P, NetworkCarries(P),
         rInbox.response # 0 => rInbox.response \in P, [Remote!Next]_(Remote!vars)
  PROVE  NetworkKinds' /\ Carries(rToServer', P) /\ Carries(rToTravel', P)
<1>1. CASE UNCHANGED Remote!network
  BY <1>1 DEF NetworkCarries, NetworkKinds, Remote!network
<1>2. CASE Remote!Poll
  BY <1>2, NetworkPolls
<1>3. CASE Remote!ApplyResult \/ Remote!ApplyAcknowledgement \/ Remote!RestartTravel
  BY <1>3, NetworkSessions
<1>4. CASE Remote!ServerExpires \/ \E s \in Remote!Stages : Remote!RelayTimesOut(s)
  BY <1>4, NetworkExpires
<1>5. CASE Remote!CompleteResult \/ Remote!CompleteAcknowledgement
  BY <1>5, NetworkCompletes DEF Remote!CompleteResult, Remote!CompleteAcknowledgement, Remote!Stages
<1>6. CASE Remote!PersistRequest \/ Remote!ConfirmInstalled \/ Remote!HomeRestart
  BY <1>6, NetworkAnswers
<1>7. \/ UNCHANGED Remote!network
      \/ Remote!Poll
      \/ Remote!ApplyResult \/ Remote!ApplyAcknowledgement \/ Remote!RestartTravel
      \/ Remote!ServerExpires \/ \E s \in Remote!Stages : Remote!RelayTimesOut(s)
      \/ Remote!CompleteResult \/ Remote!CompleteAcknowledgement
      \/ Remote!PersistRequest \/ Remote!ConfirmInstalled \/ Remote!HomeRestart
  BY Zenon DEF Remote!Next, Remote!vars, Remote!travel, Remote!network, Remote!home,
     Remote!CreateRequest, Remote!MarkOutboxChanged, Remote!LoadGeneration,
     Remote!Scan, Remote!GiveUpInflight, Remote!Install, Remote!ReadInbox,
     Remote!RefuseApproval, Remote!FindInLedger, Remote!JournalPending,
     Remote!JournalFails, Remote!Publish, Remote!MarkPublished, Remote!MarkFails,
     Remote!CommitResponse, Remote!issuer, Remote!Revoke, Remote!PruneInbox,
     Remote!PruneOutbox
<1> QED BY <1>1, <1>2, <1>3, <1>4, <1>5, <1>6, <1>7

\* The record of the Travel answers with a result that was on the way.
LEMMA OutboxCarries ==
  ASSUME TravelKinds, NEW P, NetworkCarries(P), rOutbox.response # 0 => rOutbox.response \in P,
         [Remote!Next]_(Remote!vars)
  PROVE  rOutbox'.response # 0 => rOutbox'.response \in P
<1>1. CASE Remote!CreateRequest
  <2>1. PICK yes \in BOOLEAN : yes = TRUE
    OBVIOUS
  <2>2. rOutbox' = [Remote!NoRecord EXCEPT !.known = yes]
    BY <1>1, <2>1 DEF Remote!CreateRequest
  <2>3. rOutbox'.response = 0
    BY <2>2, RemoteRecords DEF Remote!Record
  <2> QED BY <2>3
<1>2. CASE Remote!ApplyResult
  <2> DEFINE result == Head(rToTravel)
  <2>1. rToTravel # <<>>
        /\ (rOutbox' = rOutbox \/ rOutbox' = [rOutbox EXCEPT !.response = result.response])
    BY <1>2 DEF Remote!ApplyResult
  <2>2. rToTravel \in Seq(Remote!Result) /\ Carries(rToTravel, P)
    BY DEF NetworkCarries, NetworkKinds
  <2>3. result.response # 0 => result.response \in P
    BY <2>1, <2>2, CarriedTail
  <2> HIDE DEF result
  <2>4. rOutbox' = rOutbox \/ rOutbox'.response = result.response
    BY <2>1 DEF TravelKinds, Remote!Record
  <2> QED BY <2>3, <2>4
<1>3. CASE Remote!Install
  <2>1. rOutbox' = [rOutbox EXCEPT !.installed = TRUE]
    BY <1>3 DEF Remote!Install
  <2>2. rOutbox'.response = rOutbox.response
    BY <2>1 DEF TravelKinds, Remote!Record
  <2> QED BY <2>2
<1>4. CASE rOutbox' = rOutbox \/ rOutbox' = Remote!NoRecord
  BY <1>4, RemoteRecords
<1>5. \/ Remote!CreateRequest \/ Remote!ApplyResult \/ Remote!Install
      \/ rOutbox' = rOutbox \/ rOutbox' = Remote!NoRecord
  BY TravelActs, Zenon
     DEF Remote!travel, Remote!MarkOutboxChanged, Remote!LoadGeneration, Remote!Scan, Remote!Poll,
         Remote!GiveUpInflight, Remote!ApplyAcknowledgement, Remote!RestartTravel, Remote!PruneOutbox
<1> QED BY <1>1, <1>2, <1>3, <1>4, <1>5

LEMMA RemoteInit ==
  ASSUME Remote!Init
  PROVE  RemoteInv
<1>1. PICK zero \in 0..MaxCredentials : zero = 0
  BY EnrollmentConstants
<1>2. PICK no \in BOOLEAN : no = FALSE
  OBVIOUS
<1>3. PICK start \in 0..MaxChanges : start = 0
  BY EnrollmentConstants
<1>4. TravelKinds /\ RemoteScans
  <2>1. PICK old \in {"old", "new"} : old = "old"
    OBVIOUS
  <2>2. rIdentity = [stored |-> old, running |-> old] /\ rChanges = [generation |-> start, owed |-> start]
    BY <1>3, <2>1 DEF Remote!Init
  <2>3. /\ rIdentity \in [stored : {"old", "new"}, running : {"old", "new"}]
        /\ rChanges \in [generation : 0..MaxChanges, owed : 0..MaxChanges]
        /\ rChanges.generation = 0 /\ rChanges.owed = 0
    BY <1>3, <2>2
  <2>4. rOutbox \in Remote!Record /\ rOutbox.known = FALSE
    BY RemoteRecords DEF Remote!Init
  <2> DEFINE some == 0 # 0
  <2>5. PICK at \in {"idle", "scanning", "scanned"} : at = "idle"
    OBVIOUS
  <2>6. some = no
    BY <1>2
  <2> HIDE DEF some
  <2>7. rPoll = [at |-> at, loaded |-> start, found |-> Remote!Nothing, checked |-> start,
                 pending |-> no, inflight |-> no]
    <3>1. rPoll = [at |-> "idle", loaded |-> 0, found |-> Remote!Nothing, checked |-> 0,
                   pending |-> some, inflight |-> FALSE]
      BY DEF Remote!Init, Remote!NewSession, some
    <3> QED BY <1>2, <1>3, <2>5, <2>6, <3>1
  <2>8. /\ rPoll \in RemotePoll
        /\ rPoll.loaded = 0 /\ rPoll.checked = 0 /\ rPoll.inflight = FALSE
    BY <1>2, <1>3, <2>7, RemoteRecords
  <2>9. TravelKinds
    BY <2>3, <2>4, <2>8 DEF TravelKinds
  <2>10. Remote!Due = "nothing"
    BY <2>4 DEF Remote!Due
  <2>11. RemoteScans
    BY <2>3, <2>4, <2>8, <2>10, EnrollmentConstants DEF RemoteScans
  <2> QED BY <2>9, <2>11
<1>5. NetworkKinds /\ Carries(rToServer, rPublished.credentials) /\ Carries(rToTravel, rPublished.credentials)
  <2>1. rToHome \in Seq(Remote!Stages) /\ rToServer \in Seq(Remote!Result)
        /\ rToTravel \in Seq(Remote!Result)
        /\ Carries(rToServer, rPublished.credentials) /\ Carries(rToTravel, rPublished.credentials)
    BY CarriedEmpty DEF Remote!Init
  <2>2. rWaiting \in [Remote!Stages -> {"none", "live", "stale"}] /\ rPending = "none"
    BY DEF Remote!Init
  <2> QED BY <2>1, <2>2 DEF NetworkKinds
<1>6. HomeKinds /\ RemotePublished /\ RemoteLedger
  <2>1. PICK e \in SUBSET (1..MaxCredentials) : e = {}
    OBVIOUS
  <2> DEFINE blank == [credential |-> zero, published |-> no]
  <2>2. /\ rLedger = [disk |-> blank, memory |-> blank] /\ rUnjournaled = {}
        /\ rPublished = [credentials |-> e, revoked |-> e]
    BY <1>1, <1>2, <2>1 DEF Remote!Init, Remote!NoIssue, Remote!None
  <2>3. blank \in Remote!Issue /\ blank.credential = 0 /\ blank.published = FALSE
    BY <1>1, <1>2 DEF Remote!Issue
  <2> HIDE DEF blank
  <2>4. /\ rLedger \in [disk : Remote!Issue, memory : Remote!Issue]
        /\ rLedger.disk = blank /\ rLedger.memory = blank
        /\ rPublished \in [credentials : SUBSET (1..MaxCredentials),
                           revoked : SUBSET (1..MaxCredentials)]
        /\ rPublished.credentials = {}
    BY <2>1, <2>2, <2>3
  <2>5. rInbox \in Remote!Record /\ rInbox.response = 0
    BY RemoteRecords DEF Remote!Init
  <2>6. /\ rApproval \in [InboxApprovers -> RemoteApproval]
        /\ \A a \in InboxApprovers : rApproval[a].at = "idle"
    BY NoApprovalKind DEF Remote!Init
  <2>7. rSigned \in 0..MaxCredentials /\ rConfirmed \in BOOLEAN
    BY <1>1, <1>2 DEF Remote!Init
  <2>8. HomeKinds
    BY <2>2, <2>4, <2>5, <2>6, <2>7 DEF HomeKinds, RemoteApproval
  <2>9. RemotePublished
    BY <2>4, <2>3, <2>5 DEF RemotePublished
  <2>10. RemoteLedger
    BY <2>6 DEF RemoteLedger, ApprovalFits, AtLedger
  <2> QED BY <2>8, <2>9, <2>10
<1>7. rOutbox.response = 0
  BY RemoteRecords DEF Remote!Init
<1>8. rMishaps \in 0..MaxMishaps
  BY EnrollmentConstants DEF Remote!Init
<1>9. Remote!TypeOK
  BY <1>4, <1>5, <1>6, <1>8, RemoteKinds
<1>10. RemoteCarried
  BY <1>5, <1>7 DEF RemoteCarried
<1> QED BY <1>4, <1>6, <1>9, <1>10 DEF RemoteInv

LEMMA RemoteStepKeeps ==
  ASSUME RemoteInv, [Remote!Next]_(Remote!vars)
  PROVE  RemoteInv'
<1>1. TravelKinds /\ NetworkKinds /\ HomeKinds /\ rMishaps \in 0..MaxMishaps
  BY RemoteKinds DEF RemoteInv
<1>2. RemotePublished /\ RemoteCarried /\ RemoteLedger /\ RemoteScans
  BY DEF RemoteInv
<1>3. TravelKinds' /\ RemoteScans'
  BY <1>1, <1>2, TravelStep
<1>4. HomeKinds' /\ RemoteLedger' /\ RemotePublished'
  BY <1>1, <1>2, HomeStep
<1> DEFINE P == rPublished.credentials
           Q == rPublished'.credentials
<1>5. P \subseteq Q
  BY <1>1, PublishedStays
<1>6. NetworkCarries(P) /\ (rInbox.response # 0 => rInbox.response \in P)
      /\ (rOutbox.response # 0 => rOutbox.response \in P)
  BY <1>1, <1>2 DEF NetworkCarries, RemotePublished, RemoteCarried
<1> HIDE DEF P, Q
<1>7. NetworkKinds' /\ Carries(rToServer', P) /\ Carries(rToTravel', P)
  BY <1>1, <1>6, NetworkStep
<1>8. rOutbox'.response # 0 => rOutbox'.response \in P
  BY <1>1, <1>6, OutboxCarries
<1>9. Carries(rToServer', Q) /\ Carries(rToTravel', Q)
  BY <1>5, <1>7, CarriedGrows
<1>10. RemoteCarried'
  BY <1>5, <1>8, <1>9 DEF RemoteCarried, Q
<1>11. rMishaps' \in 0..MaxMishaps
  <2>1. CASE Remote!Next
    BY <1>1, <2>1, RemoteMishapsStep
  <2>2. CASE UNCHANGED Remote!vars
    BY <1>1, <2>2 DEF Remote!vars
  <2> QED BY <2>1, <2>2
<1>12. Remote!TypeOK'
  <2>1. TravelKinds' /\ NetworkKinds' /\ HomeKinds' /\ rMishaps' \in 0..MaxMishaps
    BY <1>3, <1>4, <1>7, <1>11
  <2> QED BY <2>1 DEF Remote!TypeOK, TravelKinds, NetworkKinds, HomeKinds, Remote!CredentialIds
<1> QED BY <1>3, <1>4, <1>10, <1>12 DEF RemoteInv

\* The invariant of the remote enrollment, whenever that part takes the steps.
LEMMA RemoteAlways == ControlSpec => [](comp = "remote" => RemoteInv)
<1>1. ControlInit => (comp = "remote" => RemoteInv)
  BY RemoteInit DEF ControlInit
<1>2. (comp = "remote" => RemoteInv) /\ [ControlNext]_<<vars, shared, comp>>
      => (comp = "remote" => RemoteInv)'
  BY RemoteTurn, RemoteStepKeeps
<1> QED BY <1>1, <1>2, PTL DEF ControlSpec

\* What a Travel received or installed, and what the inbox of the Home answers with, is
\* the one credential the Server has for the request, across repeated approvals, lost
\* confirmations, failed writes and restarts; and the file of the ledger has it, unless
\* the write that should have put it there failed (issue_from_home_with_password, and
\* insert_pending, which leaves the record of a failed write in memory).
THEOREM ControlTravelHoldsThePublished == ControlSpec => []TravelHoldsThePublished
<1>1. (comp = "remote" => RemoteInv) => TravelHoldsThePublished
  <2> SUFFICES ASSUME comp = "remote", RemoteInv
               PROVE  Remote!TravelHoldsThePublished
    BY DEF TravelHoldsThePublished
  <2>1. /\ \A m, n \in rPublished.credentials : m = n
        /\ \A n \in rPublished.credentials : n \in rUnjournaled \/ n = rLedger.disk.credential
        /\ rInbox.response # 0 => rInbox.response \in rPublished.credentials
        /\ rOutbox.response # 0 => rOutbox.response \in rPublished.credentials
    BY DEF RemoteInv, RemotePublished, RemoteCarried
  <2> QED BY <2>1 DEF Remote!TravelHoldsThePublished, Remote!None
<1> QED BY <1>1, RemoteAlways, PTL

\* An enrollment record that is due is found: once its writer has raised the generation,
\* the session between two polls knows of it or sees a generation it has not checked
\* (poll_remote_enrollment loads the generation before it scans the store).
THEOREM ControlNoMissedScan == ControlSpec => []NoMissedScan
<1>1. (comp = "remote" => RemoteInv) => NoMissedScan
  <2> SUFFICES ASSUME comp = "remote", RemoteInv
               PROVE  Remote!NoMissedScan
    BY DEF NoMissedScan
  <2>1. Remote!Due # "nothing" /\ rChanges.owed = 0 =>
          (rPoll.at = "idle" => rPoll.pending \/ rChanges.generation # rPoll.checked)
    BY DEF RemoteInv, RemoteScans
  <2> QED BY <2>1 DEF Remote!NoMissedScan, Remote!ScanNeeded
<1> QED BY <1>1, RemoteAlways, PTL

-----------------------------------------------------------------------------
(* A new Home joins the deployment (module HomeEnrollment).                 *)

hFiles == v1
hSetup == v2
hDispatch == v3
hRecord == v4
hSubmits == v5
hAnswers == v6
hCompleting == v7
hImported == v8
hInbox == v9
hApproving == v10
hSigned == v11
hMishaps == v12
USE DEF hFiles, hSetup, hDispatch, hRecord, hSubmits, hAnswers, hCompleting, hImported,
        hInbox, hApproving, hSigned, hMishaps

LEMMA NewHomeTurn ==
  ASSUME [ControlNext]_<<vars, shared, comp>>, comp' = "new_home"
  PROVE  comp = "new_home" /\ [NewHome!Next]_(NewHome!vars)
  BY DEF ControlNext, DirectoryStep, LoginStep, TrustStep, NewHomeStep, RemoteStep,
         HomesStep, SessionStep, shared, NewHome!vars

\* FiniteSets as the component has it.
LEMMA NewHomeCardinality == \A S : NewHome!Cardinality(S) = Cardinality(S)
  BY Zenon DEF NewHome!Cardinality, Cardinality

HomeDispatch == [at : {"idle", "waiting", "ended"}, told : NewHome!Told,
                 response : 0..MaxApprovals, unsent : SUBSET GlobalHomes, late : BOOLEAN]
HomeRecord == [dispatch : 0..MaxDispatches, remaining : 0..Cardinality(GlobalHomes),
               accepted : BOOLEAN, sender : BOOLEAN]
HomeCompletion == [at : {"idle", "importing", "imported"},
                   response : 0..MaxApprovals, dispatch : 0..MaxDispatches]
HomeApproval == [at : {"idle", "read", "signed"}, response : 0..MaxApprovals]

\* The kinds of the values, by the program that keeps them.
SetupKinds ==
    /\ hFiles \in [dir : BOOLEAN, state : BOOLEAN, response : 0..MaxApprovals, config : BOOLEAN]
    /\ hSetup \in [at : {"off", "creating", "sleeping", "polling", "installing", "configuring"},
                   dispatch : 0..MaxDispatches, response : 0..MaxApprovals]
IssuerKinds ==
    /\ hInbox \in [GlobalHomes -> 0..(MaxApprovals + 1)]
    /\ hApproving \in [GlobalHomes \X HomeOperators -> HomeApproval]
    /\ hSigned \in 0..MaxApprovals

\* What the setup has received is the endpoint that the Server has authorized.
SetupAuthorized ==
    /\ hFiles.response \in {0, hImported} /\ hSetup.response \in {0, hImported}
    /\ hSetup.at = "polling" => hSetup.dispatch # 0

\* So is what a dispatch was told; and a record is of a dispatch that waits.
HomeTable == [1..MaxDispatches -> HomeDispatch]
Waits(table, of, n) ==
    /\ table \in HomeTable /\ of \in HomeRecord
    /\ \A d \in 1..MaxDispatches : table[d].response \in {0, n}
    /\ of.dispatch # 0 => table[of.dispatch].at = "waiting"

\* A completion that is past the import has imported the authorized endpoint.
CompletionsAuthorized ==
    /\ hCompleting \in [GlobalHomes -> HomeCompletion]
    /\ hImported \in 0..MaxApprovals
    /\ \A i \in GlobalHomes :
          /\ hCompleting[i].at # "idle" => hCompleting[i].response # 0
          /\ hCompleting[i].at = "imported" => hCompleting[i].response = hImported

\* A request that was queued to a global Home is of a dispatch that has sent it.
HomeSent(table, i) == {d \in 1..MaxDispatches : table[d].at # "idle" /\ i \notin table[d].unsent}
SubmitsCounted == \A i \in GlobalHomes : hSubmits[i] <= Cardinality(HomeSent(hDispatch, i))

QueueKinds ==
    /\ hSubmits \in [GlobalHomes -> Nat]
    /\ hAnswers \in [GlobalHomes -> Seq(0..(MaxApprovals + 1))]

NewHomeInv ==
    /\ SetupKinds /\ QueueKinds /\ IssuerKinds /\ hMishaps \in 0..MaxMishaps
    /\ SetupAuthorized /\ SubmitsCounted
    /\ Waits(hDispatch, hRecord, hImported) /\ CompletionsAuthorized

LEMMA HomeZero ==
  /\ 0 \in 0..MaxApprovals /\ 0 \in 0..MaxDispatches /\ 0 \in 0..MaxMishaps
  /\ 1..MaxDispatches \subseteq 0..MaxDispatches
  /\ 1..MaxApprovals \subseteq 0..MaxApprovals
  /\ Cardinality(GlobalHomes) \in Nat
  BY EnrollmentConstants, FS_CardinalityType

LEMMA HomeMishapsStep ==
  ASSUME hMishaps \in 0..MaxMishaps, [NewHome!Next]_(NewHome!vars)
  PROVE  hMishaps' \in 0..MaxMishaps
<1>1. NewHome!Mishap \/ UNCHANGED hMishaps
  BY Zenon DEF NewHome!Next, NewHome!vars, NewHome!StartSetup, NewHome!CreateRequest,
     NewHome!SaveBootstrapState, NewHome!Dispatch, NewHome!PollReturns, NewHome!PollTimesOut,
     NewHome!InstallResponse, NewHome!WriteConfig, NewHome!RemoveBootstrapState,
     NewHome!SetupCrashes, NewHome!CleanupPending, NewHome!ServerRestart,
     NewHome!DeadlinePasses, NewHome!EndDispatch, NewHome!SendSubmit, NewHome!SendFails,
     NewHome!CountAnswer, NewHome!TakeSender, NewHome!ImportEndpoint, NewHome!FinishCompletion,
     NewHome!PersistRequest, NewHome!PruneRequest, NewHome!ReadForApproval,
     NewHome!SignApproval, NewHome!CommitApproval
<1> QED BY <1>1, EnrollmentConstants DEF NewHome!Mishap

(***************************************************************************)
(* The setup of the new Home.                                              *)
(***************************************************************************)
\* The record of the setup after a step of it.
LEMMA SetupMoves ==
  ASSUME SetupKinds, SetupAuthorized,
         hSetup' \in [at : {"off", "creating", "sleeping", "polling", "installing", "configuring"},
                      dispatch : 0..MaxDispatches, response : 0..MaxApprovals],
         hSetup'.response \in {0, hImported},
         hSetup'.at = "polling" => hSetup'.dispatch # 0,
         hFiles' \in [dir : BOOLEAN, state : BOOLEAN, response : 0..MaxApprovals, config : BOOLEAN],
         hFiles'.response \in {0, hImported}
  PROVE  /\ SetupKinds' /\ hFiles'.response \in {0, hImported}
         /\ hSetup'.response \in {0, hImported}
         /\ hSetup'.at = "polling" => hSetup'.dispatch # 0
  BY DEF SetupKinds

\* The files change, and no response among them.
LEMMA FilesMove ==
  ASSUME SetupKinds, SetupAuthorized, NEW b \in BOOLEAN,
         \/ hFiles' = [hFiles EXCEPT !.dir = b]
         \/ hFiles' = [hFiles EXCEPT !.state = b]
         \/ hFiles' = [hFiles EXCEPT !.config = b]
         \/ hFiles' = hFiles
  PROVE  /\ hFiles' \in [dir : BOOLEAN, state : BOOLEAN, response : 0..MaxApprovals, config : BOOLEAN]
         /\ hFiles'.response \in {0, hImported}
  BY DEF SetupKinds, SetupAuthorized

\* The setup goes on at another place.
LEMMA SetupGoes ==
  ASSUME SetupKinds, SetupAuthorized,
         NEW at \in {"off", "creating", "sleeping", "installing", "configuring"},
         NEW d \in 0..MaxDispatches, NEW n \in 0..MaxApprovals, n \in {0, hImported},
         \/ hSetup' = [hSetup EXCEPT !.at = at]
         \/ hSetup' = [hSetup EXCEPT !.at = at, !.dispatch = d]
         \/ hSetup' = [hSetup EXCEPT !.at = at, !.response = n]
         \/ hSetup' = [at |-> at, dispatch |-> d, response |-> n]
         \/ hSetup' = hSetup
  PROVE  /\ hSetup' \in [at : {"off", "creating", "sleeping", "polling", "installing", "configuring"},
                         dispatch : 0..MaxDispatches, response : 0..MaxApprovals]
         /\ hSetup'.response \in {0, hImported}
         /\ hSetup'.at = "polling" => hSetup'.dispatch # 0
<1>1. PICK where \in {"off", "creating", "sleeping", "polling", "installing", "configuring"} : where = at
  OBVIOUS
<1>2. \/ hSetup' = [hSetup EXCEPT !.at = where]
      \/ hSetup' = [hSetup EXCEPT !.at = where, !.dispatch = d]
      \/ hSetup' = [hSetup EXCEPT !.at = where, !.response = n]
      \/ hSetup' = [at |-> where, dispatch |-> d, response |-> n]
      \/ hSetup' = hSetup
  BY <1>1
<1>3. where # "polling"
  BY <1>1
<1>4. /\ hSetup \in [at : {"off", "creating", "sleeping", "polling", "installing", "configuring"},
                     dispatch : 0..MaxDispatches, response : 0..MaxApprovals]
      /\ hSetup.response \in {0, hImported} /\ (hSetup.at = "polling" => hSetup.dispatch # 0)
  BY DEF SetupKinds, SetupAuthorized
<1>5. CASE hSetup' = [hSetup EXCEPT !.at = where]
  BY <1>3, <1>4, <1>5
<1>6. CASE hSetup' = [hSetup EXCEPT !.at = where, !.dispatch = d]
  BY <1>3, <1>4, <1>6
<1>7. CASE hSetup' = [hSetup EXCEPT !.at = where, !.response = n]
  BY <1>3, <1>4, <1>7
<1>8. CASE hSetup' = [at |-> where, dispatch |-> d, response |-> n]
  BY <1>3, <1>8
<1>9. CASE hSetup' = hSetup
  BY <1>4, <1>9
<1> QED BY <1>2, <1>5, <1>6, <1>7, <1>8, <1>9

\* The steps of the setup that leave the responses alone.
LEMMA SetupWorks ==
  ASSUME SetupKinds, SetupAuthorized,
         \/ NewHome!StartSetup \/ NewHome!CreateRequest \/ NewHome!SaveBootstrapState
         \/ NewHome!PollTimesOut \/ NewHome!WriteConfig \/ NewHome!RemoveBootstrapState
         \/ NewHome!SetupCrashes
  PROVE  /\ SetupKinds' /\ hFiles'.response \in {0, hImported}
         /\ hSetup'.response \in {0, hImported}
         /\ hSetup'.at = "polling" => hSetup'.dispatch # 0
<1>1. PICK no \in BOOLEAN : no = FALSE
  OBVIOUS
<1>2. PICK yes \in BOOLEAN : yes = TRUE
  OBVIOUS
<1>3. PICK z \in 0..MaxDispatches : z = 0
  BY HomeZero
<1>4. PICK n \in 0..MaxApprovals : n = 0
  BY HomeZero
<1>5. PICK b \in BOOLEAN :
      \/ hFiles' = [hFiles EXCEPT !.dir = b]
      \/ hFiles' = [hFiles EXCEPT !.state = b]
      \/ hFiles' = [hFiles EXCEPT !.config = b]
      \/ hFiles' = hFiles
  BY <1>1, <1>2 DEF NewHome!StartSetup, NewHome!CreateRequest, NewHome!SaveBootstrapState,
     NewHome!PollTimesOut, NewHome!WriteConfig, NewHome!RemoveBootstrapState, NewHome!SetupCrashes
<1>6. PICK at \in {"off", "creating", "sleeping", "installing", "configuring"} :
         \/ hSetup' = [hSetup EXCEPT !.at = at]
         \/ hSetup' = [hSetup EXCEPT !.at = at, !.dispatch = z]
         \/ hSetup' = [at |-> at, dispatch |-> z, response |-> n]
         \/ hSetup' = hSetup
  <2>1. CASE NewHome!StartSetup
    <3> DEFINE at == IF hFiles.state THEN "sleeping" ELSE "creating"
    <3>1. hSetup' = [hSetup EXCEPT !.at = at]
      BY <2>1 DEF NewHome!StartSetup
    <3>2. at \in {"off", "creating", "sleeping", "installing", "configuring"}
      OBVIOUS
    <3> HIDE DEF at
    <3> QED BY <3>1, <3>2
  <2>2. CASE NewHome!SaveBootstrapState
    <3>1. PICK at \in {"off", "creating", "sleeping", "installing", "configuring"} : at = "sleeping"
      OBVIOUS
    <3> QED BY <2>2, <3>1 DEF NewHome!SaveBootstrapState
  <2>3. CASE NewHome!PollTimesOut
    <3>1. PICK at \in {"off", "creating", "sleeping", "installing", "configuring"} : at = "sleeping"
      OBVIOUS
    <3> QED BY <1>3, <2>3, <3>1 DEF NewHome!PollTimesOut, NewHome!None
  <2>4. CASE NewHome!RemoveBootstrapState \/ NewHome!SetupCrashes
    <3>1. PICK at \in {"off", "creating", "sleeping", "installing", "configuring"} : at = "off"
      OBVIOUS
    <3> QED BY <1>3, <1>4, <2>4, <3>1 DEF NewHome!RemoveBootstrapState, NewHome!SetupCrashes,
              NewHome!None
  <2>5. CASE NewHome!CreateRequest \/ NewHome!WriteConfig
    BY <2>5 DEF NewHome!CreateRequest, NewHome!WriteConfig
  <2> QED BY <2>1, <2>2, <2>3, <2>4, <2>5
<1>7. n \in {0, hImported}
  BY <1>4
<1>8. /\ hSetup' \in [at : {"off", "creating", "sleeping", "polling", "installing", "configuring"},
                      dispatch : 0..MaxDispatches, response : 0..MaxApprovals]
      /\ hSetup'.response \in {0, hImported}
      /\ hSetup'.at = "polling" => hSetup'.dispatch # 0
  BY <1>6, <1>7, SetupGoes
<1>9. /\ hFiles' \in [dir : BOOLEAN, state : BOOLEAN, response : 0..MaxApprovals, config : BOOLEAN]
      /\ hFiles'.response \in {0, hImported}
  BY <1>5, FilesMove
<1> QED BY <1>8, <1>9, SetupMoves

LEMMA SetupPolls ==
  ASSUME SetupKinds, SetupAuthorized, NewHome!Dispatch
  PROVE  /\ SetupKinds' /\ hFiles'.response \in {0, hImported}
         /\ hSetup'.response \in {0, hImported}
         /\ hSetup'.at = "polling" => hSetup'.dispatch # 0
<1>1. PICK d \in 1..MaxDispatches :
        hSetup' = [hSetup EXCEPT !.at = "polling", !.dispatch = d] /\ hFiles' = hFiles
  BY DEF NewHome!Dispatch, NewHome!Dispatches
<1>2. PICK at \in {"off", "creating", "sleeping", "polling", "installing", "configuring"} : at = "polling"
  OBVIOUS
<1>3. hSetup' = [hSetup EXCEPT !.at = at, !.dispatch = d]
  BY <1>1, <1>2
<1>4. d \in 0..MaxDispatches /\ d # 0
  BY EnrollmentConstants
<1>5. /\ hSetup' \in [at : {"off", "creating", "sleeping", "polling", "installing", "configuring"},
                      dispatch : 0..MaxDispatches, response : 0..MaxApprovals]
      /\ hSetup'.response \in {0, hImported} /\ hSetup'.dispatch # 0
  BY <1>3, <1>4 DEF SetupKinds, SetupAuthorized
<1> QED BY <1>1, <1>5 DEF SetupKinds, SetupAuthorized

LEMMA SetupReceives ==
  ASSUME SetupKinds, SetupAuthorized, Waits(hDispatch, hRecord, hImported), NewHome!PollReturns
  PROVE  /\ SetupKinds' /\ hFiles'.response \in {0, hImported}
         /\ hSetup'.response \in {0, hImported}
         /\ hSetup'.at = "polling" => hSetup'.dispatch # 0
<1> DEFINE n == hDispatch[hSetup.dispatch].response
<1>1. /\ hSetup.at = "polling" /\ hFiles' = hFiles
      /\ \/ hSetup' = [at |-> "installing", dispatch |-> 0, response |-> n]
         \/ hSetup' = [hSetup EXCEPT !.at = "sleeping", !.dispatch = 0]
  BY DEF NewHome!PollReturns, NewHome!None
<1>2. hSetup.dispatch \in 1..MaxDispatches
  BY <1>1, EnrollmentConstants DEF SetupKinds, SetupAuthorized
<1>3. n \in 0..MaxApprovals /\ n \in {0, hImported}
  BY <1>2 DEF Waits, HomeTable, HomeDispatch
<1> HIDE DEF n
<1>4. PICK z \in 0..MaxDispatches : z = 0
  BY HomeZero
<1>5. PICK at \in {"off", "creating", "sleeping", "installing", "configuring"} :
         \/ hSetup' = [hSetup EXCEPT !.at = at, !.dispatch = z]
         \/ hSetup' = [at |-> at, dispatch |-> z, response |-> n]
  <2>1. PICK a \in {"off", "creating", "sleeping", "installing", "configuring"} : a = "installing"
    OBVIOUS
  <2>2. PICK b \in {"off", "creating", "sleeping", "installing", "configuring"} : b = "sleeping"
    OBVIOUS
  <2> QED BY <1>1, <1>4, <2>1, <2>2
<1>6. /\ hSetup' \in [at : {"off", "creating", "sleeping", "polling", "installing", "configuring"},
                      dispatch : 0..MaxDispatches, response : 0..MaxApprovals]
      /\ hSetup'.response \in {0, hImported}
      /\ hSetup'.at = "polling" => hSetup'.dispatch # 0
  BY <1>3, <1>5, SetupGoes
<1> QED BY <1>1, <1>6 DEF SetupKinds, SetupAuthorized

LEMMA SetupInstalls ==
  ASSUME SetupKinds, SetupAuthorized, NewHome!InstallResponse
  PROVE  /\ SetupKinds' /\ hFiles'.response \in {0, hImported}
         /\ hSetup'.response \in {0, hImported}
         /\ hSetup'.at = "polling" => hSetup'.dispatch # 0
<1>1. PICK z \in 0..MaxDispatches : z = 0
  BY HomeZero
<1>2. PICK n \in 0..MaxApprovals : n = 0
  BY HomeZero
<1>3. PICK at \in {"off", "creating", "sleeping", "installing", "configuring"} :
         \/ hSetup' = [hSetup EXCEPT !.at = at]
         \/ hSetup' = [hSetup EXCEPT !.at = at, !.response = n]
  <2>1. PICK a \in {"off", "creating", "sleeping", "installing", "configuring"} : a = "configuring"
    OBVIOUS
  <2>2. PICK b \in {"off", "creating", "sleeping", "installing", "configuring"} : b = "off"
    OBVIOUS
  <2> QED BY <1>2, <2>1, <2>2 DEF NewHome!InstallResponse, NewHome!None
<1>4. /\ hSetup' \in [at : {"off", "creating", "sleeping", "polling", "installing", "configuring"},
                      dispatch : 0..MaxDispatches, response : 0..MaxApprovals]
      /\ hSetup'.response \in {0, hImported}
      /\ hSetup'.at = "polling" => hSetup'.dispatch # 0
  <2>1. n \in {0, hImported}
    BY <1>2
  <2> QED BY <1>1, <1>3, <2>1, SetupGoes
<1>5. hFiles' = hFiles \/ hFiles' = [hFiles EXCEPT !.response = hSetup.response]
  BY DEF NewHome!InstallResponse
<1>6. /\ hFiles' \in [dir : BOOLEAN, state : BOOLEAN, response : 0..MaxApprovals, config : BOOLEAN]
      /\ hFiles'.response \in {0, hImported}
  BY <1>5 DEF SetupKinds, SetupAuthorized
<1> QED BY <1>4, <1>6, SetupMoves

LEMMA SetupStep ==
  ASSUME SetupKinds, SetupAuthorized, Waits(hDispatch, hRecord, hImported), [NewHome!Next]_(NewHome!vars)
  PROVE  /\ SetupKinds' /\ hFiles'.response \in {0, hImported}
         /\ hSetup'.response \in {0, hImported}
         /\ hSetup'.at = "polling" => hSetup'.dispatch # 0
<1>1. CASE UNCHANGED NewHome!client
  BY <1>1 DEF NewHome!client, SetupKinds, SetupAuthorized
<1>2. CASE \/ NewHome!StartSetup \/ NewHome!CreateRequest \/ NewHome!SaveBootstrapState
           \/ NewHome!PollTimesOut \/ NewHome!WriteConfig \/ NewHome!RemoveBootstrapState
           \/ NewHome!SetupCrashes
  BY <1>2, SetupWorks
<1>3. CASE NewHome!Dispatch
  BY <1>3, SetupPolls
<1>4. CASE NewHome!PollReturns
  BY <1>4, SetupReceives
<1>5. CASE NewHome!InstallResponse
  BY <1>5, SetupInstalls
<1>6. \/ UNCHANGED NewHome!client
      \/ NewHome!StartSetup \/ NewHome!CreateRequest \/ NewHome!SaveBootstrapState
      \/ NewHome!PollTimesOut \/ NewHome!WriteConfig \/ NewHome!RemoveBootstrapState
      \/ NewHome!SetupCrashes
      \/ NewHome!Dispatch \/ NewHome!PollReturns \/ NewHome!InstallResponse
  BY Zenon DEF NewHome!Next, NewHome!vars, NewHome!client, NewHome!CleanupPending,
     NewHome!ServerRestart,
     NewHome!DeadlinePasses, NewHome!EndDispatch, NewHome!SendSubmit, NewHome!SendFails,
     NewHome!CountAnswer, NewHome!TakeSender, NewHome!ImportEndpoint, NewHome!FinishCompletion,
     NewHome!PersistRequest, NewHome!PruneRequest, NewHome!ReadForApproval,
     NewHome!SignApproval, NewHome!CommitApproval
<1> QED BY <1>1, <1>2, <1>3, <1>4, <1>5, <1>6

(***************************************************************************)
(* The dispatches at the Server.                                           *)
(***************************************************************************)
\* A dispatch that goes on: it waits as before, and was told nothing but n.
GoesOn(f, g, n) ==
    /\ g \in HomeTable
    /\ \A d \in 1..MaxDispatches :
          /\ g[d].at = f[d].at /\ g[d].unsent \subseteq f[d].unsent
          /\ g[d].response \in {f[d].response, n}

\* What was sent stays sent.
SentStays(f, g) ==
    \A d \in 1..MaxDispatches :
        f[d].at # "idle" => g[d].at # "idle" /\ g[d].unsent \subseteq f[d].unsent

LEMMA GoesOnStays ==
  ASSUME NEW f \in HomeTable, NEW n
  PROVE  GoesOn(f, f, n)
  BY DEF GoesOn

LEMMA GoesOnAgain ==
  ASSUME NEW f \in HomeTable, NEW g, NEW h, NEW n, GoesOn(f, g, n), GoesOn(g, h, n)
  PROVE  GoesOn(f, h, n)
<1> SUFFICES ASSUME NEW d \in 1..MaxDispatches
             PROVE  /\ h[d].at = f[d].at /\ h[d].unsent \subseteq f[d].unsent
                    /\ h[d].response \in {f[d].response, n}
  BY DEF GoesOn
<1>1. /\ g[d].at = f[d].at /\ g[d].unsent \subseteq f[d].unsent
      /\ g[d].response = f[d].response \/ g[d].response = n
      /\ h[d].at = g[d].at /\ h[d].unsent \subseteq g[d].unsent
      /\ h[d].response = g[d].response \/ h[d].response = n
  BY DEF GoesOn
<1> QED BY <1>1

LEMMA GoesOnOne ==
  ASSUME NEW f \in HomeTable, NEW d \in 1..MaxDispatches, NEW r \in HomeDispatch, NEW n,
         r.at = f[d].at, r.unsent \subseteq f[d].unsent, r.response \in {f[d].response, n}
  PROVE  GoesOn(f, [f EXCEPT ![d] = r], n)
  BY DEF GoesOn, HomeTable

LEMMA GoesOnTold ==
  ASSUME NEW f \in HomeTable, NEW d, NEW t \in NewHome!Told, NEW n
  PROVE  GoesOn(f, [f EXCEPT ![d].told = t], n)
<1>1. CASE d \in 1..MaxDispatches
  <2> DEFINE r == [f[d] EXCEPT !.told = t]
  <2>1. f[d] \in HomeDispatch
    BY <1>1 DEF HomeTable
  <2>2. r \in HomeDispatch /\ r.at = f[d].at /\ r.unsent = f[d].unsent /\ r.response = f[d].response
    BY <2>1 DEF HomeDispatch
  <2>3. [f EXCEPT ![d].told = t] = [f EXCEPT ![d] = r]
    BY <1>1 DEF HomeTable
  <2> HIDE DEF r
  <2> QED BY <1>1, <2>2, <2>3, GoesOnOne
<1>2. CASE d \notin 1..MaxDispatches
  <2>1. [f EXCEPT ![d].told = t] = f
    BY <1>2 DEF HomeTable
  <2> QED BY <2>1, GoesOnStays
<1> QED BY <1>1, <1>2

LEMMA GoesOnDrop ==
  ASSUME NEW f \in HomeTable, NEW d, NEW n
  PROVE  GoesOn(f, NewHome!Drop(f, d), n)
<1> DEFINE t == IF f[d].told = "nothing" THEN "closed" ELSE f[d].told
<1>1. CASE d \in 1..MaxDispatches
  <2>1. f[d].told \in NewHome!Told
    BY <1>1 DEF HomeTable, HomeDispatch
  <2>2. t \in NewHome!Told
    BY <2>1 DEF NewHome!Told
  <2>3. NewHome!Drop(f, d) = [f EXCEPT ![d].told = t]
    BY <1>1 DEF NewHome!Drop, HomeTable
  <2> HIDE DEF t
  <2>4. PICK s \in NewHome!Told : s = t
    BY <2>2
  <2>5. GoesOn(f, [f EXCEPT ![d].told = s], n)
    BY GoesOnTold
  <2> QED BY <2>3, <2>4, <2>5
<1>2. CASE d \notin 1..MaxDispatches
  <2>1. NewHome!Drop(f, d) = f
    BY <1>2 DEF NewHome!Drop, HomeTable
  <2> QED BY <2>1, GoesOnStays
<1> QED BY <1>1, <1>2

\* The response of the dispatch whose sender was taken.
LEMMA GoesOnResponse ==
  ASSUME NEW f \in HomeTable, NEW d \in 1..MaxDispatches, NEW n \in 0..MaxApprovals
  PROVE  GoesOn(f, [f EXCEPT ![d].told = "response", ![d].response = n], n)
<1>1. PICK t \in NewHome!Told : t = "response"
  BY DEF NewHome!Told
<1> DEFINE r == [f[d] EXCEPT !.told = t, !.response = n]
<1>2. f[d] \in HomeDispatch
  BY DEF HomeTable
<1>3. r \in HomeDispatch /\ r.at = f[d].at /\ r.unsent = f[d].unsent /\ r.response = n
  BY <1>2 DEF HomeDispatch
<1>4. [f EXCEPT ![d].told = "response", ![d].response = n] = [f EXCEPT ![d] = r]
  BY <1>1 DEF HomeTable
<1> HIDE DEF r
<1> QED BY <1>3, <1>4, GoesOnOne

LEMMA GoesOnSent ==
  ASSUME NEW f \in HomeTable, NEW d \in 1..MaxDispatches, NEW i, NEW n
  PROVE  /\ GoesOn(f, [f EXCEPT ![d].unsent = @ \ {i}], n)
         /\ [f EXCEPT ![d].unsent = @ \ {i}][d].unsent = f[d].unsent \ {i}
<1> DEFINE rest == f[d].unsent \ {i}
           r == [f[d] EXCEPT !.unsent = rest]
<1>1. f[d] \in HomeDispatch
  BY DEF HomeTable
<1>2. rest \in SUBSET GlobalHomes /\ rest \subseteq f[d].unsent
  BY <1>1 DEF HomeDispatch
<1>3. [f EXCEPT ![d].unsent = @ \ {i}] = [f EXCEPT ![d] = r]
  BY DEF HomeTable
<1>4. [f EXCEPT ![d] = r][d] = r
  BY DEF HomeTable
<1> HIDE DEF rest
<1>5. /\ r \in HomeDispatch /\ r.at = f[d].at /\ r.unsent = rest
      /\ r.response = f[d].response
  BY <1>1, <1>2 DEF HomeDispatch
<1> HIDE DEF r
<1> QED BY <1>2, <1>3, <1>4, <1>5, GoesOnOne DEF rest

LEMMA GoesOnLate ==
  ASSUME NEW f \in HomeTable, NEW d \in 1..MaxDispatches, NEW n
  PROVE  GoesOn(f, [f EXCEPT ![d].late = TRUE], n)
<1>1. PICK yes \in BOOLEAN : yes = TRUE
  OBVIOUS
<1> DEFINE r == [f[d] EXCEPT !.late = yes]
<1>2. f[d] \in HomeDispatch
  BY DEF HomeTable
<1>3. r \in HomeDispatch /\ r.at = f[d].at /\ r.unsent = f[d].unsent /\ r.response = f[d].response
  BY <1>2 DEF HomeDispatch
<1>4. [f EXCEPT ![d].late = TRUE] = [f EXCEPT ![d] = r]
  BY <1>1 DEF HomeTable
<1> HIDE DEF r
<1> QED BY <1>3, <1>4, GoesOnOne

\* Dispatches that go on keep what they are owed.
LEMMA WaitsOn ==
  ASSUME NEW f, NEW of, NEW n, NEW g, NEW r \in HomeRecord, Waits(f, of, n), GoesOn(f, g, n),
         r.dispatch \in {0, of.dispatch}
  PROVE  Waits(g, r, n) /\ SentStays(f, g)
<1>1. SentStays(f, g)
  BY DEF SentStays, GoesOn
<1>2. r.dispatch # 0 => r.dispatch \in 1..MaxDispatches
  BY EnrollmentConstants DEF HomeRecord
<1>3. r.dispatch # 0 => g[r.dispatch].at = "waiting"
  BY <1>2 DEF Waits, GoesOn
<1>4. \A d \in 1..MaxDispatches : g[d].response \in {0, n}
  BY DEF Waits, GoesOn
<1>5. g \in HomeTable
  BY DEF GoesOn
<1> QED BY <1>1, <1>3, <1>4, <1>5 DEF Waits

LEMMA NoHomeRecord ==
  NewHome!NoRecord \in HomeRecord /\ NewHome!NoRecord.dispatch = 0
<1>1. PICK z \in 0..MaxDispatches : z = 0
  BY HomeZero
<1>2. PICK none \in 0..Cardinality(GlobalHomes) : none = 0
  BY HomeZero
<1>3. PICK no \in BOOLEAN : no = FALSE
  OBVIOUS
<1>4. NewHome!NoRecord = [dispatch |-> z, remaining |-> none, accepted |-> no, sender |-> no]
  BY <1>1, <1>2, <1>3 DEF NewHome!NoRecord, NewHome!None
<1> QED BY <1>1, <1>4 DEF HomeRecord

\* One answer less is expected, and maybe one was an acknowledgement.
LEMMA RecordCounts ==
  ASSUME NEW r \in HomeRecord, NEW b \in BOOLEAN
  PROVE  LET left == IF r.remaining = 0 THEN 0 ELSE r.remaining - 1
         IN  /\ [r EXCEPT !.remaining = left] \in HomeRecord
             /\ [r EXCEPT !.remaining = left].dispatch = r.dispatch
             /\ [r EXCEPT !.remaining = left, !.accepted = b] \in HomeRecord
             /\ [r EXCEPT !.remaining = left, !.accepted = b].dispatch = r.dispatch
<1> DEFINE left == IF r.remaining = 0 THEN 0 ELSE r.remaining - 1
<1>1. r.remaining \in 0..Cardinality(GlobalHomes)
  BY DEF HomeRecord
<1>2. left \in 0..Cardinality(GlobalHomes)
  BY <1>1, HomeZero
<1> HIDE DEF left
<1>3. /\ [r EXCEPT !.remaining = left] \in HomeRecord
      /\ [r EXCEPT !.remaining = left].dispatch = r.dispatch
      /\ [r EXCEPT !.remaining = left, !.accepted = b] \in HomeRecord
      /\ [r EXCEPT !.remaining = left, !.accepted = b].dispatch = r.dispatch
  BY <1>2 DEF HomeRecord
<1> QED BY <1>3 DEF left

\* A server step that tells dispatches something, and keeps or ends the record.
ServerGoesOn(n) ==
    /\ GoesOn(hDispatch, hDispatch', n)
    /\ hRecord' \in HomeRecord /\ hRecord'.dispatch \in {0, hRecord.dispatch}

LEMMA SubmitGoesOn ==
  ASSUME NEW n, hDispatch \in HomeTable, hRecord \in HomeRecord,
         NEW d \in 1..MaxDispatches, NEW i \in GlobalHomes, NewHome!SendSubmit(d, i)
  PROVE  ServerGoesOn(n)
<1>1. hDispatch' = [hDispatch EXCEPT ![d].unsent = @ \ {i}] /\ hRecord' = hRecord
  BY DEF NewHome!SendSubmit
<1> QED BY <1>1, GoesOnSent DEF ServerGoesOn

LEMMA FailureGoesOn ==
  ASSUME NEW n, hDispatch \in HomeTable, hRecord \in HomeRecord,
         NEW d \in 1..MaxDispatches, NEW i \in GlobalHomes, NewHome!SendFails(d, i)
  PROVE  ServerGoesOn(n)
<1> DEFINE sent == [hDispatch EXCEPT ![d].unsent = @ \ {i}]
           left == IF hRecord.remaining = 0 THEN 0 ELSE hRecord.remaining - 1
           t == IF hRecord.accepted THEN "accepted" ELSE "rejected"
           told == [sent EXCEPT ![d].told = t]
<1>1. GoesOn(hDispatch, sent, n)
  BY GoesOnSent
<1>2. t \in NewHome!Told
  BY DEF NewHome!Told
<1>3. \/ hDispatch' = sent /\ hRecord' = hRecord
      \/ hDispatch' = sent /\ hRecord' = [hRecord EXCEPT !.remaining = left]
      \/ (hDispatch' = sent \/ hDispatch' = told) /\ hRecord' = NewHome!NoRecord
  BY Zenon DEF NewHome!SendFails
<1> HIDE DEF t
<1>4. PICK s \in NewHome!Told : s = t
  BY <1>2
<1>5. sent \in HomeTable
  BY <1>1 DEF GoesOn
<1> HIDE DEF sent
<1>6. GoesOn(sent, [sent EXCEPT ![d].told = s], n)
  BY <1>5, GoesOnTold
<1>7. GoesOn(hDispatch, told, n)
  BY <1>1, <1>4, <1>6, GoesOnAgain
<1>8. [hRecord EXCEPT !.remaining = left] \in HomeRecord
      /\ [hRecord EXCEPT !.remaining = left].dispatch = hRecord.dispatch
  BY RecordCounts
<1> HIDE DEF told, left
<1> QED BY <1>1, <1>3, <1>7, <1>8, NoHomeRecord DEF ServerGoesOn

\* Discard: an unused sender is dropped with its record.
LEMMA DiscardGoesOn ==
  ASSUME NEW n, hDispatch \in HomeTable
  PROVE  GoesOn(hDispatch, NewHome!Discard, n)
<1>1. GoesOn(hDispatch, NewHome!Drop(hDispatch, hRecord.dispatch), n) /\ GoesOn(hDispatch, hDispatch, n)
  BY GoesOnDrop, GoesOnStays
<1> QED BY <1>1 DEF NewHome!Discard

LEMMA CountdownGoesOn ==
  ASSUME NEW n, hDispatch \in HomeTable, hRecord \in HomeRecord, NEW b \in BOOLEAN,
         NewHome!Countdown(b)
  PROVE  ServerGoesOn(n)
<1> DEFINE less == IF hRecord.remaining = 0 THEN 0 ELSE hRecord.remaining - 1
           either == hRecord.accepted \/ b
           left == [hRecord EXCEPT !.remaining = less, !.accepted = either]
           t == IF left.accepted THEN "accepted" ELSE "rejected"
           told == [hDispatch EXCEPT ![hRecord.dispatch].told = t]
<1>1. left = [hRecord EXCEPT !.remaining = IF @ = 0 THEN 0 ELSE @ - 1, !.accepted = @ \/ b]
  BY DEF HomeRecord
<1>2. \/ hRecord' = left /\ hDispatch' = hDispatch
      \/ hRecord' = NewHome!NoRecord /\ (hDispatch' = told \/ hDispatch' = hDispatch)
  BY <1>1, Zenon DEF NewHome!Countdown
<1>3. t \in NewHome!Told
  BY DEF NewHome!Told
<1> HIDE DEF t
<1>4. PICK s \in NewHome!Told : s = t
  BY <1>3
<1>5. GoesOn(hDispatch, [hDispatch EXCEPT ![hRecord.dispatch].told = s], n)
  BY GoesOnTold
<1>6. GoesOn(hDispatch, told, n) /\ GoesOn(hDispatch, hDispatch, n)
  BY <1>4, <1>5, GoesOnStays
<1>7. either \in BOOLEAN
  OBVIOUS
<1> HIDE DEF either, told
<1>8. PICK e \in BOOLEAN : e = either
  BY <1>7, Zenon
<1>9. left \in HomeRecord /\ left.dispatch = hRecord.dispatch
  BY <1>8, RecordCounts
<1> HIDE DEF left, less
<1> QED BY <1>2, <1>6, <1>9, NoHomeRecord DEF ServerGoesOn

LEMMA AnswerGoesOn ==
  ASSUME NEW n, hDispatch \in HomeTable, hRecord \in HomeRecord,
         NEW i \in GlobalHomes, NewHome!CountAnswer(i) \/ NewHome!TakeSender(i)
  PROVE  ServerGoesOn(n)
<1> DEFINE b == Head(hAnswers[i]) = 0
<1>1. PICK no \in BOOLEAN : no = FALSE
  OBVIOUS
<1>2. \/ hRecord' = hRecord /\ hDispatch' = hDispatch
      \/ hRecord' = NewHome!NoRecord /\ hDispatch' = NewHome!Discard
      \/ hRecord' = [hRecord EXCEPT !.sender = no] /\ hDispatch' = hDispatch
      \/ NewHome!Countdown(b)
  BY <1>1, Zenon DEF NewHome!CountAnswer, NewHome!TakeSender, NewHome!None
<1>3. CASE NewHome!Countdown(b)
  <2>1. b \in BOOLEAN
    OBVIOUS
  <2> HIDE DEF b
  <2> QED BY <1>3, <2>1, CountdownGoesOn
<1>4. CASE hRecord' = NewHome!NoRecord /\ hDispatch' = NewHome!Discard
  BY <1>4, DiscardGoesOn, NoHomeRecord DEF ServerGoesOn
<1>5. CASE hRecord' = [hRecord EXCEPT !.sender = no] /\ hDispatch' = hDispatch
  <2>1. hRecord' \in HomeRecord /\ hRecord'.dispatch = hRecord.dispatch
    BY <1>5 DEF HomeRecord
  <2> QED BY <1>5, <2>1, GoesOnStays DEF ServerGoesOn
<1>6. CASE hRecord' = hRecord /\ hDispatch' = hDispatch
  BY <1>6, GoesOnStays DEF ServerGoesOn
<1> QED BY <1>2, <1>3, <1>4, <1>5, <1>6

LEMMA ImportGoesOn ==
  ASSUME NEW n, hDispatch \in HomeTable, hRecord \in HomeRecord,
         NEW i \in GlobalHomes, NewHome!ImportEndpoint(i)
  PROVE  ServerGoesOn(n)
<1>1. /\ hRecord' = hRecord
      /\ \/ hDispatch' = hDispatch
         \/ hDispatch' = NewHome!Drop(hDispatch, hCompleting[i].dispatch)
  BY Zenon DEF NewHome!ImportEndpoint
<1> QED BY <1>1, GoesOnStays, GoesOnDrop DEF ServerGoesOn

LEMMA CompletionGoesOn ==
  ASSUME hDispatch \in HomeTable, hRecord \in HomeRecord, CompletionsAuthorized,
         NEW i \in GlobalHomes, NewHome!FinishCompletion(i)
  PROVE  ServerGoesOn(hImported)
<1> DEFINE taken == hCompleting[i].dispatch
           closed == NewHome!Discard
           told == [closed EXCEPT ![taken].told = "response",
                                  ![taken].response = hCompleting[i].response]
<1>1. /\ hRecord' = NewHome!NoRecord /\ hCompleting[i].at = "imported"
      /\ (taken # 0 /\ hDispatch' = told) \/ hDispatch' = closed
  BY Zenon DEF NewHome!FinishCompletion, NewHome!None
<1>2. /\ hCompleting[i].response = hImported /\ hImported \in 0..MaxApprovals
      /\ taken \in 0..MaxDispatches
  BY <1>1 DEF CompletionsAuthorized, HomeCompletion
<1>3. GoesOn(hDispatch, closed, hImported)
  BY DiscardGoesOn
<1>4. closed \in HomeTable
  BY <1>3 DEF GoesOn
<1>5. CASE hDispatch' = closed
  BY <1>1, <1>3, <1>5, NoHomeRecord DEF ServerGoesOn
<1>6. CASE taken # 0 /\ hDispatch' = told
  <2>1. taken \in 1..MaxDispatches
    BY <1>2, <1>6, EnrollmentConstants
  <2> HIDE DEF closed, taken
  <2>2. hDispatch' = [closed EXCEPT ![taken].told = "response", ![taken].response = hImported]
    BY <1>2, <1>6
  <2>3. GoesOn(closed, hDispatch', hImported)
    BY <1>2, <1>4, <2>1, <2>2, GoesOnResponse
  <2>4. GoesOn(hDispatch, hDispatch', hImported)
    BY <1>3, <2>3, GoesOnAgain
  <2> QED BY <1>1, <2>4, NoHomeRecord DEF ServerGoesOn
<1> QED BY <1>1, <1>5, <1>6

LEMMA DeadlineGoesOn ==
  ASSUME NEW n, hDispatch \in HomeTable, hRecord \in HomeRecord,
         \/ NewHome!CleanupPending
         \/ \E d \in 1..MaxDispatches : NewHome!DeadlinePasses(d)
  PROVE  ServerGoesOn(n)
<1>1. CASE NewHome!CleanupPending
  <2>1. PICK t \in NewHome!Told : t = "rejected"
    BY DEF NewHome!Told
  <2>2. /\ hRecord' = NewHome!NoRecord
        /\ \/ hDispatch' = hDispatch
           \/ hDispatch' = [hDispatch EXCEPT ![hRecord.dispatch].told = t]
    BY <1>1, <2>1, Zenon DEF NewHome!CleanupPending
  <2>3. GoesOn(hDispatch, [hDispatch EXCEPT ![hRecord.dispatch].told = t], n)
    BY GoesOnTold
  <2>4. GoesOn(hDispatch, hDispatch', n)
    BY <2>2, <2>3, GoesOnStays
  <2> QED BY <2>2, <2>4, NoHomeRecord DEF ServerGoesOn
<1>2. CASE \E d \in 1..MaxDispatches : NewHome!DeadlinePasses(d)
  <2>1. PICK d \in 1..MaxDispatches : NewHome!DeadlinePasses(d)
    BY <1>2
  <2>2. hRecord' = hRecord /\ hDispatch' = [hDispatch EXCEPT ![d].late = TRUE]
    BY <2>1 DEF NewHome!DeadlinePasses
  <2> QED BY <2>2, GoesOnLate DEF ServerGoesOn
<1> QED BY <1>1, <1>2

LEMMA HomeIdles ==
  /\ NewHome!Idle \in HomeDispatch /\ NewHome!Idle.response = 0 /\ NewHome!Idle.unsent = {}
  /\ NewHome!Idle.at = "idle"
<1>1. PICK at \in {"idle", "waiting", "ended"} : at = "idle"
  OBVIOUS
<1>2. PICK t \in NewHome!Told : t = "nothing"
  BY DEF NewHome!Told
<1>3. PICK none \in SUBSET GlobalHomes : none = {}
  OBVIOUS
<1>4. PICK n \in 0..MaxApprovals : n = 0
  BY HomeZero
<1>5. PICK no \in BOOLEAN : no = FALSE
  OBVIOUS
<1>6. NewHome!Idle = [at |-> at, told |-> t, response |-> n, unsent |-> none, late |-> no]
  BY <1>1, <1>2, <1>3, <1>4, <1>5 DEF NewHome!Idle, NewHome!None
<1> QED BY <1>1, <1>3, <1>4, <1>6 DEF HomeDispatch

\* A poll starts a dispatch of its own, or is refused.
LEMMA DispatchStarts ==
  ASSUME Waits(hDispatch, hRecord, hImported), NewHome!Dispatch
  PROVE  Waits(hDispatch', hRecord', hImported) /\ SentStays(hDispatch, hDispatch')
<1>1. PICK d \in 1..MaxDispatches, online \in SUBSET GlobalHomes :
        /\ hDispatch[d].at = "idle"
        /\ \/ /\ hDispatch' = [hDispatch EXCEPT ![d].at = "ended", ![d].told = "rejected"]
              /\ hRecord' = hRecord
           \/ /\ hDispatch' = [hDispatch EXCEPT ![d].at = "waiting", ![d].unsent = online]
              /\ hRecord' = NewHome!NewRecord(d, online)
  BY Zenon DEF NewHome!Dispatch, NewHome!Dispatches
<1>2. hDispatch \in HomeTable /\ hRecord \in HomeRecord /\ hDispatch[d] \in HomeDispatch
  BY DEF Waits, HomeTable
<1>3. PICK r \in HomeDispatch :
        /\ hDispatch' = [hDispatch EXCEPT ![d] = r] /\ r.response = hDispatch[d].response
        /\ r.at # "idle"
        /\ hRecord' # hRecord => r.at = "waiting" /\ hRecord' = NewHome!NewRecord(d, online)
  <2>1. CASE /\ hDispatch' = [hDispatch EXCEPT ![d].at = "ended", ![d].told = "rejected"]
             /\ hRecord' = hRecord
    <3>1. PICK at \in {"idle", "waiting", "ended"} : at = "ended"
      OBVIOUS
    <3>2. PICK t \in NewHome!Told : t = "rejected"
      BY DEF NewHome!Told
    <3> DEFINE r == [hDispatch[d] EXCEPT !.at = at, !.told = t]
    <3>3. hDispatch' = [hDispatch EXCEPT ![d] = r]
      BY <1>2, <2>1, <3>1, <3>2 DEF HomeTable
    <3>4. r \in HomeDispatch /\ r.at = at /\ r.response = hDispatch[d].response
      BY <1>2 DEF HomeDispatch
    <3> HIDE DEF r
    <3> QED BY <2>1, <3>1, <3>3, <3>4
  <2>2. CASE /\ hDispatch' = [hDispatch EXCEPT ![d].at = "waiting", ![d].unsent = online]
             /\ hRecord' = NewHome!NewRecord(d, online)
    <3>1. PICK at \in {"idle", "waiting", "ended"} : at = "waiting"
      OBVIOUS
    <3> DEFINE r == [hDispatch[d] EXCEPT !.at = at, !.unsent = online]
    <3>2. hDispatch' = [hDispatch EXCEPT ![d] = r]
      BY <1>2, <2>2, <3>1 DEF HomeTable
    <3>3. r \in HomeDispatch /\ r.at = at /\ r.response = hDispatch[d].response
      BY <1>2 DEF HomeDispatch
    <3> HIDE DEF r
    <3> QED BY <2>2, <3>1, <3>2, <3>3
  <2> QED BY <1>1, <2>1, <2>2
<1>4. NewHome!NewRecord(d, online) \in HomeRecord /\ NewHome!NewRecord(d, online).dispatch = d
  <2> DEFINE n == Cardinality(online)
  <2>1. n \in 0..Cardinality(GlobalHomes)
    BY EnrollmentConstants, FS_Subset, FS_CardinalityType
  <2>2. PICK yes \in BOOLEAN : yes = TRUE
    OBVIOUS
  <2>3. NewHome!NewRecord(d, online) =
          [NewHome!NoRecord EXCEPT !.dispatch = d, !.sender = yes, !.remaining = n]
    BY <2>2, NewHomeCardinality DEF NewHome!NewRecord
  <2>4. d \in 0..MaxDispatches
    BY EnrollmentConstants
  <2> HIDE DEF n
  <2> QED BY <2>1, <2>3, <2>4, NoHomeRecord DEF HomeRecord
<1>5. /\ hDispatch' \in HomeTable
      /\ \A e \in 1..MaxDispatches : hDispatch'[e] = IF e = d THEN r ELSE hDispatch[e]
  BY <1>2, <1>3 DEF HomeTable
<1>6. \A e \in 1..MaxDispatches : hDispatch'[e].response = hDispatch[e].response
  BY <1>3, <1>5
<1>7. hRecord' \in HomeRecord
  BY <1>2, <1>3, <1>4
<1>8. hRecord'.dispatch # 0 => hDispatch'[hRecord'.dispatch].at = "waiting"
  <2>1. CASE hRecord' = hRecord
    <3>1. hRecord.dispatch # 0 =>
            hRecord.dispatch \in 1..MaxDispatches /\ hDispatch[hRecord.dispatch].at = "waiting"
      BY <1>2, EnrollmentConstants DEF Waits, HomeRecord
    <3>2. hRecord.dispatch # 0 => hDispatch'[hRecord.dispatch] = hDispatch[hRecord.dispatch]
      BY <1>1, <1>5, <3>1
    <3> QED BY <2>1, <3>1, <3>2
  <2>2. CASE hRecord' # hRecord
    BY <1>3, <1>4, <1>5, <2>2
  <2> QED BY <2>1, <2>2
<1>9. Waits(hDispatch', hRecord', hImported)
  BY <1>5, <1>6, <1>7, <1>8 DEF Waits
<1>10. SentStays(hDispatch, hDispatch')
  BY <1>1, <1>5 DEF SentStays
<1> QED BY <1>9, <1>10

\* A dispatch ends, with the record that is of it.
LEMMA DispatchEnds ==
  ASSUME Waits(hDispatch, hRecord, hImported), NEW d \in 1..MaxDispatches, NewHome!EndDispatch(d)
  PROVE  Waits(hDispatch', hRecord', hImported) /\ SentStays(hDispatch, hDispatch')
<1>1. hDispatch \in HomeTable /\ hRecord \in HomeRecord /\ hDispatch[d] \in HomeDispatch
  BY DEF Waits, HomeTable
<1> DEFINE t == IF hDispatch[d].told = "nothing" THEN "rejected" ELSE hDispatch[d].told
<1>2. t \in NewHome!Told
  BY <1>1 DEF HomeDispatch, NewHome!Told
<1>3. PICK at \in {"idle", "waiting", "ended"} : at = "ended"
  OBVIOUS
<1>4. PICK none \in SUBSET GlobalHomes : none = {}
  OBVIOUS
<1> DEFINE r == [hDispatch[d] EXCEPT !.at = at, !.unsent = none, !.told = t]
<1>5. hDispatch' = [hDispatch EXCEPT ![d] = r]
  <2>1. hDispatch' = [hDispatch EXCEPT ![d].at = "ended", ![d].unsent = {},
                        ![d].told = IF @ = "nothing" THEN "rejected" ELSE @]
    BY DEF NewHome!EndDispatch
  <2> QED BY <1>1, <1>3, <1>4, <2>1 DEF HomeTable
<1> HIDE DEF t
<1>6. r \in HomeDispatch /\ r.at = at /\ r.unsent = none /\ r.response = hDispatch[d].response
  BY <1>1, <1>2 DEF HomeDispatch
<1> HIDE DEF r
<1>7. /\ hDispatch' \in HomeTable
      /\ \A e \in 1..MaxDispatches : hDispatch'[e] = IF e = d THEN r ELSE hDispatch[e]
  BY <1>1, <1>5, <1>6 DEF HomeTable
<1>8. hRecord' = IF hRecord.dispatch = d THEN NewHome!NoRecord ELSE hRecord
  BY DEF NewHome!EndDispatch, NewHome!RemoveOwnRecord
<1>9. hRecord' \in HomeRecord /\ hRecord'.dispatch \in {0, hRecord.dispatch} /\ hRecord'.dispatch # d
  <2>1. d # 0
    BY EnrollmentConstants
  <2> QED BY <1>1, <1>8, <2>1, NoHomeRecord
<1>10. hRecord'.dispatch # 0 => hDispatch'[hRecord'.dispatch].at = "waiting"
  <2>1. hRecord'.dispatch # 0 =>
          hRecord'.dispatch \in 1..MaxDispatches /\ hDispatch[hRecord'.dispatch].at = "waiting"
    BY <1>1, <1>9, EnrollmentConstants DEF Waits, HomeRecord
  <2> QED BY <1>7, <1>9, <2>1
<1>11. \A e \in 1..MaxDispatches : hDispatch'[e].response = hDispatch[e].response
  BY <1>6, <1>7
<1>12. Waits(hDispatch', hRecord', hImported)
  BY <1>7, <1>9, <1>10, <1>11 DEF Waits
<1>13. SentStays(hDispatch, hDispatch')
  BY <1>3, <1>4, <1>6, <1>7 DEF SentStays
<1> QED BY <1>12, <1>13

\* A Server that starts again knows of no dispatch.
LEMMA DispatchRestarts ==
  ASSUME Waits(hDispatch, hRecord, hImported), NewHome!ServerRestart
  PROVE  Waits(hDispatch', hRecord', hImported) /\ SentStays(hDispatch, hDispatch')
<1>1. hDispatch \in HomeTable
  BY DEF Waits
<1>2. PICK at \in {"idle", "waiting", "ended"} : at = "ended"
  OBVIOUS
<1>3. PICK t \in NewHome!Told : t = "rejected"
  BY DEF NewHome!Told
<1> DEFINE lost == [NewHome!Idle EXCEPT !.at = at, !.told = t]
<1>7. [NewHome!Idle EXCEPT !.at = "ended", !.told = "rejected"] = lost
  BY <1>2, <1>3
<1>8. lost \in HomeDispatch /\ lost.response = 0 /\ lost.unsent = {} /\ lost.at = "ended"
  <2>1. NewHome!Idle \in HomeDispatch /\ NewHome!Idle.response = 0 /\ NewHome!Idle.unsent = {}
    BY HomeIdles
  <2> QED BY <1>2, <2>1 DEF HomeDispatch
<1>9. hDispatch' = [d \in 1..MaxDispatches |->
                      IF hDispatch[d].at = "waiting" THEN lost ELSE hDispatch[d]]
  BY <1>7 DEF NewHome!ServerRestart, NewHome!Dispatches
<1> HIDE DEF lost
<1>10. \A d \in 1..MaxDispatches :
         /\ hDispatch'[d] = hDispatch[d] \/ hDispatch'[d] = lost
         /\ hDispatch'[d] \in HomeDispatch
  BY <1>1, <1>8, <1>9 DEF HomeTable
<1>11. hDispatch' \in HomeTable
  <2>1. DOMAIN hDispatch' = 1..MaxDispatches /\ hDispatch' = [d \in 1..MaxDispatches |-> hDispatch'[d]]
    BY <1>9
  <2> QED BY <1>10, <2>1 DEF HomeTable
<1>12. hRecord' \in HomeRecord /\ hRecord'.dispatch = 0
  BY NoHomeRecord DEF NewHome!ServerRestart
<1>13. \A d \in 1..MaxDispatches : hDispatch'[d].response \in {0, hImported}
  BY <1>8, <1>10 DEF Waits
<1>14. Waits(hDispatch', hRecord', hImported)
  BY <1>11, <1>12, <1>13 DEF Waits
<1>15. SentStays(hDispatch, hDispatch')
  BY <1>8, <1>10 DEF SentStays
<1> QED BY <1>14, <1>15

LEMMA DispatchStep ==
  ASSUME Waits(hDispatch, hRecord, hImported), CompletionsAuthorized,
         [NewHome!Next]_(NewHome!vars)
  PROVE  Waits(hDispatch', hRecord', hImported) /\ SentStays(hDispatch, hDispatch')
<1>1. hDispatch \in HomeTable /\ hRecord \in HomeRecord
  BY DEF Waits
<1>2. CASE UNCHANGED <<hDispatch, hRecord>>
  BY <1>2 DEF Waits, SentStays
<1>3. CASE NewHome!Dispatch \/ NewHome!ServerRestart
  BY <1>3, DispatchStarts, DispatchRestarts
<1>4. CASE \E d \in 1..MaxDispatches : NewHome!EndDispatch(d)
  BY <1>4, DispatchEnds
<1>5. CASE \/ NewHome!CleanupPending \/ \E d \in 1..MaxDispatches : NewHome!DeadlinePasses(d)
           \/ \E d \in 1..MaxDispatches, i \in GlobalHomes :
                 NewHome!SendSubmit(d, i) \/ NewHome!SendFails(d, i)
           \/ \E i \in GlobalHomes :
                 \/ NewHome!CountAnswer(i) \/ NewHome!TakeSender(i)
                 \/ NewHome!ImportEndpoint(i) \/ NewHome!FinishCompletion(i)
  <2>1. ServerGoesOn(hImported)
    BY <1>1, <1>5, DeadlineGoesOn, SubmitGoesOn, FailureGoesOn, AnswerGoesOn, ImportGoesOn,
       CompletionGoesOn
  <2>2. /\ GoesOn(hDispatch, hDispatch', hImported)
        /\ hRecord' \in HomeRecord /\ hRecord'.dispatch \in {0, hRecord.dispatch}
    BY <2>1 DEF ServerGoesOn
  <2> QED BY <2>2, WaitsOn
<1>6. \/ UNCHANGED <<hDispatch, hRecord>>
      \/ NewHome!Dispatch \/ NewHome!ServerRestart
      \/ \E d \in 1..MaxDispatches : NewHome!EndDispatch(d)
      \/ NewHome!CleanupPending \/ \E d \in 1..MaxDispatches : NewHome!DeadlinePasses(d)
      \/ \E d \in 1..MaxDispatches, i \in GlobalHomes :
            NewHome!SendSubmit(d, i) \/ NewHome!SendFails(d, i)
      \/ \E i \in GlobalHomes :
            \/ NewHome!CountAnswer(i) \/ NewHome!TakeSender(i)
            \/ NewHome!ImportEndpoint(i) \/ NewHome!FinishCompletion(i)
  BY Zenon DEF NewHome!Next, NewHome!vars, NewHome!Dispatches, NewHome!server, NewHome!StartSetup,
     NewHome!CreateRequest, NewHome!SaveBootstrapState, NewHome!PollReturns, NewHome!PollTimesOut,
     NewHome!InstallResponse, NewHome!WriteConfig, NewHome!RemoveBootstrapState,
     NewHome!SetupCrashes, NewHome!PersistRequest, NewHome!PruneRequest,
     NewHome!ReadForApproval, NewHome!SignApproval, NewHome!CommitApproval
<1> QED BY <1>2, <1>3, <1>4, <1>5, <1>6

(***************************************************************************)
(* The completions at the Server.                                          *)
(***************************************************************************)
LEMMA HomeRests ==
  NewHome!Resting \in HomeCompletion /\ NewHome!Resting.at = "idle"
<1>1. PICK at \in {"idle", "importing", "imported"} : at = "idle"
  OBVIOUS
<1>2. PICK n \in 0..MaxApprovals : n = 0
  BY HomeZero
<1>3. PICK z \in 0..MaxDispatches : z = 0
  BY HomeZero
<1>4. NewHome!Resting = [at |-> at, response |-> n, dispatch |-> z]
  BY <1>1, <1>2, <1>3 DEF NewHome!Resting, NewHome!None
<1> QED BY <1>1, <1>4 DEF HomeCompletion

\* One completion goes on, with the endpoint that is authorized.
LEMMA CompletionMoves ==
  ASSUME CompletionsAuthorized, NEW i \in GlobalHomes, NEW r \in HomeCompletion,
         hCompleting' = [hCompleting EXCEPT ![i] = r], hImported' \in 0..MaxApprovals,
         hImported' = hImported \/ hImported = 0,
         r.at # "idle" => r.response # 0, r.at = "imported" => r.response = hImported'
  PROVE  CompletionsAuthorized'
<1>1. /\ hCompleting' \in [GlobalHomes -> HomeCompletion]
      /\ \A j \in GlobalHomes : hCompleting'[j] = IF j = i THEN r ELSE hCompleting[j]
  BY DEF CompletionsAuthorized
<1>2. ASSUME NEW j \in GlobalHomes
      PROVE  /\ hCompleting'[j].at # "idle" => hCompleting'[j].response # 0
             /\ hCompleting'[j].at = "imported" => hCompleting'[j].response = hImported'
  <2>1. CASE j = i
    BY <1>1, <2>1
  <2>2. CASE j # i
    <3>1. /\ hCompleting[j].at # "idle" => hCompleting[j].response # 0
          /\ hCompleting[j].at = "imported" => hCompleting[j].response = hImported
      BY DEF CompletionsAuthorized
    <3> QED BY <1>1, <2>2, <3>1
  <2> QED BY <2>1, <2>2
<1> QED BY <1>1, <1>2 DEF CompletionsAuthorized

LEMMA CompletionTakes ==
  ASSUME QueueKinds, Waits(hDispatch, hRecord, hImported), CompletionsAuthorized,
         NEW i \in GlobalHomes, NewHome!TakeSender(i)
  PROVE  CompletionsAuthorized' /\ hImported' = hImported
<1> DEFINE n == Head(hAnswers[i])
           z == IF hRecord.sender THEN hRecord.dispatch ELSE 0
<1>1. /\ n \in 1..MaxApprovals /\ hImported' = hImported
      /\ \/ hCompleting' = hCompleting
         \/ hCompleting' = [hCompleting EXCEPT ![i] =
              [at |-> "importing", response |-> n, dispatch |-> z]]
  BY DEF NewHome!TakeSender, NewHome!Responses, NewHome!None
<1>2. n \in 0..MaxApprovals /\ n # 0
  BY <1>1, HomeZero
<1>3. z \in 0..MaxDispatches
  BY HomeZero DEF Waits, HomeRecord
<1>4. PICK at \in {"idle", "importing", "imported"} : at = "importing"
  OBVIOUS
<1> HIDE DEF n, z
<1> DEFINE r == [at |-> at, response |-> n, dispatch |-> z]
<1>5. r \in HomeCompletion /\ r.at = "importing" /\ r.response # 0
  BY <1>2, <1>3, <1>4 DEF HomeCompletion
<1>6. CASE hCompleting' = hCompleting
  BY <1>1, <1>6 DEF CompletionsAuthorized
<1>7. CASE hCompleting' = [hCompleting EXCEPT ![i] =
              [at |-> "importing", response |-> n, dispatch |-> z]]
  <2>1. hCompleting' = [hCompleting EXCEPT ![i] = r] /\ hImported' \in 0..MaxApprovals
    BY <1>1, <1>4, <1>7 DEF CompletionsAuthorized
  <2> HIDE DEF r
  <2> QED BY <1>1, <1>5, <2>1, CompletionMoves
<1> QED BY <1>1, <1>6, <1>7

LEMMA CompletionImports ==
  ASSUME CompletionsAuthorized, NEW i \in GlobalHomes, NewHome!ImportEndpoint(i)
  PROVE  CompletionsAuthorized' /\ (hImported' = hImported \/ hImported = 0)
<1> DEFINE n == hCompleting[i].response
<1>1. /\ hCompleting[i].at = "importing"
      /\ \/ /\ hImported \in {0, n} /\ hImported' = n
            /\ hCompleting' = [hCompleting EXCEPT ![i].at = "imported"]
         \/ hImported' = hImported /\ hCompleting' = [hCompleting EXCEPT ![i] = NewHome!Resting]
  BY Zenon DEF NewHome!ImportEndpoint, NewHome!Authorized, NewHome!None
<1>2. /\ hCompleting[i] \in HomeCompletion /\ n # 0 /\ n \in 0..MaxApprovals
      /\ hImported \in 0..MaxApprovals /\ hCompleting \in [GlobalHomes -> HomeCompletion]
  BY <1>1 DEF CompletionsAuthorized, HomeCompletion
<1>3. CASE hImported' = hImported /\ hCompleting' = [hCompleting EXCEPT ![i] = NewHome!Resting]
  BY <1>2, <1>3, HomeRests, CompletionMoves
<1>4. CASE /\ hImported \in {0, n} /\ hImported' = n
           /\ hCompleting' = [hCompleting EXCEPT ![i].at = "imported"]
  <2>1. PICK at \in {"idle", "importing", "imported"} : at = "imported"
    OBVIOUS
  <2> DEFINE r == [hCompleting[i] EXCEPT !.at = at]
  <2>2. hCompleting' = [hCompleting EXCEPT ![i] = r]
    BY <1>2, <1>4, <2>1
  <2>3. r \in HomeCompletion /\ r.at = at /\ r.response = n
    BY <1>2 DEF HomeCompletion
  <2> HIDE DEF r, n
  <2>4. hImported' \in 0..MaxApprovals /\ (hImported' = hImported \/ hImported = 0)
    BY <1>2, <1>4
  <2>5. r.response # 0 /\ r.response = hImported'
    BY <1>2, <1>4, <2>3
  <2> QED BY <2>2, <2>3, <2>4, <2>5, CompletionMoves
<1> QED BY <1>1, <1>3, <1>4

LEMMA CompletionStep ==
  ASSUME QueueKinds, Waits(hDispatch, hRecord, hImported), CompletionsAuthorized,
         [NewHome!Next]_(NewHome!vars)
  PROVE  CompletionsAuthorized' /\ (hImported' = hImported \/ hImported = 0)
<1>1. CASE UNCHANGED <<hCompleting, hImported>>
  BY <1>1 DEF CompletionsAuthorized
<1>2. CASE \E i \in GlobalHomes : NewHome!TakeSender(i)
  BY <1>2, CompletionTakes
<1>3. CASE \E i \in GlobalHomes : NewHome!ImportEndpoint(i)
  BY <1>3, CompletionImports
<1>4. CASE \E i \in GlobalHomes : NewHome!FinishCompletion(i)
  <2>1. PICK i \in GlobalHomes :
          hCompleting' = [hCompleting EXCEPT ![i] = NewHome!Resting] /\ hImported' = hImported
    BY <1>4 DEF NewHome!FinishCompletion
  <2>2. hImported' \in 0..MaxApprovals
    BY <2>1 DEF CompletionsAuthorized
  <2> QED BY <2>1, <2>2, HomeRests, CompletionMoves
<1>5. CASE NewHome!ServerRestart
  <2>1. /\ hCompleting' = [i \in GlobalHomes |-> NewHome!Resting] /\ hImported' = hImported
    BY <1>5 DEF NewHome!ServerRestart
  <2> QED BY <2>1, HomeRests DEF CompletionsAuthorized
<1>6. \/ UNCHANGED <<hCompleting, hImported>>
      \/ \E i \in GlobalHomes : NewHome!TakeSender(i)
      \/ \E i \in GlobalHomes : NewHome!ImportEndpoint(i)
      \/ \E i \in GlobalHomes : NewHome!FinishCompletion(i)
      \/ NewHome!ServerRestart
  BY Zenon DEF NewHome!Next, NewHome!vars, NewHome!server, NewHome!StartSetup,
     NewHome!CreateRequest, NewHome!SaveBootstrapState, NewHome!Dispatch, NewHome!PollReturns,
     NewHome!PollTimesOut,
     NewHome!InstallResponse, NewHome!WriteConfig, NewHome!RemoveBootstrapState,
     NewHome!SetupCrashes, NewHome!CleanupPending, NewHome!DeadlinePasses, NewHome!EndDispatch,
     NewHome!SendSubmit, NewHome!SendFails, NewHome!CountAnswer,
     NewHome!PersistRequest, NewHome!PruneRequest,
     NewHome!ReadForApproval, NewHome!SignApproval, NewHome!CommitApproval
<1> QED BY <1>1, <1>2, <1>3, <1>4, <1>5, <1>6

(***************************************************************************)
(* The global Homes and their queues.                                      *)
(***************************************************************************)
LEMMA HomeQueue ==
  ASSUME QueueKinds, NEW i \in GlobalHomes, NEW q \in Seq(0..(MaxApprovals + 1)),
         hAnswers' = [hAnswers EXCEPT ![i] = q]
  PROVE  hAnswers' \in [GlobalHomes -> Seq(0..(MaxApprovals + 1))]
  BY DEF QueueKinds

LEMMA IssuerAnswers ==
  ASSUME QueueKinds, IssuerKinds, NEW i \in GlobalHomes, NewHome!PersistRequest(i)
  PROVE  /\ hAnswers' \in [GlobalHomes -> Seq(0..(MaxApprovals + 1))]
         /\ hInbox' \in [GlobalHomes -> 0..(MaxApprovals + 1)]
         /\ hSubmits[i] > 0 /\ hSubmits' = [hSubmits EXCEPT ![i] = hSubmits[i] - 1]
<1>1. PICK none \in 0..(MaxApprovals + 1) : none = 0
  BY EnrollmentConstants
<1>2. PICK unknown \in 0..(MaxApprovals + 1) : unknown = NewHome!Unknown
  BY EnrollmentConstants DEF NewHome!Unknown
<1>3. hInbox[i] \in 0..(MaxApprovals + 1) /\ hAnswers[i] \in Seq(0..(MaxApprovals + 1))
  BY DEF IssuerKinds, QueueKinds
<1>4. PICK n \in 0..(MaxApprovals + 1) :
        hAnswers' = [hAnswers EXCEPT ![i] = Append(hAnswers[i], n)]
  <2>1. \/ hAnswers' = [hAnswers EXCEPT ![i] = Append(@, hInbox[i])]
        \/ hAnswers' = [hAnswers EXCEPT ![i] = Append(@, none)]
        \/ hAnswers' = [hAnswers EXCEPT ![i] = Append(@, unknown)]
    BY <1>1, <1>2, Zenon DEF NewHome!PersistRequest, NewHome!Reply, NewHome!None
  <2>2. \/ hAnswers' = [hAnswers EXCEPT ![i] = Append(hAnswers[i], hInbox[i])]
        \/ hAnswers' = [hAnswers EXCEPT ![i] = Append(hAnswers[i], none)]
        \/ hAnswers' = [hAnswers EXCEPT ![i] = Append(hAnswers[i], unknown)]
    BY <2>1 DEF QueueKinds
  <2> QED BY <1>3, <2>2
<1>5. Append(hAnswers[i], n) \in Seq(0..(MaxApprovals + 1))
  BY <1>3, AppendProperties
<1>6. hAnswers' \in [GlobalHomes -> Seq(0..(MaxApprovals + 1))]
  BY <1>4, <1>5, HomeQueue
<1>7. hInbox' = hInbox \/ hInbox' = [hInbox EXCEPT ![i] = none]
  BY <1>1, Zenon DEF NewHome!PersistRequest, NewHome!None
<1>8. hInbox' \in [GlobalHomes -> 0..(MaxApprovals + 1)]
  BY <1>7 DEF IssuerKinds
<1>9. hSubmits[i] > 0 /\ hSubmits' = [hSubmits EXCEPT ![i] = hSubmits[i] - 1]
  BY DEF NewHome!PersistRequest, QueueKinds
<1> QED BY <1>6, <1>8, <1>9

LEMMA IssuerApproves ==
  ASSUME IssuerKinds, NEW i \in GlobalHomes, NEW o \in HomeOperators,
         \/ NewHome!ReadForApproval(i, o) \/ NewHome!SignApproval(i, o)
         \/ NewHome!CommitApproval(i, o)
  PROVE  IssuerKinds'
<1> DEFINE p == <<i, o>>
<1>1. p \in GlobalHomes \X HomeOperators
  OBVIOUS
<1>2. /\ hApproving \in [GlobalHomes \X HomeOperators -> HomeApproval]
      /\ hApproving[p] \in HomeApproval /\ hSigned \in 0..MaxApprovals
      /\ hInbox \in [GlobalHomes -> 0..(MaxApprovals + 1)]
  BY <1>1 DEF IssuerKinds
<1>3. PICK r \in HomeApproval : hApproving' = [hApproving EXCEPT ![p] = r]
  <2>1. CASE NewHome!ReadForApproval(i, o)
    <3>1. PICK at \in {"idle", "read", "signed"} : at = "read"
      OBVIOUS
    <3> DEFINE r == [hApproving[p] EXCEPT !.at = at]
    <3>2. hApproving' = [hApproving EXCEPT ![p].at = "read"]
      BY <2>1 DEF NewHome!ReadForApproval
    <3>3. r \in HomeApproval
      BY <1>2 DEF HomeApproval
    <3> HIDE DEF p
    <3>4. hApproving' = [hApproving EXCEPT ![p] = r]
      BY <1>1, <1>2, <3>1, <3>2
    <3> HIDE DEF r
    <3> QED BY <3>3, <3>4
  <2>2. CASE NewHome!SignApproval(i, o)
    <3> DEFINE n == hSigned + 1
    <3>1. PICK at \in {"idle", "read", "signed"} : at = "idle"
      OBVIOUS
    <3>2. PICK there \in {"idle", "read", "signed"} : there = "signed"
      OBVIOUS
    <3> DEFINE r == [hApproving[p] EXCEPT !.at = at]
               s == [at |-> there, response |-> n]
    <3>3. \/ hApproving' = [hApproving EXCEPT ![p].at = "idle"]
          \/ hSigned < MaxApprovals /\ hApproving' = [hApproving EXCEPT ![p] = s]
      BY <2>2, <3>2, Zenon DEF NewHome!SignApproval
    <3>4. r \in HomeApproval
      BY <1>2 DEF HomeApproval
    <3>5. hSigned < MaxApprovals => s \in HomeApproval
      BY <1>2, EnrollmentConstants DEF HomeApproval
    <3> HIDE DEF p, s
    <3>6. \/ hApproving' = [hApproving EXCEPT ![p] = r]
          \/ hSigned < MaxApprovals /\ hApproving' = [hApproving EXCEPT ![p] = s]
      BY <1>1, <1>2, <3>1, <3>3
    <3> HIDE DEF r
    <3> QED BY <3>4, <3>5, <3>6
  <2>3. CASE NewHome!CommitApproval(i, o)
    <3>1. PICK at \in {"idle", "read", "signed"} : at = "idle"
      OBVIOUS
    <3>2. PICK n \in 0..MaxApprovals : n = 0
      BY HomeZero
    <3>3. hApproving' = [hApproving EXCEPT ![p] = [at |-> at, response |-> n]]
      BY <2>3, <3>1, <3>2 DEF NewHome!CommitApproval, NewHome!None
    <3>4. [at |-> at, response |-> n] \in HomeApproval
      BY DEF HomeApproval
    <3> QED BY <3>3, <3>4
  <2> QED BY <2>1, <2>2, <2>3
<1>4. hApproving' \in [GlobalHomes \X HomeOperators -> HomeApproval]
  BY <1>2, <1>3
<1>5. hSigned' \in 0..MaxApprovals
  <2>1. hSigned' = hSigned \/ (hSigned < MaxApprovals /\ hSigned' = hSigned + 1)
    BY Zenon DEF NewHome!ReadForApproval, NewHome!SignApproval, NewHome!CommitApproval
  <2> QED BY <1>2, <2>1, EnrollmentConstants
<1>6. hInbox' \in [GlobalHomes -> 0..(MaxApprovals + 1)]
  <2> DEFINE n == hApproving[p].response
  <2>1. hInbox' = hInbox \/ hInbox' = [hInbox EXCEPT ![i] = n]
    BY DEF NewHome!ReadForApproval, NewHome!SignApproval, NewHome!CommitApproval
  <2>2. n \in 0..(MaxApprovals + 1)
    BY <1>2, EnrollmentConstants DEF HomeApproval
  <2> HIDE DEF n
  <2> QED BY <1>2, <2>1, <2>2
<1> QED BY <1>4, <1>5, <1>6 DEF IssuerKinds

LEMMA IssuerStep ==
  ASSUME QueueKinds, IssuerKinds, [NewHome!Next]_(NewHome!vars)
  PROVE  IssuerKinds' /\ hAnswers' \in [GlobalHomes -> Seq(0..(MaxApprovals + 1))]
<1>1. CASE UNCHANGED NewHome!home /\ UNCHANGED hAnswers
  BY <1>1 DEF IssuerKinds, QueueKinds, NewHome!home
<1>2. CASE \E i \in GlobalHomes : NewHome!PersistRequest(i)
  <2>1. PICK i \in GlobalHomes : NewHome!PersistRequest(i)
    BY <1>2
  <2>2. UNCHANGED <<hApproving, hSigned>>
    BY <2>1 DEF NewHome!PersistRequest
  <2> QED BY <2>1, <2>2, IssuerAnswers DEF IssuerKinds
<1>3. CASE \E i \in GlobalHomes : NewHome!PruneRequest(i)
  <2>1. PICK i \in GlobalHomes, unknown \in 0..(MaxApprovals + 1) :
          hInbox' = [hInbox EXCEPT ![i] = unknown] /\ UNCHANGED <<hApproving, hSigned, hAnswers>>
    <3>1. NewHome!Unknown \in 0..(MaxApprovals + 1)
      BY EnrollmentConstants DEF NewHome!Unknown
    <3> QED BY <1>3, <3>1 DEF NewHome!PruneRequest
  <2> QED BY <2>1 DEF IssuerKinds, QueueKinds
<1>4. CASE \E i \in GlobalHomes, o \in HomeOperators :
             \/ NewHome!ReadForApproval(i, o) \/ NewHome!SignApproval(i, o)
             \/ NewHome!CommitApproval(i, o)
  <2>1. UNCHANGED hAnswers
    BY <1>4 DEF NewHome!ReadForApproval, NewHome!SignApproval, NewHome!CommitApproval
  <2> QED BY <1>4, <2>1, IssuerApproves DEF QueueKinds
<1>5. CASE \E i \in GlobalHomes : UNCHANGED NewHome!home /\ hAnswers[i] # <<>>
                                  /\ hAnswers' = [hAnswers EXCEPT ![i] = Tail(@)]
  <2>1. PICK i \in GlobalHomes : UNCHANGED NewHome!home /\ hAnswers[i] # <<>>
                                  /\ hAnswers' = [hAnswers EXCEPT ![i] = Tail(@)]
    BY <1>5
  <2>2. hAnswers[i] \in Seq(0..(MaxApprovals + 1))
    BY DEF QueueKinds
  <2>3. Tail(hAnswers[i]) \in Seq(0..(MaxApprovals + 1))
    BY <2>1, <2>2, HeadTailProperties
  <2>4. hAnswers' = [hAnswers EXCEPT ![i] = Tail(hAnswers[i])]
    BY <2>1 DEF QueueKinds
  <2>5. hAnswers' \in [GlobalHomes -> Seq(0..(MaxApprovals + 1))]
    BY <2>3, <2>4, HomeQueue
  <2> QED BY <2>1, <2>5 DEF IssuerKinds, NewHome!home
<1>6. CASE /\ UNCHANGED NewHome!home
           /\ \/ \E i \in GlobalHomes : hAnswers' = [hAnswers EXCEPT ![i] = <<>>]
              \/ hAnswers' = [i \in GlobalHomes |-> <<>>]
  <2>1. PICK e : e = <<>>
    OBVIOUS
  <2>5. e \in Seq(0..(MaxApprovals + 1))
    BY <2>1
  <2>2. \/ \E i \in GlobalHomes : hAnswers' = [hAnswers EXCEPT ![i] = e]
        \/ hAnswers' = [i \in GlobalHomes |-> e]
    BY <1>6, <2>1
  <2>3. hAnswers' \in [GlobalHomes -> Seq(0..(MaxApprovals + 1))]
    BY <2>2, <2>5, HomeQueue
  <2> QED BY <1>6, <2>3 DEF IssuerKinds, NewHome!home
<1>7. \/ UNCHANGED NewHome!home /\ UNCHANGED hAnswers
      \/ \E i \in GlobalHomes : NewHome!PersistRequest(i)
      \/ \E i \in GlobalHomes : NewHome!PruneRequest(i)
      \/ \E i \in GlobalHomes, o \in HomeOperators :
             \/ NewHome!ReadForApproval(i, o) \/ NewHome!SignApproval(i, o)
             \/ NewHome!CommitApproval(i, o)
      \/ \E i \in GlobalHomes : UNCHANGED NewHome!home /\ hAnswers[i] # <<>>
                                  /\ hAnswers' = [hAnswers EXCEPT ![i] = Tail(@)]
      \/ /\ UNCHANGED NewHome!home
         /\ \/ \E i \in GlobalHomes : hAnswers' = [hAnswers EXCEPT ![i] = <<>>]
            \/ hAnswers' = [i \in GlobalHomes |-> <<>>]
  BY ZenonT(60) DEF NewHome!Next, NewHome!vars, NewHome!home, NewHome!StartSetup,
     NewHome!CreateRequest, NewHome!SaveBootstrapState, NewHome!Dispatch, NewHome!PollReturns,
     NewHome!PollTimesOut,
     NewHome!InstallResponse, NewHome!WriteConfig, NewHome!RemoveBootstrapState,
     NewHome!SetupCrashes, NewHome!CleanupPending, NewHome!DeadlinePasses, NewHome!EndDispatch,
     NewHome!SendSubmit, NewHome!SendFails, NewHome!CountAnswer, NewHome!TakeSender,
     NewHome!ImportEndpoint, NewHome!FinishCompletion, NewHome!ServerRestart,
     NewHome!EndSession
<1> QED BY <1>1, <1>2, <1>3, <1>4, <1>5, <1>6, <1>7

\* What a global Home was sent is counted by the dispatches that have sent it.
LEMMA SentGrows ==
  ASSUME NEW f, NEW g, SentStays(f, g), NEW i
  PROVE  /\ Cardinality(HomeSent(f, i)) \in Nat
         /\ Cardinality(HomeSent(f, i)) <= Cardinality(HomeSent(g, i))
         /\ IsFiniteSet(HomeSent(f, i)) /\ HomeSent(f, i) \subseteq HomeSent(g, i)
         /\ Cardinality(HomeSent(g, i)) \in Nat
         /\ Cardinality(HomeSent(g, i)) <= MaxDispatches
<1> DEFINE S == HomeSent(f, i)
           T == HomeSent(g, i)
<1>1. S \subseteq T /\ T \subseteq 1..MaxDispatches
  BY DEF SentStays, HomeSent
<1>2. IsFiniteSet(1..MaxDispatches) /\ Cardinality(1..MaxDispatches) = MaxDispatches
  BY EnrollmentConstants, FS_Interval
<1> HIDE DEF S, T
<1>3. IsFiniteSet(T) /\ Cardinality(T) <= MaxDispatches
  BY <1>1, <1>2, FS_Subset
<1>4. IsFiniteSet(S) /\ Cardinality(S) <= Cardinality(T)
  BY <1>1, <1>3, FS_Subset
<1>5. Cardinality(S) \in Nat /\ Cardinality(T) \in Nat
  BY <1>3, <1>4, FS_CardinalityType
<1> QED BY <1>1, <1>3, <1>4, <1>5 DEF S, T

LEMMA SubmitSends ==
  ASSUME QueueKinds, SubmitsCounted, hDispatch \in HomeTable, SentStays(hDispatch, hDispatch'),
         NEW d \in 1..MaxDispatches, NEW i \in GlobalHomes, NewHome!SendSubmit(d, i)
  PROVE  SubmitsCounted' /\ hSubmits' \in [GlobalHomes -> Nat]
<1>1. /\ hDispatch[d].at = "waiting" /\ i \in hDispatch[d].unsent
      /\ hDispatch' = [hDispatch EXCEPT ![d].unsent = @ \ {i}]
      /\ hSubmits' = [hSubmits EXCEPT ![i] = @ + 1]
  BY DEF NewHome!SendSubmit
<1>2. /\ hSubmits' \in [GlobalHomes -> Nat] /\ hSubmits \in [GlobalHomes -> Nat]
      /\ \A j \in GlobalHomes : hSubmits'[j] = IF j = i THEN hSubmits[j] + 1 ELSE hSubmits[j]
  BY <1>1 DEF QueueKinds
<1>3. /\ hDispatch'[d].at = "waiting" /\ i \notin hDispatch'[d].unsent
  <2>1. hDispatch'[d].unsent = hDispatch[d].unsent \ {i}
    BY <1>1, GoesOnSent
  <2>2. GoesOn(hDispatch, hDispatch', 0)
    BY <1>1, GoesOnSent
  <2>3. hDispatch'[d].at = hDispatch[d].at
    BY <2>2 DEF GoesOn
  <2> QED BY <1>1, <2>1, <2>3
<1>4. ASSUME NEW j \in GlobalHomes
      PROVE  hSubmits'[j] <= Cardinality(HomeSent(hDispatch', j))
  <2> DEFINE S == HomeSent(hDispatch, j)
             T == HomeSent(hDispatch', j)
  <2>1. /\ Cardinality(S) \in Nat /\ Cardinality(S) <= Cardinality(T) /\ IsFiniteSet(S)
        /\ S \subseteq T /\ Cardinality(T) \in Nat
    BY SentGrows
  <2>2. hSubmits[j] <= Cardinality(S) /\ hSubmits[j] \in Nat
    BY <1>2 DEF SubmitsCounted
  <2>3. j = i => d \notin S /\ d \in T
    BY <1>1, <1>3 DEF HomeSent
  <2>5. IsFiniteSet(T)
    <3>1. T \subseteq 1..MaxDispatches /\ IsFiniteSet(1..MaxDispatches)
      BY EnrollmentConstants, FS_Interval DEF HomeSent
    <3> HIDE DEF T
    <3> QED BY <3>1, FS_Subset
  <2> HIDE DEF S, T
  <2>4. j = i => Cardinality(T) >= Cardinality(S) + 1
    <3>1. SUFFICES ASSUME j = i PROVE Cardinality(T) >= Cardinality(S) + 1
      OBVIOUS
    <3>2. Cardinality(S \cup {d}) = Cardinality(S) + 1
      BY <2>1, <2>3, <3>1, FS_AddElement
    <3>3. Cardinality(S \cup {d}) <= Cardinality(T)
      BY <2>1, <2>3, <2>5, <3>1, FS_Subset
    <3> QED BY <2>1, <3>2, <3>3
  <2>6. hSubmits'[j] <= Cardinality(T)
    BY <1>2, <2>1, <2>2, <2>4
  <2> QED BY <2>6 DEF T
<1> QED BY <1>2, <1>4 DEF SubmitsCounted

LEMMA SubmitsStep ==
  ASSUME QueueKinds, IssuerKinds, SubmitsCounted, hDispatch \in HomeTable,
         SentStays(hDispatch, hDispatch'), [NewHome!Next]_(NewHome!vars)
  PROVE  SubmitsCounted' /\ hSubmits' \in [GlobalHomes -> Nat]
<1>1. CASE \E d \in 1..MaxDispatches, i \in GlobalHomes : NewHome!SendSubmit(d, i)
  BY <1>1, SubmitSends
<1>2. CASE /\ hSubmits' \in [GlobalHomes -> Nat]
           /\ \A i \in GlobalHomes : hSubmits'[i] <= hSubmits[i]
  <2>1. ASSUME NEW i \in GlobalHomes
        PROVE  hSubmits'[i] <= Cardinality(HomeSent(hDispatch', i))
    <3>1. /\ Cardinality(HomeSent(hDispatch, i)) \in Nat /\ Cardinality(HomeSent(hDispatch', i)) \in Nat
          /\ Cardinality(HomeSent(hDispatch, i)) <= Cardinality(HomeSent(hDispatch', i))
      BY SentGrows
    <3>2. /\ hSubmits[i] <= Cardinality(HomeSent(hDispatch, i)) /\ hSubmits[i] \in Nat
          /\ hSubmits'[i] <= hSubmits[i] /\ hSubmits'[i] \in Nat
      BY <1>2 DEF SubmitsCounted, QueueKinds
    <3> QED BY <3>1, <3>2
  <2> QED BY <1>2, <2>1 DEF SubmitsCounted
<1>3. CASE UNCHANGED hSubmits
  BY <1>2, <1>3 DEF QueueKinds
<1>4. CASE \E i \in GlobalHomes : NewHome!PersistRequest(i)
  <2>1. PICK i \in GlobalHomes : hSubmits[i] > 0 /\ hSubmits' = [hSubmits EXCEPT ![i] = hSubmits[i] - 1]
    BY <1>4, IssuerAnswers
  <2>2. hSubmits[i] - 1 \in Nat /\ hSubmits[i] - 1 <= hSubmits[i]
    BY <2>1 DEF QueueKinds
  <2> QED BY <1>2, <2>1, <2>2 DEF QueueKinds
<1>5. CASE \/ \E i \in GlobalHomes : hSubmits' = [hSubmits EXCEPT ![i] = 0]
           \/ hSubmits' = [i \in GlobalHomes |-> 0]
  <2>1. CASE hSubmits' = [i \in GlobalHomes |-> 0]
    <3>1. hSubmits' \in [GlobalHomes -> Nat] /\ \A i \in GlobalHomes : hSubmits'[i] = 0
      BY <2>1
    <3>2. \A i \in GlobalHomes : hSubmits'[i] <= hSubmits[i]
      BY <3>1 DEF QueueKinds
    <3> QED BY <1>2, <3>1, <3>2
  <2>2. CASE \E i \in GlobalHomes : hSubmits' = [hSubmits EXCEPT ![i] = 0]
    <3>1. PICK i \in GlobalHomes : hSubmits' = [hSubmits EXCEPT ![i] = 0]
      BY <2>2
    <3>2. /\ hSubmits' \in [GlobalHomes -> Nat]
          /\ \A j \in GlobalHomes : hSubmits'[j] = IF j = i THEN 0 ELSE hSubmits[j]
      BY <3>1 DEF QueueKinds
    <3>3. ASSUME NEW j \in GlobalHomes PROVE hSubmits'[j] <= hSubmits[j]
      <4>1. hSubmits[j] \in Nat
        BY DEF QueueKinds
      <4>2. hSubmits'[j] = 0 \/ hSubmits'[j] = hSubmits[j]
        BY <3>2
      <4> QED BY <4>1, <4>2
    <3> QED BY <1>2, <3>2, <3>3
  <2> QED BY <1>5, <2>1, <2>2
<1>6. \/ \E d \in 1..MaxDispatches, i \in GlobalHomes : NewHome!SendSubmit(d, i)
      \/ UNCHANGED hSubmits
      \/ \E i \in GlobalHomes : NewHome!PersistRequest(i)
      \/ \E i \in GlobalHomes : hSubmits' = [hSubmits EXCEPT ![i] = 0]
      \/ hSubmits' = [i \in GlobalHomes |-> 0]
  BY ZenonT(60) DEF NewHome!Next, NewHome!vars, NewHome!Dispatches, NewHome!StartSetup,
     NewHome!CreateRequest, NewHome!SaveBootstrapState, NewHome!Dispatch, NewHome!PollReturns,
     NewHome!PollTimesOut,
     NewHome!InstallResponse, NewHome!WriteConfig, NewHome!RemoveBootstrapState,
     NewHome!SetupCrashes, NewHome!CleanupPending, NewHome!DeadlinePasses, NewHome!EndDispatch,
     NewHome!SendFails, NewHome!CountAnswer, NewHome!TakeSender,
     NewHome!ImportEndpoint, NewHome!FinishCompletion, NewHome!ServerRestart,
     NewHome!EndSession, NewHome!PruneRequest, NewHome!ReadForApproval,
     NewHome!SignApproval, NewHome!CommitApproval
<1> QED BY <1>1, <1>3, <1>4, <1>5, <1>6

LEMMA NewHomeInit ==
  ASSUME NewHome!Init
  PROVE  NewHomeInv
<1>1. PICK no \in BOOLEAN : no = FALSE
  OBVIOUS
<1>2. PICK n \in 0..MaxApprovals : n = 0
  BY HomeZero
<1>3. PICK z \in 0..MaxDispatches : z = 0
  BY HomeZero
<1>4. SetupKinds /\ hFiles.response = 0 /\ hSetup.response = 0 /\ hSetup.at = "off"
  <2>1. PICK at \in {"off", "creating", "sleeping", "polling", "installing", "configuring"} : at = "off"
    OBVIOUS
  <2>2. /\ hFiles = [dir |-> no, state |-> no, response |-> n, config |-> no]
        /\ hSetup = [at |-> at, dispatch |-> z, response |-> n]
    BY <1>1, <1>2, <1>3, <2>1 DEF NewHome!Init, NewHome!None
  <2> QED BY <1>2, <2>1, <2>2 DEF SetupKinds
<1>5. Waits(hDispatch, hRecord, hImported)
  <2>1. hDispatch = [d \in 1..MaxDispatches |-> NewHome!Idle] /\ hRecord = NewHome!NoRecord
    BY DEF NewHome!Init, NewHome!Dispatches
  <2>2. hDispatch \in HomeTable /\ \A d \in 1..MaxDispatches : hDispatch[d].response = 0
    BY <2>1, HomeIdles DEF HomeTable
  <2> QED BY <2>1, <2>2, NoHomeRecord DEF Waits
<1>6. CompletionsAuthorized
  <2>1. hCompleting = [i \in GlobalHomes |-> NewHome!Resting] /\ hImported = n
    BY <1>2 DEF NewHome!Init, NewHome!None
  <2> QED BY <2>1, HomeRests DEF CompletionsAuthorized
<1>7. QueueKinds /\ \A i \in GlobalHomes : hSubmits[i] = 0
  <2>1. PICK e : e = <<>>
    OBVIOUS
  <2>2. e \in Seq(0..(MaxApprovals + 1))
    BY <2>1
  <2>3. hSubmits = [i \in GlobalHomes |-> 0] /\ hAnswers = [i \in GlobalHomes |-> e]
    BY <2>1 DEF NewHome!Init
  <2> QED BY <2>2, <2>3 DEF QueueKinds
<1>8. SubmitsCounted
  <2>1. SentStays(hDispatch, hDispatch)
    BY DEF SentStays
  <2>2. \A i \in GlobalHomes : Cardinality(HomeSent(hDispatch, i)) \in Nat
    BY <2>1, SentGrows
  <2> QED BY <1>7, <2>2 DEF SubmitsCounted
<1>9. IssuerKinds
  <2>1. PICK unknown \in 0..(MaxApprovals + 1) : unknown = NewHome!Unknown
    BY EnrollmentConstants DEF NewHome!Unknown
  <2>2. PICK at \in {"idle", "read", "signed"} : at = "idle"
    OBVIOUS
  <2> DEFINE r == [at |-> at, response |-> n]
  <2>3. r \in HomeApproval
    BY DEF HomeApproval
  <2>4. /\ hInbox = [i \in GlobalHomes |-> unknown] /\ hSigned = n
        /\ hApproving = [o \in GlobalHomes \X HomeOperators |-> r]
    BY <1>2, <2>1, <2>2 DEF NewHome!Init, NewHome!None
  <2> HIDE DEF r
  <2> QED BY <2>3, <2>4 DEF IssuerKinds
<1>10. hMishaps \in 0..MaxMishaps
  BY HomeZero DEF NewHome!Init
<1>11. SetupAuthorized
  BY <1>4 DEF SetupAuthorized
<1> QED BY <1>4, <1>5, <1>6, <1>7, <1>8, <1>9, <1>10, <1>11 DEF NewHomeInv

LEMMA NewHomeStepKeeps ==
  ASSUME NewHomeInv, [NewHome!Next]_(NewHome!vars)
  PROVE  NewHomeInv'
<1>1. /\ SetupKinds /\ QueueKinds /\ IssuerKinds /\ hMishaps \in 0..MaxMishaps
      /\ SetupAuthorized /\ SubmitsCounted
      /\ Waits(hDispatch, hRecord, hImported) /\ CompletionsAuthorized
  BY DEF NewHomeInv
<1>2. /\ SetupKinds' /\ hFiles'.response \in {0, hImported}
      /\ hSetup'.response \in {0, hImported}
      /\ hSetup'.at = "polling" => hSetup'.dispatch # 0
  BY <1>1, SetupStep
<1>3. Waits(hDispatch', hRecord', hImported) /\ SentStays(hDispatch, hDispatch')
  BY <1>1, DispatchStep
<1>4. CompletionsAuthorized' /\ (hImported' = hImported \/ hImported = 0)
  BY <1>1, CompletionStep
<1>5. IssuerKinds' /\ hAnswers' \in [GlobalHomes -> Seq(0..(MaxApprovals + 1))]
  BY <1>1, IssuerStep
<1>6. hDispatch \in HomeTable
  BY <1>1 DEF Waits
<1>7. SubmitsCounted' /\ hSubmits' \in [GlobalHomes -> Nat]
  BY <1>1, <1>3, <1>6, SubmitsStep
<1>8. Waits(hDispatch', hRecord', hImported')
  BY <1>3, <1>4 DEF Waits
<1>9. SetupAuthorized'
  BY <1>2, <1>4 DEF SetupAuthorized
<1>10. hMishaps' \in 0..MaxMishaps
  BY <1>1, HomeMishapsStep
<1>11. QueueKinds'
  BY <1>5, <1>7 DEF QueueKinds
<1> QED BY <1>2, <1>4, <1>5, <1>7, <1>8, <1>9, <1>10, <1>11 DEF NewHomeInv

\* The invariant of the enrollment of a new Home, whenever that part takes the steps.
LEMMA NewHomeAlways == ControlSpec => [](comp = "new_home" => NewHomeInv)
<1>1. ControlInit => (comp = "new_home" => NewHomeInv)
  BY NewHomeInit DEF ControlInit
<1>2. (comp = "new_home" => NewHomeInv) /\ [ControlNext]_<<vars, shared, comp>>
      => (comp = "new_home" => NewHomeInv)'
  BY NewHomeTurn, NewHomeStepKeeps
<1> QED BY <1>1, <1>2, PTL DEF ControlSpec

\* A new Home installs the endpoint that the Server has authorized, whichever of the
\* competing approvals that was and in whatever order its polls end, and a setup that is
\* resumed finds no file of another; a pending record is of a dispatch that waits, so none
\* is left to refuse every later poll (complete_home_enrollment, dispatch_home_enrollment).
THEOREM ControlInstallsTheAuthorized == ControlSpec => []InstallsTheAuthorized
<1>1. (comp = "new_home" => NewHomeInv) => InstallsTheAuthorized
  <2> SUFFICES ASSUME comp = "new_home", NewHomeInv
               PROVE  NewHome!InstallsTheAuthorized /\ NewHome!RecordHasItsDispatch
    BY DEF InstallsTheAuthorized
  <2>1. /\ hFiles.response \in {0, hImported} /\ hSetup.response \in {0, hImported}
        /\ hRecord.dispatch # 0 => hDispatch[hRecord.dispatch].at = "waiting"
    BY DEF NewHomeInv, SetupAuthorized, Waits
  <2> QED BY <2>1 DEF NewHome!InstallsTheAuthorized, NewHome!RecordHasItsDispatch, NewHome!None
<1> QED BY <1>1, NewHomeAlways, PTL

-----------------------------------------------------------------------------
(* The types of all the parts.                                              *)

LEMMA SessionTypesAlways == ControlSpec => [](comp = "session" => Session!TypeOK)
<1>1. ControlInit => (comp = "session" => Session!TypeOK)
  BY SessionTypeInit DEF ControlInit
<1>2. (comp = "session" => Session!TypeOK) /\ [ControlNext]_<<vars, shared, comp>>
      => (comp = "session" => Session!TypeOK)'
  BY SessionTurn, SessionTypeStep
<1> QED BY <1>1, <1>2, PTL DEF ControlSpec

\* The distribution of the authorization keeps its types, and rests while another part
\* takes the steps.
LEMMA HomesTypesAlways == ControlSpec => []TypeOK
<1>1. ControlInit => TypeOK
  BY TypeInit DEF ControlInit
<1>2. TypeOK /\ [ControlNext]_<<vars, shared, comp>> => TypeOK'
  <2> SUFFICES ASSUME TypeOK, [ControlNext]_<<vars, shared, comp>> PROVE TypeOK'
    OBVIOUS
  <2>1. [Next]_vars
    BY Zenon DEF ControlNext, DirectoryStep, LoginStep, TrustStep, NewHomeStep, RemoteStep,
       HomesStep, SessionStep
  <2> QED BY <2>1, TypeNext
<1> QED BY <1>1, <1>2, PTL DEF ControlSpec

LEMMA NewHomeTypes == NewHomeInv => NewHome!TypeOK
<1> SUFFICES ASSUME NewHomeInv PROVE NewHome!TypeOK
  OBVIOUS
<1>1. /\ SetupKinds /\ QueueKinds /\ IssuerKinds /\ hMishaps \in 0..MaxMishaps
      /\ SubmitsCounted /\ Waits(hDispatch, hRecord, hImported) /\ CompletionsAuthorized
  BY DEF NewHomeInv
<1>2. \A i \in GlobalHomes : hSubmits[i] \in 0..MaxDispatches
  <2> TAKE i \in GlobalHomes
  <2>1. SentStays(hDispatch, hDispatch)
    BY DEF SentStays
  <2>2. /\ Cardinality(HomeSent(hDispatch, i)) \in Nat
        /\ Cardinality(HomeSent(hDispatch, i)) <= MaxDispatches
    BY <2>1, SentGrows
  <2>3. hSubmits[i] <= Cardinality(HomeSent(hDispatch, i)) /\ hSubmits[i] \in Nat
    BY <1>1 DEF SubmitsCounted, QueueKinds
  <2> QED BY <2>2, <2>3, EnrollmentConstants
<1>3. hSubmits \in [GlobalHomes -> 0..MaxDispatches]
  BY <1>1, <1>2 DEF QueueKinds
<1>4. /\ hDispatch \in [NewHome!Dispatches -> HomeDispatch] /\ hRecord \in HomeRecord
      /\ hCompleting \in [GlobalHomes -> HomeCompletion] /\ hImported \in 0..MaxApprovals
  BY <1>1 DEF Waits, CompletionsAuthorized, HomeTable, NewHome!Dispatches
<1>5. HomeRecord = [dispatch : 0..MaxDispatches,
                    remaining : 0..NewHome!Cardinality(GlobalHomes),
                    accepted : BOOLEAN, sender : BOOLEAN]
  BY NewHomeCardinality DEF HomeRecord
<1>6. NewHome!Unknown = MaxApprovals + 1
  BY DEF NewHome!Unknown
<1> QED BY <1>1, <1>3, <1>4, <1>5, <1>6
  DEF NewHome!TypeOK, SetupKinds, QueueKinds, IssuerKinds, HomeDispatch, HomeCompletion,
      HomeApproval

LEMMA LoginTypesHold == LoginInv => Login!TypeOK
  BY DEF LoginInv, LoginTypes, LoginLeases, LoginConn, Login!TypeOK, Login!Waiting

\* The variables of the component that takes the steps hold values of their kinds: the
\* lengths of its queues, its counters and its numbers stay within what the code has.
THEOREM ControlTypesOK == ControlSpec => []TypesOK
<1>1. /\ TypeOK
      /\ comp = "session" => Session!TypeOK
      /\ comp = "directory" => DirInv
      /\ comp = "login" => LoginInv
      /\ comp = "trust" => TrustInv
      /\ comp = "remote" => RemoteInv
      /\ comp = "new_home" => NewHomeInv
      => TypesOK
  BY NewHomeTypes, LoginTypesHold DEF TypesOK, DirInv, TrustInv, RemoteInv
<1> QED
  BY <1>1, HomesTypesAlways, SessionTypesAlways, DirAlways, LoginAlways, TrustInvariant,
     RemoteAlways, NewHomeAlways, PTL
=============================================================================
