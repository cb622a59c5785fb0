--------------------------- MODULE RouteSetupProofs ---------------------------
(***************************************************************************)
(* Setting up a route, for any number of requests, credentials, lost       *)
(* sessions and revocations: whoever is told to dial finds the route.      *)
(*                                                                         *)
(* The property is not inductive.  That a route can have been taken by a   *)
(* pairing only when both endpoints have dialled rests on the Server's     *)
(* telling the Home once at most, hence on what every message on its way   *)
(* says about the Relay's handler.                                         *)
(***************************************************************************)
EXTENDS RouteSetup, FiniteSetTheorems, SequenceTheorems, TLAPS

\* The readiness of request r is on its way to the Server at place i.
TellsReady(i) == toServer[i].type = "RelayWorkReady"

\* A message is about a request whose credential was selected.
MessagesOK ==
    /\ \A i \in 1..Len(toServer) : chosen[toServer[i].request] \in Credentials
    /\ \A s \in serving : chosen[s.request] \in Credentials

\* A request's readiness and its work are one token: it is on its way to the
\* Server, or on its way to the Home, or with the Home.
WorkOnce ==
    /\ \A i \in 1..Len(toServer) : TellsReady(i) =>
          LET r == toServer[i].request IN
          /\ handler[r] \in {"ready", "done"}
          /\ home[r] = "none"
          /\ \A j \in 1..Len(toHome) : toHome[j] # r
    /\ \A i, j \in 1..Len(toServer) :
          TellsReady(i) /\ TellsReady(j) /\ toServer[i].request = toServer[j].request => i = j
    /\ \A i \in 1..Len(toHome) : handler[toHome[i]] \in {"ready", "done"} /\ home[toHome[i]] = "none"
    /\ \A i, j \in 1..Len(toHome) : toHome[i] = toHome[j] => i = j

\* How far handler, route and endpoints of one request have come agrees, and a
\* route that was recorded is there unless it was paired or excused.
StagesAgree(r) ==
    /\ handler[r] \in {"waiting", "granted", "inserted", "ready"} => chosen[r] \in Credentials
    /\ handler[r] # "done" => travel[r] = "asking"
    /\ handler[r] \notin {"ready", "done"} => home[r] = "none"
    /\ handler[r] \in {"idle", "waiting", "granted"} => routes[r] = NoValue
    /\ routes[r] # NoValue =>
          /\ routes[r].credential = chosen[r]
          /\ routes[r].travel => travel[r] = "connected"
          /\ routes[r].home => home[r] = "connected"
    /\ travel[r] = "paired" => routes[r] = NoValue /\ home[r] = "paired"
    /\ handler[r] \in {"inserted", "ready", "done"} =>
          routes[r] # NoValue \/ Excused(r) \/ travel[r] = "paired"

RouteInv ==
    /\ TypeOK
    /\ MessagesOK /\ WorkOnce
    /\ \A r \in Requests : StagesAgree(r)

-----------------------------------------------------------------------------
(* The queues.                                                              *)

LEMMA HeadAndTail ==
  ASSUME NEW S, NEW q \in Seq(S), q # <<>>
  PROVE  /\ Head(q) = q[1] /\ Head(q) \in S /\ Tail(q) \in Seq(S)
         /\ Len(q) \in Nat /\ 1 \in 1..Len(q)
         /\ Len(Tail(q)) = Len(q) - 1
         /\ \A i \in 1..Len(Tail(q)) : Tail(q)[i] = q[i + 1]
<1>1. Len(q) \in Nat /\ Len(q) # 0 BY LenProperties, EmptySeq
<1> QED BY <1>1, HeadTailProperties

LEMMA Appended ==
  ASSUME NEW S, NEW q \in Seq(S), NEW m \in S
  PROVE  /\ Append(q, m) \in Seq(S)
         /\ Len(q) \in Nat /\ Len(Append(q, m)) = Len(q) + 1
         /\ \A i \in 1..Len(q) : Append(q, m)[i] = q[i]
         /\ Append(q, m)[Len(q) + 1] = m
  BY AppendProperties, LenProperties

\* What is left of the queues k and l places on stays truthful, as long as no
\* request goes back to an earlier stage.
LEMMA QueuesShrink ==
  ASSUME MessagesOK, WorkOnce, TypeOK,
         NEW k \in Nat, Len(toServer') = Len(toServer) - k,
         \A i \in 1..Len(toServer') : toServer'[i] = toServer[i + k],
         NEW l \in Nat, Len(toHome') = Len(toHome) - l,
         \A i \in 1..Len(toHome') : toHome'[i] = toHome[i + l],
         \A s \in serving' : chosen'[s.request] \in Credentials,
         \A r \in Requests :
             /\ chosen[r] \in Credentials => chosen'[r] \in Credentials
             /\ handler[r] \in {"ready", "done"} => handler'[r] \in {"ready", "done"}
             /\ home[r] = "none" => \/ home'[r] = "none"
                                    \/ l = 1 /\ 1 \in 1..Len(toHome) /\ r = toHome[1]
  PROVE  MessagesOK' /\ WorkOnce'
<1>1. Len(toServer) \in Nat /\ Len(toHome) \in Nat BY LenProperties DEF TypeOK
<1>2. \A i \in 1..Len(toServer') :
          /\ i + k \in 1..Len(toServer) /\ toServer'[i] = toServer[i + k]
          /\ toServer'[i].request \in Requests
  <2>1. ASSUME NEW i \in 1..Len(toServer) PROVE toServer[i].request \in Requests
    <3>1. toServer \in Seq(Message) BY DEF TypeOK
    <3>2. toServer[i] \in Message BY <3>1, ElementOfSeq
    <3> QED BY <3>2 DEF Message
  <2> QED BY <1>1, <2>1
<1>3. \A i \in 1..Len(toHome') :
          /\ i + l \in 1..Len(toHome) /\ toHome'[i] = toHome[i + l] /\ toHome'[i] \in Requests
  <2>1. toHome \in Seq(Requests) BY DEF TypeOK
  <2>2. \A i \in 1..Len(toHome) : toHome[i] \in Requests BY <2>1, ElementOfSeq
  <2> QED BY <1>1, <2>2
<1>4. MessagesOK' BY <1>2 DEF MessagesOK
<1>5. ASSUME NEW i \in 1..Len(toServer'), TellsReady(i)'
      PROVE  /\ TellsReady(i + k) /\ toServer'[i].request = toServer[i + k].request
             /\ handler'[toServer'[i].request] \in {"ready", "done"}
             /\ home'[toServer'[i].request] = "none"
             /\ \A j \in 1..Len(toHome') : toHome'[j] # toServer'[i].request
  <2>1. TellsReady(i + k) /\ toServer'[i].request = toServer[i + k].request
    BY <1>2, <1>5 DEF TellsReady
  <2>2. i + k \in 1..Len(toServer) /\ toServer'[i].request \in Requests BY <1>2
  <2>3. LET r == toServer[i + k].request IN
        /\ handler[r] \in {"ready", "done"} /\ home[r] = "none"
        /\ \A j \in 1..Len(toHome) : toHome[j] # r
    BY <2>1, <2>2 DEF WorkOnce
  <2> QED BY <1>3, <2>1, <2>2, <2>3
<1>6. \A i, j \in 1..Len(toServer') :
          TellsReady(i)' /\ TellsReady(j)' /\ toServer'[i].request = toServer'[j].request => i = j
  <2> SUFFICES ASSUME NEW i \in 1..Len(toServer'), NEW j \in 1..Len(toServer'),
                      TellsReady(i)', TellsReady(j)',
                      toServer'[i].request = toServer'[j].request
               PROVE  i = j
    OBVIOUS
  <2>1. /\ TellsReady(i + k) /\ TellsReady(j + k)
        /\ toServer[i + k].request = toServer[j + k].request
    BY <1>5
  <2>2. i + k \in 1..Len(toServer) /\ j + k \in 1..Len(toServer) BY <1>2
  <2>3. i + k = j + k BY <2>1, <2>2 DEF WorkOnce
  <2> QED BY <2>3
<1>7. \A i \in 1..Len(toHome') : /\ handler'[toHome'[i]] \in {"ready", "done"}
                                 /\ home'[toHome'[i]] = "none"
  <2> TAKE i \in 1..Len(toHome')
  <2>1. i + l \in 1..Len(toHome) /\ toHome'[i] = toHome[i + l] /\ toHome'[i] \in Requests
    BY <1>3
  <2>2. handler[toHome[i + l]] \in {"ready", "done"} /\ home[toHome[i + l]] = "none"
    BY <2>1 DEF WorkOnce
  <2>3. ~(l = 1 /\ 1 \in 1..Len(toHome) /\ toHome[i + l] = toHome[1])
    <3> SUFFICES ASSUME l = 1, 1 \in 1..Len(toHome), toHome[i + l] = toHome[1] PROVE FALSE
      OBVIOUS
    <3>1. i + l = 1 BY <2>1 DEF WorkOnce
    <3> QED BY <3>1
  <2> QED BY <2>1, <2>2, <2>3
<1>8. \A i, j \in 1..Len(toHome') : toHome'[i] = toHome'[j] => i = j
  <2> TAKE i, j \in 1..Len(toHome')
  <2>1. toHome'[i] = toHome'[j] => i + l = j + l BY <1>3 DEF WorkOnce
  <2> QED BY <2>1
<1> QED BY <1>4, <1>5, <1>6, <1>7, <1>8 DEF WorkOnce

\* A step that leaves the queues alone.
LEMMA QueuesKept ==
  ASSUME MessagesOK, WorkOnce, TypeOK,
         toServer' = toServer, toHome' = toHome,
         \A s \in serving' : chosen'[s.request] \in Credentials,
         \A r \in Requests :
             /\ chosen[r] \in Credentials => chosen'[r] \in Credentials
             /\ handler[r] \in {"ready", "done"} => handler'[r] \in {"ready", "done"}
             /\ home[r] = "none" => home'[r] = "none"
  PROVE  MessagesOK' /\ WorkOnce'
<1>1. Len(toServer) \in Nat /\ Len(toHome) \in Nat BY LenProperties DEF TypeOK
<1>2. /\ Len(toServer') = Len(toServer) - 0 /\ Len(toHome') = Len(toHome) - 0
      /\ \A i \in 1..Len(toServer') : toServer'[i] = toServer[i + 0]
      /\ \A i \in 1..Len(toHome') : toHome'[i] = toHome[i + 0]
  BY <1>1
<1> QED BY <1>2, QueuesShrink

\* The limit on pending grants.
LEMMA PendingIsFinite ==
  ASSUME TypeOK
  PROVE  /\ IsFiniteSet(Pending) /\ Cardinality(Pending) \in Nat
         /\ \A S \in SUBSET Pending : Cardinality(S) <= MaxPendingWork
         /\ (\A r \in Requests : grants'[r] # NoValue => grants[r] # NoValue)
                => Cardinality(Pending') <= MaxPendingWork
<1>1. IsFiniteSet(Pending) BY RouteSetupConstants, FS_Subset DEF Pending
<1>2. Cardinality(Pending) \in Nat BY <1>1, FS_CardinalityType
<1>3. ASSUME NEW S \in SUBSET Pending PROVE Cardinality(S) <= MaxPendingWork
  <2>1. IsFiniteSet(S) /\ Cardinality(S) <= Cardinality(Pending) BY <1>1, FS_Subset
  <2>2. Cardinality(S) \in Nat BY <2>1, FS_CardinalityType
  <2> QED BY <1>2, <2>1, <2>2, RouteSetupConstants DEF TypeOK
<1>4. (\A r \in Requests : grants'[r] # NoValue => grants[r] # NoValue) => Pending' \subseteq Pending
  BY DEF Pending
<1> QED BY <1>1, <1>2, <1>3, <1>4

\* A step that records no grant keeps the limit.
LEMMA LimitKept ==
  ASSUME TypeOK, \A r \in Requests : grants'[r] # NoValue => grants[r] # NoValue
  PROVE  (Cardinality(Pending) <= MaxPendingWork)'
  BY PendingIsFinite

\* What is written to a session the request came from.
LEMMA AnswerOK ==
  ASSUME TypeOK, NEW type \in {"ServerRelayGrant", "RouteDenied"}, NEW r \in Requests,
         NEW lost, Answer(type, r, lost)
  PROVE  toRelay' \in Seq(Message)
<1>1. [type |-> type, request |-> r] \in Message BY DEF Message
<1> QED BY <1>1, AppendProperties DEF Answer, TypeOK

-----------------------------------------------------------------------------
(* Types.                                                                   *)

LEMMA TypeHandler ==
  ASSUME RouteInv, NEW r \in Requests,
         \/ RelayHandler(r) \/ RouteGrantFails(r) \/ RequestTimesOut(r)
  PROVE  TypeOK'
<1>1. TypeOK BY DEF RouteInv
<1>2. StagesAgree(r) BY DEF RouteInv
<1>3. ASSUME NEW cr \in Credentials, TravelAsks(r, cr) PROVE TypeOK'
  <2>1. [type |-> "RouteRequest", request |-> r] \in Message BY DEF Message
  <2>2. toServer' \in Seq(Message) BY <1>1, <1>3, <2>1, AppendProperties DEF TravelAsks, TypeOK
  <2> QED BY <1>1, <1>3, <2>2, LimitKept DEF TypeOK, TravelAsks
<1>4. CASE DeniedAtRelay(r)
  BY <1>1, <1>4, LimitKept DEF TypeOK, DeniedAtRelay, GivesUp, channels
<1>5. CASE RequestTimesOut(r)
  BY <1>1, <1>5, LimitKept DEF TypeOK, RequestTimesOut, GivesUp, channels
<1>6. CASE InsertRoute(r)
  <2>1. NewRoute(r) \in Route BY <1>2, <1>6 DEF StagesAgree, InsertRoute, NewRoute, Route
  <2>2. (Cardinality(Pending) <= MaxPendingWork)' BY <1>1, <1>6, LimitKept DEF InsertRoute
  <2>3. CASE handler' = [handler EXCEPT ![r] = "inserted"] /\ UNCHANGED travel
              /\ routes' = [routes EXCEPT ![r] = NewRoute(r)]
    BY <1>1, <1>6, <2>1, <2>2, <2>3 DEF TypeOK, InsertRoute, channels
  <2>4. CASE GivesUp(r) /\ UNCHANGED routes
    BY <1>1, <1>6, <2>2, <2>4 DEF TypeOK, InsertRoute, GivesUp, channels
  <2> QED BY <1>6, <2>3, <2>4 DEF InsertRoute
<1>7. CASE RelayWorkReady(r)
  <2>1. [type |-> "RelayWorkReady", request |-> r] \in Message BY DEF Message
  <2>2. toServer' \in Seq(Message) BY <1>1, <1>7, <2>1, AppendProperties DEF RelayWorkReady, TypeOK
  <2> QED BY <1>1, <1>7, <2>2, LimitKept DEF TypeOK, RelayWorkReady
<1>8. CASE ReadinessFails(r)
  BY <1>1, <1>8, LimitKept DEF TypeOK, ReadinessFails, GivesUp, Dropped, channels
<1>9. CASE RouteGrant(r)
  BY <1>1, <1>9, LimitKept DEF TypeOK, RouteGrant, channels
<1>10. CASE RouteGrantFails(r)
  BY <1>1, <1>10, LimitKept, RouteSetupConstants
  DEF TypeOK, RouteGrantFails, GivesUp, Dropped, channels
<1> QED BY <1>3, <1>4, <1>5, <1>6, <1>7, <1>8, <1>9, <1>10 DEF RelayHandler

LEMMA TypeRelayReceives == TypeOK /\ RelayReceives => TypeOK'
<1> SUFFICES ASSUME TypeOK, RelayReceives PROVE TypeOK'
  OBVIOUS
<1>1. Head(toRelay) \in Message /\ toRelay' \in Seq(Message)
  BY HeadAndTail DEF RelayReceives, TypeOK
<1>2. Head(toRelay).request \in Requests BY <1>1 DEF Message
<1> QED BY <1>1, <1>2, LimitKept DEF TypeOK, RelayReceives, GivesUp

LEMMA TypeServer ==
  ASSUME RouteInv,
         \/ ServerTask \/ \E r \in Requests : CleanupPending(r)
         \/ \E cr \in Credentials : Revoke(cr)
  PROVE  TypeOK'
<1>1. TypeOK BY DEF RouteInv
<1>2. toServer # <<>> =>
          /\ Head(toServer) \in Message /\ Head(toServer).request \in Requests
          /\ Tail(toServer) \in Seq(Message)
  <2>1. toServer \in Seq(Message) BY <1>1 DEF TypeOK
  <2>2. toServer # <<>> => Head(toServer) \in Message /\ Tail(toServer) \in Seq(Message)
    BY <2>1, HeadAndTail
  <2> QED BY <2>2 DEF Message
<1>3. CASE AuthorizeRoute
  <2>1. toRelay' \in Seq(Message)
    <3>1. Head(toServer).request \in Requests BY <1>2, <1>3 DEF AuthorizeRoute
    <3>2. UNCHANGED toRelay \/ Answer("RouteDenied", Head(toServer).request, FALSE)
      BY <1>3 DEF AuthorizeRoute
    <3>3. Answer("RouteDenied", Head(toServer).request, FALSE) => toRelay' \in Seq(Message)
      BY <1>1, <3>1, AnswerOK
    <3>4. toRelay \in Seq(Message) BY <1>1 DEF TypeOK
    <3> QED BY <3>2, <3>3, <3>4
  <2>2. serving' \subseteq [request : Requests, home : BOOLEAN, lost : BOOLEAN]
    <3>1. [request |-> Head(toServer).request, home |-> TRUE, lost |-> FALSE]
              \in [request : Requests, home : BOOLEAN, lost : BOOLEAN]
      BY <1>2, <1>3 DEF AuthorizeRoute
    <3>2. serving \subseteq [request : Requests, home : BOOLEAN, lost : BOOLEAN]
      BY <1>1 DEF TypeOK
    <3> QED BY <1>3, <3>1, <3>2 DEF AuthorizeRoute
  <2> QED BY <1>1, <1>2, <1>3, <2>1, <2>2, LimitKept DEF AuthorizeRoute, TypeOK
<1>4. CASE CompleteRelayWork
  <2>1. toHome' \in Seq(Requests)
    BY <1>1, <1>2, <1>4, AppendProperties DEF CompleteRelayWork, TypeOK
  <2> QED BY <1>1, <1>2, <1>4, <2>1, LimitKept DEF CompleteRelayWork, TypeOK
<1>5. ASSUME NEW s \in serving, IssueGrant(s) PROVE TypeOK'
  <2>1. s \in [request : Requests, home : BOOLEAN, lost : BOOLEAN] BY <1>1 DEF TypeOK
  <2>2. NewGrant(s) \in Grant BY <2>1 DEF RouteInv, MessagesOK, NewGrant, Grant
  <2>3. toRelay' \in Seq(Message) BY <1>1, <1>5, <2>1, AnswerOK DEF IssueGrant
  <2>4. (Cardinality(Pending) <= MaxPendingWork)'
    <3>1. CASE /\ Cardinality(Pending) < MaxPendingWork
               /\ grants' = [grants EXCEPT ![s.request] = NewGrant(s)]
      <4>1. Pending' \subseteq Pending \cup {s.request} BY <1>1, <2>1, <3>1 DEF Pending, TypeOK
      <4>2. /\ IsFiniteSet(Pending) /\ Cardinality(Pending) \in Nat
            /\ IsFiniteSet(Pending \cup {s.request})
            /\ Cardinality(Pending \cup {s.request}) <= Cardinality(Pending) + 1
        <5>1. IsFiniteSet(Pending) /\ Cardinality(Pending) \in Nat BY <1>1, PendingIsFinite
        <5> QED BY <5>1, FS_AddElement
      <4>3. IsFiniteSet(Pending') /\ Cardinality(Pending') <= Cardinality(Pending \cup {s.request})
        BY <4>1, <4>2, FS_Subset
      <4>4. Cardinality(Pending') \in Nat /\ Cardinality(Pending \cup {s.request}) \in Nat
        BY <4>2, <4>3, FS_CardinalityType
      <4> QED BY <3>1, <4>2, <4>3, <4>4, RouteSetupConstants
    <3>2. CASE UNCHANGED grants BY <1>1, <3>2, LimitKept
    <3> QED BY <1>5, <3>1, <3>2 DEF IssueGrant
  <2> QED BY <1>1, <1>5, <2>1, <2>2, <2>3, <2>4 DEF IssueGrant, TypeOK
<1>6. ASSUME NEW r \in Requests, CleanupPending(r) PROVE TypeOK'
  <2>1. (Cardinality(Pending) <= MaxPendingWork)'
    BY <1>1, <1>6, LimitKept DEF CleanupPending, TypeOK
  <2> QED BY <1>1, <1>6, <2>1 DEF TypeOK, CleanupPending, channels
<1>7. ASSUME NEW cr \in Credentials, Revoke(cr) PROVE TypeOK'
  <2>1. (Cardinality(Pending) <= MaxPendingWork)'
    BY <1>1, <1>7, LimitKept DEF Revoke, TypeOK
  <2> QED BY <1>1, <1>7, <2>1 DEF TypeOK, Revoke, channels, Parts
<1> QED BY <1>3, <1>4, <1>5, <1>6, <1>7 DEF ServerTask

\* Nothing that happens to a Home session, its work or the sockets records a grant.
LEMMA TypeHome ==
  ASSUME TypeOK,
         \/ HomeReceives \/ HomeSessionCut \/ HomeSessionOpens \/ HomeLearns
         \/ \E r \in Requests : WorkExpired(r)
  PROVE  TypeOK'
<1>1. ASSUME HomeSessionLost
      PROVE  /\ session' \in [relay : BOOLEAN, server : BOOLEAN, home : BOOLEAN]
             /\ toHome' \in Seq(Requests)
             /\ serving' \subseteq [request : Requests, home : BOOLEAN, lost : BOOLEAN]
             /\ grants' \in [Requests -> Grant \cup {NoValue}]
             /\ (Cardinality(Pending) <= MaxPendingWork)'
  <2>1. serving' \subseteq [request : Requests, home : BOOLEAN, lost : BOOLEAN]
    <3>1. serving' = {[s EXCEPT !.home = FALSE] : s \in serving} BY <1>1 DEF HomeSessionLost
    <3>2. serving \subseteq [request : Requests, home : BOOLEAN, lost : BOOLEAN] BY DEF TypeOK
    <3> QED BY <3>1, <3>2
  <2>2. grants' \in [Requests -> Grant \cup {NoValue}]
    <3>1. ASSUME NEW r \in Requests, grants[r] # NoValue
          PROVE  [grants[r] EXCEPT !.home = FALSE] \in Grant
      <4>1. grants[r] \in Grant BY <3>1 DEF TypeOK
      <4> QED BY <4>1 DEF Grant
    <3>2. grants' = [r \in Requests |-> IF grants[r] = NoValue THEN NoValue
                                        ELSE [grants[r] EXCEPT !.home = FALSE]]
      BY <1>1 DEF HomeSessionLost
    <3> QED BY <3>1, <3>2
  <2>3. (Cardinality(Pending) <= MaxPendingWork)' BY <1>1, LimitKept DEF HomeSessionLost
  <2>4. toHome' \in Seq(Requests) BY <1>1, EmptySeq DEF HomeSessionLost
  <2> QED BY <1>1, <2>1, <2>2, <2>3, <2>4 DEF HomeSessionLost, TypeOK
<1>2. CASE HomeReceives
  <2>1. Head(toHome) \in Requests /\ Tail(toHome) \in Seq(Requests)
    BY <1>2, HeadAndTail DEF HomeReceives, TypeOK
  <2>2. CASE HomeSessionLost /\ UNCHANGED home
    BY <1>1, <1>2, <2>2 DEF HomeReceives, TypeOK
  <2>3. CASE /\ home' = [home EXCEPT ![Head(toHome)] = "work"]
             /\ toHome' = Tail(toHome)
             /\ UNCHANGED <<session, serving, grants>>
    BY <1>2, <2>1, <2>3, LimitKept DEF HomeReceives, TypeOK
  <2> QED BY <1>2, <2>2, <2>3 DEF HomeReceives
<1>3. CASE HomeSessionCut
  BY <1>1, <1>3, RouteSetupConstants DEF HomeSessionCut, Fails, TypeOK
<1>4. CASE HomeSessionOpens
  BY <1>4, LimitKept DEF HomeSessionOpens, TypeOK, channels, Parts
<1>5. CASE HomeLearns
  BY <1>5, LimitKept DEF HomeLearns, TypeOK, channels, Parts
<1>6. ASSUME NEW r \in Requests, WorkExpired(r) PROVE TypeOK'
  BY <1>6, LimitKept DEF WorkExpired, TypeOK, channels
<1> QED BY <1>2, <1>3, <1>4, <1>5, <1>6

LEMMA TypeRoutes ==
  ASSUME TypeOK, NEW r \in Requests,
         \/ TravelConnects(r) \/ HomeConnects(r) \/ CleanupRoutes(r) \/ CarrierEnds(r)
         \/ WorkLapses(r) \/ RouteLapses(r)
  PROVE  TypeOK'
<1>1. (Cardinality(Pending) <= MaxPendingWork)'
  BY LimitKept DEF TravelConnects, HomeConnects, CleanupRoutes, CarrierEnds, WorkLapses, RouteLapses
<1>2. routes[r] # NoValue =>
          /\ routes[r] \in Route
          /\ [routes[r] EXCEPT !.travel = TRUE] \in Route
          /\ [routes[r] EXCEPT !.home = TRUE] \in Route
  <2>1. routes[r] # NoValue => routes[r] \in Route BY DEF TypeOK
  <2> QED BY <2>1 DEF Route
<1>3. CASE TravelConnects(r)
  <2>1. CASE ~Admits(r) BY <1>1, <1>3, <2>1 DEF TravelConnects, TypeOK, channels
  <2>2. CASE Admits(r) /\ routes[r].home
    BY <1>1, <1>3, <2>2 DEF TravelConnects, TypeOK, Pairs, channels
  <2>3. CASE Admits(r) /\ ~routes[r].home
    <3>1. routes' \in [Requests -> Route \cup {NoValue}]
      <4>1. routes' = [routes EXCEPT ![r] = [routes[r] EXCEPT !.travel = TRUE]]
        BY <1>3, <2>3 DEF TravelConnects
      <4>2. routes \in [Requests -> Route \cup {NoValue}] /\ routes[r] # NoValue
        BY <2>3 DEF TypeOK, Admits
      <4> QED BY <1>2, <4>1, <4>2
    <3> QED BY <1>1, <1>3, <2>3, <3>1 DEF TravelConnects, TypeOK, channels
  <2> QED BY <2>1, <2>2, <2>3
<1>4. CASE HomeConnects(r)
  <2>1. CASE ~Admits(r) BY <1>1, <1>4, <2>1 DEF HomeConnects, TypeOK, channels
  <2>2. CASE Admits(r) /\ routes[r].travel
    BY <1>1, <1>4, <2>2 DEF HomeConnects, TypeOK, Pairs, channels
  <2>3. CASE Admits(r) /\ ~routes[r].travel
    <3>1. routes' \in [Requests -> Route \cup {NoValue}]
      <4>1. routes' = [routes EXCEPT ![r] = [routes[r] EXCEPT !.home = TRUE]]
        BY <1>4, <2>3 DEF HomeConnects
      <4>2. routes \in [Requests -> Route \cup {NoValue}] /\ routes[r] # NoValue
        BY <2>3 DEF TypeOK, Admits
      <4> QED BY <1>2, <4>1, <4>2
    <3> QED BY <1>1, <1>4, <2>3, <3>1 DEF HomeConnects, TypeOK, channels
  <2> QED BY <2>1, <2>2, <2>3
<1>5. CASE CleanupRoutes(r) BY <1>1, <1>5 DEF CleanupRoutes, TypeOK, Dropped, channels
<1>6. CASE CarrierEnds(r) BY <1>1, <1>6 DEF CarrierEnds, TypeOK, channels
<1>7. CASE WorkLapses(r) BY <1>1, <1>7 DEF WorkLapses, TypeOK, channels
<1>8. CASE RouteLapses(r) BY <1>1, <1>8 DEF RouteLapses, TypeOK, channels
<1> QED BY <1>3, <1>4, <1>5, <1>6, <1>7, <1>8

LEMMA TypeRelaySession ==
  ASSUME TypeOK,
         RelayLearns \/ RelaySessionCut \/ ServerSessionEnds \/ RelaySessionOpens
  PROVE  TypeOK'
<1>1. (Cardinality(Pending) <= MaxPendingWork)'
  BY LimitKept DEF RelayLearns, RelaySessionCut, ServerSessionEnds, RelaySessionOpens, TypeOK
<1>2. ASSUME RelayApplies
      PROVE  /\ active' \in [Parts -> SUBSET Credentials]
             /\ routes' \in [Requests -> Route \cup {NoValue}]
             /\ travel' \in [Requests -> {"asking", "ticket", "connected", "paired", "ended"}]
             /\ home' \in [Requests -> {"none", "work", "connected", "paired", "ended"}]
  BY <1>2 DEF RelayApplies, TypeOK, Dropped, Parts
<1>3. CASE RelayLearns BY <1>1, <1>2, <1>3 DEF RelayLearns, TypeOK, channels
<1>4. CASE RelaySessionOpens BY <1>1, <1>2, <1>4 DEF RelaySessionOpens, TypeOK, channels
<1>5. CASE ServerSessionEnds BY <1>1, <1>5 DEF ServerSessionEnds, TypeOK, channels
<1>6. CASE RelaySessionCut
  <2>1. serving' \subseteq [request : Requests, home : BOOLEAN, lost : BOOLEAN]
    <3>1. serving' = {[s EXCEPT !.lost = TRUE] : s \in serving} BY <1>6 DEF RelaySessionCut
    <3>2. serving \subseteq [request : Requests, home : BOOLEAN, lost : BOOLEAN] BY DEF TypeOK
    <3> QED BY <3>1, <3>2
  <2>2. toServer' \in Seq(Message) /\ toRelay' \in Seq(Message)
    BY <1>6, EmptySeq DEF RelaySessionCut
  <2>3. failures' \in 0..MaxFailures
    BY <1>6, RouteSetupConstants DEF RelaySessionCut, Fails, TypeOK
  <2> QED BY <1>1, <1>6, <2>1, <2>2, <2>3 DEF RelaySessionCut, TypeOK
<1> QED BY <1>3, <1>4, <1>5, <1>6

LEMMA TypeNext == RouteInv /\ [Next]_vars => TypeOK'
<1> SUFFICES ASSUME RouteInv, [Next]_vars PROVE TypeOK'
  OBVIOUS
<1>1. TypeOK BY DEF RouteInv
<1>2. CASE UNCHANGED vars
  BY <1>1, <1>2, LimitKept DEF TypeOK, vars, channels
<1>3. CASE Next
  BY <1>1, <1>3, TypeHandler, TypeRelayReceives, TypeServer, TypeHome, TypeRoutes,
     TypeRelaySession
  DEF Next, Sockets, Deadlines, Sessions
<1> QED BY <1>2, <1>3

-----------------------------------------------------------------------------
(* Messages.                                                                *)

\* A message of the Relay to the Server is about a request that has got so far, and
\* readiness is told once.
LEMMA ServerQueueGrows ==
  ASSUME MessagesOK, WorkOnce, TypeOK,
         NEW m \in Message, toServer' = Append(toServer, m), toHome' = toHome,
         UNCHANGED <<serving, home>>,
         chosen'[m.request] \in Credentials,
         \A r \in Requests :
             /\ chosen[r] \in Credentials => chosen'[r] \in Credentials
             /\ handler[r] \in {"ready", "done"} => handler'[r] \in {"ready", "done"},
         m.type = "RelayWorkReady" =>
             /\ handler[m.request] \notin {"ready", "done"}
             /\ handler'[m.request] \in {"ready", "done"}
             /\ home[m.request] = "none"
  PROVE  MessagesOK' /\ WorkOnce'
<1> DEFINE n == Len(toServer) + 1
<1>1. /\ Len(toServer) \in Nat /\ Len(toServer') = n /\ toServer'[n] = m
      /\ \A i \in 1..Len(toServer) : toServer'[i] = toServer[i]
  BY Appended DEF TypeOK
<1>2. \A i \in 1..Len(toServer) : toServer[i].request \in Requests
  <2>1. toServer \in Seq(Message) BY DEF TypeOK
  <2>2. \A i \in 1..Len(toServer) : toServer[i] \in Message BY <2>1, ElementOfSeq
  <2> QED BY <2>2 DEF Message
<1>3. \A i \in 1..Len(toServer') : i \in 1..Len(toServer) \/ i = n
  BY <1>1
<1>4. \A s \in serving : chosen'[s.request] \in Credentials
  BY DEF MessagesOK, TypeOK
<1>5. MessagesOK'
  BY <1>1, <1>2, <1>3, <1>4 DEF MessagesOK
<1>6. \A i \in 1..Len(toHome) : toHome[i] \in Requests
  <2>1. toHome \in Seq(Requests) BY DEF TypeOK
  <2> QED BY <2>1, ElementOfSeq
<1>7. m.type = "RelayWorkReady" =>
          /\ \A j \in 1..Len(toHome) : toHome[j] # m.request
          /\ \A i \in 1..Len(toServer) : TellsReady(i) => toServer[i].request # m.request
  BY DEF WorkOnce
<1>8. \A i \in 1..Len(toServer') : TellsReady(i)' =>
          LET r == toServer'[i].request IN
          /\ handler'[r] \in {"ready", "done"} /\ home'[r] = "none"
          /\ \A j \in 1..Len(toHome') : toHome'[j] # r
  <2> SUFFICES ASSUME NEW i \in 1..Len(toServer'), TellsReady(i)'
               PROVE  LET r == toServer'[i].request IN
                      /\ handler'[r] \in {"ready", "done"} /\ home'[r] = "none"
                      /\ \A j \in 1..Len(toHome') : toHome'[j] # r
    OBVIOUS
  <2>1. CASE i \in 1..Len(toServer)
    <3>1. TellsReady(i) BY <1>1, <2>1 DEF TellsReady
    <3> QED BY <1>1, <1>2, <2>1, <3>1 DEF WorkOnce
  <2>2. CASE i = n BY <1>1, <1>7, <2>2 DEF TellsReady
  <2> QED BY <1>3, <2>1, <2>2
<1>9. \A i, j \in 1..Len(toServer') :
          TellsReady(i)' /\ TellsReady(j)' /\ toServer'[i].request = toServer'[j].request => i = j
  <2> SUFFICES ASSUME NEW i \in 1..Len(toServer'), NEW j \in 1..Len(toServer'),
                      TellsReady(i)', TellsReady(j)',
                      toServer'[i].request = toServer'[j].request
               PROVE  i = j
    OBVIOUS
  <2>1. CASE i \in 1..Len(toServer) /\ j \in 1..Len(toServer)
    BY <1>1, <2>1 DEF WorkOnce, TellsReady
  <2>2. ASSUME i \in 1..Len(toServer), j = n PROVE FALSE
    BY <1>1, <1>7, <2>2 DEF TellsReady
  <2>3. ASSUME j \in 1..Len(toServer), i = n PROVE FALSE
    BY <1>1, <1>7, <2>3 DEF TellsReady
  <2> QED BY <1>3, <2>1, <2>2, <2>3
<1>10. \A i \in 1..Len(toHome') : handler'[toHome'[i]] \in {"ready", "done"} /\ home'[toHome'[i]] = "none"
  BY <1>6 DEF WorkOnce
<1> QED BY <1>5, <1>8, <1>9, <1>10 DEF WorkOnce

\* The token passes from the Relay's message to the work of the Home.
LEMMA TokenPasses ==
  ASSUME MessagesOK, WorkOnce, TypeOK, toServer # <<>>, TellsReady(1),
         toServer' = Tail(toServer), toHome' = Append(toHome, toServer[1].request),
         UNCHANGED <<handler, home, chosen, serving>>
  PROVE  MessagesOK' /\ WorkOnce'
<1> DEFINE n == Len(toHome) + 1
           r == toServer[1].request
<1>1. /\ Len(toServer) \in Nat /\ 1 \in 1..Len(toServer) /\ Len(toServer') = Len(toServer) - 1
      /\ \A i \in 1..Len(toServer') : toServer'[i] = toServer[i + 1]
  <2>1. toServer \in Seq(Message) BY DEF TypeOK
  <2> QED BY <2>1, HeadAndTail
<1>2. r \in Requests
  <2>1. toServer[1] \in Message BY <1>1, ElementOfSeq DEF TypeOK
  <2> QED BY <2>1 DEF Message
<1>3. /\ Len(toHome) \in Nat /\ Len(toHome') = n /\ toHome'[n] = r
      /\ \A i \in 1..Len(toHome) : toHome'[i] = toHome[i]
  BY <1>2, Appended DEF TypeOK
<1>4. \A i \in 1..Len(toHome') : i \in 1..Len(toHome) \/ i = n BY <1>3
<1>5. \A i \in 1..Len(toServer') : i + 1 \in 1..Len(toServer) /\ i + 1 # 1 BY <1>1
<1>6. /\ handler[r] \in {"ready", "done"} /\ home[r] = "none"
      /\ \A j \in 1..Len(toHome) : toHome[j] # r
  BY <1>1 DEF WorkOnce
<1>7. MessagesOK' BY <1>1, <1>5 DEF MessagesOK
<1>8. \A i \in 1..Len(toServer') : TellsReady(i)' =>
          LET q == toServer'[i].request IN
          /\ handler'[q] \in {"ready", "done"} /\ home'[q] = "none"
          /\ \A j \in 1..Len(toHome') : toHome'[j] # q
  <2> SUFFICES ASSUME NEW i \in 1..Len(toServer'), TellsReady(i)'
               PROVE  LET q == toServer'[i].request IN
                      /\ handler'[q] \in {"ready", "done"} /\ home'[q] = "none"
                      /\ \A j \in 1..Len(toHome') : toHome'[j] # q
    OBVIOUS
  <2>1. TellsReady(i + 1) /\ i + 1 \in 1..Len(toServer) /\ toServer'[i] = toServer[i + 1]
    BY <1>1, <1>5 DEF TellsReady
  <2>2. toServer[i + 1].request # r
    <3>1. toServer[i + 1].request = toServer[1].request => i + 1 = 1 BY <1>1, <2>1 DEF WorkOnce
    <3> QED BY <1>5, <3>1
  <2>3. LET q == toServer[i + 1].request IN
        /\ handler[q] \in {"ready", "done"} /\ home[q] = "none"
        /\ \A j \in 1..Len(toHome) : toHome[j] # q
    BY <2>1 DEF WorkOnce
  <2> QED BY <1>3, <1>4, <2>1, <2>2, <2>3
<1>9. \A i, j \in 1..Len(toServer') :
          TellsReady(i)' /\ TellsReady(j)' /\ toServer'[i].request = toServer'[j].request => i = j
  <2> SUFFICES ASSUME NEW i \in 1..Len(toServer'), NEW j \in 1..Len(toServer'),
                      TellsReady(i)', TellsReady(j)',
                      toServer'[i].request = toServer'[j].request
               PROVE  i = j
    OBVIOUS
  <2>1. /\ TellsReady(i + 1) /\ TellsReady(j + 1)
        /\ toServer[i + 1].request = toServer[j + 1].request
    BY <1>1 DEF TellsReady
  <2>2. i + 1 = j + 1 BY <1>5, <2>1 DEF WorkOnce
  <2> QED BY <2>2
<1>10. \A i \in 1..Len(toHome') : handler'[toHome'[i]] \in {"ready", "done"} /\ home'[toHome'[i]] = "none"
  BY <1>3, <1>4, <1>6 DEF WorkOnce
<1>11. \A i, j \in 1..Len(toHome') : toHome'[i] = toHome'[j] => i = j
  BY <1>3, <1>4, <1>6 DEF WorkOnce
<1> QED BY <1>7, <1>8, <1>9, <1>10, <1>11 DEF WorkOnce

LEMMA MessagesHandler ==
  ASSUME RouteInv, NEW r \in Requests,
         \/ RelayHandler(r) \/ RouteGrantFails(r) \/ RequestTimesOut(r)
  PROVE  MessagesOK' /\ WorkOnce'
<1>1. TypeOK /\ MessagesOK /\ WorkOnce /\ StagesAgree(r) BY DEF RouteInv
<1>2. ASSUME NEW cr \in Credentials, TravelAsks(r, cr) PROVE MessagesOK' /\ WorkOnce'
  <2> DEFINE m == [type |-> "RouteRequest", request |-> r]
  <2>1. m \in Message /\ m.request = r /\ m.type # "RelayWorkReady" BY DEF Message
  <2>2. /\ toServer' = Append(toServer, m) /\ UNCHANGED <<toHome, serving, home>>
        /\ chosen'[r] = cr
        /\ \A q \in Requests :
             /\ chosen[q] \in Credentials => chosen'[q] \in Credentials
             /\ handler[q] \in {"ready", "done"} => handler'[q] \in {"ready", "done"}
    BY <1>1, <1>2 DEF TravelAsks, TypeOK
  <2> HIDE DEF m
  <2> QED BY <1>1, <2>1, <2>2, ServerQueueGrows
<1>3. CASE RelayWorkReady(r)
  <2> DEFINE m == [type |-> "RelayWorkReady", request |-> r]
  <2>1. m \in Message /\ m.request = r BY DEF Message
  <2>2. /\ toServer' = Append(toServer, m) /\ UNCHANGED <<toHome, serving, home, chosen>>
        /\ chosen[r] \in Credentials /\ home[r] = "none"
        /\ handler[r] \notin {"ready", "done"} /\ handler'[r] \in {"ready", "done"}
        /\ \A q \in Requests :
              handler[q] \in {"ready", "done"} => handler'[q] \in {"ready", "done"}
    BY <1>1, <1>3 DEF RelayWorkReady, TypeOK, StagesAgree
  <2> HIDE DEF m
  <2> QED BY <1>1, <2>1, <2>2, ServerQueueGrows
<1>4. ASSUME ~RelayWorkReady(r), \A cr \in Credentials : ~TravelAsks(r, cr)
      PROVE  MessagesOK' /\ WorkOnce'
  <2>1. /\ UNCHANGED <<toServer, toHome, serving, chosen>>
        /\ \A q \in Requests :
             /\ handler[q] \in {"ready", "done"} => handler'[q] \in {"ready", "done"}
             /\ home[q] = "none" => home'[q] = "none"
    <3>1. CASE DeniedAtRelay(r) \/ RequestTimesOut(r) \/ InsertRoute(r)
      BY <1>1, <3>1 DEF DeniedAtRelay, RequestTimesOut, InsertRoute, GivesUp, channels, TypeOK
    <3>2. CASE ReadinessFails(r) \/ RouteGrant(r) \/ RouteGrantFails(r)
      BY <1>1, <3>2 DEF ReadinessFails, RouteGrant, RouteGrantFails, GivesUp, Dropped,
         channels, TypeOK
    <3> QED BY <1>4, <3>1, <3>2 DEF RelayHandler
  <2>2. \A s \in serving' : chosen'[s.request] \in Credentials
    BY <1>1, <2>1 DEF MessagesOK
  <2> QED BY <1>1, <2>1, <2>2, QueuesKept
<1> QED BY <1>2, <1>3, <1>4

LEMMA MessagesServer ==
  ASSUME RouteInv, ServerTask
  PROVE  MessagesOK' /\ WorkOnce'
<1>1. TypeOK /\ MessagesOK /\ WorkOnce BY DEF RouteInv
<1>2. toServer \in Seq(Message) /\ toHome \in Seq(Requests) BY <1>1 DEF TypeOK
<1>3. CASE AuthorizeRoute
  <2>1. /\ Head(toServer) = toServer[1] /\ 1 \in 1..Len(toServer) /\ Len(toServer) \in Nat
        /\ Len(toServer') = Len(toServer) - 1
        /\ \A i \in 1..Len(toServer') : toServer'[i] = toServer[i + 1]
    BY <1>2, <1>3, HeadAndTail DEF AuthorizeRoute
  <2>2. chosen[Head(toServer).request] \in Credentials BY <1>1, <2>1 DEF MessagesOK
  <2>3. \A s \in serving' : chosen'[s.request] \in Credentials
    <3>1. ASSUME NEW s \in serving' PROVE s \in serving \/ s.request = Head(toServer).request
      <4> DEFINE new == [request |-> Head(toServer).request, home |-> TRUE, lost |-> FALSE]
      <4>1. serving' = serving \cup {new} \/ serving' = serving BY <1>3 DEF AuthorizeRoute
      <4>2. new.request = Head(toServer).request OBVIOUS
      <4> HIDE DEF new
      <4> QED BY <3>1, <4>1, <4>2
    <3>2. UNCHANGED chosen BY <1>3 DEF AuthorizeRoute
    <3> QED BY <1>1, <2>2, <3>1, <3>2 DEF MessagesOK
  <2>4. /\ Len(toHome') = Len(toHome) - 0
        /\ \A i \in 1..Len(toHome') : toHome'[i] = toHome[i + 0]
    BY <1>2, <1>3, LenProperties DEF AuthorizeRoute
  <2>5. UNCHANGED <<chosen, handler, home>> BY <1>3 DEF AuthorizeRoute
  <2> QED BY <1>1, <2>1, <2>3, <2>4, <2>5, QueuesShrink
<1>4. CASE CompleteRelayWork
  <2>1. /\ Head(toServer) = toServer[1] /\ 1 \in 1..Len(toServer) /\ Len(toServer) \in Nat
        /\ Len(toServer') = Len(toServer) - 1
        /\ \A i \in 1..Len(toServer') : toServer'[i] = toServer[i + 1]
    BY <1>2, <1>4, HeadAndTail DEF CompleteRelayWork
  <2>2. /\ toServer # <<>> /\ toServer' = Tail(toServer) /\ TellsReady(1)
        /\ UNCHANGED <<chosen, handler, home, serving>>
        /\ toHome' = toHome \/ toHome' = Append(toHome, toServer[1].request)
    BY <1>4, <2>1 DEF CompleteRelayWork, TellsReady
  <2>3. \A s \in serving' : chosen'[s.request] \in Credentials
    BY <1>1, <2>2 DEF MessagesOK
  <2>4. CASE toHome' = toHome
    <3>1. /\ Len(toHome') = Len(toHome) - 0
          /\ \A i \in 1..Len(toHome') : toHome'[i] = toHome[i + 0]
      BY <1>2, <2>4, LenProperties
    <3> QED BY <1>1, <2>1, <2>2, <2>3, <3>1, QueuesShrink
  <2>5. CASE toHome' = Append(toHome, toServer[1].request)
    BY <1>1, <2>2, <2>5, TokenPasses
  <2> QED BY <2>2, <2>4, <2>5
<1>5. ASSUME NEW s \in serving, IssueGrant(s) PROVE MessagesOK' /\ WorkOnce'
  <2>1. UNCHANGED <<toServer, toHome, chosen, handler, home>> /\ serving' \subseteq serving
    BY <1>5 DEF IssueGrant
  <2>2. \A t \in serving' : chosen'[t.request] \in Credentials BY <1>1, <2>1 DEF MessagesOK
  <2> QED BY <1>1, <2>1, <2>2, QueuesKept
<1> QED BY <1>3, <1>4, <1>5 DEF ServerTask

\* The sessions: what is lost with one of them leaves nothing untrue behind.
LEMMA MessagesSessions ==
  ASSUME RouteInv, HomeReceives \/ Sessions
  PROVE  MessagesOK' /\ WorkOnce'
<1>1. TypeOK /\ MessagesOK /\ WorkOnce BY DEF RouteInv
<1>2. /\ toServer \in Seq(Message) /\ toHome \in Seq(Requests)
      /\ Len(toServer) \in Nat /\ Len(toHome) \in Nat
  BY <1>1, LenProperties DEF TypeOK
<1>3. serving \subseteq [request : Requests, home : BOOLEAN, lost : BOOLEAN]
  BY <1>1 DEF TypeOK
<1>4. ASSUME HomeSessionLost, UNCHANGED <<toServer, chosen, handler, home>>
      PROVE  MessagesOK' /\ WorkOnce'
  <2>1. Len(toServer') = Len(toServer) - 0 /\ \A i \in 1..Len(toServer') : toServer'[i] = toServer[i + 0]
    BY <1>2, <1>4
  <2>2. Len(toHome') = 0 BY <1>4, EmptySeq DEF HomeSessionLost
  <2>3. /\ Len(toHome') = Len(toHome) - Len(toHome)
        /\ \A i \in 1..Len(toHome') : toHome'[i] = toHome[i + Len(toHome)]
    BY <1>2, <2>2
  <2>4. \A s \in serving' : chosen'[s.request] \in Credentials
    BY <1>1, <1>3, <1>4 DEF HomeSessionLost, MessagesOK
  <2> QED BY <1>1, <1>2, <1>4, <2>1, <2>3, <2>4, QueuesShrink
<1>5. CASE HomeReceives
  <2>1. CASE HomeSessionLost /\ UNCHANGED home BY <1>4, <1>5, <2>1 DEF HomeReceives
  <2>2. CASE home' = [home EXCEPT ![Head(toHome)] = "work"]
             /\ toHome' = Tail(toHome) /\ UNCHANGED <<session, serving, grants>>
    <3>1. /\ Head(toHome) = toHome[1] /\ 1 \in 1..Len(toHome)
          /\ Len(toHome') = Len(toHome) - 1
          /\ \A i \in 1..Len(toHome') : toHome'[i] = toHome[i + 1]
      BY <1>2, <1>5, <2>2, HeadAndTail DEF HomeReceives
    <3>2. UNCHANGED <<toServer, chosen, handler, serving>> BY <1>5, <2>2 DEF HomeReceives
    <3>3. Len(toServer') = Len(toServer) - 0 /\ \A i \in 1..Len(toServer') : toServer'[i] = toServer[i + 0]
      BY <1>2, <3>2
    <3>4. \A r \in Requests : home[r] = "none" => home'[r] = "none" \/ r = toHome[1]
      BY <1>1, <2>2, <3>1 DEF TypeOK
    <3>5. \A s \in serving' : chosen'[s.request] \in Credentials BY <1>1, <3>2 DEF MessagesOK
    <3> QED BY <1>1, <3>1, <3>2, <3>3, <3>4, <3>5, QueuesShrink
  <2> QED BY <1>5, <2>1, <2>2 DEF HomeReceives
<1>6. CASE HomeSessionCut BY <1>4, <1>6 DEF HomeSessionCut
<1>7. CASE RelaySessionCut
  <2>1. Len(toServer') = 0 BY <1>7, EmptySeq DEF RelaySessionCut
  <2>2. /\ Len(toServer') = Len(toServer) - Len(toServer)
        /\ \A i \in 1..Len(toServer') : toServer'[i] = toServer[i + Len(toServer)]
    BY <1>2, <2>1
  <2>3. UNCHANGED <<toHome, chosen, handler, home>> BY <1>7 DEF RelaySessionCut
  <2>4. Len(toHome') = Len(toHome) - 0 /\ \A i \in 1..Len(toHome') : toHome'[i] = toHome[i + 0]
    BY <1>2, <2>3
  <2>5. \A s \in serving' : chosen'[s.request] \in Credentials
    BY <1>1, <1>3, <1>7 DEF RelaySessionCut, MessagesOK
  <2> QED BY <1>1, <1>2, <2>2, <2>3, <2>4, <2>5, QueuesShrink
<1>8. CASE RelayLearns \/ ServerSessionEnds \/ RelaySessionOpens \/ HomeLearns \/ HomeSessionOpens
  <2>1. /\ UNCHANGED <<toServer, toHome, serving, chosen, handler>>
        /\ \A r \in Requests : home[r] = "none" => home'[r] = "none"
    BY <1>1, <1>8 DEF RelayLearns, ServerSessionEnds, RelaySessionOpens, HomeLearns,
       HomeSessionOpens, RelayApplies, Dropped, channels, TypeOK
  <2>2. \A s \in serving' : chosen'[s.request] \in Credentials BY <1>1, <2>1 DEF MessagesOK
  <2> QED BY <1>1, <2>1, <2>2, QueuesKept
<1> QED BY <1>5, <1>6, <1>7, <1>8 DEF Sessions

\* Everything else leaves the queues alone.
LEMMA MessagesOthers ==
  ASSUME RouteInv,
         \/ RelayReceives \/ \E cr \in Credentials : Revoke(cr)
         \/ \E r \in Requests :
               \/ Sockets(r) \/ CarrierEnds(r) \/ CleanupRoutes(r) \/ CleanupPending(r)
               \/ WorkLapses(r) \/ RouteLapses(r)
  PROVE  MessagesOK' /\ WorkOnce'
<1>1. TypeOK /\ MessagesOK /\ WorkOnce BY DEF RouteInv
<1>2. UNCHANGED <<toServer, toHome, serving, chosen>>
  BY DEF RelayReceives, Revoke, Sockets, TravelConnects, HomeConnects, WorkExpired, CarrierEnds,
     CleanupRoutes, CleanupPending, WorkLapses, RouteLapses, channels
<1>3. \A r \in Requests :
          /\ handler[r] \in {"ready", "done"} => handler'[r] \in {"ready", "done"}
          /\ home[r] = "none" => home'[r] = "none"
  <2>1. CASE RelayReceives BY <1>1, <2>1 DEF RelayReceives, GivesUp, TypeOK
  <2>2. CASE \E cr \in Credentials : Revoke(cr) BY <2>2 DEF Revoke
  <2>3. ASSUME NEW r \in Requests,
               \/ Sockets(r) \/ CarrierEnds(r) \/ CleanupRoutes(r) \/ CleanupPending(r)
               \/ WorkLapses(r) \/ RouteLapses(r)
        PROVE  /\ UNCHANGED handler
               /\ \A q \in Requests : home[q] = "none" => home'[q] = "none"
    <3>1. travel[r] = "paired" => home[r] = "paired" BY DEF RouteInv, StagesAgree
    <3>2. routes[r] # NoValue /\ routes[r].home => home[r] = "connected"
      BY DEF RouteInv, StagesAgree
    <3> QED BY <1>1, <2>3, <3>1, <3>2 DEF Sockets, TravelConnects, HomeConnects, WorkExpired,
             Admits, Pairs, CarrierEnds, CleanupRoutes, CleanupPending, WorkLapses, RouteLapses,
             Dropped, channels, TypeOK
  <2> QED BY <2>1, <2>2, <2>3
<1>4. \A s \in serving' : chosen'[s.request] \in Credentials BY <1>1, <1>2 DEF MessagesOK
<1> QED BY <1>1, <1>2, <1>3, <1>4, QueuesKept

-----------------------------------------------------------------------------
(* Stages.                                                                  *)

\* A request nothing happens to: deadlines may pass and credentials be revoked.
LEMMA StagesKept ==
  ASSUME NEW r \in Requests, StagesAgree(r),
         chosen'[r] = chosen[r], handler'[r] = handler[r], travel'[r] = travel[r],
         home'[r] = home[r], routes'[r] = routes[r],
         lapsed \subseteq lapsed', active'["server"] \subseteq active["server"]
  PROVE  StagesAgree(r)'
  BY DEF StagesAgree, Excused, Lapsed

LEMMA StagesHandler ==
  ASSUME RouteInv, NEW r \in Requests,
         \/ RelayHandler(r) \/ RouteGrantFails(r) \/ RequestTimesOut(r)
  PROVE  \A q \in Requests : StagesAgree(q)'
<1>1. TypeOK /\ \A q \in Requests : StagesAgree(q) BY DEF RouteInv
<1>2. ASSUME NEW q \in Requests, q # r PROVE StagesAgree(q)'
  <2>1. /\ chosen'[q] = chosen[q] /\ handler'[q] = handler[q] /\ travel'[q] = travel[q]
        /\ home'[q] = home[q] /\ routes'[q] = routes[q] /\ UNCHANGED <<lapsed, active>>
    <3>1. CASE \E cr \in Credentials : TravelAsks(r, cr) BY <1>1, <1>2, <3>1 DEF TravelAsks, TypeOK
    <3>2. CASE DeniedAtRelay(r) \/ RequestTimesOut(r) \/ InsertRoute(r) \/ RelayWorkReady(r)
      BY <1>1, <1>2, <3>2 DEF DeniedAtRelay, RequestTimesOut, InsertRoute, RelayWorkReady,
         GivesUp, channels, TypeOK
    <3>3. CASE ReadinessFails(r) \/ RouteGrant(r) \/ RouteGrantFails(r)
      BY <1>1, <1>2, <3>3 DEF ReadinessFails, RouteGrant, RouteGrantFails, GivesUp, Dropped,
         channels, TypeOK
    <3> QED BY <3>1, <3>2, <3>3 DEF RelayHandler
  <2> QED BY <1>1, <2>1, StagesKept
<1>3. StagesAgree(r)'
  <2>1. CASE \E cr \in Credentials : TravelAsks(r, cr)
    BY <1>1, <2>1 DEF TravelAsks, TypeOK, StagesAgree, Excused, Lapsed
  <2>2. CASE DeniedAtRelay(r) \/ RequestTimesOut(r)
    BY <1>1, <2>2 DEF DeniedAtRelay, RequestTimesOut, GivesUp, channels, TypeOK, StagesAgree,
       Excused, Lapsed
  <2>3. CASE InsertRoute(r)
    <3>1. chosen[r] \in Credentials /\ travel[r] = "asking" /\ home[r] = "none" /\ routes[r] = NoValue
      BY <1>1, <2>3 DEF InsertRoute, StagesAgree
    <3>2. CASE UNCHANGED travel /\ routes' = [routes EXCEPT ![r] = NewRoute(r)]
               /\ handler' = [handler EXCEPT ![r] = "inserted"]
      <4>1. /\ routes'[r] = NewRoute(r) /\ NewRoute(r) # NoValue
            /\ NewRoute(r).credential = chosen[r]
            /\ ~NewRoute(r).travel /\ ~NewRoute(r).home
        <5>1. NewRoute(r) \in Route BY <3>1 DEF NewRoute, Route
        <5> QED BY <1>1, <3>2, <5>1, RouteSetupConstants DEF NewRoute, TypeOK
      <4> QED BY <1>1, <2>3, <3>1, <3>2, <4>1 DEF InsertRoute, channels, TypeOK, StagesAgree
    <3>3. CASE GivesUp(r) /\ UNCHANGED routes
      BY <1>1, <2>3, <3>1, <3>3 DEF InsertRoute, GivesUp, channels, TypeOK, StagesAgree, Excused,
         Lapsed
    <3> QED BY <2>3, <3>2, <3>3 DEF InsertRoute
  <2>4. CASE RelayWorkReady(r) \/ RouteGrant(r)
    BY <1>1, <2>4 DEF RelayWorkReady, RouteGrant, channels, TypeOK, StagesAgree, Excused, Lapsed
  <2>5. CASE ReadinessFails(r) \/ RouteGrantFails(r)
    BY <1>1, <2>5 DEF ReadinessFails, RouteGrantFails, GivesUp, Dropped, channels, TypeOK,
       StagesAgree, Excused, Lapsed
  <2> QED BY <2>1, <2>2, <2>3, <2>4, <2>5 DEF RelayHandler
<1> QED BY <1>2, <1>3

LEMMA StagesSockets ==
  ASSUME RouteInv, NEW r \in Requests,
         Sockets(r) \/ CarrierEnds(r) \/ CleanupRoutes(r)
  PROVE  \A q \in Requests : StagesAgree(q)'
<1>1. TypeOK /\ \A q \in Requests : StagesAgree(q) BY DEF RouteInv
<1>2. UNCHANGED <<chosen, handler, lapsed, active>>
  BY DEF Sockets, TravelConnects, HomeConnects, WorkExpired, CarrierEnds, CleanupRoutes
<1>3. ASSUME NEW q \in Requests, q # r PROVE StagesAgree(q)'
  <2>1. travel'[q] = travel[q] /\ home'[q] = home[q] /\ routes'[q] = routes[q]
    <3>1. CASE TravelConnects(r) BY <1>1, <1>3, <3>1 DEF TravelConnects, Pairs, TypeOK
    <3>2. CASE HomeConnects(r) BY <1>1, <1>3, <3>2 DEF HomeConnects, Pairs, TypeOK
    <3>3. CASE WorkExpired(r) \/ CarrierEnds(r) \/ CleanupRoutes(r)
      BY <1>1, <1>3, <3>3 DEF WorkExpired, CarrierEnds, CleanupRoutes, Dropped, TypeOK
    <3> QED BY <3>1, <3>2, <3>3 DEF Sockets
  <2> QED BY <1>1, <1>2, <2>1, StagesKept
<1>4. StagesAgree(r)'
  <2>1. ASSUME Pairs(r), handler[r] = "done"
        PROVE  StagesAgree(r)'
    BY <1>1, <1>2, <2>1 DEF Pairs, TypeOK, StagesAgree
  <2>2. CASE TravelConnects(r)
    <3>1. travel[r] = "ticket" /\ handler[r] = "done"
      BY <1>1, <2>2 DEF TravelConnects, StagesAgree
    <3>2. CASE Admits(r) /\ ~routes[r].home
      <4>1. /\ routes[r] # NoValue /\ routes[r] \in Route
            /\ routes'[r] = [routes[r] EXCEPT !.travel = TRUE]
            /\ travel'[r] = "connected" /\ UNCHANGED home
        BY <1>1, <2>2, <3>2 DEF TravelConnects, Admits, TypeOK
      <4>2. /\ routes'[r] # NoValue /\ routes'[r].credential = routes[r].credential
            /\ routes'[r].home = routes[r].home
        BY <4>1, RouteSetupConstants DEF Route
      <4> QED BY <1>1, <1>2, <3>1, <4>1, <4>2 DEF StagesAgree
    <3>3. CASE Admits(r) /\ routes[r].home
      BY <2>1, <2>2, <3>1, <3>3 DEF TravelConnects
    <3>4. CASE ~Admits(r)
      BY <1>1, <1>2, <2>2, <3>1, <3>4 DEF TravelConnects, TypeOK, StagesAgree, Excused
    <3> QED BY <3>2, <3>3, <3>4
  <2>3. CASE HomeConnects(r)
    <3>1. home[r] = "work" /\ handler[r] \in {"ready", "done"} /\ travel[r] # "paired"
      BY <1>1, <2>3 DEF HomeConnects, StagesAgree
    <3>2. CASE Admits(r) /\ ~routes[r].travel
      <4>1. /\ routes[r] # NoValue /\ routes[r] \in Route
            /\ routes'[r] = [routes[r] EXCEPT !.home = TRUE]
            /\ home'[r] = "connected" /\ UNCHANGED travel
        BY <1>1, <2>3, <3>2 DEF HomeConnects, Admits, TypeOK
      <4>2. /\ routes'[r] # NoValue /\ routes'[r].credential = routes[r].credential
            /\ routes'[r].travel = routes[r].travel
        BY <4>1, RouteSetupConstants DEF Route
      <4> QED BY <1>1, <1>2, <3>1, <4>1, <4>2 DEF StagesAgree
    <3>3. CASE Admits(r) /\ routes[r].travel
      <4>1. travel[r] = "connected" BY <1>1, <3>3 DEF StagesAgree, Admits
      <4>2. handler[r] = "done" BY <1>1, <3>1, <4>1 DEF StagesAgree
      <4> QED BY <2>1, <2>3, <3>3, <4>2 DEF HomeConnects
    <3>4. CASE ~Admits(r)
      BY <1>1, <1>2, <2>3, <3>1, <3>4 DEF HomeConnects, TypeOK, StagesAgree, Excused, Lapsed
    <3> QED BY <3>2, <3>3, <3>4
  <2>4. CASE WorkExpired(r)
    BY <1>1, <1>2, <2>4 DEF WorkExpired, TypeOK, StagesAgree, Excused, Lapsed
  <2>5. CASE CarrierEnds(r)
    BY <1>1, <1>2, <2>5 DEF CarrierEnds, TypeOK, StagesAgree, Excused
  <2>6. CASE CleanupRoutes(r)
    BY <1>1, <1>2, <2>6 DEF CleanupRoutes, Dropped, TypeOK, StagesAgree, Excused, Lapsed
  <2> QED BY <2>2, <2>3, <2>4, <2>5, <2>6 DEF Sockets
<1> QED BY <1>3, <1>4

LEMMA StagesOthers ==
  ASSUME RouteInv,
         \/ RelayReceives \/ HomeReceives \/ ServerTask \/ Sessions
         \/ \E cr \in Credentials : Revoke(cr)
         \/ \E r \in Requests : CleanupPending(r) \/ WorkLapses(r) \/ RouteLapses(r)
  PROVE  \A q \in Requests : StagesAgree(q)'
<1>1. TypeOK /\ \A q \in Requests : StagesAgree(q) BY DEF RouteInv
<1>2. CASE RelayReceives
  <2>1. Head(toRelay).request \in Requests
    <3>1. toRelay \in Seq(Message) BY <1>1 DEF TypeOK
    <3>2. Head(toRelay) \in Message BY <1>2, <3>1, HeadAndTail DEF RelayReceives
    <3> QED BY <3>2 DEF Message
  <2>2. PICK r \in Requests : r = Head(toRelay).request BY <2>1
  <2>3. UNCHANGED <<chosen, home, routes, lapsed, active>> BY <1>2 DEF RelayReceives
  <2>4. ASSUME NEW q \in Requests, q # r PROVE StagesAgree(q)'
    <3>1. handler'[q] = handler[q] /\ travel'[q] = travel[q]
      BY <1>1, <1>2, <2>2, <2>4 DEF RelayReceives, GivesUp, TypeOK
    <3> QED BY <1>1, <2>3, <3>1, StagesKept
  <2>5. StagesAgree(r)'
    <3>1. CASE handler[r] = "waiting"
      BY <1>1, <1>2, <2>2, <2>3, <3>1
      DEF RelayReceives, GivesUp, TypeOK, StagesAgree, Excused, Lapsed
    <3>2. CASE handler[r] # "waiting"
      BY <1>1, <1>2, <2>2, <2>3, <3>2, StagesKept DEF RelayReceives
    <3> QED BY <3>1, <3>2
  <2> QED BY <2>4, <2>5
<1>3. CASE HomeReceives
  <2>1. CASE HomeSessionLost /\ UNCHANGED home
    BY <1>1, <1>3, <2>1, StagesKept DEF HomeReceives
  <2>2. CASE home' = [home EXCEPT ![Head(toHome)] = "work"]
    <3>1. PICK r \in Requests : r = Head(toHome) /\ r = toHome[1] /\ 1 \in 1..Len(toHome)
      <4>1. toHome \in Seq(Requests) BY <1>1 DEF TypeOK
      <4> QED BY <1>3, <4>1, HeadAndTail DEF HomeReceives
    <3>2. /\ UNCHANGED <<chosen, handler, travel, routes, lapsed, active>>
          /\ home[r] = "none" /\ handler[r] \in {"ready", "done"}
      BY <1>3, <3>1 DEF HomeReceives, RouteInv, WorkOnce
    <3>3. ASSUME NEW q \in Requests, q # r PROVE StagesAgree(q)'
      <4>1. home'[q] = home[q] BY <1>1, <2>2, <3>1, <3>3 DEF TypeOK
      <4> QED BY <1>1, <3>2, <4>1, StagesKept
    <3>4. StagesAgree(r)'
      <4>1. home'[r] = "work" BY <1>1, <2>2, <3>1 DEF TypeOK
      <4> QED BY <1>1, <3>2, <4>1 DEF StagesAgree, Excused, Lapsed
    <3> QED BY <3>3, <3>4
  <2> QED BY <1>3, <2>1, <2>2 DEF HomeReceives
<1>4. CASE ServerTask
  BY <1>1, <1>4, StagesKept DEF ServerTask, AuthorizeRoute, CompleteRelayWork, IssueGrant
<1>5. ASSUME RelayApplies, UNCHANGED <<chosen, handler, lapsed>>
      PROVE  \A q \in Requests : StagesAgree(q)'
  <2> SUFFICES ASSUME NEW q \in Requests PROVE StagesAgree(q)'
    OBVIOUS
  <2>1. active'["server"] = active["server"] BY <1>1, <1>5 DEF RelayApplies, TypeOK, Parts
  <2>2. CASE routes[q] # NoValue /\ routes[q].credential \notin active["server"]
    <3>1. /\ routes'[q] = NoValue /\ travel'[q] = Dropped(travel, q)[q]
          /\ home'[q] = Dropped(home, q)[q]
      BY <1>5, <2>2 DEF RelayApplies
    <3>2. Excused(q)' BY <1>1, <1>5, <2>1, <2>2 DEF StagesAgree, Excused
    <3> QED BY <1>1, <1>5, <2>2, <3>1, <3>2 DEF StagesAgree, Dropped, TypeOK
  <2>3. CASE ~(routes[q] # NoValue /\ routes[q].credential \notin active["server"])
    <3>1. routes'[q] = routes[q] /\ travel'[q] = travel[q] /\ home'[q] = home[q]
      BY <1>5, <2>3 DEF RelayApplies
    <3> QED BY <1>1, <1>5, <2>1, <3>1, StagesKept
  <2> QED BY <2>2, <2>3
<1>6. CASE RelayLearns \/ RelaySessionOpens
  BY <1>5, <1>6 DEF RelayLearns, RelaySessionOpens
<1>7. CASE HomeLearns \/ HomeSessionOpens
  <2>1. active'["server"] = active["server"]
    BY <1>1, <1>7 DEF HomeLearns, HomeSessionOpens, TypeOK, Parts
  <2> QED BY <1>1, <1>7, <2>1, StagesKept DEF HomeLearns, HomeSessionOpens
<1>8. CASE RelaySessionCut \/ ServerSessionEnds \/ HomeSessionCut
  BY <1>1, <1>8, StagesKept DEF RelaySessionCut, ServerSessionEnds, HomeSessionCut
<1>9. CASE \E cr \in Credentials : Revoke(cr)
  <2>1. active'["server"] \subseteq active["server"] BY <1>1, <1>9 DEF Revoke, TypeOK, Parts
  <2> QED BY <1>1, <1>9, <2>1, StagesKept DEF Revoke
<1>10. ASSUME NEW r \in Requests, CleanupPending(r) \/ WorkLapses(r) \/ RouteLapses(r)
       PROVE  \A q \in Requests : StagesAgree(q)'
  BY <1>1, <1>10, StagesKept DEF CleanupPending, WorkLapses, RouteLapses
<1> QED BY <1>2, <1>3, <1>4, <1>6, <1>7, <1>8, <1>9, <1>10 DEF Sessions

-----------------------------------------------------------------------------
(* Theorems.                                                                *)

LEMMA RouteInvInit == Init => RouteInv
<1> SUFFICES ASSUME Init PROVE RouteInv
  OBVIOUS
<1>1. Pending = {} BY DEF Init, Pending
<1>2. Cardinality(Pending) <= MaxPendingWork BY <1>1, FS_EmptySet, RouteSetupConstants
<1>3. TypeOK BY <1>2, RouteSetupConstants, EmptySeq DEF Init, TypeOK, Parts
<1>4. Len(toServer) = 0 /\ Len(toHome) = 0 BY EmptySeq DEF Init
<1>5. MessagesOK BY <1>4 DEF Init, MessagesOK
<1>6. WorkOnce BY <1>4 DEF WorkOnce
<1>7. \A r \in Requests : StagesAgree(r) BY DEF Init, StagesAgree
<1> QED BY <1>3, <1>5, <1>6, <1>7 DEF RouteInv

LEMMA RouteInvNext == RouteInv /\ [Next]_vars => RouteInv'
<1> SUFFICES ASSUME RouteInv, [Next]_vars PROVE RouteInv'
  OBVIOUS
<1>1. TypeOK' BY TypeNext
<1>2. CASE UNCHANGED vars
  <2>1. MessagesOK' /\ WorkOnce'
    BY <1>2, QueuesKept DEF RouteInv, vars, channels, MessagesOK
  <2>2. \A r \in Requests : StagesAgree(r)'
    BY <1>2, StagesKept DEF RouteInv, vars
  <2> QED BY <1>1, <2>1, <2>2 DEF RouteInv
<1>3. CASE Next
  <2>1. MessagesOK' /\ WorkOnce'
    BY <1>3, MessagesHandler, MessagesServer, MessagesSessions, MessagesOthers
    DEF Next, Deadlines
  <2>2. \A r \in Requests : StagesAgree(r)'
    BY <1>3, StagesHandler, StagesSockets, StagesOthers DEF Next, Deadlines
  <2> QED BY <1>1, <2>1, <2>2 DEF RouteInv
<1> QED BY <1>2, <1>3

THEOREM RouteInvariant == Spec => []RouteInv
  BY RouteInvInit, RouteInvNext, PTL DEF Spec

\* Every state of a route's setup is well-formed, and the Server never holds more
\* pending grants than max_pending_work (handle_route_request).
THEOREM RouteTypeCorrect == Spec => []TypeOK
<1>1. RouteInv => TypeOK BY DEF RouteInv
<1> QED BY <1>1, RouteInvariant, PTL

\* Travel with a ticket, and the Home with its work, find the route their secret
\* belongs to in the Relay's table (run_data), unless its deadline has passed, its
\* credential is revoked or Travel has gone.
THEOREM EndpointsFindTheRouteThm == Spec => []EndpointsFindTheRoute
<1>1. RouteInv => EndpointsFindTheRoute
  <2> SUFFICES ASSUME RouteInv, NEW r \in Requests,
                      \/ travel[r] = "ticket" \/ home[r] = "work"
                      \/ r \in {toHome[i] : i \in DOMAIN toHome}
               PROVE  routes[r] # NoValue \/ Excused(r)
    BY DEF EndpointsFindTheRoute
  <2>1. StagesAgree(r) BY DEF RouteInv
  <2>2. CASE travel[r] = "ticket"
    <3>1. handler[r] = "done" BY <2>1, <2>2 DEF StagesAgree
    <3> QED BY <2>1, <2>2, <3>1 DEF StagesAgree
  <2>3. CASE home[r] = "work"
    <3>1. handler[r] \in {"ready", "done"} BY <2>1, <2>3 DEF StagesAgree
    <3> QED BY <2>1, <2>3, <3>1 DEF StagesAgree
  <2>4. CASE r \in {toHome[i] : i \in DOMAIN toHome}
    <3>1. DOMAIN toHome = 1..Len(toHome) BY LenProperties DEF RouteInv, TypeOK
    <3>2. handler[r] \in {"ready", "done"} /\ home[r] = "none"
      BY <2>4, <3>1 DEF RouteInv, WorkOnce
    <3> QED BY <2>1, <3>2 DEF StagesAgree
  <2> QED BY <2>2, <2>3, <2>4
<1> QED BY <1>1, RouteInvariant, PTL

=============================================================================
