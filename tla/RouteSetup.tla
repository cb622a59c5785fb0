------------------------------ MODULE RouteSetup ------------------------------
(***************************************************************************)
(* Setting up one direct route between a Travel agent and a Home.          *)
(*                                                                         *)
(* Travel asks a Relay for a route (relay/src/main.rs handle_travel_route),*)
(* the Relay asks the Server for a grant (server/src/main.rs               *)
(* handle_route_request), records a pending route, reports that it is      *)
(* ready, and gives Travel a ticket.  The Server, told that the Relay is   *)
(* ready, sends the work to the Home.  Travel and Home then each dial the  *)
(* Relay, whose data listener (run_data) pairs the two sockets.            *)
(*                                                                         *)
(* The module has one Relay, one Home and one Travel identity, whose       *)
(* Credentials all permit that Home.  A request, its grant, its work and   *)
(* its route carry the request's name: their UUIDs are fresh and their     *)
(* secrets unguessable.  Distribution of revocations is that of module     *)
(* Authorization, here one step per receiver.  Left out: the lease of the  *)
(* Travel session, a withdrawn Relay endpoint, expiry of a credential.     *)
(***************************************************************************)
EXTENDS Naturals, Sequences, FiniteSets

CONSTANTS
    Requests,        \* route requests, each on a management connection of its own
    Credentials,     \* the credentials of the Travel identity
    MaxRoutes,       \* route_permits: max_pending_routes of the Relay
    MaxPendingWork,  \* max_pending_work of the Server
    NoValue,         \* Option::None
    MaxFailures      \* bound: control sessions and Travel connections lost

\* A grant keeps the queue of the Home session that was looked up for it: "home"
\* says that this session is still open.
Grant == [credential : Credentials, home : BOOLEAN]
Route == [credential : Credentials, travel : BOOLEAN, home : BOOLEAN]

ASSUME RouteSetupConstants ==
    /\ IsFiniteSet(Requests)
    /\ NoValue \notin Credentials \cup Grant \cup Route
    /\ MaxRoutes \in Nat \ {0} /\ MaxPendingWork \in Nat \ {0} /\ MaxFailures \in Nat

VARIABLES
    active,    \* the credentials that are active in each part's snapshot
    session,   \* control sessions: the Relay's two ends, and the Home's
    toServer, toRelay, toHome,    \* messages of those sessions
    handler,   \* per request: where the Relay's handle_travel_route is
    chosen,    \* per request: the credential the Relay selected
    serving,   \* requests a session task of the Server has authorized; "lost": its
               \* session is cut
    grants,    \* the Server's pending_grants
    routes,    \* the Relay's pending routes, which hold a permit
    lapsed,    \* deadlines that have passed, of "work" and of "route"
    travel, home,    \* per request: the two endpoints of the Carrier
    failures

channels == <<toServer, toRelay, toHome>>
vars == <<active, session, channels, handler, chosen, serving, grants, routes, lapsed,
          travel, home, failures>>

Parts == {"server", "relay", "home"}

Message == [type : {"RouteRequest", "RelayWorkReady", "ServerRelayGrant", "RouteDenied"},
            request : Requests]

Pending == {r \in Requests : grants[r] # NoValue}

TypeOK ==
    /\ active \in [Parts -> SUBSET Credentials]
    /\ session \in [relay : BOOLEAN, server : BOOLEAN, home : BOOLEAN]
    /\ toServer \in Seq(Message) /\ toRelay \in Seq(Message) /\ toHome \in Seq(Requests)
    /\ handler \in [Requests -> {"idle", "waiting", "granted", "inserted", "ready", "done"}]
    /\ chosen \in [Requests -> Credentials \cup {NoValue}]
    /\ serving \subseteq [request : Requests, home : BOOLEAN, lost : BOOLEAN]
    /\ grants \in [Requests -> Grant \cup {NoValue}]
    /\ routes \in [Requests -> Route \cup {NoValue}]
    /\ lapsed \subseteq Requests \X {"work", "route"}
    /\ travel \in [Requests -> {"asking", "ticket", "connected", "paired", "ended"}]
    /\ home \in [Requests -> {"none", "work", "connected", "paired", "ended"}]
    /\ failures \in 0..MaxFailures
    /\ Cardinality(Pending) <= MaxPendingWork

Init ==
    /\ active = [p \in Parts |-> Credentials]
    /\ session = [relay |-> TRUE, server |-> TRUE, home |-> TRUE]
    /\ toServer = <<>> /\ toRelay = <<>> /\ toHome = <<>>
    /\ handler = [r \in Requests |-> "idle"]
    /\ chosen = [r \in Requests |-> NoValue]
    /\ serving = {}
    /\ grants = [r \in Requests |-> NoValue]
    /\ routes = [r \in Requests |-> NoValue]
    /\ lapsed = {}
    /\ travel = [r \in Requests |-> "asking"]
    /\ home = [r \in Requests |-> "none"]
    /\ failures = 0

\* An OwnedSemaphorePermit is held by the handler and then by the route.
Permits == {r \in Requests : handler[r] \in {"waiting", "granted"} \/ routes[r] # NoValue}

Lapsed(r, kind) == <<r, kind>> \in lapsed

-----------------------------------------------------------------------------
(* The Relay's handler of a route request.                                  *)

\* handle_travel_route up to the request to the Server, which is registered
\* under its identifier before it is queued (PendingRequests::request).
TravelAsks(r, cr) ==
    /\ handler[r] = "idle"
    /\ cr \in active["relay"]
    /\ Cardinality(Permits) < MaxRoutes
    /\ session.relay
    /\ handler' = [handler EXCEPT ![r] = "waiting"]
    /\ chosen' = [chosen EXCEPT ![r] = cr]
    /\ toServer' = Append(toServer, [type |-> "RouteRequest", request |-> r])
    /\ UNCHANGED <<active, session, toRelay, toHome, serving, grants, routes, lapsed,
                   travel, home, failures>>

\* The handler returns without a ticket.
GivesUp(r) ==
    /\ handler' = [handler EXCEPT ![r] = "done"]
    /\ travel' = [travel EXCEPT ![r] = "ended"]

\* No active credential, no permit, no Server.
DeniedAtRelay(r) ==
    /\ handler[r] = "idle"
    /\ active["relay"] = {} \/ Cardinality(Permits) >= MaxRoutes \/ ~session.relay
    /\ GivesUp(r)
    /\ UNCHANGED <<active, session, channels, chosen, serving, grants, routes, lapsed,
                   home, failures>>

\* The request's deadline: the registration goes with its future.
RequestTimesOut(r) ==
    /\ handler[r] = "waiting"
    /\ GivesUp(r)
    /\ UNCHANGED <<active, session, channels, chosen, serving, grants, routes, lapsed,
                   home, failures>>

\* PendingRequests::complete: an answer nobody waits for any more is dropped.
RelayReceives ==
    LET m == Head(toRelay)
        waits == handler[m.request] = "waiting"
    IN
    /\ toRelay # <<>>
    /\ toRelay' = Tail(toRelay)
    /\ \/ /\ waits /\ m.type = "ServerRelayGrant"
          /\ handler' = [handler EXCEPT ![m.request] = "granted"]
          /\ UNCHANGED travel
       \/ /\ waits /\ m.type = "RouteDenied"
          /\ GivesUp(m.request)
       \/ /\ ~waits
          /\ UNCHANGED <<handler, travel>>
    /\ UNCHANGED <<active, session, toServer, toHome, chosen, serving, grants, routes, lapsed,
                   home, failures>>

NewRoute(r) == [credential |-> chosen[r], travel |-> FALSE, home |-> FALSE]

\* Mutant: the Server learns of the route before the data listener does.
ReadyBeforeInsert(r) ==
    /\ handler[r] = "granted" /\ ~Lapsed(r, "work") /\ session.relay
    /\ handler' = [handler EXCEPT ![r] = "inserted"]
    /\ toServer' = Append(toServer, [type |-> "RelayWorkReady", request |-> r])
    /\ UNCHANGED <<active, session, toRelay, toHome, chosen, serving, grants, routes, lapsed,
                   travel, home, failures>>

\* The grant is in hand: the pending route is recorded, unless it came too late.
InsertRoute(r) ==
    /\ handler[r] = "granted"
    /\ \/ /\ ~Lapsed(r, "work")
          /\ handler' = [handler EXCEPT ![r] = "inserted"]
          /\ routes' = [routes EXCEPT ![r] = NewRoute(r)]
          /\ UNCHANGED travel
       \/ /\ Lapsed(r, "work")
          /\ GivesUp(r)
          /\ UNCHANGED routes
    /\ UNCHANGED <<active, session, channels, chosen, serving, grants, lapsed, home, failures>>

RelayWorkReady(r) ==
    /\ handler[r] = "inserted"
    /\ session.relay
    /\ handler' = [handler EXCEPT ![r] = "ready"]
    /\ toServer' = Append(toServer, [type |-> "RelayWorkReady", request |-> r])
    /\ UNCHANGED <<active, session, toRelay, toHome, chosen, serving, grants, routes, lapsed,
                   travel, home, failures>>

\* routes.remove drops the permit and whatever socket has arrived.
Dropped(endpoint, r) ==
    [endpoint EXCEPT ![r] = IF @ = "connected" THEN "ended" ELSE @]

\* The Server went away or the readiness deadline passed: the route is removed.
ReadinessFails(r) ==
    /\ handler[r] = "inserted"
    /\ ~session.relay \/ Lapsed(r, "route")
    /\ GivesUp(r)
    /\ routes' = [routes EXCEPT ![r] = NoValue]
    /\ home' = Dropped(home, r)
    /\ UNCHANGED <<active, session, channels, chosen, serving, grants, lapsed, failures>>

RouteGrant(r) ==
    /\ handler[r] = "ready"
    /\ handler' = [handler EXCEPT ![r] = "done"]
    /\ travel' = [travel EXCEPT ![r] = "ticket"]
    /\ UNCHANGED <<active, session, channels, chosen, serving, grants, routes, lapsed,
                   home, failures>>

\* The ticket cannot be written: the route is removed.
RouteGrantFails(r) ==
    /\ handler[r] = "ready"
    /\ failures < MaxFailures /\ failures' = failures + 1
    /\ GivesUp(r)
    /\ routes' = [routes EXCEPT ![r] = NoValue]
    /\ home' = Dropped(home, r)
    /\ UNCHANGED <<active, session, channels, chosen, serving, grants, lapsed>>

-----------------------------------------------------------------------------
(* The Server's session task.                                               *)

\* The task of the current session has a request in hand.
Busy == \E s \in serving : ~s.lost

\* Written to the session the request came from, which may be gone.
Answer(type, r, lost) ==
    toRelay' = IF lost THEN toRelay ELSE Append(toRelay, [type |-> type, request |-> r])

\* handle_route_request: authorize_travel asks for the identity's active
\* credentials, of which the selected one need not be one, then the Home's queue.
AuthorizeRoute ==
    LET m == Head(toServer) IN
    /\ ~Busy /\ toServer # <<>> /\ m.type = "RouteRequest"
    /\ toServer' = Tail(toServer)
    /\ \/ /\ active["server"] # {} /\ session.home
          /\ serving' = serving \cup
                 {[request |-> m.request, home |-> TRUE, lost |-> FALSE]}
          /\ UNCHANGED toRelay
       \/ /\ active["server"] = {} \/ ~session.home
          /\ Answer("RouteDenied", m.request, FALSE)
          /\ UNCHANGED serving
    /\ UNCHANGED <<active, session, toHome, handler, chosen, grants, routes, lapsed,
                   travel, home, failures>>

NewGrant(s) == [credential |-> chosen[s.request], home |-> s.home]

\* Mutant: the pending-work limit is not looked at.
IssueAnyGrant(s) ==
    /\ serving' = serving \ {s}
    /\ grants' = [grants EXCEPT ![s.request] = NewGrant(s)]
    /\ Answer("ServerRelayGrant", s.request, s.lost)
    /\ UNCHANGED <<active, session, toServer, toHome, handler, chosen, routes, lapsed,
                   travel, home, failures>>

\* The authorization is not looked at again when the grant is recorded.
IssueGrant(s) ==
    /\ serving' = serving \ {s}
    /\ \/ /\ Cardinality(Pending) < MaxPendingWork
          /\ grants' = [grants EXCEPT ![s.request] = NewGrant(s)]
          /\ Answer("ServerRelayGrant", s.request, s.lost)
       \/ /\ Cardinality(Pending) >= MaxPendingWork
          /\ Answer("RouteDenied", s.request, s.lost)
          /\ UNCHANGED grants
    /\ UNCHANGED <<active, session, toServer, toHome, handler, chosen, routes, lapsed,
                   travel, home, failures>>

\* complete_relay_work: the grant is taken; what had lapsed, was cleaned up or
\* names a Home session that is gone reaches no Home.
CompleteRelayWork ==
    LET r == Head(toServer).request
        delivered == grants[r] # NoValue /\ ~Lapsed(r, "work") /\ grants[r].home
    IN
    /\ ~Busy /\ toServer # <<>> /\ Head(toServer).type = "RelayWorkReady"
    /\ toServer' = Tail(toServer)
    /\ grants' = [grants EXCEPT ![r] = NoValue]
    /\ toHome' = IF delivered THEN Append(toHome, r) ELSE toHome
    /\ UNCHANGED <<active, session, toRelay, handler, chosen, serving, routes, lapsed,
                   travel, home, failures>>

\* Mutant: nothing prunes the grants.
NoCleanup(r) == FALSE /\ UNCHANGED vars
\* cleanup_pending
CleanupPending(r) ==
    /\ grants[r] # NoValue /\ Lapsed(r, "work")
    /\ grants' = [grants EXCEPT ![r] = NoValue]
    /\ UNCHANGED <<active, session, channels, handler, chosen, serving, routes, lapsed,
                   travel, home, failures>>

-----------------------------------------------------------------------------
(* The Home's control session and its work.                                 *)

\* The queue of the session is lost; the Server's registry entry goes with it.
HomeSessionLost ==
    /\ session' = [session EXCEPT !.home = FALSE]
    /\ toHome' = <<>>
    /\ serving' = {[s EXCEPT !.home = FALSE] : s \in serving}
    /\ grants' = [r \in Requests |-> IF grants[r] = NoValue THEN NoValue
                                     ELSE [grants[r] EXCEPT !.home = FALSE]]

\* OpenRelayWork: work for a credential that is not active ends the session.
HomeReceives ==
    LET r == Head(toHome) IN
    /\ toHome # <<>>
    /\ \/ /\ chosen[r] \in active["home"]
          /\ home' = [home EXCEPT ![r] = "work"]
          /\ toHome' = Tail(toHome)
          /\ UNCHANGED <<session, serving, grants>>
       \/ /\ chosen[r] \notin active["home"]
          /\ HomeSessionLost
          /\ UNCHANGED home
    /\ UNCHANGED <<active, toServer, toRelay, handler, chosen, routes, lapsed, travel, failures>>

\* run_work starts with the expiry that came with the work.
WorkExpired(r) ==
    /\ home[r] = "work" /\ Lapsed(r, "work")
    /\ home' = [home EXCEPT ![r] = "ended"]
    /\ UNCHANGED <<active, session, channels, handler, chosen, serving, grants, routes, lapsed,
                   travel, failures>>

-----------------------------------------------------------------------------
(* The Relay's data listener.                                               *)

\* run_data, under the lock of the routes.
Admits(r) ==
    /\ routes[r] # NoValue /\ ~Lapsed(r, "route")
    /\ routes[r].credential \in active["relay"]

Pairs(r) ==
    /\ routes' = [routes EXCEPT ![r] = NoValue]
    /\ travel' = [travel EXCEPT ![r] = "paired"]
    /\ home' = [home EXCEPT ![r] = "paired"]

TravelConnects(r) ==
    /\ travel[r] = "ticket"
    /\ \/ /\ Admits(r) /\ ~routes[r].home
          /\ routes' = [routes EXCEPT ![r].travel = TRUE]
          /\ travel' = [travel EXCEPT ![r] = "connected"]
          /\ UNCHANGED home
       \/ /\ Admits(r) /\ routes[r].home
          /\ Pairs(r)
       \/ /\ ~Admits(r)
          /\ travel' = [travel EXCEPT ![r] = "ended"]
          /\ UNCHANGED <<routes, home>>
    /\ UNCHANGED <<active, session, channels, handler, chosen, serving, grants, lapsed, failures>>

HomeConnects(r) ==
    /\ home[r] = "work" /\ ~Lapsed(r, "work")
    /\ \/ /\ Admits(r) /\ ~routes[r].travel
          /\ routes' = [routes EXCEPT ![r].home = TRUE]
          /\ home' = [home EXCEPT ![r] = "connected"]
          /\ UNCHANGED travel
       \/ /\ Admits(r) /\ routes[r].travel
          /\ Pairs(r)
       \/ /\ ~Admits(r)
          /\ home' = [home EXCEPT ![r] = "ended"]
          /\ UNCHANGED <<routes, travel>>
    /\ UNCHANGED <<active, session, channels, handler, chosen, serving, grants, lapsed, failures>>

\* cleanup_routes
CleanupRoutes(r) ==
    /\ routes[r] # NoValue /\ Lapsed(r, "route")
    /\ routes' = [routes EXCEPT ![r] = NoValue]
    /\ travel' = Dropped(travel, r)
    /\ home' = Dropped(home, r)
    /\ UNCHANGED <<active, session, channels, handler, chosen, serving, grants, lapsed, failures>>

\* The copy ends, or wait_until_authorization_inactive does.
CarrierEnds(r) ==
    /\ travel[r] = "paired"
    /\ travel' = [travel EXCEPT ![r] = "ended"]
    /\ home' = [home EXCEPT ![r] = "ended"]
    /\ UNCHANGED <<active, session, channels, handler, chosen, serving, grants, routes, lapsed,
                   failures>>

-----------------------------------------------------------------------------
(* Deadlines, revocations and lost sessions.                                *)

\* expires_at_unix_secs passes: the route's own deadline is never later.
WorkLapses(r) ==
    /\ ~Lapsed(r, "work")
    /\ grants[r] # NoValue \/ handler[r] \in {"granted", "inserted", "ready"}
          \/ routes[r] # NoValue \/ home[r] = "work" \/ r \in {toHome[i] : i \in DOMAIN toHome}
    /\ lapsed' = lapsed \cup {<<r, "work">>, <<r, "route">>}
    /\ UNCHANGED <<active, session, channels, handler, chosen, serving, grants, routes,
                   travel, home, failures>>

\* route_ttl_secs passes first.
RouteLapses(r) ==
    /\ routes[r] # NoValue /\ ~Lapsed(r, "route")
    /\ lapsed' = lapsed \cup {<<r, "route">>}
    /\ UNCHANGED <<active, session, channels, handler, chosen, serving, grants, routes,
                   travel, home, failures>>

\* revoke_home_credential: the grants of the credential go with it.
Revoke(cr) ==
    /\ cr \in active["server"]
    /\ active' = [active EXCEPT !["server"] = @ \ {cr}]
    /\ grants' = [r \in Requests |->
                      IF grants[r] # NoValue /\ grants[r].credential = cr THEN NoValue
                      ELSE grants[r]]
    /\ UNCHANGED <<session, channels, handler, chosen, serving, routes, lapsed,
                   travel, home, failures>>

\* apply_authorization_snapshot at the Relay: routes.retain, then send_replace.
RelayApplies ==
    LET Drops(r) == routes[r] # NoValue /\ routes[r].credential \notin active["server"] IN
    /\ active' = [active EXCEPT !["relay"] = active["server"]]
    /\ routes' = [r \in Requests |-> IF Drops(r) THEN NoValue ELSE routes[r]]
    /\ travel' = [r \in Requests |-> IF Drops(r) THEN Dropped(travel, r)[r] ELSE travel[r]]
    /\ home' = [r \in Requests |-> IF Drops(r) THEN Dropped(home, r)[r] ELSE home[r]]

RelayLearns ==
    /\ session.relay /\ active["relay"] # active["server"]
    /\ RelayApplies
    /\ UNCHANGED <<session, channels, handler, chosen, serving, grants, lapsed, failures>>

HomeLearns ==
    /\ session.home /\ active["home"] # active["server"]
    /\ active' = [active EXCEPT !["home"] = active["server"]]
    /\ UNCHANGED <<session, channels, handler, chosen, serving, grants, routes, lapsed,
                   travel, home, failures>>

Fails == failures < MaxFailures /\ failures' = failures + 1

\* The Relay's end of its control session goes, with everything on its way.
RelaySessionCut ==
    /\ session.relay /\ Fails
    /\ session' = [session EXCEPT !.relay = FALSE]
    /\ toServer' = <<>> /\ toRelay' = <<>>
    /\ serving' = {[s EXCEPT !.lost = TRUE] : s \in serving}
    /\ UNCHANGED <<active, toHome, handler, chosen, grants, routes, lapsed, travel, home>>

\* The Server's end: the session was still the Relay's, so its grants are dropped.
ServerSessionEnds ==
    /\ session.server /\ ~session.relay /\ serving = {}
    /\ session' = [session EXCEPT !.server = FALSE]
    /\ grants' = [r \in Requests |-> NoValue]
    /\ UNCHANGED <<active, channels, handler, chosen, serving, routes, lapsed,
                   travel, home, failures>>

\* A new session, which starts with the Server's snapshot and supersedes one whose
\* end the Server has not noticed.
RelaySessionOpens ==
    /\ ~session.relay
    /\ session' = [session EXCEPT !.relay = TRUE, !.server = TRUE]
    /\ RelayApplies
    /\ UNCHANGED <<channels, handler, chosen, serving, grants, lapsed, failures>>

HomeSessionCut ==
    /\ session.home /\ Fails
    /\ HomeSessionLost
    /\ UNCHANGED <<active, toServer, toRelay, handler, chosen, routes, lapsed, travel, home>>

HomeSessionOpens ==
    /\ ~session.home
    /\ session' = [session EXCEPT !.home = TRUE]
    /\ active' = [active EXCEPT !["home"] = active["server"]]
    /\ UNCHANGED <<channels, handler, chosen, serving, grants, routes, lapsed,
                   travel, home, failures>>

-----------------------------------------------------------------------------
RelayHandler(r) ==
    \/ \E cr \in Credentials : TravelAsks(r, cr)
    \/ DeniedAtRelay(r) \/ InsertRoute(r) \/ RelayWorkReady(r) \/ ReadinessFails(r)
    \/ RouteGrant(r)

ServerTask ==
    \/ AuthorizeRoute \/ CompleteRelayWork
    \/ \E s \in serving : IssueGrant(s)

Sockets(r) == TravelConnects(r) \/ HomeConnects(r) \/ WorkExpired(r)

Deadlines(r) == RequestTimesOut(r) \/ WorkLapses(r) \/ RouteLapses(r)

Sessions ==
    \/ RelayLearns \/ HomeLearns
    \/ RelaySessionCut \/ ServerSessionEnds \/ RelaySessionOpens
    \/ HomeSessionCut \/ HomeSessionOpens

Next ==
    \/ \E r \in Requests :
           \/ RelayHandler(r) \/ RouteGrantFails(r) \/ Sockets(r) \/ CarrierEnds(r)
           \/ CleanupRoutes(r) \/ CleanupPending(r) \/ Deadlines(r)
    \/ RelayReceives \/ HomeReceives \/ ServerTask
    \/ \E cr \in Credentials : Revoke(cr)
    \/ Sessions

Spec == Init /\ [][Next]_vars

\* What the Relay's tasks, the endpoints and the timers owe a request.  Nothing is
\* owed by the control sessions: messages may stay on their way, and a lost
\* session may stay lost.
Progress(r) ==
    \/ RelayHandler(r) \/ Sockets(r) \/ RequestTimesOut(r) \/ WorkLapses(r)
    \/ CleanupRoutes(r) \/ CleanupPending(r)

FairSpec == Spec /\ \A r \in Requests : WF_vars(Progress(r))

-----------------------------------------------------------------------------
(* Properties.                                                              *)

\* What may take a route away before it is paired.
Excused(r) ==
    \/ Lapsed(r, "route") \/ chosen[r] \notin active["server"]
    \/ travel[r] = "ended"

\* Whoever is told to dial finds the route: work is with the Home, or a ticket
\* with Travel, only while the Relay has the route that belongs to it.
EndpointsFindTheRoute ==
    \A r \in Requests :
        travel[r] = "ticket" \/ home[r] = "work" \/ r \in {toHome[i] : i \in DOMAIN toHome} =>
            routes[r] # NoValue \/ Excused(r)

\* Nothing of a request stays open for ever, whichever of the Server, the Relay's
\* session and the Home disappears: its permit and its grant are given back, also
\* a grant recorded after its credential was revoked, and Travel is paired or
\* told that it is not.
Open(r) ==
    \/ r \in Permits \/ grants[r] # NoValue
    \/ handler[r] # "idle" /\ travel[r] \notin {"paired", "ended"}
RequestsAreSettled == \A r \in Requests : Open(r) ~> ~Open(r)

=============================================================================
