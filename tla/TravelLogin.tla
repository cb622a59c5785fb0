----------------------------- MODULE TravelLogin -----------------------------
(***************************************************************************)
(* Travel login sessions and the snapshots signed on them.                 *)
(*                                                                         *)
(* A Travel process has a session id of its own and management connections *)
(* to Relays: a Catalog connection, which holds a lease and renews it, and *)
(* a Route connection for every route request.  For each the Relay asks    *)
(* the Server, and waits for the answer up to a deadline.  The Server lets *)
(* one session of a Travel identity hold leases, and signs what that       *)
(* identity may see: it reads the grants, then the login registry, then    *)
(* directory and catalog, and takes the generation last, each under a lock *)
(* of its own, while it answers another Relay about the same Travel.       *)
(***************************************************************************)
EXTENDS Naturals, FiniteSets

CONSTANTS
    Processes,      \* processes started with one Travel identity
    MaxConns,       \* bound: management connections open at once
    MaxIds,         \* bound: session and lease ids
    MaxGeneration,  \* bound: snapshots signed
    MaxFailures     \* bound: lost connections, missed deadlines, restarts

VARIABLES
    grant,     \* Server: the identity has an active credential
    next,      \* Server: the next control generation
    login,     \* TravelSessionRegistry: the session that is logged in, its leases
    epoch,     \* Server starts so far
    known,     \* Relay: its authorization snapshot has an active credential
    conn,      \* Relay: management connections
    ask,       \* Server: TravelSessionAuthorize requests, by connection
    released,  \* leases the Relays have asked to release
    sid,       \* Travel: session id of a process
    accepted,  \* Travel: the newest snapshot a process has
    ids,       \* ids given out
    failures,  \* faults so far
    raced      \* history: a newer generation was signed over older grants

Conns == 1..MaxConns

vars == <<grant, next, login, epoch, known, conn, ask, released, sid,
          accepted, ids, failures, raced>>

\* A connection: whose it is, what for, where the Relay is with it, whether
\* Travel is still there, its lease (0 for none) and the Server that accepted it.
Closed == [at |-> "closed", owner |-> CHOOSE p \in Processes : TRUE, session |-> 0,
           purpose |-> "route", lease |-> 0, alive |-> FALSE, epoch |-> 0]

NoAsk == [at |-> "idle", session |-> 0, lease |-> 0, granted |-> FALSE,
          waiting |-> FALSE]

\* catalog_for_credentials: what an identity sees of the Homes and services.
CatalogFor(granted) == IF granted THEN "authorized" ELSE "empty"

NothingAccepted == [generation |-> 0, catalog |-> "authorized"]

\* authorize_management_identity
Identified == known

Waiting == {"asking", "renewing", "parting"}

Init ==
    /\ grant = TRUE
    /\ next = 1
    /\ login = [session |-> 0, leases |-> {}]
    /\ epoch = 1
    /\ known = TRUE
    /\ conn = [c \in Conns |-> Closed]
    /\ ask = [c \in Conns |-> NoAsk]
    /\ released = {}
    /\ sid = CHOOSE f \in [Processes -> 1..Cardinality(Processes)] :
                 \A p, q \in Processes : p # q => f[p] # f[q]
    /\ accepted = [p \in Processes |-> NothingAccepted]
    /\ ids = Cardinality(Processes)
    /\ failures = 0
    /\ raced = FALSE

Fails == failures < MaxFailures /\ failures' = failures + 1

(***************************************************************************)
(* The Relay.                                                              *)
(***************************************************************************)
\* authorize_travel_session
Request(c, at) ==
    /\ ask[c].at = "idle"
    /\ ask' = [ask EXCEPT ![c] = [NoAsk EXCEPT !.at = "queued", !.waiting = TRUE,
                                     !.session = at.session, !.lease = at.lease]]
    /\ conn' = [conn EXCEPT ![c] = at]

\* TravelHello.  A process runs one catalog subscription at a time; the Relay
\* gives a Catalog connection a lease of its own.
Connect(c, p, purpose) ==
    /\ conn[c].at = "closed"
    /\ \A d \in 1..(c - 1) : conn[d].at # "closed"
    /\ Identified
    /\ \A d \in Conns : ~(conn[d].alive /\ conn[d].owner = p
                          /\ conn[d].purpose = purpose)
    /\ purpose = "catalog" => ids < MaxIds
    /\ ids' = IF purpose = "catalog" THEN ids + 1 ELSE ids
    /\ Request(c, [at |-> "asking", owner |-> p, session |-> sid[p],
                   purpose |-> purpose, alive |-> TRUE, epoch |-> 0,
                   lease |-> IF purpose = "catalog" THEN ids + 1 ELSE 0])
    /\ UNCHANGED <<grant, next, login, epoch, known, released, sid,
                   accepted, failures, raced>>

\* The lease renewal tick, and an authorization snapshot that keeps a grant.
Renew(c) ==
    /\ conn[c].at = "open"
    /\ conn[c].lease # 0
    /\ Identified
    /\ Request(c, [conn[c] EXCEPT !.at = "renewing"])
    /\ UNCHANGED <<grant, next, login, epoch, known, released, sid,
                   accepted, ids, failures, raced>>

\* The last grant is gone: the Relay has the Server sign one more snapshot
\* before it ends the login.
Part(c) ==
    /\ conn[c].at = "open"
    /\ conn[c].lease # 0
    /\ ~Identified
    /\ Request(c, [conn[c] EXCEPT !.at = "parting"])
    /\ UNCHANGED <<grant, next, login, epoch, known, released, sid,
                   accepted, ids, failures, raced>>

\* The connection ends and its lease is released through the Server session.
End(c) ==
    /\ conn' = [conn EXCEPT ![c] = Closed]
    /\ released' = IF conn[c].lease # 0 THEN released \cup {conn[c].lease} ELSE released

\* Travel has closed, a Route connection lost its grant, or the renewal tick
\* found no grant.
HangUp(c) ==
    /\ conn[c].at = "open"
    /\ ~conn[c].alive \/ ~Identified \/ conn[c].purpose = "route"
    /\ End(c)
    /\ UNCHANGED <<grant, next, login, epoch, known, ask, sid, accepted,
                   ids, failures, raced>>

\* The Relay stops waiting; the Server may still answer.  A login that was only
\* being asked for is not released.
TimesOut(c) ==
    /\ Fails
    /\ conn[c].at \in Waiting
    /\ IF conn[c].at = "asking"
       THEN conn' = [conn EXCEPT ![c] = Closed] /\ UNCHANGED released
       ELSE End(c)
    /\ ask' = [ask EXCEPT ![c].waiting = FALSE]
    /\ UNCHANGED <<grant, next, login, epoch, known, sid, accepted, ids,
                   raced>>

\* The Relay receives the authorization snapshot without the grant.
Learn ==
    /\ known
    /\ ~grant
    /\ known' = FALSE
    /\ UNCHANGED <<grant, next, login, epoch, conn, ask, released, sid,
                   accepted, ids, failures, raced>>

(***************************************************************************)
(* The Server: authorize_travel, for TravelSessionAuthorize.               *)
(***************************************************************************)
ReadGrants(c) ==
    /\ ask[c].at = "queued"
    /\ ask' = [ask EXCEPT ![c].at = "checked", ![c].granted = grant]
    /\ UNCHANGED <<grant, next, login, epoch, known, conn, released, sid,
                   accepted, ids, failures, raced>>

\* TravelSessionRegistry::authorize: another session keeps this one out, and
\* only a Catalog connection can log in.
LoggedIn(session, lease) ==
    IF login.session = session
    THEN [login EXCEPT !.leases = IF lease = 0 THEN @ ELSE @ \cup {lease}]
    ELSE [session |-> session, leases |-> {lease}]

\* Mutant: the newest session takes the login over.
AdmittedAlways(session, lease) == login.session = session \/ lease # 0

Admitted(session, lease) ==
    login.session = session \/ (login.session = 0 /\ lease # 0)

\* Without a grant nothing is registered, and the snapshot is empty.
Authorize(c) ==
    /\ ask[c].at = "checked"
    /\ ask[c].granted => Admitted(ask[c].session, ask[c].lease)
    /\ login' = IF ask[c].granted THEN LoggedIn(ask[c].session, ask[c].lease) ELSE login
    /\ ask' = [ask EXCEPT ![c].at = "read"]
    /\ UNCHANGED <<grant, next, epoch, known, conn, released, sid,
                   accepted, ids, failures, raced>>

Denied(c) ==
    /\ ask[c].at = "checked"
    /\ ask[c].granted
    /\ ~Admitted(ask[c].session, ask[c].lease)
    /\ ask' = [ask EXCEPT ![c] = NoAsk]
    /\ IF ask[c].waiting
       THEN IF conn[c].at = "asking"
            THEN conn' = [conn EXCEPT ![c] = Closed] /\ UNCHANGED released
            ELSE End(c)
       ELSE UNCHANGED <<conn, released>>
    /\ UNCHANGED <<grant, next, login, epoch, known, sid, accepted, ids,
                   failures, raced>>

\* Travel keeps the newest generation it is sent.
Accept(c, snapshot) ==
    accepted' = IF conn[c].alive /\ snapshot.generation > accepted[conn[c].owner].generation
                THEN [accepted EXCEPT ![conn[c].owner] = snapshot] ELSE accepted

\* The generation is taken last.  The Relay forwards the snapshot, and goes on
\* with the connection or ends it.
Sign(c) ==
    LET snapshot == [generation |-> next, catalog |-> CatalogFor(ask[c].granted)]
    IN  /\ ask[c].at = "read"
        /\ next <= MaxGeneration
        /\ next' = next + 1
        /\ ask' = [ask EXCEPT ![c] = NoAsk]
        /\ raced' = (raced \/ (ask[c].granted /\ ~grant))
        /\ IF ~ask[c].waiting THEN UNCHANGED <<conn, released, accepted>>
           ELSE /\ Accept(c, snapshot)
                /\ IF conn[c].at = "parting"
                   THEN End(c)
                   ELSE /\ conn' = [conn EXCEPT ![c].at = "open", ![c].epoch = epoch]
                        /\ UNCHANGED released
        /\ UNCHANGED <<grant, login, epoch, known, sid, ids, failures>>

\* Mutant: releasing one lease ends the login.
ForgetAll(lease) == [session |-> 0, leases |-> {}]

\* A lease goes, and with the last one the login.
Forget(lease) ==
    LET rest == login.leases \ {lease}
    IN  IF rest = {} THEN [session |-> 0, leases |-> {}]
        ELSE [login EXCEPT !.leases = rest]

\* TravelSessionRelease follows the request it releases on the same queue.
Release(lease) ==
    /\ lease \in released
    /\ \A c \in Conns : ask[c].at # "idle" => ask[c].lease # lease
    /\ released' = released \ {lease}
    /\ login' = IF lease \in login.leases THEN Forget(lease) ELSE login
    /\ UNCHANGED <<grant, next, epoch, known, conn, ask, sid, accepted,
                   ids, failures, raced>>

\* The message is lost with the Relay's Server session.
ReleaseLost(lease) ==
    /\ lease \in released
    /\ Fails
    /\ released' = released \ {lease}
    /\ UNCHANGED <<grant, next, login, epoch, known, conn, ask, sid,
                   accepted, ids, raced>>

\* prune: a lease no connection renews runs out.  An open connection renews
\* every ten seconds a lease of forty-five.
Prune(lease) ==
    /\ lease \in login.leases
    /\ \A c \in Conns : conn[c].lease # lease /\ ask[c].lease # lease
    /\ lease \notin released
    /\ login' = Forget(lease)
    /\ UNCHANGED <<grant, next, epoch, known, conn, ask, released, sid,
                   accepted, ids, failures, raced>>

Revoke ==
    /\ grant
    /\ grant' = FALSE
    /\ UNCHANGED <<next, login, epoch, known, conn, ask, released, sid, accepted,
                   ids, failures, raced>>

\* Logins are in memory only; requests under way are lost.
ServerRestart ==
    /\ Fails
    /\ epoch' = epoch + 1
    /\ login' = [session |-> 0, leases |-> {}]
    /\ ask' = [c \in Conns |-> NoAsk]
    /\ conn' = [c \in Conns |-> IF conn[c].at \in Waiting THEN Closed ELSE conn[c]]
    /\ released' = {}
    /\ UNCHANGED <<grant, next, known, sid, accepted, ids, raced>>

(***************************************************************************)
(* Travel.                                                                 *)
(***************************************************************************)
\* A connection is lost; the Relay finds out later.
Drop(c) ==
    /\ Fails
    /\ conn[c].alive
    /\ conn' = [conn EXCEPT ![c].alive = FALSE]
    /\ UNCHANGED <<grant, next, login, epoch, known, ask, released, sid,
                   accepted, ids, raced>>

\* A new process has a new session id, and the durable snapshot.
ProcessRestart(p) ==
    /\ Fails
    /\ ids < MaxIds
    /\ ids' = ids + 1
    /\ sid' = [sid EXCEPT ![p] = ids + 1]
    /\ conn' = [c \in Conns |-> IF conn[c].owner = p
                                THEN [conn[c] EXCEPT !.alive = FALSE] ELSE conn[c]]
    /\ UNCHANGED <<grant, next, login, epoch, known, ask, released,
                   accepted, raced>>

ConnStep(c) ==
    \/ \E p \in Processes, purpose \in {"catalog", "route"} : Connect(c, p, purpose)
    \/ Renew(c) \/ Part(c) \/ HangUp(c) \/ TimesOut(c)
    \/ ReadGrants(c) \/ Authorize(c) \/ Denied(c) \/ Sign(c) \/ Drop(c)

Next ==
    \/ \E c \in Conns : ConnStep(c)
    \/ \E lease \in 1..MaxIds : Release(lease) \/ ReleaseLost(lease) \/ Prune(lease)
    \/ \E p \in Processes : ProcessRestart(p)
    \/ Learn \/ Revoke \/ ServerRestart

Spec == Init /\ [][Next]_vars

(***************************************************************************)
(* Properties.                                                             *)
(***************************************************************************)
TypeOK ==
    /\ login \in [session : 0..MaxIds, leases : SUBSET (1..MaxIds)]
    /\ login.session = 0 <=> login.leases = {}
    /\ released \subseteq 1..MaxIds
    /\ next \in 1..(MaxGeneration + 1)
    /\ \A c \in Conns : conn[c].at \in {"closed", "open"} \cup Waiting
    /\ \A c \in Conns : ask[c].waiting => conn[c].at \in Waiting

\* While the identity is authorized, two sessions of it never hold Catalog
\* connections that the same Server accepted: not through late answers, lost
\* releases, leases that run out or the restart of a process.
OneLogin ==
    \A c, d \in Conns :
        (/\ conn[c].lease # 0 /\ conn[d].lease # 0
         /\ conn[c].at = "open" /\ conn[d].at = "open"
         /\ conn[c].epoch = epoch /\ conn[d].epoch = epoch
         /\ grant /\ ~raced)
        => conn[c].session = conn[d].session

\* A renewed connection has its lease: nothing another connection did, closing
\* late or being released late, has taken the login away from under it.
OpenHasItsLease ==
    \A c \in Conns :
        (/\ conn[c].at = "open" /\ conn[c].lease # 0
         /\ conn[c].epoch = epoch /\ grant)
        => login.session = conn[c].session /\ conn[c].lease \in login.leases

=============================================================================
