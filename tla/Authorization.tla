---------------------------- MODULE Authorization ----------------------------
(***************************************************************************)
(* Distribution of the Travel authorization snapshot.                      *)
(*                                                                         *)
(* The Server (server/src/main.rs, server/src/authorization.rs) owns one   *)
(* generation-numbered snapshot of credentials and revocations.  Every     *)
(* change is persisted and then broadcast to the queue of each control     *)
(* session; a session that is being set up reads the snapshot itself.      *)
(* Relays (relay/src/main.rs) and Homes (flowsplice-home-core) verify a    *)
(* snapshot against a durable cache, end what it no longer permits, and    *)
(* publish it to the tasks that admit routes and Flows.                    *)
(*                                                                         *)
(* Signatures and the scope of a credential are left out: a credential is  *)
(* a name, and every snapshot is one the Server made.  So is expiry: a     *)
(* credential becomes inactive by revocation only.                         *)
(***************************************************************************)
EXTENDS Naturals, Sequences, FiniteSets

CONSTANTS
    Relays, Homes,     \* the nodes that keep a control session with the Server
    Passive,           \* the Relays whose session the Server dials
    Credentials,       \* credential_id
    QueueCapacity,     \* capacity of a session's mpsc queue (64 and 32 in the code)
    NoConn, NoSnapshot,
    MaxGeneration,     \* bound: generations of the snapshot
    MaxFailures,       \* bound: connections cut, and processes restarted
    Faults             \* which of "cut", "restart", "server_restart", "slow" can happen

Nodes == Relays \cup Homes

Snapshot == [generation : 1..MaxGeneration,
             credentials : SUBSET Credentials, revocations : SUBSET Credentials]

ASSUME AuthorizationConstants ==
    /\ Relays \cap Homes = {} /\ Passive \subseteq Relays
    /\ QueueCapacity \in Nat \ {0}
    /\ MaxGeneration \in Nat \ {0} /\ MaxFailures \in Nat
    /\ NoConn \notin Nodes \X {1, 2} /\ NoSnapshot \notin Snapshot

\* A connection between a node and the Server.  A node has at most one that is
\* not yet closed at both ends besides its current one.
Conns == Nodes \X {1, 2}

IsActive(snapshot, cr) == cr \in snapshot.credentials /\ cr \notin snapshot.revocations

VARIABLES
    server,      \* the persisted snapshot, which memory follows under one lock
    publishing,  \* broadcasts that have still to read a registry of sessions
    sends,       \* snapshots waiting for room in the queue of a connection's task
    sessions,    \* relay_sessions and HomeRegistry.sessions: the current connection
    conn,        \* per connection: both tasks and what is between them
    node,        \* per node: the durable cache and what memory holds
    failures

vars == <<server, publishing, sends, sessions, conn, node, failures>>

\* "task" is the Server's task of the connection, "peer" the node's.  "sent" is
\* authorization_generation; "apply" is the snapshot apply_authorization_snapshot
\* is busy with, at "stage"; "missed" is history: a broadcast gave this queue up.
Conn == [link : {"none", "up", "cut"},
         task : {"none", "offered", "registered", "open", "ended"},
         peer : {"none", "waiting", "running", "closed"},
         initial : 0..MaxGeneration, sent : 0..MaxGeneration, acked : BOOLEAN, missed : BOOLEAN,
         queue : Seq(Snapshot), wire : Seq(Snapshot),
         stage : {"idle", "accepted", "swept"}, apply : Snapshot \cup {NoSnapshot}]

\* "ready" are credentials whose route or Carrier was authorized and has still to
\* be recorded, "routes" the Relay's pending routes, "live" what is in use.
Node == [cache : Snapshot \cup {NoSnapshot},
         applied : Snapshot \cup {NoSnapshot},
         ready : SUBSET Credentials, routes : SUBSET Credentials, live : SUBSET Credentials]

TypeOK ==
    /\ server \in Snapshot
    /\ publishing \subseteq [snapshot : Snapshot, to : {"relays", "homes"}]
    /\ sends \subseteq [conn : Conns, snapshot : Snapshot, own : BOOLEAN]
    /\ sessions \in [Nodes -> Conns \cup {NoConn}]
    /\ conn \in [Conns -> Conn]
    /\ \A c \in Conns : Len(conn[c].queue) <= QueueCapacity
    /\ node \in [Nodes -> Node]
    /\ failures \in 0..MaxFailures

NewConn == [link |-> "none", task |-> "none", peer |-> "none", initial |-> 0, sent |-> 0,
            acked |-> FALSE, missed |-> FALSE, queue |-> <<>>, wire |-> <<>>,
            stage |-> "idle", apply |-> NoSnapshot]

\* initialize_authorization_cache: an empty cache, and nothing synchronized.
NewNode == [cache |-> NoSnapshot, applied |-> NoSnapshot,
            ready |-> {}, routes |-> {}, live |-> {}]

Init ==
    /\ server = [generation |-> 1, credentials |-> {}, revocations |-> {}]
    /\ publishing = {} /\ sends = {}
    /\ sessions = [n \in Nodes |-> NoConn]
    /\ conn = [c \in Conns |-> NewConn]
    /\ node = [n \in Nodes |-> NewNode]
    /\ failures = 0

Of(n) == {c \in Conns : c[1] = n}

-----------------------------------------------------------------------------
(* Server: changes of the snapshot and their broadcast.                     *)

\* import_credential, revoke_from_home: persisted, then in memory, then broadcast.
Changes(snapshot) ==
    /\ server.generation < MaxGeneration
    /\ server' = [snapshot EXCEPT !.generation = server.generation + 1]
    /\ publishing' = publishing \cup {[snapshot |-> server', to |-> "relays"]}
    /\ UNCHANGED <<sends, sessions, conn, node, failures>>

ImportCredential(cr) ==
    /\ cr \notin server.credentials
    /\ Changes([server EXCEPT !.credentials = @ \cup {cr}])

RevokeCredential(cr) ==
    /\ IsActive(server, cr)
    /\ Changes([server EXCEPT !.revocations = @ \cup {cr}])

\* broadcast_authorization reads the Relays' sessions first, the Homes' after,
\* and leaves one send for each to a task of its own.
Broadcast(b) ==
    LET to == IF b.to = "relays" THEN Relays ELSE Homes
        targets == {sessions[n] : n \in to} \ {NoConn}
    IN
    /\ b \in publishing
    /\ sends' = sends \cup {[conn |-> c, snapshot |-> b.snapshot, own |-> FALSE] : c \in targets}
    /\ publishing' = (publishing \ {b})
          \cup IF b.to = "relays" THEN {[b EXCEPT !.to = "homes"]} ELSE {}
    /\ UNCHANGED <<server, sessions, conn, node, failures>>

\* Mutant: the queue is not bounded.
EnqueueUnbounded(s) ==
    /\ s \in sends
    /\ conn' = [conn EXCEPT ![s.conn].queue = Append(@, s.snapshot)]
    /\ sends' = sends \ {s}
    /\ UNCHANGED <<server, publishing, sessions, node, failures>>

Enqueue(s) ==
    /\ s \in sends
    /\ Len(conn[s.conn].queue) < QueueCapacity
    /\ conn' = [conn EXCEPT ![s.conn].queue = Append(@, s.snapshot)]
    /\ sends' = sends \ {s}
    /\ UNCHANGED <<server, publishing, sessions, node, failures>>

\* "failed to publish Travel authorization state": the queue stayed full.
EnqueueTimesOut(s) ==
    /\ "slow" \in Faults
    /\ s \in sends /\ ~s.own
    /\ Len(conn[s.conn].queue) = QueueCapacity
    /\ sends' = sends \ {s}
    /\ conn' = [conn EXCEPT ![s.conn].missed = TRUE]
    /\ UNCHANGED <<server, publishing, sessions, node, failures>>

-----------------------------------------------------------------------------
(* Server: the task of one session (run_relay_session, handle_home).        *)

\* The setup up to the initial snapshot.  A node dials again once its own end of
\* the former connection is closed, the Server (Passive) once its own task ended.
\* Which name the connection gets does not matter: the first free one.
Connect(n, c) ==
    /\ c \in Of(n) /\ conn[c] = NewConn
    /\ \A d \in Of(n) : conn[d] = NewConn => c[2] <= d[2]
    /\ \A d \in Of(n) : IF n \in Passive THEN conn[d].task \in {"none", "ended"}
                                          ELSE conn[d].peer \in {"none", "closed"}
    /\ conn' = [conn EXCEPT ![c] = [NewConn EXCEPT !.link = "up", !.task = "offered",
                                       !.peer = "waiting", !.wire = <<server>>,
                                       !.initial = server.generation]]
    /\ UNCHANGED <<server, publishing, sends, sessions, node, failures>>

\* The acknowledgement of the initial snapshot makes this the node's session.
Register(c) ==
    /\ conn[c].task = "offered" /\ conn[c].acked
    /\ sessions' = [sessions EXCEPT ![c[1]] = c]
    /\ conn' = [conn EXCEPT ![c].task = "registered", ![c].sent = conn[c].initial]
    /\ UNCHANGED <<server, publishing, sends, node, failures>>

\* Mutant: what changed during the setup is not looked at again.
SkipCatchUp(c) ==
    /\ conn[c].task = "registered"
    /\ conn' = [conn EXCEPT ![c].task = "open"]
    /\ UNCHANGED <<server, publishing, sends, sessions, node, failures>>

\* current_snapshot: a Relay's task writes it itself, a Home's queues it.
CatchUp(c) ==
    LET stale == server.generation # conn[c].initial IN
    /\ conn[c].task = "registered"
    /\ IF stale /\ c[1] \in Relays
       THEN conn' = [conn EXCEPT ![c].task = "open", ![c].sent = server.generation,
                                 ![c].wire = Append(@, server)]
       ELSE conn' = [conn EXCEPT ![c].task = "open"]
    /\ sends' = IF stale /\ c[1] \in Homes
                THEN sends \cup {[conn |-> c, snapshot |-> server, own |-> TRUE]}
                ELSE sends
    /\ UNCHANGED <<server, publishing, sessions, node, failures>>

\* write_relay_control: an older snapshot never follows a newer one to a Relay.
Writes(c) == c[1] \in Relays => Head(conn[c].queue).generation >= conn[c].sent

\* The queue's consumer: the session task of a Relay, a writer task of a Home.
Write(c) ==
    /\ conn[c].queue # <<>>
    /\ conn[c].task = "open" \/ (conn[c].task = "registered" /\ c[1] \in Homes)
    /\ conn' = [conn EXCEPT
            ![c].queue = Tail(@),
            ![c].wire = IF Writes(c) THEN Append(@, Head(conn[c].queue)) ELSE @,
            ![c].sent = IF Writes(c) THEN Head(conn[c].queue).generation ELSE @]
    /\ UNCHANGED <<server, publishing, sends, sessions, node, failures>>

Reusable(c) == IF c.task = "ended" /\ c.peer = "closed" THEN NewConn ELSE c

\* The connection failed, or a newer session of the node replaced this one: the
\* task ends, its queue is dropped, and the registry entry goes if it is its own.
TaskEnds(c) ==
    /\ conn[c].task \in {"offered", "registered", "open"}
    /\ conn[c].link = "cut" \/ (conn[c].task # "offered" /\ sessions[c[1]] # c)
    /\ conn' = [conn EXCEPT ![c] = Reusable([@ EXCEPT !.task = "ended", !.link = "cut",
                                                      !.queue = <<>>])]
    /\ sends' = {s \in sends : s.conn # c}
    /\ sessions' = [sessions EXCEPT ![c[1]] = IF @ = c THEN NoConn ELSE @]
    /\ UNCHANGED <<server, publishing, node, failures>>

-----------------------------------------------------------------------------
(* Relay and Home: apply_authorization_snapshot.                            *)

\* Mutant: no rollback protection.
AcceptsAny(cache, snapshot) == TRUE
\* AuthorizationCache::accept
Accepts(cache, snapshot) ==
    cache # NoSnapshot =>
        /\ snapshot.generation >= cache.generation
        /\ snapshot.generation = cache.generation => snapshot = cache
        /\ cache.revocations \subseteq snapshot.revocations

\* The node closes its end: the Server may still read what was on its way.
PeerCloses(c) ==
    conn' = [conn EXCEPT ![c] = Reusable([@ EXCEPT !.peer = "closed", !.link = "cut",
                                                   !.wire = <<>>])]

\* Verified, accepted and stored durably before anything else; a refused snapshot
\* ends the session.
Receive(c) ==
    LET n == c[1]
        snapshot == Head(conn[c].wire)
    IN
    /\ conn[c].peer \in {"waiting", "running"} /\ conn[c].stage = "idle"
    /\ conn[c].wire # <<>>
    /\ IF Accepts(node[n].cache, snapshot)
       THEN /\ node' = [node EXCEPT ![n].cache = snapshot]
            /\ conn' = [conn EXCEPT ![c].wire = Tail(@), ![c].stage = "accepted",
                                    ![c].apply = snapshot]
       ELSE PeerCloses(c) /\ UNCHANGED node
    /\ UNCHANGED <<server, publishing, sends, sessions, failures>>

\* routes.retain at a Relay, revoke_inactive at a Home.
Sweep(c) ==
    LET n == c[1]
        Kept(S) == {cr \in S : IsActive(conn[c].apply, cr)}
    IN
    /\ conn[c].stage = "accepted"
    /\ node' = [node EXCEPT ![n].routes = Kept(@),
                            ![n].live = IF n \in Homes THEN Kept(@) ELSE @]
    /\ conn' = [conn EXCEPT ![c].stage = "swept"]
    /\ UNCHANGED <<server, publishing, sends, sessions, failures>>

\* Mutant: the snapshot is published when there is none yet.
PublishOnce(c) ==
    /\ conn[c].stage = "swept"
    /\ node' = [node EXCEPT ![c[1]].applied = IF @ = NoSnapshot THEN conn[c].apply ELSE @]
    /\ conn' = [conn EXCEPT ![c].stage = "idle", ![c].apply = NoSnapshot,
                            ![c].acked = TRUE,
                            ![c].peer = IF @ = "waiting" THEN "running" ELSE @]
    /\ UNCHANGED <<server, publishing, sends, sessions, failures>>

\* send_replace, then the acknowledgement; the first one starts the session.
Publish(c) ==
    /\ conn[c].stage = "swept"
    /\ node' = [node EXCEPT ![c[1]].applied = conn[c].apply]
    /\ conn' = [conn EXCEPT ![c].stage = "idle", ![c].apply = NoSnapshot,
                            ![c].acked = TRUE,
                            ![c].peer = IF @ = "waiting" THEN "running" ELSE @]
    /\ UNCHANGED <<server, publishing, sends, sessions, failures>>

\* The node notices the end of the connection, or replaced it by a newer session.
PeerEnds(c) ==
    /\ conn[c].peer \in {"waiting", "running"} /\ conn[c].stage = "idle"
    /\ \/ conn[c].link = "cut"
       \/ /\ conn[c].peer = "running"
          /\ \E d \in Of(c[1]) \ {c} : conn[d].peer = "running" /\ conn[d].task # "ended"
    /\ PeerCloses(c)
    /\ UNCHANGED <<server, publishing, sends, sessions, node, failures>>

-----------------------------------------------------------------------------
(* Relay and Home: what the published snapshot permits.                     *)

Permits(n, cr) == node[n].applied # NoSnapshot /\ IsActive(node[n].applied, cr)

\* A Relay selected the credential and the Server granted the route; a Home
\* authorized the business identity and waits for OPEN.
Authorize(n, cr) ==
    /\ Permits(n, cr) /\ cr \notin node[n].ready
    /\ n \in Relays => IsActive(server, cr)
    /\ node' = [node EXCEPT ![n].ready = @ \cup {cr}]
    /\ UNCHANGED <<server, publishing, sends, sessions, conn, failures>>

\* handle_travel_route inserts the pending route, TcpFlowRegistry.attach starts
\* the Flow: neither looks at the snapshot again.
Record(n, cr) ==
    /\ cr \in node[n].ready
    /\ node' = [node EXCEPT ![n].ready = @ \ {cr},
                            ![n].routes = IF n \in Relays THEN @ \cup {cr} ELSE @,
                            ![n].live = IF n \in Homes THEN @ \cup {cr} ELSE @]
    /\ UNCHANGED <<server, publishing, sends, sessions, conn, failures>>

\* run_data pairs the two sockets of a pending route.
Pair(n, cr) ==
    /\ n \in Relays /\ cr \in node[n].routes /\ Permits(n, cr)
    /\ node' = [node EXCEPT ![n].routes = @ \ {cr}, ![n].live = @ \cup {cr}]
    /\ UNCHANGED <<server, publishing, sends, sessions, conn, failures>>

\* Mutant: a paired route copies until a socket closes.
NeverCut(n, cr) == FALSE /\ UNCHANGED vars
\* wait_until_authorization_inactive, which every paired route runs beside its copy.
CutInactive(n, cr) ==
    /\ n \in Relays /\ cr \in node[n].live /\ ~Permits(n, cr)
    /\ node' = [node EXCEPT ![n].live = @ \ {cr}]
    /\ UNCHANGED <<server, publishing, sends, sessions, conn, failures>>

\* A refused or failed setup, an expired route, the end of a Flow.
Finish(n, cr) ==
    /\ cr \in node[n].ready \cup node[n].routes \cup node[n].live
    /\ \/ node' = [node EXCEPT ![n].ready = @ \ {cr}]
       \/ node' = [node EXCEPT ![n].routes = @ \ {cr}]
       \/ node' = [node EXCEPT ![n].live = @ \ {cr}]
    /\ node' # node
    /\ UNCHANGED <<server, publishing, sends, sessions, conn, failures>>

-----------------------------------------------------------------------------
(* Failures.                                                                *)

Fails(kind) == kind \in Faults /\ failures < MaxFailures /\ failures' = failures + 1

Cut(c) ==
    /\ Fails("cut")
    /\ conn[c].link = "up"
    /\ conn' = [conn EXCEPT ![c].link = "cut"]
    /\ UNCHANGED <<server, publishing, sends, sessions, node>>

\* A node's process restarts: only the cache survives.
Restart(n) ==
    /\ Fails("restart")
    /\ node' = [node EXCEPT ![n] = [NewNode EXCEPT !.cache = node[n].cache]]
    /\ conn' = [c \in Conns |->
                    IF c[1] # n \/ conn[c].peer \in {"none", "closed"} THEN conn[c]
                    ELSE Reusable([conn[c] EXCEPT !.peer = "closed", !.link = "cut",
                              !.wire = <<>>, !.stage = "idle", !.apply = NoSnapshot])]
    /\ UNCHANGED <<server, publishing, sends, sessions>>

\* The Server's process restarts: only the persisted snapshot survives.
ServerRestart ==
    /\ Fails("server_restart")
    /\ publishing' = {} /\ sends' = {}
    /\ sessions' = [n \in Nodes |-> NoConn]
    /\ conn' = [c \in Conns |->
                    IF conn[c].task \in {"none", "ended"} THEN conn[c]
                    ELSE Reusable([conn[c] EXCEPT !.task = "ended", !.link = "cut",
                                                  !.queue = <<>>])]
    /\ UNCHANGED <<server, node>>

-----------------------------------------------------------------------------
ServerNext ==
    \/ \E cr \in Credentials : ImportCredential(cr) \/ RevokeCredential(cr)
    \/ \E b \in publishing : Broadcast(b)
    \/ \E s \in sends : Enqueue(s) \/ EnqueueTimesOut(s)
    \/ \E c \in Conns : Register(c) \/ CatchUp(c) \/ Write(c) \/ TaskEnds(c)

NodeNext ==
    \/ \E n \in Nodes, c \in Conns : Connect(n, c)
    \/ \E c \in Conns : Receive(c) \/ Sweep(c) \/ Publish(c) \/ PeerEnds(c)
    \/ \E n \in Nodes, cr \in Credentials :
           Authorize(n, cr) \/ Record(n, cr) \/ Pair(n, cr) \/ CutInactive(n, cr) \/ Finish(n, cr)

Next ==
    \/ ServerNext \/ NodeNext
    \/ \E c \in Conns : Cut(c)
    \/ \E n \in Nodes : Restart(n)
    \/ ServerRestart

Spec == Init /\ [][Next]_vars

\* Tasks keep running and closed connections are dialled again; nobody owes a
\* change of the snapshot, a route or the end of one.
FairSpec ==
    /\ Spec
    /\ \A n \in Nodes : WF_vars(\E c \in Conns : Connect(n, c))
    /\ \A c \in Conns :
           /\ WF_vars(Register(c) \/ CatchUp(c)) /\ WF_vars(Write(c)) /\ WF_vars(TaskEnds(c))
           /\ WF_vars(Receive(c) \/ Sweep(c) \/ Publish(c)) /\ WF_vars(PeerEnds(c))
           /\ WF_vars(\E s \in sends : s.conn = c /\ Enqueue(s))
    /\ WF_vars(\E b \in publishing : Broadcast(b))
    /\ \A n \in Nodes, cr \in Credentials : WF_vars(CutInactive(n, cr))

-----------------------------------------------------------------------------
(* Properties.                                                              *)

\* The durable cache of a node never goes back: neither its generation nor its
\* set of revocations, whatever snapshots arrive late and whoever restarts.
CacheKept ==
    \A n \in Nodes : node[n].cache # NoSnapshot =>
        /\ node'[n].cache # NoSnapshot
        /\ node'[n].cache.generation >= node[n].cache.generation
        /\ node[n].cache.revocations \subseteq node'[n].cache.revocations
CacheNeverRegresses == [][CacheKept]_vars

\* An update is never lost between the initial snapshot and the registration of a
\* session: a session at rest has brought its node the Server's snapshot, unless
\* a broadcast gave up on its full queue.
AtRest(c) ==
    /\ sessions[c[1]] = c /\ conn[c].task = "open" /\ conn[c].link = "up"
    /\ conn[c].queue = <<>> /\ conn[c].wire = <<>> /\ conn[c].stage = "idle"
    /\ \A s \in sends : s.conn # c
    /\ publishing = {}
NoLostUpdate ==
    \A c \in Conns : AtRest(c) /\ ~conn[c].missed => node[c[1]].applied = server

\* Memory agrees with the cache whenever no snapshot is being applied: a node
\* never permits a credential that it has stored as revoked.
StoredRevocationHolds ==
    \A n \in Nodes :
        node[n].cache # NoSnapshot /\ (\A c \in Of(n) : conn[c].stage = "idle") =>
            \A cr \in node[n].cache.revocations : ~Permits(n, cr)

\* A Relay ends every paired route of a revoked credential, whatever was being
\* set up when the revocation arrived.
RevokedIsCut ==
    \A n \in Relays, cr \in Credentials :
        cr \in server.revocations ~> [](cr \notin node[n].live)

-----------------------------------------------------------------------------
\* architecture.md: after a revocation "matching Relay, Server, Home, and target
\* state is terminated".  In the code a Carrier authorized before the revocation
\* attaches after it, and nothing at Home looks at its Flow again.
HomeEndsRevoked ==
    \A h \in Homes :
        node[h].applied = server /\ node[h].ready = {} /\ (\A c \in Of(h) : conn[c].stage = "idle")
            => node[h].live \cap server.revocations = {}

=============================================================================
