----------------------------- MODULE HomeSession -----------------------------
(***************************************************************************)
(* The control session of one Home, from both ends.                        *)
(*                                                                         *)
(* HomeRuntime::run (flowsplice-home-core runtime.rs, control.rs) dials    *)
(* the Server again whenever its session ends.  A session registers the    *)
(* Home's catalog, applies the authorization snapshots the Server sends,   *)
(* and carries the issuer's commands.  On the Server (server/src/main.rs)  *)
(* every connection is a task of its own, handle_home: a task whose Home   *)
(* has long gone may still register, and the cleanup of a superseded one   *)
(* runs after its successor has registered.  Relay work and the end of the *)
(* runtime are module HomeRuntime.                                         *)
(*                                                                         *)
(* A catalog is a name, and the Home is always authorized: what            *)
(* validate_home_services and the endpoint credential decide is left out,  *)
(* as are the bytes of statistics and enrollment (modules Statistics,      *)
(* HomeEnrollment, RemoteEnrollment).  A broadcast reaches the session's   *)
(* queue in one step; module Authorization has its finer steps.            *)
(***************************************************************************)
EXTENDS Naturals, Sequences, FiniteSets

CONSTANTS
    Conns,           \* connections that can exist at a time
    Catalogs,        \* what the Home's configuration can list
    NoConn, NoCatalog,
    MaxGeneration,   \* bound: generations of the authorization snapshot
    MaxFaults        \* bound: cuts, stops, and restarts of either side

VARIABLES
    registry,   \* HomeRegistry: generation, and the Home's session and catalog
    granted,    \* generation of the Server's authorization snapshot
    ack,        \* authorization_acks: what the Home acknowledged, 0 when absent
    conn,       \* per connection: the Server's task and what is in flight
    home,       \* the Home: its durable cache, its runtime and its session
    command,    \* the issuer's command: where it is
    faults

vars == <<registry, granted, ack, conn, home, command, faults>>

Message == [kind : {"register"}, catalog : Catalogs]
           \cup [kind : {"ack", "snapshot"}, generation : 1..MaxGeneration]
           \cup [kind : {"command", "result"}]

\* "task" is where handle_home is; "catalog" and "offer" are what it has read
\* and offered; "superseded" is its shutdown watch.
Conn == [task : {"none", "accepted", "offered", "acked", "running", "clearing",
                 "forgetting", "ended"},
         up : BOOLEAN, superseded : BOOLEAN,
         catalog : Catalogs \cup {NoCatalog}, offer : 0..MaxGeneration,
         toServer : Seq(Message), toHome : Seq(Message)]

\* "stored" is a generation in the cache that apply_authorization_snapshot has
\* still to show.
Home == [run : BOOLEAN, config : Catalogs,
         cache : 0..MaxGeneration, applied : 0..MaxGeneration,
         control : Conns \cup {NoConn}, stage : {"idle", "setup", "running"},
         stored : 0..MaxGeneration]

\* One type invariant: the registry, the connections and the Home.
TypeOK ==
    /\ registry.generation \in Nat
    /\ registry.session \in Conns \cup {NoConn}
    /\ registry.catalog \in Catalogs \cup {NoCatalog}
    /\ granted \in 1..MaxGeneration /\ ack \in 0..MaxGeneration
    /\ conn \in [Conns -> Conn]
    /\ home \in Home
    /\ command \in {"none", "queued", "sent", "ok", "lost"}
    /\ faults \in 0..MaxFaults

NewConn == [task |-> "none", up |-> FALSE, superseded |-> FALSE, catalog |-> NoCatalog,
            offer |-> 0, toServer |-> <<>>, toHome |-> <<>>]

NewRegistry == [generation |-> 0, session |-> NoConn, catalog |-> NoCatalog]

\* HomeRuntime::load: the cache is read, nothing is synchronized.
Loaded(config, cache) ==
    [run |-> TRUE, config |-> config, cache |-> cache, applied |-> 0,
     control |-> NoConn, stage |-> "idle", stored |-> 0]

Init ==
    /\ registry = NewRegistry
    /\ granted = 1 /\ ack = 0
    /\ conn = [c \in Conns |-> NewConn]
    /\ \E config \in Catalogs : home = Loaded(config, 0)
    /\ command = "none"
    /\ faults = 0

-----------------------------------------------------------------------------
(* The Home: its session.                                                   *)

Free == {c \in Conns : conn[c].task = "none"}

\* run_control: connect, exchange HELLO and send the catalog.  The Server's
\* accept loop gives the connection a task when it has a permit.
Dial(c) ==
    /\ home.run /\ home.control = NoConn
    /\ c \in Free /\ c = CHOOSE d \in Free : TRUE
    /\ conn' = [conn EXCEPT ![c] =
          [NewConn EXCEPT !.task = "accepted", !.up = TRUE,
             !.toServer = <<[kind |-> "register", catalog |-> home.config]>>]]
    /\ home' = [home EXCEPT !.control = c, !.stage = "setup"]
    /\ UNCHANGED <<registry, granted, ack, command, faults>>

\* The session's next message of one kind, once it has shown the one before.
Reads(kind) ==
    /\ home.control # NoConn /\ home.stored = 0
    /\ conn[home.control].toHome # <<>>
    /\ Head(conn[home.control].toHome).kind = kind

Read == [conn EXCEPT ![home.control].toHome = Tail(@)]

\* Mutant: the snapshot is shown and acknowledged, and stored after.
StoreLater ==
    /\ Reads("snapshot")
    /\ home' = [home EXCEPT !.stored = Head(conn[home.control].toHome).generation]
    /\ conn' = Read
    /\ UNCHANGED <<registry, granted, ack, command, faults>>

\* apply_authorization_snapshot, first half: the cache accepts no generation
\* below its own, and is durable before anything is shown.
HomeStores ==
    /\ Reads("snapshot")
    /\ LET generation == Head(conn[home.control].toHome).generation IN
       /\ generation >= home.cache
       /\ home' = [home EXCEPT !.cache = generation, !.stored = generation]
    /\ conn' = Read
    /\ UNCHANGED <<registry, granted, ack, command, faults>>

\* Its second half, and the acknowledgement.
HomeShows ==
    /\ home.control # NoConn /\ home.stored # 0
    /\ home' = [home EXCEPT !.applied = home.stored, !.stored = 0, !.stage = "running"]
    /\ conn' = [conn EXCEPT ![home.control].toServer =
          Append(@, [kind |-> "ack", generation |-> home.stored])]
    /\ UNCHANGED <<registry, granted, ack, command, faults>>

\* The issuer's UI queues a command; the session writes it when it is next idle.
Submit ==
    /\ home.run /\ command \in {"none", "lost"} /\ granted < MaxGeneration
    /\ command' = "queued"
    /\ UNCHANGED <<registry, granted, ack, conn, home, faults>>

HomeSends ==
    /\ home.stage = "running" /\ home.stored = 0 /\ command = "queued"
    /\ command' = "sent"
    /\ conn' = [conn EXCEPT ![home.control].toServer = Append(@, [kind |-> "command"])]
    /\ UNCHANGED <<registry, granted, ack, home, faults>>

HomeAnswered ==
    /\ home.stage = "running" /\ Reads("result")
    /\ command' = "ok"
    /\ conn' = Read
    /\ UNCHANGED <<registry, granted, ack, home, faults>>

\* Mutant: a command that was sent is kept waiting for an answer.
KeptWaiting == command

\* What the Home loses with its session: the answer to a command it has sent
\* (pending_issuer is the session's).  A queued one waits for the next session.
Dropped == IF command = "sent" THEN "lost" ELSE command

\* What is left of the Home when its session's future is dropped.
Parted(h) == [h EXCEPT !.control = NoConn, !.stage = "idle", !.stored = 0]

\* The Home's end of connection c is gone: nothing more reaches it.
Closed(c) ==
    [conn EXCEPT ![c] = IF @.task = "ended" THEN NewConn ELSE [@ EXCEPT !.up = FALSE, !.toHome = <<>>]]

\* The Server's end of connection c is gone: the Home may still read what came.
Ended(c) ==
    IF home.control = c THEN [NewConn EXCEPT !.task = "ended", !.toHome = conn[c].toHome]
    ELSE NewConn

\* The session ends: the heartbeat times out, or the Server has closed.
SessionFails ==
    /\ home.control # NoConn
    /\ ~conn[home.control].up \/ conn[home.control].task = "ended"
    /\ home' = Parted(home)
    /\ conn' = Closed(home.control)
    /\ command' = Dropped
    /\ UNCHANGED <<registry, granted, ack, faults>>

-----------------------------------------------------------------------------
(* The Home: its process.                                                   *)

\* HomeRuntime::run returns (module HomeRuntime): the session is dropped, and
\* the issuer's channel with it.
Stop ==
    /\ faults < MaxFaults /\ home.run
    /\ home' = [Parted(home) EXCEPT !.run = FALSE]
    /\ conn' = IF home.control = NoConn THEN conn ELSE Closed(home.control)
    /\ command' = IF command \in {"queued", "sent"} THEN "lost" ELSE command
    /\ faults' = faults + 1
    /\ UNCHANGED <<registry, granted, ack>>

\* The process dies, or its runtime has returned; it is loaded again, with
\* what its configuration lists by then.
Restart(config) ==
    /\ faults < MaxFaults
    /\ home' = Loaded(config, home.cache)
    /\ conn' = IF home.control = NoConn THEN conn ELSE Closed(home.control)
    /\ command' = IF command \in {"queued", "sent"} THEN "lost" ELSE command
    /\ faults' = faults + 1
    /\ UNCHANGED <<registry, granted, ack>>

-----------------------------------------------------------------------------
(* The Server.                                                              *)

Pending(c, kind) == conn[c].toServer # <<>> /\ Head(conn[c].toServer).kind = kind

\* handle_home reads the catalog and offers the current snapshot.
Offer(c) ==
    /\ conn[c].task = "accepted" /\ Pending(c, "register")
    /\ conn' = [conn EXCEPT ![c].task = "offered", ![c].toServer = Tail(@), ![c].offer = granted,
                            ![c].catalog = Head(conn[c].toServer).catalog,
                            ![c].toHome = Append(@, [kind |-> "snapshot", generation |-> granted])]
    /\ UNCHANGED <<registry, granted, ack, home, command, faults>>

Larger(a, b) == IF a > b THEN a ELSE b

\* record_authorization_ack keeps the largest generation that exists.
Recorded(generation) == IF generation <= granted THEN Larger(ack, generation) ELSE ack

\* The acknowledgement of exactly the offered generation is required.
Acknowledged(c) ==
    /\ conn[c].task = "offered" /\ Pending(c, "ack")
    /\ Head(conn[c].toServer).generation = conn[c].offer
    /\ ack' = Recorded(conn[c].offer)
    /\ conn' = [conn EXCEPT ![c].task = "acked", ![c].toServer = Tail(@)]
    /\ UNCHANGED <<registry, granted, home, command, faults>>

\* HomeRegistry::register: the new session replaces whichever is there, tells
\* it so, and sends the snapshot again if it has changed since it was offered.
Register(c) ==
    /\ conn[c].task = "acked"
    /\ registry' = [generation |-> IF registry.catalog = conn[c].catalog
                                   THEN registry.generation ELSE registry.generation + 1,
                    session |-> c, catalog |-> conn[c].catalog]
    /\ conn' = [d \in Conns |->
          [conn[d] EXCEPT
             !.task = IF d = c THEN "running" ELSE @,
             !.superseded = @ \/ d = registry.session,
             !.toHome = IF d = c /\ conn[c].offer # granted
                        THEN Append(@, [kind |-> "snapshot", generation |-> granted]) ELSE @]]
    /\ UNCHANGED <<granted, ack, home, command, faults>>

\* A later acknowledgement.
RecordAck(c) ==
    /\ conn[c].task = "running" /\ Pending(c, "ack")
    /\ ack' = Recorded(Head(conn[c].toServer).generation)
    /\ conn' = [conn EXCEPT ![c].toServer = Tail(@)]
    /\ UNCHANGED <<registry, granted, home, command, faults>>

\* import_home_credential, revoke_home_credential: the change is persisted and
\* broadcast to the session that is current, then answered on this one.  One
\* that changes nothing is only answered.
Serve(c) ==
    /\ conn[c].task = "running" /\ Pending(c, "command")
    /\ granted' \in {granted, granted + 1} /\ granted' <= MaxGeneration
    /\ conn' = [d \in Conns |->
          [conn[d] EXCEPT
             !.toServer = IF d = c THEN Tail(@) ELSE @,
             !.toHome = (IF d = registry.session /\ granted' # granted
                         THEN Append(@, [kind |-> "snapshot", generation |-> granted'])
                         ELSE @)
                        \o (IF d = c THEN <<[kind |-> "result"]>> ELSE <<>>)]]
    /\ UNCHANGED <<registry, ack, home, command, faults>>

\* Another Home, or the Server's own UI, changes the authorization.
Change ==
    /\ granted < MaxGeneration
    /\ granted' = granted + 1
    /\ conn' = [d \in Conns |->
          [conn[d] EXCEPT !.toHome = IF d = registry.session
             THEN Append(@, [kind |-> "snapshot", generation |-> granted']) ELSE @]]
    /\ UNCHANGED <<registry, ack, home, command, faults>>

\* The task ends: superseded, or its reads time out, or the Home has closed.
\* Before it registered there is nothing to clear.
TaskFails(c) ==
    /\ conn[c].task \in {"accepted", "offered", "acked", "running"}
    /\ ~conn[c].up \/ (conn[c].task = "running" /\ conn[c].superseded)
    /\ conn' = [conn EXCEPT ![c] = IF @.task = "running" THEN [@ EXCEPT !.task = "clearing"]
                                            ELSE Ended(c)]
    /\ UNCHANGED <<registry, granted, ack, home, command, faults>>

\* Mutant: the cleanup does not ask whose session is registered.
OwnSession(c) == registry.session # NoConn

\* HomeRegistry::remove acts for the session that is registered only.
Registered(c) == registry.session = c

\* clear_home_session: first the registry, under its lock; then the
\* acknowledgement, under another.
Clear(c) ==
    /\ conn[c].task = "clearing"
    /\ registry' = IF Registered(c)
                   THEN [generation |-> registry.generation + 1,
                         session |-> NoConn, catalog |-> NoCatalog]
                   ELSE registry
    /\ conn' = [conn EXCEPT ![c] = IF Registered(c) THEN [@ EXCEPT !.task = "forgetting"]
                                            ELSE Ended(c)]
    /\ UNCHANGED <<granted, ack, home, command, faults>>

ForgetAck(c) ==
    /\ conn[c].task = "forgetting"
    /\ ack' = 0
    /\ conn' = [conn EXCEPT ![c] = Ended(c)]
    /\ UNCHANGED <<registry, granted, home, command, faults>>

\* The connection breaks; each end finds out in its own time, and may still
\* read what had arrived.
Cut(c) ==
    /\ faults < MaxFaults /\ conn[c].up
    /\ conn' = [conn EXCEPT ![c].up = FALSE]
    /\ faults' = faults + 1
    /\ UNCHANGED <<registry, granted, ack, home, command>>

\* The Server keeps its authorization and nothing else.
ServerRestart ==
    /\ faults < MaxFaults
    /\ registry' = NewRegistry /\ ack' = 0
    /\ conn' = [c \in Conns |-> Ended(c)]
    /\ faults' = faults + 1
    /\ UNCHANGED <<granted, home, command>>

-----------------------------------------------------------------------------
\* What happens by itself, and so eventually.
Progress ==
    \/ \E c \in Conns : Dial(c) \/ Offer(c) \/ Acknowledged(c) \/ Register(c)
                        \/ RecordAck(c) \/ Serve(c) \/ TaskFails(c) \/ Clear(c) \/ ForgetAck(c)
    \/ HomeStores \/ HomeShows \/ HomeSends \/ HomeAnswered \/ SessionFails

\* What the environment may do.
Environment ==
    \/ Submit \/ Change \/ Stop \/ ServerRestart
    \/ \E config \in Catalogs : Restart(config)
    \/ \E c \in Conns : Cut(c)

Next == Progress \/ Environment

\* Timers, reads and tasks run on: every step of a session's two ends is taken
\* if it stays possible.
Fairness ==
    /\ \A c \in Conns :
          /\ WF_vars(Dial(c)) /\ WF_vars(Offer(c)) /\ WF_vars(Acknowledged(c))
          /\ WF_vars(Register(c)) /\ WF_vars(RecordAck(c)) /\ WF_vars(Serve(c))
          /\ WF_vars(TaskFails(c)) /\ WF_vars(Clear(c)) /\ WF_vars(ForgetAck(c))
    /\ WF_vars(HomeStores) /\ WF_vars(HomeShows) /\ WF_vars(HomeSends)
    /\ WF_vars(HomeAnswered) /\ WF_vars(SessionFails)

Spec == Init /\ [][Next]_vars /\ Fairness

-----------------------------------------------------------------------------
(* Properties.                                                              *)

\* The registry lists the catalog that the registered session sent, and the
\* one session that was not superseded is the registered one: the cleanup of an
\* older session, which runs after its successor has registered, takes nothing
\* from it (HomeRegistry::register and remove).
SessionKeepsCatalog ==
    /\ (registry.session = NoConn) <=> (registry.catalog = NoCatalog)
    /\ registry.session # NoConn =>
          /\ conn[registry.session].task \in {"running", "clearing"}
          /\ registry.catalog = conn[registry.session].catalog
    /\ \A c \in Conns : conn[c].task = "running" /\ ~conn[c].superseded => registry.session = c

\* What the Home acknowledges, on the wire or in the Server's record, is in its
\* durable cache: no crash can take the Home back behind it
\* (apply_authorization_snapshot stores the cache before it returns).
AckIsDurable ==
    /\ ack <= home.cache
    /\ home.applied <= home.cache
    /\ \A c \in Conns : \A i \in DOMAIN conn[c].toServer :
          conn[c].toServer[i].kind = "ack" => conn[c].toServer[i].generation <= home.cache

\* When faults stop, a Home that runs ends up registered under its current
\* catalog, synchronized and with its command answered, although a task of a
\* connection it has left may have superseded it meanwhile; a Home that was
\* stopped comes to rest and is taken out of the registry (run_control_loop,
\* handle_home, clear_home_session).
HomeSettles ==
    <>[](IF home.run
         THEN /\ home.control # NoConn /\ registry.session = home.control
              /\ registry.catalog = home.config
              /\ home.applied = granted
              /\ command \notin {"queued", "sent"}
         ELSE registry.session = NoConn)
=============================================================================
