--------------------------- MODULE RelayDirectory ---------------------------
(***************************************************************************)
(* The Relay directory.  Every Relay keeps one control session with the    *)
(* Server and reports its endpoint on it; the Server rebuilds a            *)
(* generation-numbered directory on every change and sends the whole of it *)
(* to every connected Relay, which replaces its copy.                      *)
(*                                                                         *)
(* The Server runs one task per control connection.  It registers the task *)
(* in `relay_sessions`, then its endpoint in `relay_directory`, and        *)
(* publishes the directory through a watch channel after it has released   *)
(* the registry's lock: three steps, between which other tasks run.        *)
(* Generations come from the persisted counter that signed Travel          *)
(* snapshots use as well.                                                  *)
(***************************************************************************)
EXTENDS Naturals, Sequences, FiniteSets

CONSTANTS
    Relays,         \* Relay identities
    Active,         \* those that dial the Server; it dials the others
    Endpoints,      \* addresses a Relay may advertise
    NoEndpoint,     \* a withdrawn endpoint
    Configured,     \* what a Relay's listener addresses say of its endpoint
    MaxSessions,    \* bound: control connections made
    MaxGeneration,  \* bound: control generations allocated
    MaxChanges,     \* bound: endpoint changes at the Relays
    MaxFailures     \* bound: cuts, Server restarts, failed writes of the counter

VARIABLES
    next,       \* control_generation_state.json; ControlSigner.next_generation
    current,    \* State.relay_sessions: Relay -> session, 0 for none
    registry,   \* RelayDirectoryRegistry: generation, Relay -> session, endpoint
    published,  \* the value in the relay_directory_tx watch channel
    task,       \* the Server's connection tasks, by session
    advertised, \* a Relay's own endpoint, in its endpoint watch channel
    copy,       \* State.relay_directory of a Relay
    changes,    \* endpoint changes so far
    failures,   \* cuts, restarts and failed writes so far
    overlap,    \* history: two changes were unpublished at once
    strays      \* history: Relays whose entry may be one that nobody takes out

vars == <<next, current, registry, published, task, advertised, copy, changes,
          failures, overlap, strays>>

Sessions == 1..MaxSessions
Reports == Endpoints \cup {NoEndpoint}

\* What a directory lists is its content, a Relay without an endpoint is not
\* listed; its generation comes from the shared counter.
Directory == [generation : Nat, relays : [Relays -> Reports]]

\* RelayDirectoryRegistry::directory
DirectoryOf(reg) ==
    [generation |-> reg.generation,
     relays |-> [r \in Relays |->
         IF reg.session[r] = 0 THEN NoEndpoint ELSE reg.endpoint[r]]]

NoDirectory == [generation |-> 0, relays |-> [r \in Relays |-> NoEndpoint]]

\* A connection task: the Relay it serves, where it is, the endpoint it last
\* registered, whether it was told to stop, the directory it has yet to
\* publish, whether the watch channel changed since it last looked, whether the
\* Relay's side is open and has a change to report, and the two directions of
\* the connection.
Stages == {"free", "hello", "joined", "adding", "running", "changing",
           "leaving", "removing", "dropping", "gone", "superseded", "failed"}

Free(r) ==
    [relay |-> r, at |-> "free", endpoint |-> NoEndpoint, shutdown |-> FALSE,
     held |-> NoDirectory, dirty |-> FALSE, open |-> FALSE, news |-> FALSE,
     up |-> <<>>, down |-> <<>>]

Set(s, changed) == [task EXCEPT ![s] = changed]

\* The Server's task is over or about to be; the Relay's side still has what it
\* was sent.
Ended(s, at) ==
    [Free(task[s].relay) EXCEPT !.at = at, !.open = task[s].open, !.down = task[s].down]

\* What the Relay has not read is lost with its side of the connection; what it
\* has written can still be read by the Server.
Closed(t) == [t EXCEPT !.open = FALSE, !.news = FALSE, !.down = <<>>]

Init ==
    /\ next = 2
    /\ current = [r \in Relays |-> 0]
    /\ registry = [generation |-> 1, session |-> [r \in Relays |-> 0],
                   endpoint |-> [r \in Relays |-> NoEndpoint]]
    /\ published = [NoDirectory EXCEPT !.generation = 1]
    /\ task = [s \in Sessions |-> Free(CHOOSE r \in Relays : TRUE)]
    /\ advertised = Configured
    /\ copy = [r \in Relays |-> NoDirectory]
    /\ changes = 0
    /\ failures = 0
    /\ overlap = FALSE
    /\ strays = {}

(***************************************************************************)
(* Connecting.  An active Relay dials again when its last connection has   *)
(* ended on its side, whatever the Server has noticed; the Server dials a  *)
(* passive Relay again when its own task has ended.                        *)
(***************************************************************************)
TasksOf(r) == {s \in Sessions : task[s].relay = r /\ task[s].at # "free"}

RelayMayDial(r) == r \in Active /\ \A s \in TasksOf(r) : ~task[s].open

ServerMayDial(r) ==
    /\ r \notin Active
    /\ \A s \in TasksOf(r) : task[s].at \in {"gone", "superseded", "failed"}

\* The lowest free slot.
Dialled(s, r) ==
    /\ task[s].at = "free"
    /\ \A t \in 1..(s - 1) : task[t].at # "free"
    /\ RelayMayDial(r) \/ ServerMayDial(r)

\* HELLO both ways, and the Relay's first endpoint report.
Dial(s, r) ==
    /\ Dialled(s, r)
    /\ task' = Set(s, [Free(r) EXCEPT !.at = "hello", !.open = TRUE,
                                      !.up = <<advertised[r]>>])
    /\ UNCHANGED <<next, current, registry, published, advertised, copy,
                   changes, failures, overlap, strays>>

\* Every open session of the Relay has a change to report.
News(r) == [s \in Sessions |->
    IF task[s].relay = r /\ task[s].open THEN [task[s] EXCEPT !.news = TRUE]
    ELSE task[s]]

\* A Relay that listens on a wildcard address learns its own from the connection
\* and publishes it to all of its sessions before it reports it on this one.
DialAndDiscover(s, r, e) ==
    /\ Dialled(s, r)
    /\ changes < MaxChanges
    /\ e # advertised[r]
    /\ changes' = changes + 1
    /\ advertised' = [advertised EXCEPT ![r] = e]
    /\ task' = [News(r) EXCEPT ![s] = [Free(r) EXCEPT !.at = "hello", !.open = TRUE,
                                                     !.up = <<e>>]]
    /\ UNCHANGED <<next, current, registry, published, copy, failures, overlap, strays>>

\* The Server has the endpoint and the acknowledged authorization snapshot: it
\* becomes the Relay's session and tells the previous one to stop.
Join(s) ==
    LET t == task[s]
        previous == current[t.relay]
    IN  /\ t.at = "hello"
        /\ task' = [u \in Sessions |->
               IF u = s THEN [t EXCEPT !.at = "joined", !.endpoint = Head(t.up),
                                       !.up = Tail(t.up)]
               ELSE IF u = previous THEN [task[u] EXCEPT !.shutdown = TRUE]
               ELSE task[u]]
        /\ current' = [current EXCEPT ![t.relay] = s]
        /\ UNCHANGED <<next, registry, published, advertised, copy, changes,
                       failures, overlap, strays>>

(***************************************************************************)
(* Changes of the directory.  The generation is allocated, written and     *)
(* used under the registry's lock.                                         *)
(***************************************************************************)
Allocates == next <= MaxGeneration /\ next' = next + 1

Holding == {s \in Sessions : task[s].at \in {"adding", "changing", "dropping"}}

\* Makes reg the registry and leaves the directory with task s to publish; strays
\* is for the caller to say.
Change(s, at, reg) ==
    /\ Allocates
    /\ registry' = [reg EXCEPT !.generation = next]
    /\ task' = Set(s, [task[s] EXCEPT !.at = at, !.held = DirectoryOf(registry')])
    /\ overlap' = (overlap \/ Holding # {})
    /\ UNCHANGED <<current, published, advertised, copy, changes, failures>>

\* RelayDirectoryRegistry::replace_session, whoever holds the entry: a session that
\* has been superseded meanwhile writes its own over its successor's.
ReplaceSession(s) ==
    LET r == task[s].relay
    IN  /\ task[s].at = "joined"
        /\ Change(s, "adding", [registry EXCEPT !.session[r] = s, !.endpoint[r] = task[s].endpoint])
        /\ strays' = IF current[r] = s THEN strays \ {r} ELSE strays \cup {r}

\* Mutant: the report changes the session's endpoint and not the directory's.
UpdateOwnEndpoint(s) ==
    /\ task[s].at = "running"
    /\ task[s].up # <<>>
    /\ task' = Set(s, [task[s] EXCEPT !.endpoint = Head(task[s].up),
                                      !.up = Tail(task[s].up)])
    /\ UNCHANGED <<next, current, registry, published, advertised, copy, changes,
                   failures, overlap, strays>>

\* The Relay's next report: only the session that holds the entry may change it.
\* The session's own endpoint follows.
UpdateSession(s) ==
    LET t == task[s]
    IN  /\ t.at = "running"
        /\ t.up # <<>>
        /\ registry.session[t.relay] = s
        /\ Allocates
        /\ registry' = [registry EXCEPT !.generation = next,
                                        !.endpoint[t.relay] = Head(t.up)]
        /\ task' = Set(s, [t EXCEPT !.at = "changing", !.endpoint = Head(t.up),
                                    !.up = Tail(t.up),
                                    !.held = DirectoryOf(registry')])
        /\ overlap' = (overlap \/ Holding # {})
        /\ UNCHANGED <<current, published, advertised, copy, changes, failures, strays>>

\* "Relay session was superseded"
UpdateRefused(s) ==
    LET t == task[s]
    IN  /\ t.at = "running"
        /\ t.up # <<>>
        /\ registry.session[t.relay] # s
        /\ task' = Set(s, Ended(s, "leaving"))
        /\ UNCHANGED <<next, current, registry, published, advertised, copy,
                       changes, failures, overlap, strays>>

\* A write on a connection the Relay has left goes nowhere.
Send(t, directory) == IF t.open THEN Append(t.down, directory) ELSE t.down

\* Mutant: the publication wakes nobody else.
PublishQuietly(s) ==
    LET t == task[s]
    IN  /\ s \in Holding
        /\ published' = t.held
        /\ task' = Set(s, [t EXCEPT !.at = IF t.at = "dropping" THEN "gone" ELSE "running",
                                    !.held = NoDirectory, !.down = Send(t, t.held)])
        /\ UNCHANGED <<next, current, registry, advertised, copy, changes,
                       failures, overlap, strays>>

\* send_replace outside the lock: every other subscriber sees a change, and this
\* task reads the value back and sends it if it has just joined.
Publish(s) ==
    LET t == task[s]
    IN  /\ s \in Holding
        /\ published' = t.held
        /\ task' = [u \in Sessions |->
               IF u # s
               THEN [task[u] EXCEPT !.dirty = task[u].at \in {"joined", "adding", "running", "changing"}]
               ELSE IF t.at = "adding"
                    THEN [t EXCEPT !.at = "running", !.dirty = FALSE,
                                   !.held = NoDirectory, !.down = Send(t, t.held)]
               ELSE IF t.at = "changing" 
                    THEN [t EXCEPT !.at = "running", !.dirty = TRUE, !.held = NoDirectory]
               ELSE Ended(s, "gone")]
        /\ UNCHANGED <<next, current, registry, advertised, copy, changes,
                       failures, overlap, strays>>

\* The watch channel changed: the newest value is sent, whatever it skipped.
SendDirectory(s) ==
    LET t == task[s]
    IN  /\ t.at = "running"
        /\ t.dirty
        /\ task' = Set(s, [t EXCEPT !.dirty = FALSE, !.down = Send(t, published)])
        /\ UNCHANGED <<next, current, registry, published, advertised, copy,
                       changes, failures, overlap, strays>>

(***************************************************************************)
(* Leaving.                                                                *)
(***************************************************************************)
\* The task is told to stop, or finds the connection gone.
LoopEnds(s) ==
    LET t == task[s]
    IN  /\ \/ t.at = "running" /\ (t.shutdown \/ ~t.open)
           \/ t.at = "joined" /\ ~t.open
        /\ task' = Set(s, Ended(s, "leaving"))
        /\ UNCHANGED <<next, current, registry, published, advertised, copy,
                       changes, failures, overlap, strays>>

\* The connection fails before the task is registered.
HelloFails(s) ==
    /\ task[s].at = "hello"
    /\ ~task[s].open
    /\ task' = Set(s, Ended(s, "gone"))
    /\ UNCHANGED <<next, current, registry, published, advertised, copy, changes,
                   failures, overlap, strays>>

\* Only the Relay's current session goes on to take its endpoint out; the entry of
\* an older one, which it has not replaced, has nobody left to do so.
Leave(s) ==
    LET t == task[s]
    IN  /\ t.at = "leaving"
        /\ IF current[t.relay] = s
           THEN /\ current' = [current EXCEPT ![t.relay] = 0]
                /\ task' = Set(s, Ended(s, "removing"))
                /\ strays' = IF registry.session[t.relay] \in {0, s} THEN strays
                             ELSE strays \cup {t.relay}
           ELSE /\ task' = Set(s, Ended(s, "superseded"))
                /\ UNCHANGED <<current, strays>>
        /\ UNCHANGED <<next, registry, published, advertised, copy, changes,
                       failures, overlap>>

\* Mutant: the session that leaves forgets its endpoint.
ForgetEndpoint(s) ==
    /\ task[s].at = "removing"
    /\ task' = Set(s, Ended(s, "gone"))
    /\ UNCHANGED <<next, current, registry, published, advertised, copy, changes,
                   failures, overlap, strays>>

Unregister(s) ==
    /\ task[s].at = "removing"
    /\ registry.session[task[s].relay] = s
    /\ Change(s, "dropping", [registry EXCEPT !.session[task[s].relay] = 0])
    /\ UNCHANGED strays

\* The entry is another session's by now.
NothingToRemove(s) ==
    /\ task[s].at = "removing"
    /\ registry.session[task[s].relay] # s
    /\ task' = Set(s, Ended(s, "gone"))
    /\ UNCHANGED <<next, current, registry, published, advertised, copy, changes,
                   failures, overlap, strays>>

\* The counter cannot be written: the change is not made and the task ends.
AllocationFails(s) ==
    LET t == task[s]
    IN  /\ failures < MaxFailures
        /\ failures' = failures + 1
        /\ \/ /\ \/ t.at = "joined"
                 \/ t.at = "running" /\ t.up # <<>> /\ registry.session[t.relay] = s
              /\ task' = Set(s, Ended(s, "leaving"))
              /\ UNCHANGED strays
           \/ /\ t.at = "removing" /\ registry.session[t.relay] = s
              /\ task' = Set(s, Ended(s, "failed"))
              /\ strays' = strays \cup {t.relay}
        /\ UNCHANGED <<next, current, registry, published, advertised, copy,
                       changes, overlap>>

(***************************************************************************)
(* The Relay.                                                              *)
(***************************************************************************)
\* The OpenWrt monitor reports another address, or none.
EndpointChanges(r, e) ==
    /\ changes < MaxChanges
    /\ e # advertised[r]
    /\ changes' = changes + 1
    /\ advertised' = [advertised EXCEPT ![r] = e]
    /\ task' = News(r)
    /\ UNCHANGED <<next, current, registry, published, copy, failures, overlap, strays>>

ReportEndpoint(s) ==
    /\ task[s].open
    /\ task[s].news
    /\ task' = Set(s, [task[s] EXCEPT !.news = FALSE,
                                      !.up = Append(@, advertised[task[s].relay])])
    /\ UNCHANGED <<next, current, registry, published, advertised, copy, changes,
                   failures, overlap, strays>>

\* apply_relay_directory: an older directory is ignored, a different one of the
\* same generation ends the session.
ApplyDirectory(s) ==
    LET t == task[s]
        directory == Head(t.down)
        held == copy[t.relay]
    IN  /\ t.open
        /\ t.down # <<>>
        /\ copy' = IF directory.generation > held.generation
                   THEN [copy EXCEPT ![t.relay] = directory] ELSE copy
        /\ task' = Set(s, IF directory.generation = held.generation /\ directory # held
                          THEN Closed(t) ELSE [t EXCEPT !.down = Tail(t.down)])
        /\ UNCHANGED <<next, current, registry, published, advertised, changes,
                       failures, overlap, strays>>

\* The Relay's side ends: it finds the connection closed, or a newer session of
\* its own has superseded it.
RelayLeaves(s) ==
    LET t == task[s]
    IN  /\ t.open
        /\ \/ t.at \in {"gone", "superseded", "failed"}
           \/ \E u \in Sessions :
                  u > s /\ task[u].relay = t.relay /\ task[u].at \notin {"free", "hello"}
        /\ task' = Set(s, Closed(t))
        /\ UNCHANGED <<next, current, registry, published, advertised, copy,
                       changes, failures, overlap, strays>>

\* The connection is lost or times out.
Cut(s) ==
    /\ failures < MaxFailures
    /\ task[s].open
    /\ failures' = failures + 1
    /\ task' = Set(s, Closed(task[s]))
    /\ UNCHANGED <<next, current, registry, published, advertised, copy, changes,
                   overlap, strays>>

\* Mutant: the counter is not read back.
RestartFromOne ==
    /\ failures < MaxFailures
    /\ failures' = failures + 1
    /\ next' = 2
    /\ current' = [r \in Relays |-> 0]
    /\ registry' = [generation |-> 1, session |-> [r \in Relays |-> 0],
                    endpoint |-> [r \in Relays |-> NoEndpoint]]
    /\ published' = [NoDirectory EXCEPT !.generation = 1]
    /\ task' = [s \in Sessions |->
           IF task[s].at = "free" THEN task[s]
           ELSE Ended(s, "gone")]
    /\ strays' = {}
    /\ UNCHANGED <<advertised, copy, changes, overlap>>

\* Everything but the counter is rebuilt: State::new takes a generation for the
\* empty directory.
ServerRestart ==
    /\ failures < MaxFailures
    /\ Allocates
    /\ failures' = failures + 1
    /\ current' = [r \in Relays |-> 0]
    /\ registry' = [generation |-> next, session |-> [r \in Relays |-> 0],
                    endpoint |-> [r \in Relays |-> NoEndpoint]]
    /\ published' = [NoDirectory EXCEPT !.generation = next]
    /\ task' = [s \in Sessions |->
           IF task[s].at = "free" THEN task[s]
           ELSE Ended(s, "gone")]
    /\ strays' = {}
    /\ UNCHANGED <<advertised, copy, changes, overlap>>

SessionStep(s) ==
    \/ \E r \in Relays : Dial(s, r) \/ \E e \in Endpoints : DialAndDiscover(s, r, e)
    \/ Join(s) \/ ReplaceSession(s) \/ UpdateSession(s) \/ UpdateRefused(s)
    \/ Publish(s) \/ SendDirectory(s)
    \/ LoopEnds(s) \/ HelloFails(s) \/ Leave(s)
    \/ Unregister(s) \/ NothingToRemove(s) \/ AllocationFails(s)
    \/ ReportEndpoint(s) \/ ApplyDirectory(s) \/ RelayLeaves(s) \/ Cut(s)

Next ==
    \/ \E s \in Sessions : SessionStep(s)
    \/ \E r \in Relays, e \in Reports : EndpointChanges(r, e)
    \/ ServerRestart

Spec == Init /\ [][Next]_vars

(***************************************************************************)
(* Properties.                                                             *)
(***************************************************************************)
TypeOK ==
    /\ next \in Nat
    /\ current \in [Relays -> 0..MaxSessions]
    /\ registry \in [generation : Nat, session : [Relays -> 0..MaxSessions],
                     endpoint : [Relays -> Reports]]
    /\ published \in Directory
    /\ task \in [Sessions ->
           [relay : Relays, at : Stages, endpoint : Reports, shutdown : BOOLEAN,
            held : Directory, dirty : BOOLEAN, open : BOOLEAN, news : BOOLEAN,
            up : Seq(Reports), down : Seq(Directory)]]
    /\ advertised \in [Relays -> Reports]
    /\ copy \in [Relays -> Directory]
    /\ changes \in Nat
    /\ failures \in Nat
    /\ overlap \in BOOLEAN
    /\ strays \subseteq Relays

\* Every directory that exists anywhere.
InFlight(s) == {task[s].held} \cup {task[s].down[i] : i \in DOMAIN task[s].down}

Directories ==
    {DirectoryOf(registry), published} \cup {copy[r] : r \in Relays}
        \cup UNION {InFlight(s) : s \in Sessions}

\* A generation names one directory, whatever tasks overlapped and however often
\* the Server restarted: no Relay is ever sent "different Relay directories with
\* the same generation" (relay main.rs, apply_relay_directory).
OneDirectoryPerGeneration ==
    \A d, e \in Directories : d.generation = e.generation => d = e

\* A session that took its endpoint out has left nothing of itself in the directory,
\* whoever joined while it was leaving.  The entry of any other session that ended is
\* there until its successor, about to write its own, replaces it.  It stays, until a
\* later session of the Relay replaces it, in the three cases that the code leaves
\* open: the session wrote its entry late, when it was superseded already; its
\* successor ended before it had written; the counter's write failed.
CleanedUp ==
    \A r \in Relays :
        LET s == registry.session[r]
        IN  s # 0 =>
            /\ task[s].at # "gone"
            /\ r \notin strays /\ task[s].at \in {"superseded", "failed"} =>
                  current[r] # 0 /\ task[current[r]].at \in {"joined", "leaving"}

\* The entry of a session that holds it, once every report is read, shows the
\* endpoint the Relay has now, and it is the endpoint route grants use.
EntryIsCurrent ==
    \A s \in Sessions :
        LET t == task[s]
        IN  (t.at = "running" /\ t.open /\ ~t.news /\ t.up = <<>>
                /\ registry.session[t.relay] = s)
            => registry.endpoint[t.relay] = advertised[t.relay]
               /\ t.endpoint = advertised[t.relay]

\* Once every change is published and read, a connected Relay holds the
\* directory, unless two changes were published in the wrong order.
RelaysShareTheDirectory ==
    \A s \in Sessions :
        (/\ task[s].at = "running" /\ task[s].open
         /\ ~task[s].dirty /\ task[s].down = <<>>
         /\ Holding = {}
         /\ ~overlap)
        => copy[task[s].relay] = DirectoryOf(registry)

=============================================================================
