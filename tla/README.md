# FlowSplice: a TLA+ development

FlowSplice carries TCP and UDP between a Travel agent (beside the client) and a
Home agent (beside the target) through replaceable Relays, under the control of
one Server. The modules here model what several processes, tasks or a process and
its crashed predecessor share, and what a unit test hardly reaches: the logical
TCP Flow, the control plane (authorization, directory, logins, sessions, trust,
enrollment, routes) and what an agent does on its own disk and with its own
tasks. TLC checks them on small instances; TLAPS proves the safety properties of
the Flow, of the control plane, of route setup, of key rotation and of the Home
runtime for every instance.

Contents: [inventory](#1-inventory), [modules](#2-modules-and-code),
[runs](#3-runs), [bounds](#4-bounds), [fairness](#5-fairness),
[proofs](#6-proofs), [findings](#7-where-the-code-and-its-documentation-disagree),
[not modelled](#8-what-is-not-modelled), [plan](#9-plan).

## 1 Inventory

| component | state | operations | talks to |
|---|---|---|---|
| Logical TCP Flow (`travel-core/tcp_flow.rs`, `home-core/tcp_flow.rs`) | per endpoint: offsets, unacknowledged segments, EOF and FinAck flags, held Carriers, the active one; Travel: race number, recovery timer; Home: registry entry, remembered race winners | open, race, transfer, acknowledge, half-close, recover, detach, drain, end | each other, over Carriers |
| Carrier pump (`core/carrier.rs`, `frame.rs`) | one pending inbound frame, last receive time, outgoing queue | read, write, heartbeat | the two Flow loops |
| Travel authorization (`server/authorization.rs`, Server, Relay, Home) | Server: persisted snapshot; nodes: durable cache, published snapshot | import, revoke, broadcast, catch up, accept, sweep, publish | Server to every Relay and Home, by queues and control sessions |
| Route setup (Server, Relay, Home) | Server: `pending_grants`; Relay: pending requests, pending routes, permits | request, authorize, grant, record, report ready, dispatch work, dial, pair, clean up | Travel, Relay, Server, Home |
| Relay directory (Server) | directory entry per Relay session, signed generation | replace, update, unregister, publish | Relays in, Travel out |
| Home registry, catalog (Server) | current Home session, its services and acknowledgement | register, command, acknowledge, remove | Homes in, Travel and operators out |
| Travel sessions (Server) | one session per identity with leases | authorize, renew, release, expire | Travel, through Relays |
| Travel control trust (`travel-core/lib.rs`) | durable mark, snapshot and Relay history; trust, directory and catalog in memory | load, migrate, accept, show, observe | Relays |
| Travel mappings (`travel-core/lib.rs`) | durable and shown mappings, one supervised listener each | start, upsert, delete, rebind, shut down | the store, local clients |
| UDP associations (`travel-core/lib.rs`, `home-core/lib.rs`) | association per client or in-process socket, bounded queue, Carrier, numbers | open, forward, expire, fail over, shut down | Relays, targets |
| Home runtime (`home-core/runtime.rs`, `tasks.rs`) | watch, tasks, blocking work, session, an issuer's hooks | load, run, spawn, shut down | the control session, the Flows |
| Enrollment, issuance (Home agent, `flowsplice-enrollment`, Server) | files of the setup, dispatch records, inbox, outbox, issuance ledger | request, dispatch, approve, sign, journal, publish, install, acknowledge | Server, Relays, Homes, files |
| Key rotation (`enrollment/key.rs`) | key files, staged files, journal | decrypt, stage, publish, replace, recover | files |
| Statistics, state store (`flowsplice-storage`) | samples, points, report outbox, accepted reports | record or drop, flush, report, accept, acknowledge | Server, redb |
| Installation (`travel-core/lib.rs`) | certificate, boot and identity files, journal, configuration, binding | discover, request, poll, install, bind | a Home, files |
| Deployment trust, TLS, configuration, applications | documents and certificates | verify, load | all |

What is hard in it:

* **Flow.** The two event loops share no clock and no reliable channel. Carriers
  come and go while data, acknowledgements, FINs and race answers are in flight
  on several of them; either endpoint may be recreated while the other continues.
  Right means: bytes arrive once and in order, EOF last, completion only after
  both; a race has one winner; losing Carriers alone costs no Flow; nothing is
  kept for ever.
* **Authorization.** One change fans out to many queues while sessions are set
  up, superseded, cut, and processes restart. Right means: durable state never
  goes back; a session at rest has the newest snapshot; what is revoked ends.
* **Route setup.** Four processes and three timers agree on one pair of sockets.
  Right means: whoever is told to dial finds the route; every permit and grant
  comes back; limits hold.
* **Directory, logins, sessions.** The Server runs a task per connection; tasks of
  dead connections register, publish and clean up beside their successors, and
  values computed under a lock are published after it. Right means: one directory
  per generation, entries that belong to live sessions, one login per identity,
  a catalog that the cleanup of a predecessor cannot take.
* **Control trust.** Snapshots arrive out of order from several Relays. Right
  means: the durable mark never goes back, and what is shown belongs together. A
  Carrier's open that applies a snapshot may be aborted while it does.
* **Enrollment.** Requests are sent again, answers come late, operators approve
  twice, processes die between signing, journaling and publishing. Right means:
  what is installed is what was authorized and published, once.
* **Files, store, tasks.** A crash between two durable steps, a failed commit, a
  caller that goes away in the middle of an operation while the blocking thread it
  started goes on without its locks, a write that fails after memory has changed, a
  spawn after the stop.

`PROJECT.json` lists these hazards at their lines, with the properties that would
catch them.

## 2 Modules and code

| module | contents |
|---|---|
| `TcpFlow` | one Flow, both endpoints, its Carriers |
| `FlowStream` | what a Flow promises: the abstract full-duplex byte stream |
| `Authorization` | snapshot distribution from the Server to Relays and Homes |
| `RouteSetup` | route requests through one Relay, one Server and one Home |
| `RelayDirectory` | endpoints in, signed directories out |
| `TravelLogin` | the login of one Travel identity, and the snapshots signed on it |
| `ControlTrust` | what a Travel accepts, stores and shows of the control plane |
| `HomeSession` | the control session of one Home, from both ends |
| `HomeEnrollment` | a new Home joins the deployment |
| `RemoteEnrollment` | a Travel obtains a credential over the control plane |
| `KeyRotation` | the password of a group of key files |
| `TravelInstall` | the first enrollment of a Travel installation |
| `Statistics` | from a sample to the Server's count |
| `Mappings` | the local listeners of a Travel |
| `UdpAssociation` | logical UDP, from client to target |
| `HomeRuntime` | the tasks of a Home runtime and their end |
| `TcpFlowDelivery`, `TcpFlowHandover`, `TcpFlowDownload` | theorems about the Flow, each module on top of the one before |
| `ControlPlane` | the protocols of the control plane, one beside the other, with their constants |
| `AuthorizationProofs`, `ControlProofs`, `RouteSetupProofs`, `KeyRotationProofs`, `LocalProofs` | theorems about those modules |
| `MCTcpFlow`, `MCAuthorization`, `MCRouteSetup` | model values and symmetry for one module |
| `LocalAgent` | the components an agent runs in its own process and on its own disk, one beside the other, with their constants |
| `MCControl` | model values for `ControlPlane` |
| `MCEventually` | several independent components in one run, for the temporal properties |

An operator marked "Mutant" in a module is a wrong version of the definition
after it. No specification uses one; `PROJECT.json` pairs each with the property
that must fail when it replaces the right version.

**Several components in one run.** `ControlPlane`, `LocalAgent` and `MCEventually`
check components that do not interact. The initial state picks a component
(`comp`), and only that component ever steps: the behaviours are the union of the
components' behaviours, not their product. The components are instances whose
variables are `v1`, `v2`, ... in turn, and a variable a component does not use
stays 0; every property is conditional on the component it is about. A module
whose theorem is to name a property of the run (`KeyRotation`, `TcpFlow`, `Authorization`) is
extended rather than instantiated, keeps its own variables, and is at rest while
another component is chosen. `MCEventually` has a second instance of `TcpFlow` as
its third choice, a download whose Home flow is recreated: it is there for the
invariant and for the acknowledgement that splits a frame, not for the temporal
properties, whose fairness names timers it does not have.

### TcpFlow

`tx[s]` and `rx[s]` are the sending and receiving half of endpoint `s`
(`send_offset`, `send_acked`, `unacked`, `local_eof`, `fin_acked`;
`receive_offset`, `remote_eof`). `travel` and `home` hold what the two loops keep
about Carriers. A Carrier is named by the race and the Relay it was opened for.
`inbox[s][c]` are the frames of Carrier `c` that may still reach `s`, and
`link[c]` says how much of them it will: all (`up`), all and then EOF (`closing`,
a drained outgoing queue), or any prefix (`down`, a dropped stream). A `down`
Carrier loses its suffix by the receiver taking the `CarrierClosed` event at any
time.

Travel: `StartRace` is the head of `perform_race`, `Opened` and its failures the
return of an open, `RaceAnswered` the end of a race with the retransmission it
makes, `RaceTimesOut` the race's deadline; `LocalData`, `LocalEof`, `TravelData`,
`TravelAck`, `TravelFin`, `TravelFinAck`, `TravelBails` and
`TravelCarrierClosed` are the arms of `handle_event`; `RecoveryExpires` and
`TravelCompletes` are the tests before each select. Home: `Attach` and its
refusals are `TcpFlowRegistry::attach`, `TargetConnects` and `Admit` the start of
the flow and of a Carrier, `HomeRaceWon` and `HomeRaceLost` the arbitration, the
rest its event arms, `DetachExpires` and `HomeStops` the ends. Steps the loops
share (`ReadData`, `AckInWindow`, `FinInOrder`, ...) are written once, for a side.

Data are abstracted to offsets: a segment is an interval, and its bytes are those
of the stream at that place. A field `src` records which Home flow read the
bytes, for the one property that is about mixing two targets. Time is a bit:
`recovery_expired` says that the timer, as the code measures it, has run out.

`FlowStream` has five variables, and no Carriers: written, closed, delivered, eof
and outcome per direction. `TcpFlow!IsStream` maps the endpoints onto it.

### Authorization

`server` is the persisted snapshot. `publishing` are broadcasts that have not yet
read a session registry (Relays first, Homes after), `sends` the tasks waiting
for room in one queue, `conn` the two ends of a control session with its queue
and wire, `node` the cache, the published snapshot and what is in use at a Relay
or Home. `Connect`, `Register`, `CatchUp`, `Write` and `TaskEnds` are the session
tasks of the Server (`run_relay_session`, `handle_home`); `Receive`, `Sweep` and
`Publish` are the three steps of `apply_authorization_snapshot`, separate because
other tasks run between them; `Authorize`, `Record`, `Pair` and `CutInactive` are
the uses of the published snapshot. `Restart` and `ServerRestart` keep only what
is on disk.

### RouteSetup

`handler[r]` is where the Relay's `handle_travel_route` is with a request,
`serving` the Server's authorized requests that have no grant yet, `grants` and
`routes` the two tables, `travel` and `home` the endpoints, `lapsed` the deadlines
that have passed. A permit is held by the handler and then by the route, as the
`OwnedSemaphorePermit` is. Control sessions are FIFO and may be cut; the Server
may notice later, or be told by a new session. Revocations arrive at each part in
one step; `Authorization` has the detail.

### RelayDirectory

`current` is `State.relay_sessions`, `registry` the `RelayDirectoryRegistry` with
its generation, `published` the value in the watch channel, `task` the Server's
tasks and `next` the persisted counter of generations. `Join`, `ReplaceSession`,
`UpdateSession` and `Unregister` are separate steps, as `run_relay_session` takes a
lock for each, and `Publish` is the `send_replace` after the lock of a change.
Active Relays dial the Server and report their endpoint; passive ones are dialled,
by a Server that may redial while the former connection still lives. `next` is
advanced on disk before a generation is used and survives `ServerRestart`.
`ReplaceSession` asks nobody whether the session is still the Relay's current one, as
`replace_session` does not, and a superseded session takes nothing out when it ends.
`strays` is a history variable: the Relays whose entry may be one that is left for good,
because its session wrote it when it was superseded already, because its successor
ended before it wrote its own, or because the counter's write failed.

### TravelLogin

`login` is the `TravelSessionRegistry` entry of the identity: session and leases
with a deadline that may pass (`Prune`). A process asks for a lease per
connection (`Request`, `Authorize`, `Denied`), renews it on the catalog connection
and has it released when the connection ends, also after the Relay stopped
waiting. `ReadGrants`, `LoggedIn` and `Sign` are the reads of
`authorize_travel_session`, each under its own lock; the generation is taken last.

### ControlTrust

`disk` and `history` are the store, `memory` the accepted state, `shown` what the
rest of the process reads. `Load`, `RemoveLegacy`, `LoadHistory` are the start-up with the
import of the JSON state; `Receive`, `Commit`, `ShowTrust`, `ShowDirectory`,
`ShowCatalog` the steps of `apply_control_snapshot`; `ObserveRelay` and
`WriteObservation` `record_relay_success` and `record_relay_failure`, which write a
copy made under a lock they have released. A crash is possible everywhere.

The caller of `apply_control_snapshot` may be the open of a Carrier, which is aborted
when another one wins the race and gives up after ten seconds. `DropCommitting` drops it
at the `await` of the commit: the acceptance lock is free, memory is what it was, and the
batch, in `detached`, is written later by its blocking thread (`WriteDetached`), beside
whatever is accepted meanwhile. `DropShowing` drops it at one of the three locks after
the commit. `abandoned` says that a commit was dropped and none has stood alone since,
`overlap` that what is shown may be a mixture.

### HomeSession

`conn[c]` holds both ends of one connection: the Server's `handle_home` task, the
queues and what the Home has read. `Register`, `RecordAck`, `Serve`, `TaskFails`, `Clear` and
`ForgetAck` are the task; `Dial`, `Reads`, `HomeStores`, `HomeShows` and `StoreLater` the
Home's `run_control_session` with `apply_authorization_snapshot`; `Submit` to
`Dropped` a command of the operator and its answer.

### HomeEnrollment and RemoteEnrollment

`HomeEnrollment`: `files` and `setup` are the new Home, `dispatch` and `record` the
Server's `dispatch_home_enrollment` and its pending record (one id for every poll of
the same request), `completing` the completion in a global Home's session, `inbox` and
`approving` a global Home and its operator.

`RemoteEnrollment`: `outbox` and `poll` are the Travel's record and its
`poll_remote_enrollment`, split where the code awaits (`LoadGeneration`, `Scan`, `Poll`);
`waiting`, `pending`, `toHome`, `toServer`, `toTravel` the hops; `inbox`, `ledger` and
`approval` the Home, where the lookup with the signing (`FindInLedger`), the journaling
(`JournalPending`), `Publish`, `MarkPublished` and the response are separate and a crash
may come between; `published` what the Server imported. The ledger is the records in
memory and the file: a lookup reads memory, `insert_pending` and `mark_published` change
memory first and leave it changed when the write fails (`JournalFails`, `MarkFails`, whose
file is the new one or the old one), and a restart reads the file. `unjournaled` are the
credentials whose journal write failed and that no later write has made good.

### KeyRotation

`keyFile`, `staged` and `journal` are the disk, `rotation[0]` the process and the operation
that holds the key lock. Every file operation is a step that may fail or be the last
one before a crash; recovery runs at start, before the next rotation and before a key is
used, as in the code. A file stands for its password and the transaction that wrote it.

Permit and lock are in the handler's future, the work in a `spawn_blocking`: when the client
disconnects (`Disconnect`) the rotation moves to another slot of `rotation` and goes on,
whatever step it is at, and the next request is admitted. The look for a journal and its
publication (`FindJournal`, `PublishJournal`) are therefore two steps, each `apply` goes through
the journal that it has read, and a rename may find its file taken by the other (`ApplyFails`).
`overlap` begins when a rotation or a use of the keys starts beside another one, and ends when
all keys were opened with one password and no other rotation was at work.

### TravelInstall

The variables are the files of the installation directory in the order they are
written; `attempt` is the running command. An attempt resumes from what it finds
(`Look`, `Found`), a file not renamed into place may be torn, the Home's approval is
external.

### Statistics

`accumulator`, `point` and `reports` are the node, `session` its control sessions
with what they last read, `counted` the Server's `AcceptedReports`. `Flush`, `Commit`,
`CommitFails` are `flush_and_stage`; `Send`, `Ingest`, `Refuse`, `ReceiveAck`, `Lookup` and
`Delete` the report protocol. A point is its revision and its count. `record` takes the
accumulator's lock or drops the sample (`SampleDropped`, `dropped_events`); a batch
(`MetricBatch::flush`) waits for the lock and its samples are `Sample`s.

### Mappings

`durable` is the stored set, `mappings` the shown one, `tasks` and `current` the
listeners and their registration, `op` the operation in progress. `Begin`, `Persist`,
`SwitchTask`, `ShowSet`, `JoinOld` are the steps of `upsert_mapping` and `delete_mapping`
between awaits; `Cancel` is a caller that drops the future there, while the write
already handed to the pool is still carried out.

### UdpAssociation

`assoc` is the listener's table, `flow` the association tasks, `carrier` both ends of
a Carrier with the halves of frames under way. `RecvKnown`, `RecvNew` are the listener,
`Connect` to `NoRelayLeft` the choice of a Relay, `TravelSends` to `HomeEnds` the two
pumps, `RemoveEntry` and `Cleanup` the end of a task.

### HomeRuntime

`stopped` is the shutdown watch, `tasks` and `blocking` the two counts of `Tasks`, `run`
where `HomeRuntime::run` is, `caller` who has called `shutdown`. `Spawn` tests and
inserts under one lock, as `Tasks::spawn` does; `SpawnRefused` is the refusal. `adapter`
says that `run` was given the hooks of an issuing Home: the session awaits their work on the
store (`HookBegins`, `HookEnds`), which is a `spawn_blocking` that `Tasks` does not count, so
it outlives a session that `run` has dropped.

## 3 Runs

| run | instance | shows |
|---|---|---|
| `flow_handover` | 2 Relays, 2 races, segments of 1 and 2, download of 2 | Home names one winner per race; what is kept for repetition is exact and its repetition meets no error; a Flow that only downloads survives every handover |
| `flow_faults` | every timer and failure, both directions, 2 Home flows | acknowledged is delivered, EOF last, completion means delivery |
| `flow_recovers` | 3 races, 1 failure, fairness | a closed Flow completes by racing again (or the selections are split, see below); refinement of `FlowStream` |
| `eventually` | a Flow with every timer and 2 Home flows; or one with segments of 1 and 2, a download of 3 and 2 Home flows; or a Home's session with 1 fault; fairness | a closed Flow ends at Travel; Home releases what Travel left; a completed Flow brought its upload to one target; a Home registers again and has its command answered, or leaves the registry when stopped |
| `auth_relay` | active Relay, an import and a revocation, 1 failure, fairness | memory never permits what the cache knows revoked; paired routes of a revoked credential end |
| `route_setup` | 2 requests, 1 failure, fairness | the endpoints find the route; pending work stays within its limit; nothing of a request stays open for ever |
| `control` | seven components of the control plane | see the next table |
| `local` | six components of an agent | see the next table |
| `flow_race`, `flow_restart`, `auth_attach`, `auth_passive` | | violations, section 7 |

| run | property | says |
|---|---|---|
| `control` | `DirectoryIsSound` | one directory per generation wherever copies are; a session that took its endpoint out has left nothing in it, and a superseded or failed one nothing once its successor has written its own (but for the strays, section 7); an entry shows its Relay's endpoint |
| | `RelaysShareTheDirectory` | when nothing is under way, a connected Relay holds the published directory, and that is the registry's (unless two changes were unpublished at once) |
| | `OneLogin` | never two sessions of an identity; a renewed connection has its lease |
| | `MarkNeverRegresses`, `AcceptedIsKept`, `ShownTogether` | the durable mark of a Travel never goes back; accepted snapshots and their Relays are on disk; shown directory and catalog are of one snapshot (each unless a caller was dropped at the wrong moment, section 7) |
| | `InstallsTheAuthorized` | a new Home installs the endpoint the Server authorized; a record has its dispatch |
| | `TravelHoldsThePublished`, `NoMissedScan` | the installed credential is the one published, and journaled unless that write failed; a record that is due is found by the scan |
| | `NoLostUpdate`, `CacheNeverRegresses` | a Home's session at rest has delivered the newest snapshot; its cache never goes back |
| | `SessionKeepsCatalog`, `AckIsDurable` | the registry lists what the registered session sent; what is acknowledged is durable |
| `local` | `BindingIsComplete` | a binding stands for a complete installation, and an interrupted directed installation can be resumed |
| | `RotationIsAtomic` | a key is never a torn file; without a journal one password opens every key, and a journal can be completed, but for rotations that ran beside one another (section 7) |
| | `CountedOnce` | a sample that the accumulator took survives failed flushes, is counted once, and waits in the outbox until it is |
| | `ServesWhatIsShown` | a shown mapping has a live listener; nothing runs after a shutdown returned |
| | `LiveIsRegistered` | a live association is the one its client's datagrams go to; frames carry the numbers due |
| | `QuietAfterStop` | no task is left when shutdown or run of a Home runtime has returned; after run nothing but an issuer's hook works on the store |

`CHECK_DEADLOCK FALSE` everywhere: a Flow, a request and a bounded number of
changes end, and the system then rests.

`LossIsRecovered` has an exception that the code makes necessary: Home lets a
`Race` frame that was delayed since an earlier race win, and may then listen to a
Carrier that Travel has left while Travel uses another. `SplitSelection` names
that case, and the property says that nothing else keeps a closed Flow from
completing at one endpoint at least.

More properties name an exception, by a history variable, because the code does
what the plain property forbids (section 7, observations): `overlap` in
`RelayDirectory`, `ControlTrust` and `KeyRotation`, `strays` in `RelayDirectory`,
`abandoned` in `ControlTrust`, `unjournaled` in `RemoteEnrollment`, `raced` in
`TravelLogin`, `collided` in `Statistics`, `torn` and `abandoned` in `Mappings`, `spoiled` in `TravelInstall`
(a torn file, which the code refuses and an operator must remove). For `Statistics` a
constraint of the run (`NoCollision`) also stops the exploration of what follows.

## 4 Bounds

Every bound is a constant and appears in a guard.

* Flow. `Relays` 1 or 2: with two, a race has a loser, and a periodic race has the
  active Carrier and a candidate. With one, every failure needs a new Carrier.
  `MaxRaces` 2 or 3: an initial race, a second one that hands over or recovers,
  and a third after a failure in the second; `StartRace` keeps one race in
  reserve per failure, so that a liveness property is not lost to the bound.
  `MaxUp`, `MaxDown` up to 3, `SegLens` up to {1, 2}, `MaxUnacked` 2 or 3: the
  credit is exhausted, an acknowledgement can fall inside a segment, and
  retransmissions overlap what was delivered. `MaxBreaks` 1: Carriers are also
  lost by both endpoints' own decisions. `MaxIncarnations` 2: a Home flow lost and
  recreated under the same key. `RaceHistory` 2 (32 in the code): as many races as
  the handover and fault runs start, so that the last races are remembered.
* Authorization. `MaxGeneration` 3: the empty snapshot, an import and a revocation.
  `QueueCapacity` 1: every second broadcast waits. Two connection names per node
  suffice because a node dials again only when its end of the former connection
  is closed. Relays and Homes only interact through the Server's registries, so
  they are checked apart (`auth_relay`, `control`).
* Route setup. `Requests` 2, `MaxRoutes` 2, `MaxPendingWork` 1: requests compete for
  the Server's limit and share the control session.
* `RelayDirectory`: an active and a passive Relay, 3 control connections (so one of
  them is superseded or redialled), 3 generations, 1 endpoint change, 1 failure.
* `TravelLogin`: 2 processes of one identity, 2 connections at once, 4 ids, 2 signed
  snapshots, 1 fault.
* `ControlTrust`: 3 snapshots with Relays that come and go, two of one trust generation and
  epoch and one of the next: an older and a newer one may meet a dropped commit, and a third
  be accepted after them; 2 tasks; 2 crashes, failed commits, dropped callers or
  observations: a commit may be dropped and then another one, or its process crash.
* `HomeSession`: 2 connections, 2 catalogs, 2 faults (1 where liveness is checked).
* `HomeEnrollment`: 2 global Homes, 2 dispatches, 2 approvals, 2 mishaps.
  `RemoteEnrollment`: 2 approvers at the Home, 2 credentials, 2 mishaps (a
  failed write of the ledger is one, a restart of the Home another), queues of 2,
  5 changes of the outbox; the Travel's catalog session is one at a time, as in the code.
* `KeyRotation`: 2 keys, 3 passwords, 2 rotations, 3 crashes or failed operations: a
  recovery of the first rotation may itself be interrupted, and the second begin.
  `MaxLeft` 1: one rotation goes on without its client while the other runs.
* `TravelInstall`: 2 Relays to poll, 3 deaths: one in each of three attempts.
* `Statistics`: 2 buckets, 2 sessions, 2 samples (taken or dropped), 1 fault; `ScanLimit` 1 (16 in the code),
  so that the outbox is longer than one scan.
* `Mappings`: 2 services, 2 addresses, 3 listener tasks (old, new and one that is still
  stopping), 1 failed accept, 1 caller that goes away or crash.
* `UdpAssociation`: a client address and an in-process socket, 2 associations, 2
  Carriers, 2 datagrams up and 1 down, queue of 1, 1 Relay to try, 1 event.
* `HomeRuntime`: 2 callers, 2 tasks, 2 loads.
* One failure, or few, everywhere: a process or session lost at any point.

## 5 Fairness

* **Flow.** Each endpoint's task polls its events and its timers expire: weak
  fairness per Carrier of the event arms, and of the timers. The applications,
  the network and the choice to start a periodic race owe nothing. tokio's
  `select!` picks among ready branches at random, and each Carrier has a task of
  its own, so fairness per Carrier is what the code has.
* **Home session.** The session steps of both ends run, a closed connection is
  dialled again, as `HomeRuntime::run` does after its delay. Nobody owes a cut, a
  restart, a stop or a new grant.
* **Authorization.** Session tasks, queue writers and the broadcast run; closed
  connections are dialled again, as the connect loops do; a route's watch runs.
  Nobody owes a change of the snapshot, a route, or the end of one.
* **Route setup.** The Relay's handler, the endpoints' sockets, the clean-up loops
  and the deadlines of one request. The control sessions owe nothing: a message
  may stay on its way, and a lost session may stay lost.
* `control` and `local` check safety only, and state no fairness.

## 6 Proofs

| theorem | module | of |
|---|---|---|
| `TypeCorrect` | `TcpFlowDelivery` | `TypeOK` (run `flow_faults`) |
| `AckedIsDeliveredThm`, `EofIsLastThm`, `CompletionMeansDeliveredThm` | `TcpFlowDelivery` | the properties of those names (`flow_faults`) |
| `ImplementsStream` | `TcpFlowDelivery` | `IsStream`, the refinement of `FlowStream` |
| `TransferIsExactThm`, `UploadReachesOneTargetThm`, `RaceHasOneWinnerThm` | `TcpFlowHandover` | the properties of those names |
| `WindowsInvariant`, `MarksInvariant`, `LinksInvariant`, `NoGapInvariant` | `TcpFlowHandover` | the invariants behind them |
| `DownloadKeepsFlowThm` | `TcpFlowDownload` | `DownloadKeepsFlow` (`flow_handover`) |
| `SelectionInvariant`, `AcksInvariant` | `TcpFlowDownload` | the invariants behind it |
| `AuthorizationTypeCorrect`, `StoredRevocationHoldsThm` | `AuthorizationProofs` | `TypeOK`, `StoredRevocationHolds` (`auth_relay`) |
| `NoLostUpdateThm`, `CacheNeverRegressesThm` | `AuthorizationProofs` | `NoLostUpdate`, `CacheNeverRegresses` (`control`) |
| `ControlDirectoryIsSound`, `ControlRelaysShareTheDirectory` | `ControlProofs` | `DirectoryIsSound`, `RelaysShareTheDirectory` (`control`) |
| `ControlOneLogin` | `ControlProofs` | `OneLogin` (`control`) |
| `ControlMarkNeverRegresses`, `ControlAcceptedIsKept`, `ControlShownTogether` | `ControlProofs` | `MarkNeverRegresses`, `AcceptedIsKept`, `ShownTogether` (`control`) |
| `ControlInstallsTheAuthorized` | `ControlProofs` | `InstallsTheAuthorized` (`control`) |
| `ControlTravelHoldsThePublished`, `ControlNoMissedScan` | `ControlProofs` | `TravelHoldsThePublished`, `NoMissedScan` (`control`) |
| `ControlKeepsCatalog`, `ControlAcksAreDurable` | `ControlProofs` | `SessionKeepsCatalog`, `AckIsDurable` (`control`) |
| `ControlTypesOK` | `ControlProofs` | `TypesOK` (`control`) |
| `RouteTypeCorrect`, `EndpointsFindTheRouteThm` | `RouteSetupProofs` | `TypeOK`, `EndpointsFindTheRoute` (`route_setup`) |
| `RotationIsAtomicThm` | `KeyRotationProofs` | `RotationIsAtomic` (`local`) |
| `RotationTypesOK` | `KeyRotationProofs` | `TypeOK`, a part of `TypesOK` (`local`) |
| `LocalBindingIsComplete` | `LocalProofs` | `BindingIsComplete` (`local`) |
| `LocalCountedOnce` | `LocalProofs` | `CountedOnce` (`local`) |
| `LocalServesWhatIsShown` | `LocalProofs` | `ServesWhatIsShown` (`local`) |
| `LocalLiveIsRegistered` | `LocalProofs` | `LiveIsRegistered` (`local`) |
| `LocalQuietAfterStop` | `LocalProofs` | `QuietAfterStop` (`local`) |
| `LocalRotates`, `LocalRotationIsAtomic` | `LocalProofs` | `LocalSpec` implements `Spec` of `KeyRotation`; `RotationIsAtomic` (`local`) |
| `LocalTypesOK` | `LocalProofs` | `TypesOK` (`local`) |

Every theorem holds for all constants that satisfy the assumption its component
declares (`FlowConstants`, `AuthorizationConstants`, `DirectoryConstants`, ...). Those
of the control plane are in `ControlPlane` and say of the code's values: numbers are
naturals and the bounds leave one for every process or poll; `Absent` is no
connection, catalog or snapshot; processes and global Homes are finitely many; control
generations start at 1 (`ServerControlSigner`); a legacy state is one that this release
can read. Those of an agent's components are in `LocalAgent`: bounds are naturals, a Relay is
polled, a runtime is loaded and a queue has room; `Absent` is no report, client,
association or Carrier; there are finitely many buckets; the address of a client is no
in-process socket; and `MaxListeners` leaves a name for the first listener of every
service. TLC evaluates each on the values of the run. Five theorems state one thing
more, as a hypothesis; each is needed:

* `StoredRevocationHoldsThm`, `NoLostUpdateThm`: `Passive = {}`, every node dials the
  Server. A passive Relay can have two sessions at once, and the run `auth_passive`
  shows it permit what it holds revoked (section 7). Types and
  `CacheNeverRegresses` are proved with passive Relays.
* `ImplementsStream`: `[]SoleHome`, the Home flow is never recreated. A recreated one
  begins at offset zero with another target, so there is no one stream to
  implement.
* `RaceHasOneWinnerThm`: `MaxRaces <= RaceHistory`, Home remembers the winner of every
  race of the Flow. `remember_race_winner` drops the oldest of 32. A `Race` frame that
  is still on a Carrier after 32 later races were won is answered as a new race:
  with `RaceHistory = 1`, `MaxRaces = 3` and two Relays TLC finds two answers of one race
  with different winners in 18 steps. Travel ignores the answers of all but its current
  race.
* `CompletionMeansDelivered`, `TransferIsExact` and others say `SoleHome` themselves where
  they need it; `UploadReachesOneTarget` does not: it is about recreated flows.

**Types and channels.** `TcpFlowDelivery!TypeCorrect` proves `Spec => []TypeOK`
for any finite set of Relays and any bounds: one step per action, over
lemmas on the channel operators (`Sent`, `Consumed`) and the transfer operators
(`Acknowledge`, `Buffer`, `Retransmission`).

**Delivery.** The same module proves `AckedIsDelivered`, `EofIsLast` and
`CompletionMeansDelivered`. None is inductive: an `Ack` in flight could
acknowledge anything, a `Fin` end anything. The invariant is

    DeliveryInv == TypeOK /\ NoHomeYet
                   /\ (SoleHome => ChannelOK /\ TransferOK /\ FinishedOK)

`ChannelOK` says that every frame on every Carrier claims no more than its
sender's state: data end by `send_offset`, an acknowledgement or `OpenOk` names no
more than `receive_offset`, a `Fin` is the sender's final offset, a `FinAck` comes
from a side that has seen EOF. Frames stay true because a side's state only grows
(`ChannelGrows`); losing frames cannot falsify it (`ChannelShrinks`); a
retransmission repeats what was sent (`RetransmissionOK`). `TransferOK` relates the two
endpoints, and `FinishedOK` the outcome to both.

`ImplementsStream` maps each step of the Flow to a step of `FlowStream` or to a stutter:
a read of a socket writes to the stream, a delivered frame reads from it, EOF and
completion close it, and everything about Carriers, races, acknowledgements and
retransmission leaves it alone. `DeliveryInv` supplies what the abstract guards ask for.

**Handovers.** `TcpFlowHandover` no longer looks at single actions. Its first half
proves once (`NextEffects`) that every step is `NewHome` or `Effects`: each side's
transfer state moves in one of a few ways (`TxStep`, `RxStep`), and a frame in flight
after the step was in flight before or speaks for the state of its sender (`Speaks`).
The invariants follow from that:

* `Windows`: the unacknowledged segments of a side are a gapless sequence from
  `send_acked` to `send_offset` within the credit.
* `MarksOK`: for each direction there is a set of offsets, where a read of the socket
  began or ended, such that every segment kept or in flight lies between two
  neighbouring ones, and every acknowledgement and receive offset is one. The two
  endpoints never exchange this set; it is why an acknowledgement that
  crosses a retransmission never splits a segment.
* `LinksOK`: what Travel and Home note about a Carrier agrees with the stream between
  them; a Carrier that was dropped is never opened again.
* `NoGap`, the only one here that needs the order within a Carrier: whoever reads the data
  on a Carrier in order meets no gap, and on the Carrier Home sends on they
  reach all the way to what Home has read. Home's switch to the winner preserves
  it because the retransmission starts at or before Travel's offset.
* `UploadInv`: a `FinAck` in flight to Travel was sent by a Home flow, the present or an
  earlier one, that had received the whole upload and shut its target down. It does
  not assume `SoleHome`.
* `RacesOK`: the history has one entry per race, and every answer in flight is in it.

`TransferIsExact` follows from `Windows`, `DeliveryInv` (nothing unsent is
acknowledged), `MarksOK` (nothing is split) and `NoGap` (no gap). The reasons a
Flow may end with are sorted into `Errors` and `Harmless`, and each of the former is
shown impossible.

**Downloads.** With an upload in flight a handover can cost the Flow (section 7,
`RaceKeepsFlow`). `TcpFlowDownload` proves that without one it cannot. Travel's side is short:
it has sent nothing, so every acknowledgement, `OpenOk` and `Race` names offset zero, and
`NoGap` leaves it no `Data` or `Fin` to refuse. What it takes is that Home never
answers `Close`, and the frame that could make it do so is an acknowledgement that
arrives after a later one. So the argument is about the order of acknowledgements on different
Carriers, and it needs three invariants, each resting on the one before:

* `SelectionOK`: on a candidate of the current race Home reads of that race only, and Travel
  reads the answer that decides it before any data: Home begins to send data on a Carrier by
  answering a race there. The answer makes the candidate Travel's active Carrier or cuts it.
* `AcksOK`: Travel therefore acknowledges on its active Carrier alone. On a Carrier that still
  works, the acknowledgements Home has to read are in order, at or after `send_acked`, and at
  or after those on every other Carrier. On a Carrier that was cut, Home may still read old ones,
  and answer `Close`; nobody reads the answer.
* `DownloadOK`: a `FinAck` names the end of what its reader wrote, no `Close` is under way to
  Travel, and Travel has not failed for any of the reasons the property lists.

The first two look at single Carriers, so `NextEffects` does not give them: `TravelMoves` and
`HomeMoves` say once, with a case for every action, what a step may do to one Carrier
(`TravelMove`, `HomeMove`), and the invariants follow from that.

**Authorization.** The invariant is

    NoLossInv == StoredInv /\ SnapshotsOK /\ InitialOK /\ SessionsTold

`StoredInv`: a node that dials reads from one connection at most, a snapshot it is
applying is the one in its cache, and at rest memory agrees with the cache.
`SnapshotsOK`: no queue, wire, broadcast or cache holds a snapshot the Server has not
made, and of its newest generation there is one. `InitialOK`: a registered session
has had its initial snapshot stored and published. `SessionsTold`: the Server's
snapshot is in the node's cache, on the wire, in the queue, or in a broadcast that has
yet to reach the session; the snapshot that is read again after the registration
(`CatchUp`) is what makes it true.

**Control plane.** `ControlProofs` is about `ControlSpec`, the specification that `control` runs.
Only the chosen component steps, so each invariant is proved as `comp = "..." => Inv`; no
component needs anything of another. What the properties lack to be inductive:

* Relay directory, `DirInv`. `OneDirectoryPerGeneration` is about copies, and copies are
  made of what tasks hold and queues carry: `DirGenerations` says of every directory
  there is, wherever, that its generation is at most the registry's, whose successor is
  the persisted counter, and that it names no other. `DirEntry` keeps the entry of a
  session that has cleaned up out of the registry; `DirReported` says that the last report
  in a queue is the endpoint the Relay has; `DirSent` that a session which has seen the
  watch channel has sent what is in it, or its Relay has something newer; `DirOrder` that
  changes which did not overlap are published in their order. What is left behind is
  `DirLeft`: a Relay's current session has not left as such, and an entry of another session
  is on its way out or its Relay's current session has yet to write, unless the Relay is
  among the strays.
* Logins, `LoginInv`. A lease belongs to one connection and is not released (`LoginLeases`),
  and a lease whose request is answered next, or whose connection this Server has opened,
  is registered (`LoginHolds`). Between the two lie the steps of `authorize_travel_session`.
* Control trust, `TrustInv`. A snapshot that is being committed is one that memory would
  still accept, and memory is the store while no commit was dropped (`TrustAccepted`); every
  Relay of a mark's snapshot, the store's, memory's and a detached batch's, is in the records
  that go with it (`TrustHistory`); what is shown or about to be is not ahead of memory
  (`TrustShown`); and while no two tasks showed theirs and none was dropped, the one that
  shows is memory's (`TrustTogether`). `MarkNeverRegresses` is an action property proved from it.
* Home session. The registered session's task runs or is about to clear it, and has the
  catalog that is registered (`SessionRegistry`); what is stored, shown or acknowledged, in
  queues too, is at most the cache (`SessionDurable`).
* Remote enrollment, `RemoteInv`. Every credential on the wire, in both directions, is a
  published one (`RemoteCarried`); what is published is in the file of the ledger or its write
  failed, and the file knows no credential that memory does not (`RemotePublished`); of the
  approvals one at a time is between signing and marking, and past the journal it holds the
  credential of the ledger in memory (`RemoteLedger`). `RemoteScans` is `NoMissedScan` at every point of a poll: a due
  record is known, is about to be announced, or the generation loaded before the scan is
  no longer the present one.
* Enrollment of a Home, `NewHomeInv`. A dispatch was told nothing but the endpoint the
  Server has imported, and the record's dispatch waits (`Waits`); a completion past the
  import imported that endpoint (`CompletionsAuthorized`). A request queued to a global Home
  was sent by a dispatch that has ticked it off (`SubmitsCounted`), which bounds the queue.

**Route setup.** `RouteInv` says for each request how far Travel, the
Server's grant, the Relay's handler and route and the Home agree (`StagesAgree`), that
messages name requests that were really made (`MessagesOK`) and that readiness and work of a
request are one token: on its way to the Server, on its way to the Home, or with the
Home (`WorkOnce`).

**Key rotation.** `KeyRotationProofs` proves from `RotationConstants`, for any keys, passwords, number
of rotations, faults and clients that leave, that no key is ever a torn file (`KeysAreWhole`),
and, without rotations beside one another, that without a journal one password opens every key
(`OnePassword`) and that a published journal finds every file it needs (`JournalCanComplete`). The
invariant is

    RotationInv == RotationTyped /\ Processes /\ InTurn

`RotationTyped` holds whatever overlaps: a key is a file that was written whole, and a journal,
on disk or as a rotation has read it, names for all keys the files of one rotation under one
password. `Processes` says that only rotations go on without a client and that none survives
the process. `InTurn` says that, unless two have overlapped, at most one is at work, and that it
may rely on the disk (`Worker`): while it stages there is no journal and its verified files
stay; while it applies, the journal is the one it read. `InTurn` is true again once all keys were
opened with one password while no other rotation was at work. A crash keeps the disk and
forgets `rotation`, so it keeps the invariant.

`RotationTyped` also gives the types (`RotationTypesOK`).

**Components of an agent.** `LocalProofs` is about `LocalSpec`, the specification that
`local` runs. As in `ControlProofs`, only the chosen component steps, and each invariant is proved for
it alone; the keys rotate as `KeyRotation` says (`LocalRotates`), so its theorems carry over.

* Installation, `InstallInv == InstallKinds /\ InstallInOrder /\ InstallResumes`. An attempt
  that is at a step has the request, and what the steps before it wrote (`InstallInOrder`); in a
  directed installation the request and its bootstrap file are there together between any two
  steps until the binding, so that another attempt finds nothing to refuse (`InstallResumes`).
* Statistics, `SampleInv`. While no two flushes have run together, every sample of a bucket that
  the accumulator took is in
  the accumulator, in the point, or in the hands of the one flush that runs (`NoneLost`), and what
  that flush is about to commit adds its samples to the points as they are (`BatchesAdd`).
  The outbox holds the newest points, each until the Server has counted it (`OutboxHolds`), and no
  report on the wire or counted is newer than its point (`SentFits`, `CountedFits`). A deletion
  must not remove a newer report than was acknowledged: what an answer names (`RepliesOK`), what
  is looked up because of it (`LookupsOK`) and what is then deleted (`DeletesCounted`) is counted.
* Mappings, `ListenerInv`. While the runtime is up every registered task serves, and what is shown
  of a service is what its task, or the task it is about to take leave of, listens on
  (`RegisteredServes`); an operation changes one service, and its new task listens where the new
  set says (`OperationOK`); every listener that lives is registered, waited for or abandoned
  (`ListenersAccounted`), which is what a shutdown relies on.
* UDP associations, `DatagramInv`. An association that lives is registered for its client
  (`AssociationsOK`), and in both directions of a Carrier the frames in flight have, in their
  order, the numbers the receiver waits for, the frame it has read half of included (`CarriersOK`).
* Home runtime, `RuntimeInv == RuntimeKinds /\ CallersStopped /\ SessionInLoop /\ FlushIsAlone`.
  Whoever waits has already set the watch, so that no later spawn is admitted and a count that
  reached zero stays there; a session lives only in the control loop; the final flush is the
  only counted blocking work left; and only a runtime with hooks has one at work.

TLC checked each invariant before its proof was written.

**Only model-checked**: every liveness property (liveness under fairness and `ENABLED`
are outside the prover's reach). Every invariant of a passing run has a theorem. No module declares a RECURSIVE operator.

## 7 Where the code and its documentation disagree

Each has a run that finds the counterexample.

* `flow_race` (`RaceKeepsFlow`): a periodic race with upload in flight can end the
  Flow. A candidate's `OpenOk` is a snapshot of Home's receive offset; an `Ack` on
  the active Carrier, processed first, makes it look as if the acknowledgement
  moved back. Processed after, the `Ack` is an invalid frame. Home also answers
  data on the former Carrier with `Close`. `docs/architecture.md:103` describes a
  handover that the Flow survives. A Flow that only downloads does
  (`DownloadKeepsFlow`).
* `flow_restart` (`OneTargetPerFlow`): after Home lost its flow, the next Carrier
  creates another one with a new target, and Travel passes its bytes on behind the
  first target's (`README.md:415`: the restart "ends the Flow").
* `auth_attach` (`HomeEndsRevoked`): a Carrier that a Home authorized just before a
  revocation is applied starts a Flow just after, and no later step of the Home
  ends it for that reason (`docs/architecture.md:62`). The Relay does cut the
  Carrier, so the Flow then waits out its detached deadline.
* `auth_passive` (`StoredRevocationHolds`): the Server redials a passive Relay
  whose former session still lives; the two sessions store snapshots in order and
  publish them in the other order, so memory permits a credential that the disk
  holds revoked, until the next snapshot (`docs/cryptography.md:445`). For an active
  Relay the property holds (`auth_relay`).

Observations made while modelling, which no violation run states. The properties
named in section 3 except them where they would be violated.

* The recovery timer is not restarted when the active Carrier closes during a periodic
  race (`tcp_flow.rs:250`), so a Flow can end earlier than its recovery timeout after
  the outage began (`docs/architecture.md:105`). Lengths of time are not modelled.
* The directory is published after the registry's lock is released (`server/main.rs:2143`):
  two changes can be published in the wrong order, and the watch channel keeps the
  older one until the next change. One generation still names one directory.
* `replace_session` does not ask whether the session is still the Relay's current one
  (`server/main.rs:2132`). One that was superseded while it was joining writes its own session and
  endpoint over its successor's and takes nothing out when it ends: the entry stays. The
  successor's next report is refused as superseded and ends it, and it finds no entry of its own to
  take out; only a later session of the Relay replaces the entry. It also stays when the successor ends before it has
  written its own, and when the counter of generations cannot be written. So a
  listed Relay is not necessarily connected, nor is its endpoint the reported one
  (`docs/architecture.md:20`).
* Grants, login, directory and generation of a signed Travel snapshot are read under
  separate locks, the generation last: a snapshot with a newer generation can carry grants
  that were read before a withdrawal.
* `apply_control_snapshot` releases the acceptance lock before it replaces trust,
  directory and catalog (`travel-core/lib.rs:3967`): two tasks that do so at once can leave
  the older directory with the newer catalog (`docs/architecture.md:26` calls the
  application atomic). A task that is dropped between the replacements leaves such a mixture
  alone: the open of a Carrier is aborted when another wins (`travel-core/tcp_flow.rs:696`) and times
  out (`lib.rs:3548`). The same snapshot again does not repair it, because it changes nothing in memory's
  mark (`lib.rs:3965`); a newer one does.
* The same task may be dropped at the `await` of its commit (`travel-core/lib.rs:3957`). The blocking thread
  writes the batch all the same, without the acceptance lock, while memory keeps the older mark. A snapshot
  older than the one written may then be accepted and written over it; or the thread comes late and writes
  its batch over a newer one. So the durable mark can go back and memory can differ from it. The next
  commit makes them agree, if no dropped one is still to be written.
* `insert_pending` and `mark_published` put the record into memory before they write the file
  and leave it there when that fails (`issuance_ledger.rs:163`); the next approval finds it and publishes
  it without another write. The credential is then published but not journaled
  (`docs/architecture.md:58`) until `mark_published` writes the whole ledger. If Home restarts before,
  it knows nothing of it, signs another, and the Server refuses that one for the spent
  request: the request cannot be finished.
* The permit and the lock of a key rotation are held by the HTTP handler's future
  (`travel-core/lib.rs:5452`, `homeagent/main.rs:2721`). A client that disconnects gives both back while the
  rotation goes on in its thread, and a second one may look for a journal before the first has
  published its own (`key.rs:393`). One journal then replaces the other: keys may be left under two
  passwords without a journal, or with a journal whose files are gone, which recovery refuses.
  Both passwords together still open the keys, each of which is whole.
* `record` drops a sample, and counts it in `dropped_events`, when another thread has the
  accumulator (`flowsplice-storage/lib.rs:648`). A batch waits for it instead.
* The control hooks of an issuing Home work on the store in a `spawn_blocking` that `Tasks` does not count
  (`homeagent/main.rs:1611`): it may still have the store when `run` has returned. The runtime
  that only serves has no such hooks.
* A snapshot of a newer signer epoch is accepted at any generation from 1 on
  (`travel-core/lib.rs:5829` tests it), so the generation a Travel shows can be higher than that of its
  newer mark while the snapshot is being applied. `AcceptedIsKept` compares epochs first.
* `record_relay_success` and `record_relay_failure` write a copy of a Relay record back after a
  newer one was stored; a Relay stays a candidate all the same.
* A Server's task for a Home that has gone may register after its successor and supersede
  it; the successor's session then ends and the Home dials again. The cleanup of a session
  may delete an acknowledgement that a newer session has recorded.
* `flush_and_stage` of two sessions of one node (a redialled Relay) may read the same point
  before either commits: the samples of one are lost; and an acknowledgement looks its
  report up and deletes it in two transactions.
* A mapping operation whose caller goes away between the durable write and the
  switch leaves the store ahead of what runs, until the next start; between the
  switch and the showing it leaves the former set shown beside the new listener; later, an
  old task that nobody joins. A listener that is replaced may be shown as not ready for a moment.
* The UDP listener that restarts aborts its associations without removing their flows
  from the route diagnostics (`travel-core/lib.rs:4384`).

## 8 What is not modelled

Carrier pump (`core/carrier.rs`): `TcpFlow` takes a Carrier as two FIFO channels that
may fail at any time and lose a suffix, which is all that the Flow relies on; its
heartbeat and bounded queues are planned (section 9). Wire frames and protocol
types: encoding of one frame at a time; only the resumable read of a frame across
a `select!` is in a module (`UdpAssociation`). Deployment trust, certificates and TLS:
one document or handshake at a time. Applications and bindings: entry points and user
interfaces. Configuration: parsing and path rules. Redb, tokio and the operating
system's files and sockets are taken as their documentation says: a transaction and
a rename are atomic, a blocking task once started runs to its end.

Of the modelled components: the scope and expiry of credentials (a credential is a
name that permits its Homes until it is revoked); a withdrawn endpoint in `RouteSetup`,
where the lease of the Travel session is left to `TravelLogin`; the choice among
candidate Relays by latency and failures; a second `HomeRegister` within a session, which reaches
`HomeRegistry::update_catalog` (`server/main.rs:1356`) and which the Home of this repository never sends, as it
registers once at the start of a session (`home-core/control.rs:263`);
the Home's operator pages and target checks; issuing offline; retention of statistics; lengths of timers, which may pass at any time while they run.

## 9 Plan

Done: the Flow with its abstract stream and delivery proofs, authorization, route
setup, and the components in `ControlPlane` and `LocalAgent`, with a theorem for
every invariant. What is left, in order:

1. `CarrierPump`: bounded queues in both directions, the heartbeat, no deadlock
   between two pumps, as an implementation of the channel that `TcpFlow` assumes.
2. Compositions: `RelayDirectory` with `ControlTrust`, so that what a Travel shows follows
   the Server; `Authorization` with `RouteSetup`, so that a revocation meets every stage of a request.
