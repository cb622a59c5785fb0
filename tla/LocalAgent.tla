------------------------------ MODULE LocalAgent ------------------------------
(***************************************************************************)
(* What one agent does within its own process and on its own disk, one     *)
(* component beside the other: the initial state chooses a component, and  *)
(* only that component takes steps.  KeyRotation has its own variables and *)
(* rests without a fault while another is chosen; the others use the       *)
(* variables v1, v2, ... in turn, and one a component does not use stays   *)
(* 0.  The constants of the components are constants here.                 *)
(***************************************************************************)
EXTENDS KeyRotation, Sequences

CONSTANTS
    Absent,             \* a report, an address, a client, an association, a Carrier
    \* TravelInstall
    Intents, IdentityFiles, PolledRelays, MaxDeaths,
    \* Statistics
    Buckets, SampleSessions, NodeRoles, ScanLimit, MaxSamples, MaxQueue, MaxStoreFaults,
    \* Mappings
    Services, Loopbacks, MaxListeners, MaxErrors, MaxCancels,
    \* UdpAssociation
    UdpPeers, UdpApps, Associations, Carriers, QueueLimit, MaxAttempts, MaxUp, MaxDown, MaxEvents,
    \* HomeRuntime
    StopCallers, MaxTasks, MaxLoads

\* A Relay is polled.
ASSUME InstallConstants == PolledRelays \in Nat \ {0} /\ MaxDeaths \in Nat

\* Clients and associations are there, a client address is no in-process socket, and
\* a queue has room.
ASSUME DatagramConstants ==
    /\ Absent \notin UdpPeers \cup UdpApps \cup Associations \cup Carriers
    /\ UdpPeers \cap UdpApps = {}
    /\ QueueLimit \in Nat \ {0}

\* There are finitely many buckets, and what stands for no report is none.
ASSUME SampleConstants ==
    /\ IsFiniteSet(Buckets)
    /\ Absent \notin [bucket : Buckets, revision : Nat \ {0}, count : Nat]

\* There are names for the listeners of all services.
ASSUME ListenerConstants ==
    \E f \in [Services -> 1..MaxListeners] : \A s, t \in Services : f[s] = f[t] => s = t

\* A runtime is loaded.
ASSUME RuntimeConstants == MaxTasks \in Nat /\ MaxLoads \in Nat \ {0}

VARIABLES comp, v1, v2, v3, v4, v5, v6, v7, v8, v9, v10, v11, v12

shared == <<v1, v2, v3, v4, v5, v6, v7, v8, v9, v10, v11, v12>>

Install == INSTANCE TravelInstall WITH
    intent <- v1, cert <- v2, boot <- v3, identity <- v4, instJournal <- v5,
    config <- v6, recorded <- v7, binding <- v8, attempt <- v9, approved <- v10,
    spoiled <- v11, deaths <- v12,
    Identity <- IdentityFiles, MaxRelays <- PolledRelays

Samples == INSTANCE Statistics WITH
    role <- v1, accumulator <- v2, point <- v3, reports <- v4, session <- v5,
    sent <- v6, replies <- v7, counted <- v8, recorded <- v9, collided <- v10,
    faulted <- v11, dropped <- v12,
    Sessions <- SampleSessions, Roles <- NodeRoles, NoReport <- Absent,
    MaxFaults <- MaxStoreFaults

Listeners == INSTANCE Mappings WITH
    run <- v1, durable <- v2, mappings <- v3, tasks <- v4, current <- v5, ready <- v6,
    op <- v7, writes <- v8, abandoned <- v9, torn <- v10, errors <- v11, cancels <- v12,
    Binds <- Loopbacks, NoBind <- Absent, MaxTasks <- MaxListeners

Datagrams == INSTANCE UdpAssociation WITH
    run <- v1, assoc <- v2, flow <- v3, shown <- v4, carrier <- v5, events <- v6,
    Peers <- UdpPeers, Apps <- UdpApps, Flows <- Associations,
    NoOne <- Absent, NoFlow <- Absent, NoCarrier <- Absent

Runtime == INSTANCE HomeRuntime WITH
    started <- v1, run <- v2, session <- v3, stopped <- v4, tasks <- v5,
    blocking <- v6, caller <- v7, loads <- v8, adapter <- v9, hook <- v10,
    Callers <- StopCallers

LocalInit ==
  /\ Init
  /\ \/ comp = "install" /\ Install!Init
     \/ /\ comp = "rotation"
        /\ v1 = 0 /\ v2 = 0 /\ v3 = 0 /\ v4 = 0 /\ v5 = 0 /\ v6 = 0
        /\ v7 = 0 /\ v8 = 0 /\ v9 = 0 /\ v10 = 0 /\ v11 = 0 /\ v12 = 0
     \/ comp = "samples" /\ Samples!Init
     \/ comp = "listeners" /\ Listeners!Init
     \/ /\ comp = "datagrams" /\ Datagrams!Init
        /\ v7 = 0 /\ v8 = 0 /\ v9 = 0 /\ v10 = 0 /\ v11 = 0 /\ v12 = 0
     \/ comp = "runtime" /\ Runtime!Init /\ v11 = 0 /\ v12 = 0

InstallStep == comp = "install" /\ Install!Next /\ UNCHANGED <<vars, comp>>
RotationStep == comp = "rotation" /\ Next /\ UNCHANGED <<shared, comp>>
SamplesStep == comp = "samples" /\ Samples!Next /\ UNCHANGED <<vars, comp>>
ListenersStep == comp = "listeners" /\ Listeners!Next /\ UNCHANGED <<vars, comp>>
DatagramsStep ==
    comp = "datagrams" /\ Datagrams!Next /\ UNCHANGED <<vars, comp, v7, v8, v9, v10, v11, v12>>
RuntimeStep == comp = "runtime" /\ Runtime!Next /\ UNCHANGED <<vars, comp, v11, v12>>

LocalNext ==
    InstallStep \/ RotationStep \/ SamplesStep \/ ListenersStep \/ DatagramsStep \/ RuntimeStep

LocalSpec == LocalInit /\ [][LocalNext]_<<vars, shared, comp>>

\* Flushes of two sessions that ran together lose samples: what follows is not explored.
NoCollision == comp = "samples" => ~v10

-----------------------------------------------------------------------------
\* The variables of the chosen component hold values of their kinds.
TypesOK ==
    /\ comp = "install" => Install!TypeOK
    /\ TypeOK
    /\ comp = "samples" => Samples!TypeOK
    /\ comp = "listeners" => Listeners!TypeOK
    /\ comp = "datagrams" => Datagrams!TypeOK
    /\ comp = "runtime" => Runtime!TypeOK

\* A binding stands for a complete installation, and a directed installation that
\* was interrupted between two steps is never refused later (load_binding,
\* install_enrollment_response).
BindingIsComplete == comp = "install" => Install!BindingIsComplete /\ Install!DirectedResumes

\* A sample in the accumulator survives every failed flush and is counted once by
\* the Server, and the newest point waits in the outbox until it is (flush_and_stage,
\* acknowledge_report, accept_statistics_report).
CountedOnce ==
    comp = "samples" =>
        Samples!NoSampleLost /\ Samples!NewestIsReported /\ Samples!CountedOnce

\* Every mapping that is shown has a live listener for its address, and nothing
\* runs after a shutdown has returned (upsert_mapping, TravelCore::shutdown).
ServesWhatIsShown ==
    comp = "listeners" => Listeners!ServesWhatIsShown /\ Listeners!QuietAfterShutdown

\* A live association is the one its client's datagrams go to, frames carry the
\* numbers that are due, and no association outlives a shutdown (run_udp_listener,
\* pump_udp_association, serve_udp).
LiveIsRegistered ==
    comp = "datagrams" =>
        /\ Datagrams!LiveIsRegistered
        /\ Datagrams!NumbersAreDue
        /\ Datagrams!NoneAfterShutdown

\* Once a shutdown or a run has returned, no task of the Home runtime is left, and
\* after a run none of its own work on the store (Tasks::stop, Tasks::finish,
\* HomeRuntime::run).
QuietAfterStop == comp = "runtime" => Runtime!QuietAfterStop
=============================================================================
