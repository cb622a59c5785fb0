---------------------------- MODULE ControlPlane ----------------------------
(***************************************************************************)
(* The protocols of the control plane that end at the Server, one beside   *)
(* the other: the initial state chooses a component, and only that         *)
(* component takes steps.  Authorization has its own variables and rests   *)
(* while another is chosen; the others use the variables v1, v2, ... in    *)
(* turn, and one a component does not use stays 0.  The constants of the   *)
(* components are constants here.                                          *)
(***************************************************************************)
EXTENDS Authorization

CONSTANTS
    Absent,             \* an endpoint, a snapshot, a state, a connection, a catalog
    \* RelayDirectory
    DirectoryRelays, DiallingRelays, Addresses, FirstAddresses, MaxSessions, MaxMoves,
    \* TravelLogin
    TravelProcesses, MaxConns, MaxIds, MaxSigned,
    \* ControlTrust
    ControlSnapshots, SnapshotTasks, InstalledTrusts, OldFile, MaxCrashes,
    \* HomeEnrollment and RemoteEnrollment
    GlobalHomes, HomeOperators, InboxApprovers,
    MaxDispatches, MaxApprovals, MaxCredentials, MaxQueue, MaxChanges, MaxMishaps,
    \* HomeSession
    HomeConns, HomeCatalogs, MaxGrants, MaxFaults

\* The addresses of the Relays, and numbers for their sessions.
ASSUME DirectoryConstants ==
    /\ DirectoryRelays # {} /\ MaxSessions \in Nat
    /\ FirstAddresses \in [DirectoryRelays -> Addresses \cup {Absent}]

\* A process of the Travel identity, and numbers for all of them.
ASSUME LoginConstants ==
    /\ IsFiniteSet(TravelProcesses) /\ TravelProcesses # {}
    /\ MaxConns \in Nat /\ MaxIds \in Nat /\ MaxSigned \in Nat
    /\ Cardinality(TravelProcesses) <= MaxIds

\* Control generations start at 1 (ServerControlSigner), and a state that an old
\* release left is one that this release can read.
ASSUME TrustConstants ==
    /\ \A s \in ControlSnapshots :
          s.trust \in Nat /\ s.epoch \in Nat /\ s.generation \in Nat \ {0}
    /\ InstalledTrusts \subseteq Nat /\ MaxCrashes \in Nat
    /\ LET marks == [trust : Nat, epoch : Nat, generation : Nat,
                     cached : ControlSnapshots \cup {Absent}]
       IN  OldFile \in marks \cup {Absent} /\ Absent \notin marks \cup ControlSnapshots

ASSUME SessionConstants ==
    /\ MaxGrants \in Nat \ {0} /\ MaxFaults \in Nat
    /\ Absent \notin HomeConns \cup HomeCatalogs

\* Every credential, approval and poll has a number.
ASSUME EnrollmentConstants ==
    /\ IsFiniteSet(GlobalHomes)
    /\ MaxDispatches \in Nat /\ MaxApprovals \in Nat /\ MaxCredentials \in Nat
    /\ MaxQueue \in Nat /\ MaxChanges \in Nat \ {0} /\ MaxMishaps \in Nat

VARIABLES comp, v1, v2, v3, v4, v5, v6, v7, v8, v9, v10, v11, v12, v13, v14, v15, v16,
          v17

shared == <<v1, v2, v3, v4, v5, v6, v7, v8, v9, v10, v11, v12, v13, v14, v15, v16, v17>>

Directory == INSTANCE RelayDirectory WITH
    next <- v1, current <- v2, registry <- v3, published <- v4, task <- v5,
    advertised <- v6, copy <- v7, changes <- v8, failures <- v9, overlap <- v10,
    strays <- v11,
    Relays <- DirectoryRelays, Active <- DiallingRelays, Endpoints <- Addresses,
    NoEndpoint <- Absent, Configured <- FirstAddresses, MaxChanges <- MaxMoves

Login == INSTANCE TravelLogin WITH
    grant <- v1, next <- v2, login <- v3, epoch <- v4, known <- v5, conn <- v6,
    ask <- v7, released <- v8, sid <- v9, accepted <- v10, ids <- v11,
    failures <- v12, raced <- v13,
    Processes <- TravelProcesses, MaxGeneration <- MaxSigned

Trust == INSTANCE ControlTrust WITH
    legacy <- v1, imported <- v2, disk <- v3, history <- v4, installed <- v5,
    phase <- v6, memory <- v7, known <- v8, shown <- v9, task <- v10,
    observed <- v11, expired <- v12, crashes <- v13, overlap <- v14,
    detached <- v15, abandoned <- v16,
    Snapshots <- ControlSnapshots, Tasks <- SnapshotTasks, NoState <- Absent,
    NoSnapshot <- Absent, Installed <- InstalledTrusts, LegacyFile <- OldFile

NewHome == INSTANCE HomeEnrollment WITH
    files <- v1, setup <- v2, dispatch <- v3, record <- v4, submits <- v5,
    answers <- v6, completing <- v7, imported <- v8, inbox <- v9,
    approving <- v10, signed <- v11, mishaps <- v12,
    Issuers <- GlobalHomes, Operators <- HomeOperators

Remote == INSTANCE RemoteEnrollment WITH
    outbox <- v1, identity <- v2, changes <- v3, poll <- v4, waiting <- v5,
    pending <- v6, toHome <- v7, toServer <- v8, toTravel <- v9, inbox <- v10,
    ledger <- v11, approval <- v12, published <- v13, signed <- v14,
    confirmed <- v15, mishaps <- v16, unjournaled <- v17,
    Approvers <- InboxApprovers

Session == INSTANCE HomeSession WITH
    registry <- v1, granted <- v2, ack <- v3, conn <- v4, home <- v5, command <- v6,
    faults <- v7,
    Conns <- HomeConns, Catalogs <- HomeCatalogs, NoConn <- Absent, NoCatalog <- Absent,
    MaxGeneration <- MaxGrants

ControlInit ==
  /\ Init
  /\ \/ /\ comp = "directory" /\ Directory!Init
        /\ v12 = 0 /\ v13 = 0 /\ v14 = 0 /\ v15 = 0 /\ v16 = 0 /\ v17 = 0
     \/ comp = "login" /\ Login!Init /\ v14 = 0 /\ v15 = 0 /\ v16 = 0 /\ v17 = 0
     \/ comp = "trust" /\ Trust!Init /\ v17 = 0
     \/ /\ comp = "new_home" /\ NewHome!Init
        /\ v13 = 0 /\ v14 = 0 /\ v15 = 0 /\ v16 = 0 /\ v17 = 0
     \/ comp = "remote" /\ Remote!Init
     \/ /\ comp = "homes"
        /\ v1 = 0 /\ v2 = 0 /\ v3 = 0 /\ v4 = 0 /\ v5 = 0 /\ v6 = 0 /\ v7 = 0 /\ v8 = 0
        /\ v9 = 0 /\ v10 = 0 /\ v11 = 0 /\ v12 = 0 /\ v13 = 0 /\ v14 = 0 /\ v15 = 0 /\ v16 = 0
        /\ v17 = 0
     \/ /\ comp = "session" /\ Session!Init
        /\ v8 = 0 /\ v9 = 0 /\ v10 = 0 /\ v11 = 0 /\ v12 = 0 /\ v13 = 0 /\ v14 = 0
        /\ v15 = 0 /\ v16 = 0 /\ v17 = 0

DirectoryStep ==
    /\ comp = "directory" /\ Directory!Next
    /\ UNCHANGED <<vars, comp, v12, v13, v14, v15, v16, v17>>
LoginStep == comp = "login" /\ Login!Next /\ UNCHANGED <<vars, comp, v14, v15, v16, v17>>
TrustStep == comp = "trust" /\ Trust!Next /\ UNCHANGED <<vars, comp, v17>>
NewHomeStep ==
    /\ comp = "new_home" /\ NewHome!Next
    /\ UNCHANGED <<vars, comp, v13, v14, v15, v16, v17>>
RemoteStep == comp = "remote" /\ Remote!Next /\ UNCHANGED <<vars, comp>>
HomesStep == comp = "homes" /\ Next /\ UNCHANGED <<shared, comp>>
SessionStep ==
    /\ comp = "session" /\ Session!Next
    /\ UNCHANGED <<vars, comp, v8, v9, v10, v11, v12, v13, v14, v15, v16, v17>>

ControlNext ==
    \/ DirectoryStep \/ LoginStep \/ TrustStep
    \/ NewHomeStep \/ RemoteStep \/ HomesStep \/ SessionStep

ControlSpec == ControlInit /\ [][ControlNext]_<<vars, shared, comp>>

-----------------------------------------------------------------------------
\* The variables of the chosen component hold values of their kinds.
TypesOK ==
    /\ TypeOK
    /\ comp = "directory" => Directory!TypeOK
    /\ comp = "login" => Login!TypeOK
    /\ comp = "trust" => Trust!TypeOK
    /\ comp = "new_home" => NewHome!TypeOK
    /\ comp = "remote" => Remote!TypeOK
    /\ comp = "session" => Session!TypeOK

\* One Relay directory exists per generation, wherever copies of it are; the entry of
\* a Relay session that ended is gone or about to be replaced, but for the three cases
\* in which the code leaves it; and an entry shows the endpoint its Relay has now
\* (server main.rs, RelayDirectoryRegistry and run_relay_session).
DirectoryIsSound ==
    comp = "directory" =>
        /\ Directory!OneDirectoryPerGeneration
        /\ Directory!CleanedUp
        /\ Directory!EntryIsCurrent

\* Once every change is published and read, a connected Relay holds the directory
\* (replace_relay_session_endpoint, apply_relay_directory).
RelaysShareTheDirectory == comp = "directory" => Directory!RelaysShareTheDirectory

\* Two sessions of one Travel identity are never both logged in, and a connection
\* that was renewed has its lease (TravelSessionRegistry).
OneLogin == comp = "login" => Login!OneLogin /\ Login!OpenHasItsLease

\* The durable control mark of a Travel never goes back (ControlTrustState), unless the
\* task of a commit was dropped and no later commit has made good for it.
MarkNeverRegresses == [][comp = "trust" => Trust!MarkKept]_<<vars, shared, comp>>

\* What a Travel has accepted is on disk, unless the task of a commit was dropped, and
\* the Relays of the accepted and of the durable snapshot stay startup candidates
\* (ControlTrustState::accept, bootstrap_candidate_pool).
AcceptedIsKept == comp = "trust" => Trust!AcceptedIsDurable /\ Trust!ListedRelaysAreKept

\* Directory and catalog that a Travel shows are those of one snapshot, the accepted
\* one, unless two tasks have been showing theirs at once or one was dropped on the
\* way, since a snapshot was last shown alone (apply_control_snapshot).
ShownTogether == comp = "trust" => Trust!ShownTogether

\* A new Home installs the endpoint the Server has authorized, and a pending record
\* at the Server has its dispatch (complete_home_enrollment, dispatch_home_enrollment).
InstallsTheAuthorized ==
    comp = "new_home" => NewHome!InstallsTheAuthorized /\ NewHome!RecordHasItsDispatch

\* What a Travel installs is the one credential that was published, and journaled on
\* disk unless that write failed (issue_from_home_with_password,
\* approve_remote_enrollment).
TravelHoldsThePublished == comp = "remote" => Remote!TravelHoldsThePublished

\* An enrollment record that is due is found (poll_remote_enrollment).
NoMissedScan == comp = "remote" => Remote!NoMissedScan

\* The registry lists the catalog that the registered Home session sent, and cleaning
\* up an older session takes nothing from it (HomeRegistry::register and remove).
SessionKeepsCatalog == comp = "session" => Session!SessionKeepsCatalog

\* What a Home acknowledges is in its durable cache (apply_authorization_snapshot).
AckIsDurable == comp = "session" => Session!AckIsDurable
=============================================================================
