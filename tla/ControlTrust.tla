---------------------------- MODULE ControlTrust ----------------------------
(***************************************************************************)
(* What a Travel process believes of the control plane.  Signed snapshots  *)
(* reach it on the catalog subscription and on every route request, each a *)
(* task of its own, and from whichever Relay the task is connected to: an  *)
(* older snapshot may come after a newer one.  One lock orders what is     *)
(* accepted and made durable; the trust, the directory and the catalog     *)
(* that the rest of the process reads are replaced after it, one by one.   *)
(*                                                                         *)
(* A route request belongs to the open of a Carrier, which is aborted when *)
(* another one wins and gives up after ten seconds.  The snapshot it was   *)
(* applying is dropped with it at any await: the locks are released, while *)
(* a commit that was handed to a blocking thread is carried out.           *)
(*                                                                         *)
(* The high-water mark survives restarts, together with the snapshot and   *)
(* every Relay ever listed.  A process that finds the old JSON state file  *)
(* imports it into the store, and removes the file once it is committed.   *)
(***************************************************************************)
EXTENDS Naturals, FiniteSets

CONSTANTS
    Snapshots,   \* signed snapshots: trust generation, epoch, generation, Relays
    Tasks,       \* connections that apply snapshots
    NoState,     \* nothing stored
    NoSnapshot,  \* nothing cached
    Installed,   \* deployment trust generations the installed file may have
    LegacyFile,  \* the state an old release left, or NoState
    MaxCrashes   \* bound: crashes of the process, failed commits, dropped tasks,
                 \* observations

VARIABLES
    legacy,     \* control-trust-state.json
    imported,   \* the digest of an imported legacy file, in the store's metadata
    disk,       \* ControlTrustState in the store
    history,    \* Relay history in the store: generation a Relay was last listed in
    installed,  \* trust generation of the installed deployment trust
    phase,      \* the process: stopped, committed, cleaned, running
    memory,     \* AppState.control_trust_state
    known,      \* AppState.relay_history
    shown,      \* AppState.deployment_trust, directory, catalog
    task,       \* what each connection is doing with which snapshot
    observed,   \* copies of history records that are being written
    expired,    \* snapshots past their expiry
    crashes,    \* crashes so far
    detached,   \* batches that a blocking thread writes for a task that was dropped
    abandoned,  \* history: a commit was dropped, and no later one stands alone
    overlap     \* history: what is shown may be a mixture, of a snapshot that was
                \* shown beside another one or whose task was dropped on the way

vars == <<legacy, imported, disk, history, installed, phase, memory, known,
          shown, task, observed, expired, crashes, detached, abandoned, overlap>>

\* ControlTrustState: the deployment trust's generation, the signer's epoch and
\* the snapshot's generation, and the snapshot itself.
NewState == [trust |-> 0, epoch |-> 0, generation |-> 0, cached |-> NoSnapshot]

KnownRelays == UNION {s.relays : s \in Snapshots}

Nothing == [trust |-> 0, directory |-> 0, catalog |-> 0]

Idle == [at |-> "idle", snapshot |-> NoSnapshot]

Init ==
    /\ legacy = LegacyFile
    /\ imported = NoState
    /\ disk = NoState
    /\ history = [r \in KnownRelays |-> 0]
    /\ installed \in Installed
    /\ phase = "stopped"
    /\ memory = NewState
    /\ known = [r \in KnownRelays |-> 0]
    /\ shown = Nothing
    /\ task = [t \in Tasks |-> Idle]
    /\ observed = {}
    /\ expired = {}
    /\ crashes = 0
    /\ detached = {}
    /\ abandoned = FALSE
    /\ overlap = FALSE

(***************************************************************************)
(* Starting.                                                               *)
(***************************************************************************)
Loaded == IF disk # NoState THEN disk
          ELSE IF legacy # NoState THEN legacy ELSE NewState

\* Mutant: the installed file is taken as it is.
RaisedBlindly(state) == [state EXCEPT !.trust = installed]

\* The installed trust raises the mark, and never lowers it.
Raised(state) ==
    IF installed > state.trust THEN [state EXCEPT !.trust = installed] ELSE state

\* The cached snapshot is shown only while it is valid and is the one the mark
\* stands for.
Matches(state) ==
    /\ state.cached # NoSnapshot
    /\ state.cached.trust = state.trust
    /\ state.cached.epoch = state.epoch
    /\ state.cached.generation = state.generation

Verified(s) == s \notin expired

ShownAt(state) ==
    IF Matches(state) /\ Verified(state.cached)
    THEN [trust |-> state.cached.trust, directory |-> state.cached.generation,
          catalog |-> state.cached.generation]
    ELSE [trust |-> installed, directory |-> 0, catalog |-> 0]

\* Mutant: the import leaves the history empty.
NoneMigrated(state) == {}

\* Relays put into the history: the cached snapshot's, or those of a legacy
\* snapshot that was valid when it was issued.
Migrated(state) ==
    IF Matches(state) /\ (Verified(state.cached) \/ disk = NoState)
    THEN state.cached.relays ELSE {}

\* The history with these Relays listed in the directory of this generation.
Listed(records, relays, generation) ==
    [r \in KnownRelays |-> IF r \in relays THEN generation ELSE records[r]]

\* One batch: the state, the history, and the legacy file's digest.
Load ==
    LET state == Raised(Loaded)
    IN  /\ phase = "stopped"
        /\ phase' = "committed"
        /\ disk' = state
        /\ imported' = IF disk = NoState THEN legacy ELSE imported
        /\ history' = Listed(history, Migrated(state), state.generation)
        /\ memory' = state
        /\ shown' = ShownAt(state)
        /\ UNCHANGED <<legacy, installed, known, task, observed, expired, crashes,
                       detached, abandoned, overlap>>

\* Mutant: the file goes before the store has it.
RemoveLegacyFirst ==
    /\ phase \in {"committed", "stopped"}
    /\ phase' = IF phase = "committed" THEN "cleaned" ELSE phase
    /\ legacy' = NoState
    /\ UNCHANGED <<imported, disk, history, installed, memory, known, shown, task,
                   observed, expired, crashes, detached, abandoned, overlap>>

\* The legacy file goes when the store has recorded its digest.
RemoveLegacy ==
    /\ phase = "committed"
    /\ phase' = "cleaned"
    /\ legacy' = IF imported = legacy THEN NoState ELSE legacy
    /\ UNCHANGED <<imported, disk, history, installed, memory, known, shown, task,
                   observed, expired, crashes, detached, abandoned, overlap>>

LoadHistory ==
    /\ phase = "cleaned"
    /\ phase' = "running"
    /\ known' = history
    /\ UNCHANGED <<legacy, imported, disk, history, installed, memory, shown, task,
                   observed, expired, crashes, detached, abandoned, overlap>>

Crash ==
    /\ crashes < MaxCrashes
    /\ phase # "stopped"
    /\ crashes' = crashes + 1
    /\ phase' = "stopped"
    /\ memory' = NewState
    /\ known' = [r \in KnownRelays |-> 0]
    /\ shown' = Nothing
    /\ task' = [t \in Tasks |-> Idle]
    /\ observed' = {}
    /\ detached' = {}
    /\ abandoned' = FALSE
    /\ overlap' = FALSE
    /\ UNCHANGED <<legacy, imported, disk, history, installed, expired>>

\* An operator replaces the installed trust of a stopped process.
InstallTrust(g) ==
    /\ phase = "stopped"
    /\ g > installed
    /\ installed' = g
    /\ UNCHANGED <<legacy, imported, disk, history, phase, memory, known, shown,
                   task, observed, expired, crashes, detached, abandoned, overlap>>

(***************************************************************************)
(* Applying a snapshot.                                                    *)
(***************************************************************************)
\* Mutant: an older snapshot of the same epoch is accepted.
NewerOrOlder(state, s) == s.epoch >= state.epoch

\* ControlTrustState::accept, on a snapshot of this deployment: refused with an
\* error, not newer, or accepted.
Refused(state, s) == s.trust < state.trust \/ s.epoch < state.epoch
Newer(state, s) == s.epoch > state.epoch \/ s.generation > state.generation

\* The lock is held from the decision until the store has the result.
Locked == \E t \in Tasks : task[t].at = "committing"

\* A snapshot that is not newer changes nothing, a refused one ends the
\* connection: neither leaves a trace here.
Receive(t, s) ==
    /\ phase = "running"
    /\ task[t].at = "idle"
    /\ Verified(s)
    /\ ~Locked
    /\ ~Refused(memory, s)
    /\ Newer(memory, s)
    /\ task' = [task EXCEPT ![t] = [at |-> "committing", snapshot |-> s]]
    /\ UNCHANGED <<legacy, imported, disk, history, installed, phase, memory,
                   known, shown, observed, expired, crashes, detached, abandoned, overlap>>

Marked(s) == [trust |-> s.trust, epoch |-> s.epoch, generation |-> s.generation,
              cached |-> s]

Showing == {t \in Tasks : task[t].at \in {"trust", "directory", "catalog"}}

\* The history with the records of a batch put over it.
Put(records, batch) == [r \in KnownRelays |-> IF batch[r] # 0 THEN batch[r] ELSE records[r]]

\* Mutant: memory follows and the store is left behind.
CommitInMemory(t) ==
    LET s == task[t].snapshot
    IN  /\ task[t].at = "committing"
        /\ memory' = Marked(s)
        /\ known' = Listed(known, s.relays, s.generation)
        /\ task' = [task EXCEPT ![t].at = "trust"]
        /\ abandoned' = (detached # {})
        /\ overlap' = (Showing # {})
        /\ UNCHANGED <<legacy, imported, disk, history, installed, phase, shown,
                       observed, expired, crashes, detached>>

\* One batch: the mark, the snapshot and the history; then memory follows.  Memory
\* and store agree from here on, unless a dropped commit is still to be written;
\* and a snapshot that is shown alone replaces what was mixed.
Commit(t) ==
    LET s == task[t].snapshot
        records == Listed(known, s.relays, s.generation)
    IN  /\ task[t].at = "committing"
        /\ disk' = Marked(s)
        /\ history' = Put(history, records)
        /\ memory' = Marked(s)
        /\ known' = records
        /\ task' = [task EXCEPT ![t].at = "trust"]
        /\ abandoned' = (detached # {})
        /\ overlap' = (Showing # {})
        /\ UNCHANGED <<legacy, imported, installed, phase, shown, observed, expired,
                       crashes, detached>>

\* The task is dropped while it waits for the blocking thread, which goes on
\* without the locks; if it has written already, WriteDetached comes first.
DropCommitting(t) ==
    LET s == task[t].snapshot
    IN  /\ task[t].at = "committing"
        /\ crashes < MaxCrashes
        /\ crashes' = crashes + 1
        /\ detached' = detached \cup
              {[number |-> crashes, mark |-> Marked(s),
                records |-> Listed(known, s.relays, s.generation)]}
        /\ abandoned' = TRUE
        /\ task' = [task EXCEPT ![t] = Idle]
        /\ UNCHANGED <<legacy, imported, disk, history, installed, phase, memory,
                       known, shown, observed, expired, overlap>>

WriteDetached(b) ==
    /\ b \in detached
    /\ disk' = b.mark
    /\ history' = Put(history, b.records)
    /\ detached' = detached \ {b}
    /\ UNCHANGED <<legacy, imported, installed, phase, memory, known, shown, task,
                   observed, expired, crashes, abandoned, overlap>>

CommitFails(t) ==
    /\ task[t].at = "committing"
    /\ crashes < MaxCrashes
    /\ crashes' = crashes + 1
    /\ task' = [task EXCEPT ![t] = Idle]
    /\ UNCHANGED <<legacy, imported, disk, history, installed, phase, memory,
                   known, shown, observed, expired, detached, abandoned, overlap>>

\* The task is dropped while it waits for one of the three locks: what it has
\* accepted is shown in part.
DropShowing(t) ==
    /\ t \in Showing
    /\ crashes < MaxCrashes
    /\ crashes' = crashes + 1
    /\ task' = [task EXCEPT ![t] = Idle]
    /\ overlap' = TRUE
    /\ UNCHANGED <<legacy, imported, disk, history, installed, phase, memory,
                   known, shown, observed, expired, detached, abandoned>>

\* Three locks, one after the other, after the acceptance lock is released.
ShowTrust(t) ==
    /\ task[t].at = "trust"
    /\ shown' = [shown EXCEPT !.trust = task[t].snapshot.trust]
    /\ task' = [task EXCEPT ![t].at = "directory"]
    /\ UNCHANGED <<legacy, imported, disk, history, installed, phase, memory,
                   known, observed, expired, crashes, detached, abandoned, overlap>>

ShowDirectory(t) ==
    /\ task[t].at = "directory"
    /\ shown' = [shown EXCEPT !.directory = task[t].snapshot.generation]
    /\ task' = [task EXCEPT ![t].at = "catalog"]
    /\ UNCHANGED <<legacy, imported, disk, history, installed, phase, memory,
                   known, observed, expired, crashes, detached, abandoned, overlap>>

\* Mutant: the catalog keeps what it had.
KeepCatalog(t) ==
    /\ task[t].at = "catalog"
    /\ task' = [task EXCEPT ![t] = Idle]
    /\ UNCHANGED <<legacy, imported, disk, history, installed, phase, memory,
                   known, shown, observed, expired, crashes, detached, abandoned, overlap>>

ShowCatalog(t) ==
    /\ task[t].at = "catalog"
    /\ shown' = [shown EXCEPT !.catalog = task[t].snapshot.generation]
    /\ task' = [task EXCEPT ![t] = Idle]
    /\ UNCHANGED <<legacy, imported, disk, history, installed, phase, memory,
                   known, observed, expired, crashes, detached, abandoned, overlap>>

(***************************************************************************)
(* record_relay_success and record_relay_failure, of any connection: the   *)
(* record is changed in memory and copied under the history's lock, and    *)
(* the copy written without it.                                            *)
(***************************************************************************)
ObserveRelay(r) ==
    /\ phase = "running"
    /\ crashes < MaxCrashes
    /\ known[r] # 0
    /\ ~Locked
    /\ crashes' = crashes + 1
    /\ observed' = observed \cup {[relay |-> r, generation |-> known[r]]}
    /\ UNCHANGED <<legacy, imported, disk, history, installed, phase, memory,
                   known, shown, task, expired, detached, abandoned, overlap>>

WriteObservation(o) ==
    /\ o \in observed
    /\ history' = [history EXCEPT ![o.relay] = o.generation]
    /\ observed' = observed \ {o}
    /\ UNCHANGED <<legacy, imported, disk, installed, phase, memory, known, shown,
                   task, expired, crashes, detached, abandoned, overlap>>

Expire(s) ==
    /\ s \notin expired
    /\ expired' = expired \cup {s}
    /\ UNCHANGED <<legacy, imported, disk, history, installed, phase, memory,
                   known, shown, task, observed, crashes, detached, abandoned, overlap>>

TaskStep(t) ==
    \/ \E s \in Snapshots : Receive(t, s)
    \/ Commit(t) \/ CommitFails(t) \/ DropCommitting(t) \/ DropShowing(t)
    \/ ShowTrust(t) \/ ShowDirectory(t) \/ ShowCatalog(t)

Next ==
    \/ Load \/ RemoveLegacy \/ LoadHistory \/ Crash
    \/ \E r \in KnownRelays : ObserveRelay(r)
    \/ \E o \in observed : WriteObservation(o)
    \/ \E b \in detached : WriteDetached(b)
    \/ \E g \in Installed : InstallTrust(g)
    \/ \E t \in Tasks : TaskStep(t)
    \/ \E s \in Snapshots : Expire(s)

Spec == Init /\ [][Next]_vars

(***************************************************************************)
(* Properties.                                                             *)
(***************************************************************************)
Marks == [trust : Nat, epoch : Nat, generation : Nat,
          cached : Snapshots \cup {NoSnapshot}]

TypeOK ==
    /\ legacy \in Marks \cup {NoState}
    /\ imported \in Marks \cup {NoState}
    /\ disk \in Marks \cup {NoState}
    /\ installed \in Installed
    /\ phase \in {"stopped", "committed", "cleaned", "running"}
    /\ memory \in Marks
    /\ history \in [KnownRelays -> Nat]
    /\ known \in [KnownRelays -> Nat]
    /\ observed \subseteq [relay : KnownRelays, generation : Nat]
    /\ shown \in [trust : Nat, directory : Nat, catalog : Nat]
    /\ task \in [Tasks -> [at : {"idle", "committing", "trust", "directory", "catalog"},
                           snapshot : Snapshots \cup {NoSnapshot}]]
    /\ expired \subseteq Snapshots
    /\ crashes \in 0..MaxCrashes
    /\ detached \subseteq [number : 0..MaxCrashes, mark : Marks, records : [KnownRelays -> Nat]]
    /\ abandoned \in BOOLEAN
    /\ overlap \in BOOLEAN

\* The mark a state stands for, legacy file included: what the process must
\* never go below again.
Durable == Loaded

AtLeast(a, b) ==
    /\ a.trust >= b.trust
    /\ a.epoch >= b.epoch
    /\ a.epoch = b.epoch => a.generation >= b.generation

\* The durable mark never goes back, whichever Relay a snapshot came from,
\* whatever trust is installed, through crashes and through the import of the
\* legacy file.  The exception is what the code does when the task of a commit was
\* dropped: the store may be ahead of the memory that the next snapshot is compared
\* with, or be written late, until a commit with none of the dropped ones under way.
MarkKept == abandoned \/ AtLeast(Durable', Durable)
MarkNeverRegresses == [][MarkKept]_vars

\* What memory has accepted is on disk, so a crash forgets nothing it showed: the
\* directory shown is that of a snapshot the durable mark does not lie behind.  A
\* Relay that memory knows is in the store even after a dropped commit.
AcceptedIsDurable ==
    phase # "stopped" =>
        /\ \A r \in KnownRelays : known[r] # 0 => history[r] # 0
        /\ ~abandoned =>
              /\ memory = disk
              /\ shown.directory # 0 =>
                    \E s \in Snapshots :
                        s.generation = shown.directory /\ AtLeast(disk, Marked(s))

\* bootstrap_candidate_pool: the Relays a start can try, without the seeds.
Candidates == {r \in KnownRelays : known[r] # 0}

\* Every Relay of the snapshot a mark stands for is a startup candidate for good:
\* of the durable mark it is in the stored history, of memory's among the
\* candidates, from the first import on.
ListedRelaysAreKept ==
    phase = "running" =>
        /\ Matches(disk) /\ disk.cached \notin expired
              => \A r \in disk.cached.relays : history[r] # 0
        /\ Matches(memory) /\ memory.cached \notin expired
              => memory.cached.relays \subseteq Candidates

\* Directory and catalog are those of one snapshot, the accepted one, whenever no
\* task is replacing them: unless two tasks have been doing so at once, or one was
\* dropped on the way, since the last snapshot that was accepted and shown alone.
ShownTogether ==
    (phase = "running" /\ Showing = {} /\ ~overlap) =>
        /\ shown.directory = shown.catalog
        /\ shown.directory \in {0, memory.generation}

=============================================================================
