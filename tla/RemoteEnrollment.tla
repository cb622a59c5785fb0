-------------------------- MODULE RemoteEnrollment --------------------------
(***************************************************************************)
(* A Travel asks a Home for a new credential over the control plane.       *)
(*                                                                         *)
(* The request is a record in the outbox of the Travel's state store.  The *)
(* catalog session polls the outbox and sends what is due through a Relay  *)
(* and the Server to the Home, which keeps an inbox record.  An operator   *)
(* approves it there: the credential is signed once, journaled in the      *)
(* issuance ledger, published to the Server, and only then put into the    *)
(* inbox for a later poll to fetch.  The Travel installs it, restarts with *)
(* the new identity and acknowledges, first to the Server, then the Home.  *)
(* Every hop forgets a request at a deadline of its own, so answers come   *)
(* late, and requests are sent again.                                      *)
(***************************************************************************)
EXTENDS Naturals, Sequences

CONSTANTS
    Approvers,       \* approvals that can be under way at once
    MaxCredentials,  \* bound: credentials signed
    MaxQueue,        \* bound: messages queued in one direction
    MaxChanges,      \* bound: generation of the outbox
    MaxMishaps       \* bound: timeouts, crashes, restarts, expired records

VARIABLES
    outbox,     \* Travel store: its record of the request
    identity,   \* Travel: identity in the store, identity of the process
    changes,    \* Travel: enrollment_outbox_generation, writers yet to raise it
    poll,       \* Travel: catalog session, its poll_remote_enrollment
    waiting,    \* Relay: PendingRequests, by stage
    pending,    \* Server: pending_enrollments, the stage of this request
    toHome,     \* requests queued to the Home
    toServer,   \* results queued from the Home
    toTravel,   \* results queued to the Travel
    inbox,      \* Home store: its record of the request
    ledger,     \* Home: the issuance ledger's record of the request, disk and memory
    approval,   \* Home: approve_remote_enrollment, by approver
    published,  \* Server: credentials imported for the request, and revoked ones
    signed,     \* credentials signed so far
    confirmed,  \* history: the Home has confirmed the installation
    mishaps,    \* faults so far
    unjournaled \* history: credentials whose journal write failed, never made good

vars == <<outbox, identity, changes, poll, waiting, pending, toHome, toServer,
          toTravel, inbox, ledger, approval, published, signed, confirmed, mishaps,
          unjournaled>>

travel  == <<outbox, identity, changes, poll>>
network == <<waiting, pending, toHome, toServer, toTravel>>
home    == <<inbox, ledger, approval, published, signed, unjournaled>>
issuer  == <<ledger, unjournaled>>

Stages      == {"submit", "installed"}
CredentialIds == 1..MaxCredentials
None        == 0

Nothing    == [due |-> "nothing", credential |-> None]
NoRecord   == [known |-> FALSE, response |-> None, installed |-> FALSE]
NewSession(generation) ==
    [at |-> "idle", loaded |-> 0, found |-> Nothing, checked |-> 0,
     pending |-> generation # 0, inflight |-> FALSE]
NoIssue    == [credential |-> None, published |-> FALSE]
NoApproval == [at |-> "idle", read |-> NoRecord, credential |-> None]

Init ==
    /\ outbox = NoRecord
    /\ identity = [stored |-> "old", running |-> "old"]
    /\ changes = [generation |-> 0, owed |-> 0]
    /\ poll = NewSession(0)
    /\ waiting = [s \in Stages |-> "none"]
    /\ pending = "none"
    /\ toHome = <<>> /\ toServer = <<>> /\ toTravel = <<>>
    /\ inbox = NoRecord
    /\ ledger = [disk |-> NoIssue, memory |-> NoIssue]
    /\ unjournaled = {}
    /\ approval = [a \in Approvers |-> NoApproval]
    /\ published = [credentials |-> {}, revoked |-> {}]
    /\ signed = 0
    /\ confirmed = FALSE
    /\ mishaps = 0

Mishap == mishaps < MaxMishaps /\ mishaps' = mishaps + 1

(***************************************************************************)
(* The Travel.                                                             *)
(***************************************************************************)
\* A change of the store is followed by mark_enrollment_outbox_changed.
Owes ==
    /\ changes.generation + changes.owed < MaxChanges
    /\ changes' = [changes EXCEPT !.owed = @ + 1]

\* create_remote_enrollment
CreateRequest ==
    /\ ~outbox.known /\ ~confirmed /\ identity.stored = "old"
    /\ outbox' = [NoRecord EXCEPT !.known = TRUE]
    /\ Owes
    /\ UNCHANGED <<identity, poll, network, home, confirmed, mishaps>>

MarkOutboxChanged ==
    /\ changes.owed > 0
    /\ changes' = [generation |-> changes.generation + 1, owed |-> changes.owed - 1]
    /\ UNCHANGED <<outbox, identity, poll, network, home, confirmed, mishaps>>

\* enrollment_outbox_scan_needed
ScanNeeded == ~poll.inflight /\ (poll.pending \/ changes.generation # poll.checked)

\* What is due for the record: nothing while a response waits to be installed, and
\* nothing until the process runs with the installed identity.
Due == IF ~outbox.known THEN "nothing"
       ELSE IF outbox.installed THEN IF identity.running = "new" THEN "installed" ELSE "nothing"
       ELSE IF outbox.response = None THEN "submit" ELSE "nothing"

\* poll_remote_enrollment, up to the load of the generation; a request that has been
\* in flight for 30 seconds is given up first.
LoadGeneration ==
    /\ poll.at = "idle" /\ ScanNeeded
    /\ poll' = [poll EXCEPT !.at = "scanning", !.loaded = changes.generation]
    /\ UNCHANGED <<outbox, identity, changes, network, home, confirmed, mishaps>>

GiveUpInflight ==
    /\ Mishap
    /\ poll.at = "idle" /\ poll.inflight
    /\ poll' = [poll EXCEPT !.inflight = FALSE]
    /\ UNCHANGED <<outbox, identity, changes, network, home, confirmed>>

\* next_remote_enrollment_message: the store as it is while the blocking task reads it.
Scan ==
    /\ poll.at = "scanning"
    /\ poll' = [poll EXCEPT !.at = "scanned",
                            !.found = [due |-> Due, credential |-> outbox.response]]
    /\ UNCHANGED <<outbox, identity, changes, network, home, confirmed, mishaps>>

\* Mutant of Checked: the generation is read again after the scan.
CheckedLate ==
    [poll EXCEPT !.at = "idle", !.loaded = 0, !.found = Nothing,
                 !.pending = poll.found.due # "nothing",
                 !.checked = IF poll.found.due = "nothing" THEN changes.generation ELSE @]

\* What the session knows once the scan has returned.
Checked ==
    [poll EXCEPT !.at = "idle", !.loaded = 0, !.found = Nothing,
                 !.pending = poll.found.due # "nothing",
                 !.checked = IF poll.found.due = "nothing" THEN poll.loaded ELSE @]

Answer(stage, response) == [stage |-> stage, accepted |-> TRUE, response |-> response]
Refusal(stage)          == [stage |-> stage, accepted |-> FALSE, response |-> None]

\* The Server forwards a request to the Home unless one is in flight.
Forward(stage) ==
    /\ pending' = stage
    /\ toHome' = Append(toHome, stage)
    /\ UNCHANGED toTravel

\* handle_remote_enrollment_submit, and handle_remote_enrollment_installed with its
\* validate_install_acknowledgement.
AdmitsSubmit          == pending = "none"
ValidAcknowledgement  == poll.found.credential \in published.credentials \ published.revoked
AdmitsAcknowledgement == pending = "none" /\ ValidAcknowledgement

\* PendingRequests::register refuses a second request of the same id.
Registers(stage) == waiting[stage] = "none"

Admits(stage) ==
    /\ Registers(stage)
    /\ IF stage = "submit" THEN AdmitsSubmit ELSE AdmitsAcknowledgement

\* The rest of poll_remote_enrollment, and the message on its way: the Relay registers
\* it unless it waits for the same request already, and the Server forwards it unless
\* it has a record.  A record tried within ten seconds is due but not selected.
Poll ==
    /\ poll.at = "scanned"
    /\ LET stage == poll.found.due
       IN  \/ /\ poll' = Checked
              /\ UNCHANGED <<waiting, pending, toHome, toTravel>>
           \/ /\ stage # "nothing"
              /\ Len(toHome) < MaxQueue /\ Len(toTravel) < MaxQueue
              /\ poll' = [Checked EXCEPT !.inflight = TRUE]
              /\ IF Admits(stage)
                 THEN waiting' = [waiting EXCEPT ![stage] = "live"] /\ Forward(stage)
                 ELSE /\ toTravel' = Append(toTravel, Refusal(stage))
                      /\ UNCHANGED <<waiting, pending, toHome>>
    /\ UNCHANGED <<outbox, identity, changes, toServer, home, confirmed, mishaps>>

\* The catalog session ends with an error and a new one begins.
EndSession ==
    /\ poll' = NewSession(changes.generation)
    /\ toTravel' = <<>>
    /\ waiting' = [s \in Stages |-> IF waiting[s] = "live" THEN "stale" ELSE waiting[s]]

\* apply_remote_enrollment_result: a first response is stored, the same one again is
\* ignored, another one, or one without a record, ends the session.
ApplyResult ==
    /\ poll.at = "idle" /\ toTravel # <<>> /\ Head(toTravel).stage = "submit"
    /\ LET result == Head(toTravel)
       IN  \/ /\ ~result.accepted \/ result.response = None
                 \/ (outbox.known /\ outbox.response = result.response)
              /\ toTravel' = Tail(toTravel)
              /\ poll' = [poll EXCEPT !.inflight = FALSE]
              /\ UNCHANGED <<outbox, changes, waiting>>
           \/ /\ result.response # None /\ outbox.known /\ outbox.response = None
              /\ outbox' = [outbox EXCEPT !.response = result.response]
              /\ toTravel' = Tail(toTravel)
              /\ poll' = [poll EXCEPT !.inflight = FALSE]
              /\ Owes
              /\ UNCHANGED waiting
           \/ /\ result.response # None
              /\ ~outbox.known \/ outbox.response \notin {None, result.response}
              /\ EndSession
              /\ UNCHANGED <<outbox, changes>>
    /\ UNCHANGED <<identity, pending, toHome, toServer, home, confirmed, mishaps>>

\* acknowledge_remote_enrollment_install: a confirmed record is deleted.
ApplyAcknowledgement ==
    /\ poll.at = "idle" /\ toTravel # <<>> /\ Head(toTravel).stage = "installed"
    /\ \/ /\ ~Head(toTravel).accepted
          /\ toTravel' = Tail(toTravel)
          /\ poll' = [poll EXCEPT !.inflight = FALSE]
          /\ UNCHANGED <<outbox, changes, waiting>>
       \/ /\ Head(toTravel).accepted /\ outbox.installed
          /\ outbox' = NoRecord
          /\ toTravel' = Tail(toTravel)
          /\ poll' = [poll EXCEPT !.inflight = FALSE]
          /\ Owes
          /\ UNCHANGED waiting
       \/ /\ Head(toTravel).accepted /\ ~outbox.installed
          /\ EndSession
          /\ UNCHANGED <<outbox, changes>>
    /\ UNCHANGED <<identity, pending, toHome, toServer, home, confirmed, mishaps>>

\* install_remote_enrollment: the files, then record and active identity together.
Install ==
    /\ outbox.known /\ outbox.response # None /\ ~outbox.installed
    /\ outbox' = [outbox EXCEPT !.installed = TRUE]
    /\ identity' = [identity EXCEPT !.stored = "new"]
    /\ Owes
    /\ UNCHANGED <<poll, network, home, confirmed, mishaps>>

\* apply_active_identity_directory at the start of the process; the first generation
\* says whether the outbox has records.
RestartTravel ==
    /\ \/ identity.stored # identity.running /\ UNCHANGED mishaps
       \/ identity.stored = identity.running /\ Mishap
    /\ identity' = [identity EXCEPT !.running = identity.stored]
    /\ changes' = [generation |-> IF outbox.known THEN 1 ELSE 0, owed |-> 0]
    /\ poll' = NewSession(IF outbox.known THEN 1 ELSE 0)
    /\ toTravel' = <<>>
    /\ waiting' = [s \in Stages |-> IF waiting[s] = "live" THEN "stale" ELSE waiting[s]]
    /\ UNCHANGED <<outbox, pending, toHome, toServer, home, confirmed>>

(***************************************************************************)
(* The Relay and the Server.                                               *)
(***************************************************************************)
\* The Relay's request reaches its deadline.
RelayTimesOut(s) ==
    /\ Mishap
    /\ waiting[s] # "none" /\ Len(toTravel) < MaxQueue
    /\ waiting' = [waiting EXCEPT ![s] = "none"]
    /\ toTravel' = IF waiting[s] = "live" THEN Append(toTravel, Refusal(s)) ELSE toTravel
    /\ UNCHANGED <<travel, pending, toHome, toServer, home, confirmed>>

\* cleanup_pending, or an answer that finds its record expired.
ServerExpires ==
    /\ Mishap
    /\ pending # "none"
    /\ pending' = "none"
    /\ UNCHANGED <<travel, waiting, toHome, toServer, toTravel, home, confirmed>>

\* PendingRequests::complete, at the Relay: the Travel session that asked is told.
Deliver(result) ==
    /\ toTravel' = IF waiting[result.stage] = "live"
                   THEN Append(toTravel, result) ELSE toTravel
    /\ waiting' = [waiting EXCEPT ![result.stage] = "none"]

\* take_enrollment_response: a result without a record is dropped, one of the other
\* stage ends the session of the Home.
TakeResponse(stage) ==
    /\ toServer # <<>> /\ Head(toServer).stage = stage /\ Len(toTravel) < MaxQueue
    /\ LET result == Head(toServer)
       IN  \/ /\ pending = "none"
              /\ toServer' = Tail(toServer)
              /\ UNCHANGED <<pending, waiting, toTravel, toHome>>
           \/ /\ pending \notin {"none", result.stage}
              /\ toServer' = <<>> /\ toHome' = <<>>
              /\ UNCHANGED <<pending, waiting, toTravel>>
           \/ /\ pending = result.stage
              /\ pending' = "none"
              /\ toServer' = Tail(toServer)
              /\ Deliver(result)
              /\ UNCHANGED toHome
    /\ UNCHANGED <<travel, home, confirmed, mishaps>>

\* complete_remote_enrollment and complete_remote_enrollment_installed
CompleteResult          == TakeResponse("submit")
CompleteAcknowledgement == TakeResponse("installed")

(***************************************************************************)
(* The Home.                                                               *)
(***************************************************************************)
\* persist_remote_enrollment_request: the record's response, if it has one; a new
\* request is refused by an inbox at its capacity.
PersistRequest ==
    /\ toHome # <<>> /\ Head(toHome) = "submit" /\ Len(toServer) < MaxQueue
    /\ toHome' = Tail(toHome)
    /\ \/ /\ inbox' = [inbox EXCEPT !.known = TRUE]
          /\ toServer' = Append(toServer, Answer("submit", inbox.response))
          /\ UNCHANGED mishaps
       \/ /\ ~inbox.known /\ Mishap
          /\ toServer' = Append(toServer, Refusal("submit"))
          /\ UNCHANGED inbox
    /\ UNCHANGED <<travel, waiting, pending, toTravel, issuer, approval, published,
                   signed, confirmed>>

\* acknowledge_remote_enrollment_installed
ConfirmInstalled ==
    /\ toHome # <<>> /\ Head(toHome) = "installed" /\ Len(toServer) < MaxQueue
    /\ toHome' = Tail(toHome)
    /\ IF inbox.known /\ (inbox.installed \/ inbox.response # None)
       THEN /\ inbox' = [inbox EXCEPT !.response = IF inbox.installed THEN @ ELSE None,
                                      !.installed = TRUE]
            /\ confirmed' = TRUE
            /\ toServer' = Append(toServer, Answer("installed", None))
       ELSE /\ toServer' = Append(toServer, Refusal("installed"))
            /\ UNCHANGED <<inbox, confirmed>>
    /\ UNCHANGED <<travel, waiting, pending, toTravel, issuer, approval, published,
                   signed, mishaps>>

\* approve_remote_enrollment reads the inbox record it will write back.
ReadInbox(a) ==
    /\ approval[a].at = "idle" /\ inbox.known
    /\ approval' = [approval EXCEPT ![a] = [NoApproval EXCEPT !.at = "read", !.read = inbox]]
    /\ UNCHANGED <<travel, network, inbox, issuer, published, signed, confirmed, mishaps>>

\* An approval whose scope, validity, authority or password does not fit ends here.
RefuseApproval(a) ==
    /\ approval[a].at = "read"
    /\ approval' = [approval EXCEPT ![a] = NoApproval]
    /\ UNCHANGED <<travel, network, inbox, issuer, published, signed, confirmed, mishaps>>

\* The lock of the ledger is held from the lookup to the mark.
LedgerFree == \A a \in Approvers : approval[a].at \notin {"issuing", "publishing", "marking"}

\* ensure_record_not_revoked refuses by the snapshot the Home has, which may be older
\* than the revocation.
SeenRevoked(credential) == credential \in published.revoked

\* issue_from_home_with_password takes the ledger and looks the request up in its
\* memory: a new one is signed, a known one published again if that was interrupted.
FindInLedger(a) ==
    LET record == ledger.memory
    IN  /\ approval[a].at = "read" /\ LedgerFree
        /\ \/ /\ record.credential = None /\ signed < MaxCredentials
              /\ signed' = signed + 1
              /\ approval' = [approval EXCEPT ![a].at = "issuing", ![a].credential = signed + 1]
           \/ /\ record.credential # None
              /\ approval' = [approval EXCEPT
                    ![a].at = IF record.published THEN "committing" ELSE "publishing",
                    ![a].credential = record.credential]
              /\ UNCHANGED signed
           \/ /\ SeenRevoked(record.credential)
              /\ approval' = [approval EXCEPT ![a] = NoApproval]
              /\ UNCHANGED signed
        /\ UNCHANGED <<travel, network, inbox, issuer, published, confirmed, mishaps>>

\* Mutant of JournalPending: the journal is written after the publication only.
PublishUnjournaled(a) ==
    /\ approval[a].at = "issuing"
    /\ ledger' = [ledger EXCEPT !.memory = [NoIssue EXCEPT !.credential = approval[a].credential]]
    /\ approval' = [approval EXCEPT ![a].at = "publishing"]
    /\ UNCHANGED <<travel, network, inbox, published, signed, confirmed, mishaps, unjournaled>>

\* insert_pending: the signed response is in memory and on disk before it is sent.
JournalPending(a) ==
    LET record == [NoIssue EXCEPT !.credential = approval[a].credential]
    IN  /\ approval[a].at = "issuing"
        /\ ledger' = [disk |-> record, memory |-> record]
        /\ approval' = [approval EXCEPT ![a].at = "publishing"]
        /\ UNCHANGED <<travel, network, inbox, published, signed, confirmed, mishaps, unjournaled>>

\* The write fails, before or after the rename: the approval ends with the error, and
\* memory keeps the record, so the next approval finds it.
JournalFails(a) ==
    LET record == [NoIssue EXCEPT !.credential = approval[a].credential]
    IN  /\ Mishap
        /\ approval[a].at = "issuing"
        /\ \/ /\ ledger' = [disk |-> record, memory |-> record]
              /\ UNCHANGED unjournaled
           \/ /\ ledger' = [ledger EXCEPT !.memory = record]
              /\ unjournaled' = unjournaled \cup {record.credential}
        /\ approval' = [approval EXCEPT ![a] = NoApproval]
        /\ UNCHANGED <<travel, network, inbox, published, signed, confirmed>>

\* import_credential: a request is spent by the first credential for it.
Imports(credential) == published.credentials \subseteq {credential}

\* publish_enrollment: the Server imports and confirms; the confirmation may be lost,
\* or the Server not be reached at all.
Publish(a) ==
    /\ approval[a].at = "publishing"
    /\ LET credential == approval[a].credential
       IN  \/ /\ Imports(credential)
              /\ published' = [published EXCEPT !.credentials = @ \cup {credential}]
              /\ approval' = [approval EXCEPT ![a].at = "marking"]
              /\ UNCHANGED mishaps
           \/ /\ Imports(credential) /\ Mishap
              /\ published' = [published EXCEPT !.credentials = @ \cup {credential}]
              /\ approval' = [approval EXCEPT ![a] = NoApproval]
           \/ /\ Imports(credential) => Mishap
              /\ ~Imports(credential) => UNCHANGED mishaps
              /\ approval' = [approval EXCEPT ![a] = NoApproval]
              /\ UNCHANGED published
    /\ UNCHANGED <<travel, network, inbox, issuer, signed, confirmed>>

\* mark_published writes the whole of memory, and the ledger is released.
MarkPublished(a) ==
    LET record == [ledger.memory EXCEPT !.published = TRUE]
    IN  /\ approval[a].at = "marking"
        /\ ledger' = [disk |-> record, memory |-> record]
        /\ unjournaled' = unjournaled \ {record.credential}
        /\ approval' = [approval EXCEPT ![a].at = "committing"]
        /\ UNCHANGED <<travel, network, inbox, published, signed, confirmed, mishaps>>

\* Memory has the mark, the disk may not, and the approval ends with the error.
MarkFails(a) ==
    LET record == [ledger.memory EXCEPT !.published = TRUE]
    IN  /\ Mishap
        /\ approval[a].at = "marking"
        /\ \/ /\ ledger' = [disk |-> record, memory |-> record]
              /\ unjournaled' = unjournaled \ {record.credential}
           \/ /\ ledger' = [ledger EXCEPT !.memory = record]
              /\ UNCHANGED unjournaled
        /\ approval' = [approval EXCEPT ![a] = NoApproval]
        /\ UNCHANGED <<travel, network, inbox, published, signed, confirmed>>

\* The record read at the start is written back with the response.
CommitResponse(a) ==
    /\ approval[a].at = "committing"
    /\ inbox' = [approval[a].read EXCEPT !.response = approval[a].credential]
    /\ approval' = [approval EXCEPT ![a] = NoApproval]
    /\ UNCHANGED <<travel, network, issuer, published, signed, confirmed, mishaps>>

\* revoke_from_home
Revoke ==
    /\ Mishap
    /\ published.credentials # {} /\ published.revoked = {}
    /\ published' = [published EXCEPT !.revoked = published.credentials]
    /\ UNCHANGED <<travel, network, inbox, issuer, approval, signed, confirmed>>

\* The ledger is loaded from its file.
HomeRestart ==
    /\ Mishap
    /\ approval' = [a \in Approvers |-> NoApproval]
    /\ toHome' = <<>> /\ toServer' = <<>>
    /\ ledger' = [ledger EXCEPT !.memory = ledger.disk]
    /\ UNCHANGED <<travel, waiting, pending, toTravel, inbox, published, signed,
                   confirmed, unjournaled>>

\* prune_remote_enrollment_inbox_store, and remote_enrollment_outbox_expired at the
\* Travel: the retention of a record is over.
PruneInbox ==
    /\ Mishap
    /\ inbox.known
    /\ inbox' = NoRecord
    /\ UNCHANGED <<travel, network, issuer, approval, published, signed, confirmed>>

PruneOutbox ==
    /\ Mishap
    /\ outbox.known /\ poll.at = "scanning"
    /\ outbox' = NoRecord
    /\ UNCHANGED <<identity, changes, poll, network, home, confirmed>>

Next ==
    \/ CreateRequest \/ MarkOutboxChanged
    \/ LoadGeneration \/ Scan \/ Poll \/ GiveUpInflight
    \/ ApplyResult \/ ApplyAcknowledgement \/ Install \/ RestartTravel
    \/ \E s \in Stages : RelayTimesOut(s)
    \/ ServerExpires \/ CompleteResult \/ CompleteAcknowledgement
    \/ PersistRequest \/ ConfirmInstalled
    \/ \E a \in Approvers :
          \/ ReadInbox(a) \/ RefuseApproval(a) \/ FindInLedger(a)
          \/ JournalPending(a) \/ JournalFails(a) \/ Publish(a)
          \/ MarkPublished(a) \/ MarkFails(a) \/ CommitResponse(a)
    \/ Revoke \/ HomeRestart \/ PruneInbox \/ PruneOutbox

Spec == Init /\ [][Next]_vars

Record == [known : BOOLEAN, response : 0..MaxCredentials, installed : BOOLEAN]
Issue  == [credential : 0..MaxCredentials, published : BOOLEAN]
Result == [stage : Stages, accepted : BOOLEAN, response : 0..MaxCredentials]

TypeOK ==
    /\ outbox \in Record /\ inbox \in Record
    /\ identity \in [stored : {"old", "new"}, running : {"old", "new"}]
    /\ changes \in [generation : 0..MaxChanges, owed : 0..MaxChanges]
    /\ poll \in [at : {"idle", "scanning", "scanned"}, loaded : 0..MaxChanges,
                 found : [due : {"nothing"} \cup Stages, credential : 0..MaxCredentials],
                 checked : 0..MaxChanges, pending : BOOLEAN, inflight : BOOLEAN]
    /\ waiting \in [Stages -> {"none", "live", "stale"}]
    /\ pending \in {"none"} \cup Stages
    /\ toHome \in Seq(Stages) /\ toServer \in Seq(Result) /\ toTravel \in Seq(Result)
    /\ ledger \in [disk : Issue, memory : Issue] /\ unjournaled \subseteq CredentialIds
    /\ approval \in [Approvers ->
          [at : {"idle", "read", "issuing", "publishing", "marking", "committing"},
           read : Record, credential : 0..MaxCredentials]]
    /\ published \in [credentials : SUBSET CredentialIds, revoked : SUBSET CredentialIds]
    /\ signed \in 0..MaxCredentials /\ confirmed \in BOOLEAN /\ mishaps \in 0..MaxMishaps

\* Whatever the Travel received or installed, and whatever the Home has for it, is the
\* one credential the Server has for the request, across repeated approvals, lost
\* confirmations, failed writes and restarts of the Home; and that credential is in
\* the ledger on disk (issue_from_home_with_password journals before it publishes),
\* but for one whose journal write failed: the next approval finds it in memory and
\* publishes it, and until a later write succeeds the disk does not know of it.
TravelHoldsThePublished ==
    /\ \A c, d \in published.credentials : c = d
    /\ published.credentials \ unjournaled \subseteq {ledger.disk.credential}
    /\ outbox.response # None => outbox.response \in published.credentials
    /\ inbox.response # None => inbox.response \in published.credentials

\* A record that is due is found: between polls, once its writer has raised the
\* generation, the session knows of it or sees a new generation
\* (poll_remote_enrollment loads the generation before it scans the store).
NoMissedScan ==
    poll.at = "idle" /\ changes.owed = 0 /\ Due # "nothing"
    => poll.inflight \/ ScanNeeded

=============================================================================
