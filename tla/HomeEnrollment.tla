--------------------------- MODULE HomeEnrollment ---------------------------
(***************************************************************************)
(* A new Home joins the deployment.                                        *)
(*                                                                         *)
(* Its setup command keeps one request on disk and polls the Server with   *)
(* it until some global Home has approved.  Every poll is a dispatch of    *)
(* its own: the Server sends the request to the global Homes that are      *)
(* online and waits, up to a deadline, for one that has an approval or for *)
(* all to have answered.  Dispatches of one request share its id, the      *)
(* answers of the Homes carry nothing else, and the record of the dispatch *)
(* in progress is found by it.  Each global Home keeps the request in an   *)
(* inbox, where its operator approves it.  The Server authorizes the       *)
(* endpoint of the first approval it sees, and no other.                   *)
(***************************************************************************)
EXTENDS Naturals, Sequences, FiniteSets

CONSTANTS
    Issuers,        \* the global Homes
    Operators,      \* approvals that can be under way at once at one Home
    MaxDispatches,  \* bound: polls of the Server
    MaxApprovals,   \* bound: approvals signed
    MaxMishaps      \* bound: crashes, restarts, refusals and expired records

VARIABLES
    files,       \* new Home: what its setup has written
    setup,       \* new Home: the setup process
    dispatch,    \* Server: dispatch_home_enrollment, by dispatch id
    record,      \* Server: pending_home_enrollments, for this request
    submits,     \* requests queued to a global Home
    answers,     \* results queued from a global Home
    completing,  \* Server: complete_home_enrollment, in the session of a Home
    imported,    \* Server: the endpoint authorized for the new Home
    inbox,       \* global Home: its inbox record of the request
    approving,   \* global Home: approve_home_enrollment
    signed,      \* approvals signed so far
    mishaps      \* faults so far

vars == <<files, setup, dispatch, record, submits, answers, completing,
          imported, inbox, approving, signed, mishaps>>

client == <<files, setup>>
server == <<dispatch, record, completing, imported>>
home   == <<inbox, approving, signed>>

Dispatches == 1..MaxDispatches
None       == 0            \* no response, no endpoint, no dispatch
Unknown    == MaxApprovals + 1  \* the inbox has no record of the request
Responses  == 1..MaxApprovals

\* What a dispatch can be told: "accepted" is an acknowledgement without a
\* response, "closed" a channel whose sender was dropped.
Told == {"nothing", "closed", "accepted", "rejected", "response"}

Idle     == [at |-> "idle", told |-> "nothing", response |-> None, unsent |-> {},
             late |-> FALSE]
NoRecord == [dispatch |-> None, remaining |-> 0, accepted |-> FALSE,
             sender |-> FALSE]
Resting  == [at |-> "idle", response |-> None, dispatch |-> None]

Init ==
    /\ files = [dir |-> FALSE, state |-> FALSE, response |-> None, config |-> FALSE]
    /\ setup = [at |-> "off", dispatch |-> None, response |-> None]
    /\ dispatch = [d \in Dispatches |-> Idle]
    /\ record = NoRecord
    /\ submits = [i \in Issuers |-> 0]
    /\ answers = [i \in Issuers |-> <<>>]
    /\ completing = [i \in Issuers |-> Resting]
    /\ imported = None
    /\ inbox = [i \in Issuers |-> Unknown]
    /\ approving = [o \in Issuers \X Operators |-> [at |-> "idle", response |-> None]]
    /\ signed = 0
    /\ mishaps = 0

Mishap == mishaps < MaxMishaps /\ mishaps' = mishaps + 1

(***************************************************************************)
(* The setup command of the new Home.                                      *)
(***************************************************************************)
\* run_home_init: an installed Home and a directory without resumable
\* state are refused; the state of an earlier start is resumed.
StartSetup ==
    /\ setup.at = "off" /\ ~files.config
    /\ files.state \/ ~files.dir
    /\ setup' = [setup EXCEPT !.at = IF files.state THEN "sleeping" ELSE "creating"]
    /\ UNCHANGED <<files, server, submits, answers, home, mishaps>>

\* create_home_enrollment_request: the directory with the keys and the request.
CreateRequest ==
    /\ setup.at = "creating" /\ ~files.dir
    /\ files' = [files EXCEPT !.dir = TRUE]
    /\ UNCHANGED <<setup, server, submits, answers, home, mishaps>>

SaveBootstrapState ==
    /\ setup.at = "creating" /\ files.dir
    /\ files' = [files EXCEPT !.state = TRUE]
    /\ setup' = [setup EXCEPT !.at = "sleeping"]
    /\ UNCHANGED <<server, submits, answers, home, mishaps>>

\* The channel of a dispatch whose sender is dropped.
Drop(table, d) ==
    [table EXCEPT ![d].told = IF @ = "nothing" THEN "closed" ELSE @]

\* dispatch_home_enrollment refuses a request that no global Home is online for, and
\* one whose id has a record.
Refused(online) == online = {} \/ record.dispatch # None

NewRecord(d, online) ==
    [NoRecord EXCEPT !.dispatch = d, !.sender = TRUE, !.remaining = Cardinality(online)]

\* A poll reaches handle_home_bootstrap: the global Homes that are online are fixed
\* first, and each is sent the request by a task of its own.
Dispatch ==
    /\ setup.at = "sleeping"
    /\ \E d \in Dispatches, online \in SUBSET Issuers :
          /\ dispatch[d].at = "idle"
          /\ \A e \in Dispatches : e < d => dispatch[e].at # "idle"
          /\ setup' = [setup EXCEPT !.at = "polling", !.dispatch = d]
          /\ \/ /\ Refused(online)
                /\ dispatch' = [dispatch EXCEPT ![d].at = "ended", ![d].told = "rejected"]
                /\ UNCHANGED record
             \/ /\ ~Refused(online)
                /\ dispatch' = [dispatch EXCEPT ![d].at = "waiting", ![d].unsent = online]
                /\ record' = NewRecord(d, online)
    /\ UNCHANGED <<files, submits, answers, completing, imported, home, mishaps>>

\* poll_home_bootstrap_server returns; only a response ends the polling loop.
PollReturns ==
    /\ setup.at = "polling" /\ dispatch[setup.dispatch].at = "ended"
    /\ LET result == dispatch[setup.dispatch]
       IN setup' = IF result.told = "response"
                   THEN [at |-> "installing", dispatch |-> None, response |-> result.response]
                   ELSE [setup EXCEPT !.at = "sleeping", !.dispatch = None]
    /\ UNCHANGED <<files, server, submits, answers, home, mishaps>>

\* The read times out while the Server is still waiting.
PollTimesOut ==
    /\ Mishap
    /\ setup.at = "polling" /\ dispatch[setup.dispatch].at # "ended"
    /\ setup' = [setup EXCEPT !.at = "sleeping", !.dispatch = None]
    /\ UNCHANGED <<files, server, submits, answers, home>>

\* install_home_enrollment_response verifies the files that exist.
Installable(response) == files.response \in {None, response}

\* The response, then the grant and the descriptors: each file is written, or
\* verified when it exists; a conflict ends the setup.
InstallResponse ==
    /\ setup.at = "installing"
    /\ \/ /\ Installable(setup.response)
          /\ files' = [files EXCEPT !.response = setup.response]
          /\ setup' = [setup EXCEPT !.at = "configuring"]
       \/ /\ ~Installable(setup.response)
          /\ setup' = [setup EXCEPT !.at = "off", !.response = None]
          /\ UNCHANGED files
    /\ UNCHANGED <<server, submits, answers, home, mishaps>>

\* The cache, the store and then the configuration file are created.
WriteConfig ==
    /\ setup.at = "configuring" /\ ~files.config
    /\ files' = [files EXCEPT !.config = TRUE]
    /\ UNCHANGED <<setup, server, submits, answers, home, mishaps>>

RemoveBootstrapState ==
    /\ setup.at = "configuring" /\ files.config
    /\ files' = [files EXCEPT !.state = FALSE]
    /\ setup' = [at |-> "off", dispatch |-> None, response |-> None]
    /\ UNCHANGED <<server, submits, answers, home, mishaps>>

SetupCrashes ==
    /\ Mishap
    /\ setup.at # "off"
    /\ setup' = [at |-> "off", dispatch |-> None, response |-> None]
    /\ UNCHANGED <<files, server, submits, answers, home>>

(***************************************************************************)
(* The Server.                                                             *)
(***************************************************************************)
\* send_control_until: the request enters the queue of a global Home.
SendSubmit(d, i) ==
    /\ dispatch[d].at = "waiting" /\ i \in dispatch[d].unsent
    /\ dispatch' = [dispatch EXCEPT ![d].unsent = @ \ {i}]
    /\ submits' = [submits EXCEPT ![i] = @ + 1]
    /\ UNCHANGED <<client, record, completing, imported, answers, home, mishaps>>

\* The record expires when its dispatch runs out of time, and takes an unused
\* sender with it when it is dropped.
Expired == dispatch[record.dispatch].late
Discard == IF record.sender THEN Drop(dispatch, record.dispatch) ELSE dispatch

\* One answer less to wait for.  The last one settles the dispatch: the record
\* goes and the channel, if nobody has taken it, is told.
Countdown(accepted) ==
    LET left == [record EXCEPT !.remaining = IF @ = 0 THEN 0 ELSE @ - 1,
                               !.accepted = @ \/ accepted]
    IN  IF left.remaining > 0
        THEN record' = left /\ UNCHANGED dispatch
        ELSE /\ record' = NoRecord
             /\ dispatch' = IF record.sender
                            THEN [dispatch EXCEPT ![record.dispatch].told =
                                    IF left.accepted THEN "accepted" ELSE "rejected"]
                            ELSE dispatch

\* fail_home_enrollment_dispatch, for a queue that is closed or stays full: it counts
\* only while the record is still of this dispatch.
SendFails(d, i) ==
    /\ Mishap
    /\ dispatch[d].at = "waiting" /\ i \in dispatch[d].unsent
    /\ LET sent == [dispatch EXCEPT ![d].unsent = @ \ {i}]
           left == IF record.remaining = 0 THEN 0 ELSE record.remaining - 1
       IN  IF record.dispatch # d
           THEN UNCHANGED record /\ dispatch' = sent
           ELSE IF left > 0
           THEN record' = [record EXCEPT !.remaining = left] /\ dispatch' = sent
           ELSE /\ record' = NoRecord
                /\ dispatch' = IF record.sender
                               THEN [sent EXCEPT ![d].told =
                                       IF record.accepted THEN "accepted" ELSE "rejected"]
                               ELSE sent
    /\ UNCHANGED <<client, completing, imported, submits, answers, home>>

\* complete_home_enrollment for an answer without a response.
CountAnswer(i) ==
    /\ completing[i].at = "idle" /\ answers[i] # <<>>
    /\ Head(answers[i]) \in {None, Unknown}
    /\ answers' = [answers EXCEPT ![i] = Tail(@)]
    /\ \/ /\ record.dispatch = None
          /\ UNCHANGED <<record, dispatch>>
       \/ /\ record.dispatch # None /\ Expired
          /\ record' = NoRecord /\ dispatch' = Discard
       \/ /\ record.dispatch # None /\ ~Expired
          /\ Countdown(Head(answers[i]) = None)
    /\ UNCHANGED <<client, completing, imported, submits, home, mishaps>>

\* complete_home_enrollment for a response that matches the request: the sender is
\* taken out of the record and the lock released.
TakeSender(i) ==
    /\ completing[i].at = "idle" /\ answers[i] # <<>>
    /\ Head(answers[i]) \in Responses
    /\ answers' = [answers EXCEPT ![i] = Tail(@)]
    /\ \/ /\ record.dispatch = None
          /\ UNCHANGED <<record, dispatch, completing>>
       \/ /\ record.dispatch # None /\ Expired
          /\ record' = NoRecord /\ dispatch' = Discard
          /\ UNCHANGED completing
       \/ /\ record.dispatch # None /\ ~Expired
          /\ completing' = [completing EXCEPT ![i] =
                [at |-> "importing", response |-> Head(answers[i]),
                 dispatch |-> IF record.sender THEN record.dispatch ELSE None]]
          /\ record' = [record EXCEPT !.sender = FALSE]
          /\ UNCHANGED dispatch
    /\ UNCHANGED <<client, imported, submits, home, mishaps>>

\* Mutant of Authorized: a later approval replaces the endpoint of the Home.
ReplaceEndpoint(response) == TRUE

\* import_home_endpoint and import_business_home: the endpoint of a Home is
\* authorized once, and a retry must present the same credential.
Authorized(response) == imported \in {None, response}

\* The control session of a Home ends with what is queued in it.
EndSession(i) ==
    /\ submits' = [submits EXCEPT ![i] = 0]
    /\ answers' = [answers EXCEPT ![i] = <<>>]

\* The authorization is written and broadcast.  Another endpoint is refused: the
\* error drops the sender and closes the control session of the approving Home.
ImportEndpoint(i) ==
    /\ completing[i].at = "importing"
    /\ \/ /\ Authorized(completing[i].response)
          /\ imported' = completing[i].response
          /\ completing' = [completing EXCEPT ![i].at = "imported"]
          /\ UNCHANGED <<dispatch, submits, answers>>
       \/ /\ ~Authorized(completing[i].response)
          /\ completing' = [completing EXCEPT ![i] = Resting]
          /\ dispatch' = IF completing[i].dispatch # None
                         THEN Drop(dispatch, completing[i].dispatch) ELSE dispatch
          /\ EndSession(i)
          /\ UNCHANGED imported
    /\ UNCHANGED <<client, record, home, mishaps>>

\* The record of the request id is removed, whichever dispatch it is by now, and
\* the response is sent to the dispatch whose sender was taken.
FinishCompletion(i) ==
    /\ completing[i].at = "imported"
    /\ record' = NoRecord
    /\ LET taken  == completing[i].dispatch
           closed == Discard
       IN dispatch' = IF taken # None /\ closed[taken].told = "nothing"
                      THEN [closed EXCEPT ![taken].told = "response",
                                          ![taken].response = completing[i].response]
                      ELSE closed
    /\ completing' = [completing EXCEPT ![i] = Resting]
    /\ UNCHANGED <<client, imported, submits, answers, home, mishaps>>

DeadlinePasses(d) ==
    /\ Mishap
    /\ dispatch[d].at = "waiting" /\ ~dispatch[d].late
    /\ dispatch' = [dispatch EXCEPT ![d].late = TRUE]
    /\ UNCHANGED <<client, record, completing, imported, submits, answers, home>>

\* cleanup_pending
CleanupPending ==
    /\ record.dispatch # None /\ Expired
    /\ record' = NoRecord
    /\ dispatch' = IF record.sender
                   THEN [dispatch EXCEPT ![record.dispatch].told = "rejected"]
                   ELSE dispatch
    /\ UNCHANGED <<client, completing, imported, submits, answers, home, mishaps>>

\* Mutant of RemoveOwnRecord: the record is left for the cleanup task.
LeaveRecord(d) == record

\* "Reused request ids must not let an older completion delete a newer dispatch."
RemoveOwnRecord(d) == IF record.dispatch = d THEN NoRecord ELSE record

\* dispatch_home_enrollment after its select loop: told, or out of time.
EndDispatch(d) ==
    /\ dispatch[d].at = "waiting"
    /\ dispatch[d].told # "nothing" \/ dispatch[d].late
    /\ dispatch' = [dispatch EXCEPT ![d].at = "ended", ![d].unsent = {},
                                    ![d].told = IF @ = "nothing" THEN "rejected" ELSE @]
    /\ record' = RemoveOwnRecord(d)
    /\ UNCHANGED <<client, completing, imported, submits, answers, home, mishaps>>

ServerRestart ==
    /\ Mishap
    /\ dispatch' = [d \in Dispatches |->
                      IF dispatch[d].at = "waiting"
                      THEN [Idle EXCEPT !.at = "ended", !.told = "rejected"] ELSE dispatch[d]]
    /\ record' = NoRecord
    /\ completing' = [i \in Issuers |-> Resting]
    /\ submits' = [i \in Issuers |-> 0]
    /\ answers' = [i \in Issuers |-> <<>>]
    /\ UNCHANGED <<client, imported, home>>

(***************************************************************************)
(* A global Home.                                                          *)
(***************************************************************************)
\* encode_enrollment_result, queued in the control session of the Home.
Reply(i, answer) == answers' = [answers EXCEPT ![i] = Append(@, answer)]

\* persist_home_enrollment_request: a known request is answered with its response, a
\* new one kept unless the inbox is full.
PersistRequest(i) ==
    /\ submits[i] > 0
    /\ submits' = [submits EXCEPT ![i] = @ - 1]
    /\ \/ /\ inbox[i] # Unknown
          /\ Reply(i, inbox[i])
          /\ UNCHANGED <<inbox, mishaps>>
       \/ /\ inbox[i] = Unknown
          /\ inbox' = [inbox EXCEPT ![i] = None]
          /\ Reply(i, None)
          /\ UNCHANGED mishaps
       \/ /\ inbox[i] = Unknown /\ Mishap
          /\ Reply(i, Unknown)
          /\ UNCHANGED inbox
    /\ UNCHANGED <<client, server, approving, signed>>

\* approve_home_enrollment reads the record; an approved one is only confirmed.
ReadForApproval(i, o) ==
    /\ approving[i, o].at = "idle" /\ inbox[i] = None
    /\ approving' = [approving EXCEPT ![<<i, o>>].at = "read"]
    /\ UNCHANGED <<client, server, submits, answers, inbox, signed, mishaps>>

\* The permit is tried after the record was read, and kept until it is written.
SignApproval(i, o) ==
    /\ approving[i, o].at = "read"
    /\ IF \E p \in Operators : approving[i, p].at = "signed"
       THEN /\ approving' = [approving EXCEPT ![<<i, o>>].at = "idle"]
            /\ UNCHANGED signed
       ELSE /\ signed < MaxApprovals
            /\ signed' = signed + 1
            /\ approving' = [approving EXCEPT ![<<i, o>>] = [at |-> "signed", response |-> signed + 1]]
    /\ UNCHANGED <<client, server, submits, answers, inbox, mishaps>>

CommitApproval(i, o) ==
    /\ approving[i, o].at = "signed"
    /\ inbox' = [inbox EXCEPT ![i] = approving[i, o].response]
    /\ approving' = [approving EXCEPT ![<<i, o>>] = [at |-> "idle", response |-> None]]
    /\ UNCHANGED <<client, server, submits, answers, signed, mishaps>>

\* prune_remote_enrollment_inbox_store: the retention of the record is over.
PruneRequest(i) ==
    /\ Mishap
    /\ inbox[i] # Unknown
    /\ inbox' = [inbox EXCEPT ![i] = Unknown]
    /\ UNCHANGED <<client, server, submits, answers, approving, signed>>

Next ==
    \/ StartSetup \/ CreateRequest \/ SaveBootstrapState \/ Dispatch
    \/ PollReturns \/ PollTimesOut \/ InstallResponse \/ WriteConfig
    \/ RemoveBootstrapState \/ SetupCrashes
    \/ CleanupPending \/ ServerRestart
    \/ \E d \in Dispatches : DeadlinePasses(d) \/ EndDispatch(d)
    \/ \E d \in Dispatches, i \in Issuers : SendSubmit(d, i) \/ SendFails(d, i)
    \/ \E i \in Issuers :
          \/ CountAnswer(i) \/ TakeSender(i) \/ ImportEndpoint(i)
          \/ FinishCompletion(i) \/ PersistRequest(i) \/ PruneRequest(i)
          \/ \E o \in Operators :
                ReadForApproval(i, o) \/ SignApproval(i, o) \/ CommitApproval(i, o)

Spec == Init /\ [][Next]_vars

TypeOK ==
    /\ files \in [dir : BOOLEAN, state : BOOLEAN, response : 0..MaxApprovals,
                  config : BOOLEAN]
    /\ setup \in [at : {"off", "creating", "sleeping", "polling", "installing",
                        "configuring"},
                  dispatch : 0..MaxDispatches, response : 0..MaxApprovals]
    /\ dispatch \in [Dispatches -> [at : {"idle", "waiting", "ended"}, told : Told,
                                    response : 0..MaxApprovals, unsent : SUBSET Issuers,
                                    late : BOOLEAN]]
    /\ record \in [dispatch : 0..MaxDispatches, remaining : 0..Cardinality(Issuers),
                   accepted : BOOLEAN, sender : BOOLEAN]
    /\ submits \in [Issuers -> 0..MaxDispatches]
    /\ answers \in [Issuers -> Seq(0..Unknown)]
    /\ completing \in [Issuers -> [at : {"idle", "importing", "imported"},
                                   response : 0..MaxApprovals, dispatch : 0..MaxDispatches]]
    /\ imported \in 0..MaxApprovals
    /\ inbox \in [Issuers -> 0..Unknown]
    /\ approving \in [Issuers \X Operators ->
                        [at : {"idle", "read", "signed"}, response : 0..MaxApprovals]]
    /\ signed \in 0..MaxApprovals /\ mishaps \in 0..MaxMishaps

\* What a new Home installs is the endpoint the Server has authorized, and a setup
\* that is resumed after a crash never finds files of another approval: approvals of
\* several global Homes, or of several operators, compete, and dispatches of several
\* polls end out of order (complete_home_enrollment imports before it answers).
InstallsTheAuthorized ==
    /\ files.response # None => files.response = imported
    /\ setup.response # None =>
          setup.response = imported /\ files.response \in {None, setup.response}

\* A record belongs to a dispatch that is still waiting: one that outlived its dispatch
\* would refuse every later poll as "already being dispatched"
\* (dispatch_home_enrollment removes its record whatever the outcome).
RecordHasItsDispatch ==
    record.dispatch # None => dispatch[record.dispatch].at = "waiting"

=============================================================================
