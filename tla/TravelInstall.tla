---------------------------- MODULE TravelInstall ----------------------------
(***************************************************************************)
(* The first enrollment of a Travel installation: an empty directory       *)
(* becomes a working installation once a Home has approved its request.    *)
(* The approval may take days, so the steps leave files that a later       *)
(* attempt takes up; the process may die after each of them, and while a   *)
(* file is written that is not renamed into place.                         *)
(*                                                                         *)
(* A legacy enrollment ends with its configuration.  A directed one (for   *)
(* one business or one service class) keeps the response and the           *)
(* configuration in a journal before it writes the configuration, and ends *)
(* with a binding that says the installation is complete.                  *)
(*                                                                         *)
(* The Home answers one request with one response (RemoteEnrollment): a    *)
(* file holds that response's content, or is torn, or is absent.           *)
(***************************************************************************)
EXTENDS Naturals, FiniteSets

CONSTANTS
    Intents,    \* "legacy", "directed"
    Identity,   \* files install_enrollment_response and its caller write
    MaxRelays,  \* Relays that are polled, one after the other
    MaxDeaths   \* bound: crashes of an attempt

VARIABLES
    intent,     \* what the operator asked for
    cert,       \* the directory with the keys and the request
    boot,       \* bootstrap-enrollment.json
    identity,   \* Identity -> the files of the response
    instJournal, \* the installation journal of a directed enrollment
    config,     \* travelagent.toml
    recorded,   \* the record in the enrollment outbox
    binding,    \* the marker of a completed directed installation
    attempt,    \* what the running attempt is doing
    approved,   \* external: the Home has approved the request
    spoiled,    \* history: a file was torn, or a request died with its directory
    deaths      \* crashes so far

vars == <<intent, cert, boot, identity, instJournal, config, recorded, binding,
          attempt, approved, spoiled, deaths>>

disk == <<cert, boot, identity, instJournal, config, recorded, binding>>

States == {"absent", "torn", "ready"}

Init ==
    /\ intent \in Intents
    /\ cert = "absent"
    /\ boot = "absent"
    /\ identity = [f \in Identity |-> "absent"]
    /\ instJournal = "absent"
    /\ config = "absent"
    /\ recorded = FALSE
    /\ binding = FALSE
    /\ attempt = [at |-> "none"]
    /\ approved = FALSE
    /\ spoiled = FALSE
    /\ deaths = 0

directed == intent = "directed"

At(step) == attempt.at = step
Go(step) == attempt' = [at |-> step]

\* The attempt ends with an error the operator sees; the files stay.
Refused == Go("refused")
Ended == {"none", "installed", "refused", "timeout"}

\* The process dies while it writes a file in place.
Dies ==
    /\ deaths < MaxDeaths
    /\ deaths' = deaths + 1
    /\ spoiled' = TRUE
    /\ Go("none")

(***************************************************************************)
(* Where an attempt begins.                                                *)
(***************************************************************************)
Begin ==
    /\ attempt.at \in Ended \ {"installed"}
    /\ Go("discover")
    /\ UNCHANGED <<intent, disk, approved, spoiled, deaths>>

\* The Relay's deployment trust is fetched and verified, or nothing is done.
Discover ==
    /\ At("discover")
    /\ Go("look") \/ Go("timeout")
    /\ UNCHANGED <<intent, disk, approved, spoiled, deaths>>

\* A completed directed installation is verified as a whole.
ValidBinding ==
    config = "ready" /\ \A f \in Identity : identity[f] = "ready"

\* Mutant: a configuration is taken for a finished installation.
FoundConfig ==
    CASE directed /\ binding -> IF ValidBinding THEN "clean" ELSE "refused"
      [] config # "absent" /\ ~(directed /\ binding) -> "refused"
      [] OTHER -> IF cert = "absent" THEN "create" ELSE "poll"

\* What earlier attempts left decides: a binding (only leftovers go), a
\* configuration that a legacy enrollment must not touch, a request to take up,
\* nothing, or a directory without its request.
Found ==
    CASE directed /\ binding -> IF ValidBinding THEN "clean" ELSE "refused"
      [] ~directed /\ config # "absent" -> "refused"
      [] ~(directed /\ binding) /\ (directed \/ config = "absent") ->
            IF boot = "ready" /\ cert = "ready" THEN "poll"
            ELSE IF boot = "absent" /\ cert = "absent" THEN "create" ELSE "refused"

Look ==
    /\ At("look")
    /\ Go(Found)
    /\ UNCHANGED <<intent, disk, approved, spoiled, deaths>>

\* create_enrollment_request: the directory, the keys and the request.
CreateRequest ==
    /\ At("create")
    /\ \/ cert' = "ready" /\ Go("remember") /\ UNCHANGED <<spoiled, deaths>>
       \/ cert' = "torn" /\ Dies
    /\ UNCHANGED <<intent, boot, identity, instJournal, config, recorded, binding, approved>>

\* bootstrap-enrollment.json, with the token that retrieves the answer.
Remember ==
    /\ At("remember")
    /\ \/ boot' = "ready" /\ Go("poll") /\ UNCHANGED <<spoiled, deaths>>
       \/ boot' = "torn" /\ Dies
    /\ UNCHANGED <<intent, cert, identity, instJournal, config, recorded, binding, approved>>

(***************************************************************************)
(* Waiting for the approval.                                               *)
(***************************************************************************)
\* External: a global Home approves the request; its ledger makes every later
\* answer the same.
Approve ==
    /\ boot = "ready"
    /\ ~approved
    /\ approved' = TRUE
    /\ UNCHANGED <<intent, disk, attempt, spoiled, deaths>>

\* A directed installation with a journal has its response; otherwise the Relays
\* are asked in turn.
Poll ==
    /\ At("poll")
    /\ IF directed /\ instJournal = "ready" THEN Go("identity")
       ELSE attempt' = [at |-> "asking", relay |-> 1]
    /\ UNCHANGED <<intent, disk, approved, spoiled, deaths>>

\* poll_bootstrap_relay, and the Relay that forwards it: the response, not yet,
\* or an error, after which the next Relay is asked.
Ask ==
    /\ At("asking")
    /\ \/ approved /\ Go("identity")
       \/ IF attempt.relay < MaxRelays
          THEN attempt' = [attempt EXCEPT !.relay = @ + 1]
          ELSE Go("poll") \/ Go("timeout")
    /\ UNCHANGED <<intent, disk, approved, spoiled, deaths>>

(***************************************************************************)
(* Installing.                                                             *)
(***************************************************************************)
\* write_or_verify of one file: written in place, or compared.
WriteIdentity(f) ==
    /\ At("identity")
    /\ \/ /\ identity[f] = "absent"
          /\ \/ /\ identity' = [identity EXCEPT ![f] = "ready"]
                /\ UNCHANGED <<attempt, spoiled, deaths>>
             \/ /\ identity' = [identity EXCEPT ![f] = "torn"]
                /\ Dies
       \/ /\ identity[f] = "torn"
          /\ Refused
          /\ UNCHANGED <<identity, spoiled, deaths>>
    /\ UNCHANGED <<intent, cert, boot, instJournal, config, recorded, binding, approved>>

Installed == \A f \in Identity : identity[f] = "ready"

\* The files are there.  A directed enrollment journals the response and the
\* configuration first, by a rename.
WriteJournal ==
    /\ At("identity")
    /\ Installed
    /\ instJournal' = IF directed THEN "ready" ELSE instJournal
    /\ Go("config")
    /\ UNCHANGED <<intent, cert, boot, identity, config, recorded, binding, approved,
                   spoiled, deaths>>

\* Mutant: the binding is written with the configuration, before the record.
BindFirst ==
    /\ At("config") /\ directed /\ config = "absent"
    /\ config' = "ready"
    /\ binding' = TRUE
    /\ Go("record")
    /\ UNCHANGED <<intent, cert, boot, identity, instJournal, recorded, approved,
                   spoiled, deaths>>

\* A directed enrollment renames its configuration into place, or finds it equal
\* to the journal's; a legacy one creates and writes it.
WriteConfig ==
    /\ At("config")
    /\ \/ /\ config' = "ready"
          /\ Go("record")
          /\ UNCHANGED <<spoiled, deaths>>
       \/ /\ ~directed
          /\ config' = "torn"
          /\ Dies
    /\ UNCHANGED <<intent, cert, boot, identity, instJournal, recorded, binding, approved>>

\* The outbox record that will acknowledge the installation to the Home.
WriteRecord ==
    /\ At("record")
    /\ recorded' = TRUE
    /\ Go(IF directed THEN "bind" ELSE "clean")
    /\ UNCHANGED <<intent, cert, boot, identity, instJournal, config, binding, approved,
                   spoiled, deaths>>

\* The installation is loaded as a whole before the binding is renamed into
\* place.
WriteBinding ==
    /\ At("bind")
    /\ ValidBinding
    /\ binding' = TRUE
    /\ Go("clean")
    /\ UNCHANGED <<intent, cert, boot, identity, instJournal, config, recorded, approved,
                   spoiled, deaths>>

\* bootstrap-enrollment.json goes, and then the journal.
RemoveBoot ==
    /\ At("clean")
    /\ boot # "absent"
    /\ boot' = "absent"
    /\ UNCHANGED <<intent, cert, identity, instJournal, config, recorded, binding, attempt,
                   approved, spoiled, deaths>>

RemoveJournal ==
    /\ At("clean")
    /\ boot = "absent"
    /\ instJournal' = "absent"
    /\ Go("installed")
    /\ UNCHANGED <<intent, cert, boot, identity, config, recorded, binding, approved,
                   spoiled, deaths>>

\* The process dies between two steps.
Crash ==
    /\ attempt.at \notin Ended
    /\ deaths < MaxDeaths
    /\ deaths' = deaths + 1
    /\ spoiled' = (spoiled \/ At("remember"))
    /\ Go("none")
    /\ UNCHANGED <<intent, disk, approved>>

Next ==
    \/ Begin \/ Discover \/ Look \/ CreateRequest \/ Remember \/ Approve \/ Poll \/ Ask
    \/ WriteJournal \/ WriteConfig \/ WriteRecord \/ WriteBinding
    \/ RemoveBoot \/ RemoveJournal \/ Crash
    \/ \E f \in Identity : WriteIdentity(f)

Spec == Init /\ [][Next]_vars

(***************************************************************************)
(* Properties.                                                             *)
(***************************************************************************)
TypeOK ==
    /\ intent \in Intents
    /\ {cert, boot, instJournal, config} \subseteq States
    /\ identity \in [Identity -> States]
    /\ {recorded, binding, approved, spoiled} \subseteq BOOLEAN
    /\ attempt.at \in Ended \union {"discover", "look", "create", "remember", "poll",
          "asking", "identity", "config", "record", "bind", "clean"}
    /\ attempt.at = "asking" => attempt.relay \in 1..MaxRelays
    /\ deaths \in 0..MaxDeaths

\* A binding is never published before everything it stands for is durable: the
\* identity, the configuration, and the record that acknowledges the
\* installation to the Home.  With it the application is started at once.
BindingIsComplete ==
    binding => /\ cert = "ready"
               /\ \A f \in Identity : identity[f] = "ready"
               /\ config = "ready"
               /\ recorded

\* A directed installation that was interrupted between two steps is never
\* refused by a later attempt: each step's leftovers are the next attempt's
\* start.  (A file torn while it was written in place, and a request whose token
\* was not yet stored, need an operator.)
DirectedResumes == directed /\ ~spoiled => ~At("refused")

=============================================================================
