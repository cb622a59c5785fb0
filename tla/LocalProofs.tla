----------------------------- MODULE LocalProofs -----------------------------
(***************************************************************************)
(* What one agent does on its own, for any number of files, sessions,      *)
(* buckets, services, listeners, associations, Carriers, callers, crashes  *)
(* and failures: a binding stands for a complete installation, rotations   *)
(* one after another leave no keys half rotated, samples are counted once, *)
(* what is shown is served, a live association is registered, and no task  *)
(* runs after a stop.                                                      *)
(*                                                                         *)
(* One part per component.  Each names the component's variables, states   *)
(* its inductive invariant as a conjunction of named parts, shows that the *)
(* component's steps keep it, and ends in the theorem.                     *)
(***************************************************************************)
EXTENDS LocalAgent, KeyRotationProofs, FiniteSetTheorems, FunctionTheorems, SequenceTheorems

-----------------------------------------------------------------------------
(* The installation of a Travel (module TravelInstall).                     *)

\* The variables by the names that TravelInstall has for them; so in each part.
iIntent == v1
iCert == v2
iBoot == v3
iIdentity == v4
iJournal == v5
iConfig == v6
iRecorded == v7
iBinding == v8
iAttempt == v9
iApproved == v10
iSpoiled == v11
iDeaths == v12
USE DEF iIntent, iCert, iBoot, iIdentity, iJournal, iConfig, iRecorded, iBinding, iAttempt,
        iApproved, iSpoiled, iDeaths

\* Only its own steps change the installation.
LEMMA InstallTurn ==
  ASSUME [LocalNext]_<<vars, shared, comp>>, comp' = "install"
  PROVE  comp = "install" /\ [Install!Next]_(Install!vars)
  BY DEF LocalNext, InstallStep, RotationStep, SamplesStep, ListenersStep, DatagramsStep,
         RuntimeStep, shared, Install!vars, Install!disk

InstallAttempt ==
    [at : Install!Ended \cup {"discover", "look", "create", "remember", "poll", "identity",
                              "config", "record", "bind", "clean"}]
    \cup [at : {"asking"}, relay : 1..PolledRelays]

InstallKinds ==
    /\ iIntent \in Intents
    /\ iCert \in Install!States /\ iBoot \in Install!States
    /\ iJournal \in Install!States /\ iConfig \in Install!States
    /\ iIdentity \in [IdentityFiles -> Install!States]
    /\ iRecorded \in BOOLEAN /\ iBinding \in BOOLEAN /\ iApproved \in BOOLEAN
    /\ iSpoiled \in BOOLEAN /\ iDeaths \in 0..MaxDeaths
    /\ iAttempt \in InstallAttempt

\* The steps of an attempt after its request are taken with the request, those after
\* the configuration with that, and the last one with the record: what was written
\* before a step is there.
InstallInOrder ==
    /\ iAttempt.at \in {"remember", "poll", "asking", "identity", "config", "record", "bind"} =>
          iCert = "ready"
    /\ iAttempt.at = "bind" => iRecorded /\ Install!directed
    /\ iBinding =>
          /\ iCert = "ready" /\ iConfig = "ready" /\ iRecorded
          /\ \A f \in IdentityFiles : iIdentity[f] = "ready"
          /\ Install!directed
          /\ iAttempt.at \in Install!Ended \cup {"discover", "look", "clean"}

\* Between two steps of a directed installation the request and its bootstrap file
\* are there together, until the binding; and no file is torn.
InstallResumes ==
    Install!directed /\ ~iSpoiled =>
        /\ \A f \in IdentityFiles : iIdentity[f] # "torn"
        /\ iAttempt.at # "refused"
        /\ ~iBinding =>
              /\ iAttempt.at = "remember" => iBoot = "absent"
              /\ iAttempt.at # "remember" =>
                    iCert = iBoot /\ iCert \in {"absent", "ready"}
              /\ iAttempt.at = "create" => iCert = "absent"
              /\ iAttempt.at # "clean"

InstallInv == InstallKinds /\ InstallInOrder /\ InstallResumes

\* An attempt goes on to another step.
LEMMA InstallGoes ==
  ASSUME NEW s \in Install!Ended \cup {"discover", "look", "create", "remember", "poll",
                              "identity", "config", "record", "bind", "clean"},
         Install!Go(s)
  PROVE  iAttempt' \in InstallAttempt /\ iAttempt'.at = s
  BY DEF Install!Go, InstallAttempt

\* An attempt that is at a step.
LEMMA InstallAt ==
  ASSUME NEW s, Install!At(s)
  PROVE  iAttempt.at = s
  BY DEF Install!At

\* A process that dies in the middle of a write leaves no attempt and spoils its file.
LEMMA InstallDies ==
  ASSUME InstallKinds, Install!Dies
  PROVE  /\ iAttempt' \in InstallAttempt /\ iAttempt'.at = "none"
         /\ iSpoiled' = TRUE /\ iDeaths' \in 0..MaxDeaths
  BY InstallGoes, InstallConstants DEF Install!Dies, Install!Ended, InstallKinds

\* The leftovers of an earlier attempt decide where this one goes on.
LEMMA InstallLooks ==
  ASSUME InstallInv, Install!Look
  PROVE  InstallInv'
<1>1. iAttempt.at = "look" /\ Install!Go(Install!Found)
  BY InstallAt DEF Install!Look
<1>2. /\ Install!Found \in {"clean", "refused", "poll", "create"}
      /\ Install!Found = "clean" => Install!directed /\ iBinding
      /\ Install!Found \in {"poll", "create"} => ~(Install!directed /\ iBinding)
      /\ Install!Found = "poll" => iBoot = "ready" /\ iCert = "ready"
      /\ Install!Found = "create" => iBoot = "absent" /\ iCert = "absent"
      /\ Install!Found = "refused" =>
            \/ ~Install!directed
            \/ iBinding /\ ~Install!ValidBinding
            \/ ~iBinding /\ ~(iBoot = "ready" /\ iCert = "ready") /\ ~(iBoot = "absent" /\ iCert = "absent")
  BY Zenon DEF Install!Found
<1>3. iAttempt' \in InstallAttempt /\ iAttempt'.at = Install!Found
  BY <1>1, <1>2, InstallGoes DEF Install!Ended
<1> QED
  BY <1>1, <1>2, <1>3 DEF Install!Look, Install!disk, InstallInv, InstallKinds, InstallInOrder,
     InstallResumes, Install!ValidBinding, Install!directed, Install!Ended

\* The steps up to the answer of a Relay.
LEMMA InstallPrepares ==
  ASSUME InstallInv,
         \/ Install!Begin \/ Install!Discover \/ Install!CreateRequest \/ Install!Remember
         \/ Install!Approve \/ Install!Poll \/ Install!Ask
  PROVE  InstallInv'
<1> USE DEF InstallInv
<1>1. CASE Install!Begin
  BY <1>1, InstallGoes DEF Install!Begin, Install!disk, InstallKinds, InstallInOrder, InstallResumes,
     Install!Ended, Install!directed
<1>2. CASE Install!Discover
  BY <1>2, InstallGoes, InstallAt DEF Install!Discover, Install!disk, InstallKinds, InstallInOrder,
     InstallResumes, Install!Ended, Install!directed
<1>3. CASE Install!CreateRequest
  <2>1. CASE iCert' = "ready" /\ Install!Go("remember") /\ UNCHANGED <<iSpoiled, iDeaths>>
    BY <1>3, <2>1, InstallGoes, InstallAt DEF Install!CreateRequest, InstallKinds, InstallInOrder,
       InstallResumes, Install!Ended, Install!directed, Install!States
  <2>2. CASE iCert' = "torn" /\ Install!Dies
    BY <1>3, <2>2, InstallDies, InstallAt DEF Install!CreateRequest, InstallKinds, InstallInOrder,
       InstallResumes, Install!Ended, Install!directed, Install!States
  <2> QED BY <1>3, <2>1, <2>2 DEF Install!CreateRequest
<1>4. CASE Install!Remember
  <2>1. CASE iBoot' = "ready" /\ Install!Go("poll") /\ UNCHANGED <<iSpoiled, iDeaths>>
    BY <1>4, <2>1, InstallGoes, InstallAt DEF Install!Remember, InstallKinds, InstallInOrder,
       InstallResumes, Install!Ended, Install!directed, Install!States
  <2>2. CASE iBoot' = "torn" /\ Install!Dies
    BY <1>4, <2>2, InstallDies, InstallAt DEF Install!Remember, InstallKinds, InstallInOrder,
       InstallResumes, Install!Ended, Install!directed, Install!States
  <2> QED BY <1>4, <2>1, <2>2 DEF Install!Remember
<1>5. CASE Install!Approve
  BY <1>5 DEF Install!Approve, Install!disk, InstallKinds, InstallInOrder, InstallResumes,
     Install!directed
<1>6. CASE Install!Poll
  <2>1. iAttempt' = [at |-> "asking", relay |-> 1] =>
           iAttempt' \in InstallAttempt /\ iAttempt'.at = "asking"
    BY InstallConstants DEF InstallAttempt
  <2> QED
    BY <1>6, <2>1, InstallGoes, InstallAt DEF Install!Poll, Install!disk, InstallKinds,
       InstallInOrder, InstallResumes, Install!Ended, Install!directed
<1>7. CASE Install!Ask
  <2>1. /\ iAttempt.at = "asking" /\ iAttempt.relay \in 1..PolledRelays
        /\ iAttempt \in [at : {"asking"}, relay : 1..PolledRelays]
    BY <1>7, InstallAt DEF Install!Ask, InstallKinds, InstallAttempt, Install!Ended
  <2>2. CASE iAttempt' = [iAttempt EXCEPT !.relay = @ + 1] /\ iAttempt.relay < PolledRelays
    <3>1. iAttempt' \in InstallAttempt /\ iAttempt'.at = "asking"
      BY <2>1, <2>2, InstallConstants DEF InstallAttempt
    <3> QED
      BY <1>7, <2>1, <3>1 DEF Install!Ask, Install!disk, InstallKinds,
         InstallInOrder, InstallResumes, Install!Ended, Install!directed
  <2>3. CASE Install!Go("identity") \/ Install!Go("poll") \/ Install!Go("timeout")
    BY <1>7, <2>1, <2>3, InstallGoes DEF Install!Ask, Install!disk, InstallKinds,
       InstallInOrder, InstallResumes, Install!Ended, Install!directed
  <2> QED BY <1>7, <2>2, <2>3 DEF Install!Ask
<1> QED BY <1>1, <1>2, <1>3, <1>4, <1>5, <1>6, <1>7

\* The steps that write what the answer brought.
LEMMA InstallWrites ==
  ASSUME InstallInv,
         \/ \E f \in IdentityFiles : Install!WriteIdentity(f)
         \/ Install!WriteJournal \/ Install!WriteConfig \/ Install!WriteRecord
         \/ Install!WriteBinding \/ Install!RemoveBoot \/ Install!RemoveJournal
         \/ Install!Crash
  PROVE  InstallInv'
<1> USE DEF InstallInv
<1>1. ASSUME NEW f \in IdentityFiles, Install!WriteIdentity(f) PROVE InstallInv'
  <2>0. iAttempt.at = "identity" BY <1>1, InstallAt DEF Install!WriteIdentity
  <2>1. CASE iIdentity[f] = "absent" /\ iIdentity' = [iIdentity EXCEPT ![f] = "ready"]
             /\ UNCHANGED <<iAttempt, iSpoiled, iDeaths>>
    BY <1>1, <2>0, <2>1 DEF Install!WriteIdentity, InstallKinds, InstallInOrder, InstallResumes,
       Install!States, Install!Ended, Install!directed
  <2>2. CASE iIdentity[f] = "absent" /\ iIdentity' = [iIdentity EXCEPT ![f] = "torn"] /\ Install!Dies
    BY <1>1, <2>0, <2>2, InstallDies DEF Install!WriteIdentity, InstallKinds, InstallInOrder,
       InstallResumes, Install!States, Install!Ended, Install!directed
  <2>3. CASE iIdentity[f] = "torn" /\ Install!Refused /\ UNCHANGED <<iIdentity, iSpoiled, iDeaths>>
    BY <1>1, <2>0, <2>3, InstallGoes DEF Install!WriteIdentity, Install!Refused, InstallKinds,
       InstallInOrder, InstallResumes, Install!Ended, Install!directed
  <2> QED BY <1>1, <2>1, <2>2, <2>3 DEF Install!WriteIdentity
<1>2. CASE Install!WriteJournal
  BY <1>2, InstallGoes, InstallAt DEF Install!WriteJournal, InstallKinds, InstallInOrder,
     InstallResumes, Install!States, Install!Ended, Install!directed
<1>3. CASE Install!WriteConfig
  <2>0. iAttempt.at = "config" BY <1>3, InstallAt DEF Install!WriteConfig
  <2>1. CASE iConfig' = "ready" /\ Install!Go("record") /\ UNCHANGED <<iSpoiled, iDeaths>>
    BY <1>3, <2>0, <2>1, InstallGoes DEF Install!WriteConfig, InstallKinds, InstallInOrder,
       InstallResumes, Install!States, Install!Ended, Install!directed
  <2>2. CASE ~Install!directed /\ iConfig' = "torn" /\ Install!Dies
    BY <1>3, <2>0, <2>2, InstallDies DEF Install!WriteConfig, InstallKinds, InstallInOrder,
       InstallResumes, Install!States, Install!Ended, Install!directed
  <2> QED BY <1>3, <2>1, <2>2 DEF Install!WriteConfig
<1>4. CASE Install!WriteRecord
  <2>1. iAttempt' \in InstallAttempt
        /\ iAttempt'.at = IF Install!directed THEN "bind" ELSE "clean"
    BY <1>4, InstallGoes DEF Install!WriteRecord, Install!Ended
  <2> QED
    BY <1>4, <2>1, InstallAt DEF Install!WriteRecord, InstallKinds, InstallInOrder,
       InstallResumes, Install!Ended, Install!directed
<1>5. CASE Install!WriteBinding
  BY <1>5, InstallGoes, InstallAt DEF Install!WriteBinding, Install!ValidBinding, InstallKinds,
     InstallInOrder, InstallResumes, Install!Ended, Install!directed
<1>6. CASE Install!RemoveBoot
  BY <1>6, InstallAt DEF Install!RemoveBoot, InstallKinds, InstallInOrder,
     InstallResumes, Install!Ended, Install!directed, Install!States
<1>7. CASE Install!RemoveJournal
  BY <1>7, InstallGoes, InstallAt DEF Install!RemoveJournal, InstallKinds, InstallInOrder,
     InstallResumes, Install!Ended, Install!directed, Install!States
<1>8. CASE Install!Crash
  <2>1. iAttempt' \in InstallAttempt /\ iAttempt'.at = "none"
    BY <1>8, InstallGoes DEF Install!Crash, Install!Ended
  <2>2. iDeaths' \in 0..MaxDeaths
    BY <1>8, InstallConstants DEF Install!Crash, InstallKinds
  <2>3. iSpoiled' = (iSpoiled \/ Install!At("remember"))
    BY <1>8 DEF Install!Crash
  <2>4. iSpoiled' \in BOOLEAN /\ (iSpoiled => iSpoiled')
    BY <2>3, Zenon
  <2>5. iAttempt.at = "remember" => iSpoiled'
    BY <2>3, Zenon DEF Install!At
  <2> QED
    BY <1>8, <2>1, <2>2, <2>4, <2>5 DEF Install!Crash, Install!disk, InstallKinds, InstallInOrder,
       InstallResumes, Install!Ended, Install!directed
<1> QED BY <1>1, <1>2, <1>3, <1>4, <1>5, <1>6, <1>7, <1>8

\* The invariant holds as long as an installation is looked at.
LEMMA InstallAlways == LocalSpec => [](comp = "install" => InstallInv)
<1> DEFINE Inv == comp = "install" => InstallInv
<1>1. LocalInit => Inv
  <2> SUFFICES ASSUME Install!Init PROVE InstallInv
    BY DEF LocalInit
  <2>1. iAttempt \in InstallAttempt /\ iAttempt.at = "none"
    BY DEF Install!Init, InstallAttempt, Install!Ended
  <2>2. iDeaths \in 0..MaxDeaths
    BY InstallConstants DEF Install!Init
  <2>3. InstallKinds
    BY <2>1, <2>2 DEF Install!Init, InstallKinds, Install!States
  <2> QED
    BY <2>1, <2>3 DEF Install!Init, InstallInv, InstallInOrder,
       InstallResumes, Install!States, Install!Ended, Install!directed
<1>2. Inv /\ [LocalNext]_<<vars, shared, comp>> => Inv'
  <2> SUFFICES ASSUME Inv, [LocalNext]_<<vars, shared, comp>>, comp' = "install"
               PROVE  InstallInv'
    OBVIOUS
  <2>1. comp = "install" /\ [Install!Next]_(Install!vars)
    BY InstallTurn
  <2>2. CASE UNCHANGED Install!vars
    BY <2>1, <2>2 DEF Install!vars, Install!disk, InstallInv, InstallKinds, InstallInOrder,
       InstallResumes, Install!directed
  <2>3. CASE Install!Next
    BY <2>1, <2>3, InstallLooks, InstallPrepares, InstallWrites DEF Install!Next
  <2> QED BY <2>1, <2>2, <2>3
<1> QED BY <1>1, <1>2, PTL DEF LocalSpec

\* A binding is written when everything it stands for is on disk, and a directed
\* installation that was interrupted between two steps is never refused
\* (install_enrollment_response, load_binding).
THEOREM LocalBindingIsComplete == LocalSpec => []BindingIsComplete
<1>1. (comp = "install" => InstallInv) => BindingIsComplete
  BY DEF InstallInv, InstallInOrder, InstallResumes, BindingIsComplete, Install!BindingIsComplete,
     Install!DirectedResumes, Install!At
<1> QED BY <1>1, InstallAlways, PTL

-----------------------------------------------------------------------------
(* The tasks of a Home runtime (module HomeRuntime).                        *)

rStarted == v1
rRun == v2
rSession == v3
rStopped == v4
rTasks == v5
rBlocking == v6
rCaller == v7
rLoads == v8
rAdapter == v9
rHook == v10
USE DEF rStarted, rRun, rSession, rStopped, rTasks, rBlocking, rCaller, rLoads, rAdapter, rHook
USE DEF Runtime!hooks

\* Only its own steps change the runtime.
LEMMA RuntimeTurn ==
  ASSUME [LocalNext]_<<vars, shared, comp>>, comp' = "runtime"
  PROVE  comp = "runtime" /\ [Runtime!Next]_(Runtime!vars)
  BY DEF LocalNext, InstallStep, RotationStep, SamplesStep, ListenersStep, DatagramsStep,
         RuntimeStep, shared, Runtime!vars

\* The counters count, the callers are somewhere in shutdown, and only a runtime that
\* was given hooks has one of them at work.
RuntimeKinds ==
    /\ rStarted \in BOOLEAN /\ rSession \in BOOLEAN /\ rStopped \in BOOLEAN
    /\ rRun \in {"none", "control", "finishing", "flushing", "returned", "cancelled"}
    /\ rTasks \in 0..MaxTasks /\ rLoads \in 1..MaxLoads
    /\ rCaller \in [StopCallers -> {"none", "waiting", "returned"}]
    /\ rAdapter \in BOOLEAN /\ rHook \in BOOLEAN /\ (rHook => rAdapter)

\* Whoever has called shutdown has set the watch, so no later spawn is admitted.
CallersStopped ==
    /\ \A k \in StopCallers : rCaller[k] # "none" => rStopped
    /\ \A k \in StopCallers : rCaller[k] = "returned" => rTasks = 0

\* The session lives within the control loop, and run leaves the loop for good.
SessionInLoop ==
    /\ rSession => rRun = "control"
    /\ rRun \in {"finishing", "flushing", "returned"} => rStopped

\* One blocking operation at a time; from the final flush on nothing but the flush
\* works on the store, unless it is cancelled.
FlushIsAlone ==
    /\ rBlocking \in 0..1
    /\ rRun \in {"flushing", "returned"} => rTasks = 0
    /\ rRun = "flushing" => rBlocking = 1
    /\ rRun = "returned" => rBlocking = 0

RuntimeInv == RuntimeKinds /\ CallersStopped /\ SessionInLoop /\ FlushIsAlone

\* The control loop, its session, its hooks and a refused spawn.
LEMMA RuntimeLoops ==
    ASSUME RuntimeInv,
           \/ Runtime!Run \/ Runtime!SessionOpens \/ Runtime!SessionEnds
           \/ Runtime!SpawnRefused \/ Runtime!HookBegins \/ Runtime!HookEnds
    PROVE  RuntimeInv'
<1>1. CASE Runtime!Run
  BY <1>1 DEF RuntimeInv, RuntimeKinds, CallersStopped, SessionInLoop, FlushIsAlone,
              Runtime!Run
<1>2. CASE Runtime!SessionOpens
  BY <1>2 DEF RuntimeInv, RuntimeKinds, CallersStopped, SessionInLoop, FlushIsAlone,
              Runtime!SessionOpens
<1>3. CASE Runtime!SessionEnds
  BY <1>3 DEF RuntimeInv, RuntimeKinds, CallersStopped, SessionInLoop, FlushIsAlone,
              Runtime!SessionEnds
<1>4. CASE Runtime!SpawnRefused
  BY <1>4 DEF RuntimeInv, RuntimeKinds, CallersStopped, SessionInLoop, FlushIsAlone,
              Runtime!SpawnRefused
<1>5. CASE Runtime!HookBegins \/ Runtime!HookEnds
  <2>1. /\ rHook' \in BOOLEAN /\ (rHook' => rAdapter)
        /\ UNCHANGED <<rStarted, rRun, rSession, rStopped, rTasks, rBlocking, rCaller, rLoads,
                      rAdapter>>
    BY <1>5 DEF Runtime!HookBegins, Runtime!HookEnds
  <2> QED
    BY <2>1 DEF RuntimeInv, RuntimeKinds, CallersStopped, SessionInLoop, FlushIsAlone
<1> QED BY <1>1, <1>2, <1>3, <1>4, <1>5

\* A task is admitted only while nobody stopped.
LEMMA RuntimeWorks ==
    ASSUME RuntimeInv,
           \/ Runtime!Spawn \/ Runtime!TaskEnds
           \/ Runtime!BlockingBegins \/ Runtime!BlockingEnds
    PROVE  RuntimeInv'
<1> USE RuntimeConstants
<1>1. CASE Runtime!Spawn
  BY <1>1 DEF RuntimeInv, RuntimeKinds, CallersStopped, SessionInLoop, FlushIsAlone, Runtime!Spawn, Runtime!Admits
<1>2. CASE Runtime!TaskEnds
  BY <1>2 DEF RuntimeInv, RuntimeKinds, CallersStopped, SessionInLoop, FlushIsAlone, Runtime!TaskEnds
<1>3. CASE Runtime!BlockingBegins
  BY <1>3 DEF RuntimeInv, RuntimeKinds, CallersStopped, SessionInLoop, FlushIsAlone, Runtime!BlockingBegins
<1>4. CASE Runtime!BlockingEnds
  <2>1. rBlocking' \in 0..1 /\ rRun # "flushing" /\ rRun # "returned"
    BY <1>4 DEF RuntimeInv, RuntimeKinds, FlushIsAlone, Runtime!BlockingEnds
  <2>. QED
    BY <1>4, <2>1 DEF RuntimeInv, RuntimeKinds, CallersStopped, SessionInLoop, FlushIsAlone,
                      Runtime!BlockingEnds
<1>. QED BY <1>1, <1>2, <1>3, <1>4

\* The ways in which the loop and its callers come to an end.
LEMMA RuntimeEnds ==
    ASSUME RuntimeInv,
           \/ \E k \in StopCallers : Runtime!Shutdown(k) \/ Runtime!ShutdownReturns(k)
           \/ Runtime!RunStops \/ Runtime!FinalFlush \/ Runtime!RunReturns
           \/ Runtime!RunCancelled \/ Runtime!Reload
    PROVE  RuntimeInv'
<1> USE RuntimeConstants
<1>1. ASSUME NEW k \in StopCallers, Runtime!Shutdown(k) PROVE RuntimeInv'
  BY <1>1 DEF RuntimeInv, RuntimeKinds, CallersStopped, SessionInLoop, FlushIsAlone, Runtime!Shutdown
<1>2. ASSUME NEW k \in StopCallers, Runtime!ShutdownReturns(k) PROVE RuntimeInv'
  BY <1>2 DEF RuntimeInv, RuntimeKinds, CallersStopped, SessionInLoop, FlushIsAlone,
              Runtime!ShutdownReturns, Runtime!Drained
<1>3. CASE Runtime!RunStops
  BY <1>3 DEF RuntimeInv, RuntimeKinds, CallersStopped, SessionInLoop, FlushIsAlone, Runtime!RunStops
<1>4. CASE Runtime!FinalFlush
  BY <1>4 DEF RuntimeInv, RuntimeKinds, CallersStopped, SessionInLoop, FlushIsAlone,
              Runtime!FinalFlush, Runtime!Drained
<1>5. CASE Runtime!RunReturns
  BY <1>5 DEF RuntimeInv, RuntimeKinds, CallersStopped, SessionInLoop, FlushIsAlone, Runtime!RunReturns
<1>6. CASE Runtime!RunCancelled
  BY <1>6 DEF RuntimeInv, RuntimeKinds, CallersStopped, SessionInLoop, FlushIsAlone, Runtime!RunCancelled
<1>7. CASE Runtime!Reload
  <2>1. 0 \in 0..MaxTasks /\ 0 \in 0..1 /\ rLoads' \in 1..MaxLoads
    BY <1>7 DEF RuntimeInv, RuntimeKinds, Runtime!Reload
  <2> QED
    BY <1>7, <2>1 DEF RuntimeInv, RuntimeKinds, CallersStopped, SessionInLoop, FlushIsAlone,
       Runtime!Reload
<1>. QED BY <1>1, <1>2, <1>3, <1>4, <1>5, <1>6, <1>7

\* The invariant holds as long as a runtime is looked at.
LEMMA RuntimeAlways == LocalSpec => [](comp = "runtime" => RuntimeInv)
<1> DEFINE Inv == comp = "runtime" => RuntimeInv
<1>1. LocalInit => Inv
  <2> SUFFICES ASSUME Runtime!Init PROVE RuntimeInv
    BY DEF LocalInit
  <2>1. 0 \in 0..MaxTasks /\ 0 \in 0..1 /\ 1 \in 1..MaxLoads
    BY RuntimeConstants
  <2> QED
    BY <2>1 DEF Runtime!Init, RuntimeInv, RuntimeKinds, CallersStopped,
       SessionInLoop, FlushIsAlone
<1>2. Inv /\ [LocalNext]_<<vars, shared, comp>> => Inv'
  <2> SUFFICES ASSUME Inv, [LocalNext]_<<vars, shared, comp>>, comp' = "runtime"
               PROVE  RuntimeInv'
    OBVIOUS
  <2>1. comp = "runtime" /\ [Runtime!Next]_(Runtime!vars)
    BY RuntimeTurn
  <2>2. CASE UNCHANGED Runtime!vars
    BY <2>1, <2>2 DEF Runtime!vars, RuntimeInv, RuntimeKinds, CallersStopped, SessionInLoop,
       FlushIsAlone
  <2>3. CASE Runtime!Next
    BY <2>1, <2>3, RuntimeLoops, RuntimeWorks, RuntimeEnds DEF Runtime!Next
  <2> QED BY <2>1, <2>2, <2>3
<1> QED BY <1>1, <1>2, PTL DEF LocalSpec

\* Once shutdown or run has returned no task of the runtime is left, and once run has
\* returned none of its own work is on the store, and nothing at all when it was run
\* without an issuer's hooks (Tasks::spawn, Tasks::finish, HomeRuntime::run), for every
\* number of callers, tasks and loads.
THEOREM LocalQuietAfterStop == LocalSpec => []QuietAfterStop
<1>1. (comp = "runtime" => RuntimeInv) => QuietAfterStop
  BY DEF RuntimeInv, RuntimeKinds, CallersStopped, FlushIsAlone, QuietAfterStop,
         Runtime!QuietAfterStop
<1> QED BY <1>1, RuntimeAlways, PTL

-----------------------------------------------------------------------------
(* The associations of a Travel (module UdpAssociation).                    *)

dRun == v1
dAssoc == v2
dFlow == v3
dShown == v4
dCarrier == v5
dEvents == v6
USE DEF dRun, dAssoc, dFlow, dShown, dCarrier, dEvents

\* Only their own steps change the associations.
LEMMA DatagramsTurn ==
  ASSUME [LocalNext]_<<vars, shared, comp>>, comp' = "datagrams"
  PROVE  comp = "datagrams" /\ [Datagrams!Next]_(Datagrams!vars)
  BY DEF LocalNext, InstallStep, RotationStep, SamplesStep, ListenersStep, DatagramsStep,
         RuntimeStep, shared, Datagrams!vars

Directions == [wire : Seq(Nat), sent : Nat, next : Nat, half : BOOLEAN]

\* The frames of a direction carry the numbers that are due, and a half-read frame
\* is there.
Due(d) ==
    /\ d \in Directions
    /\ d.next + Len(d.wire) = d.sent
    /\ \A i \in 1..Len(d.wire) : d.wire[i] = d.next + i - 1
    /\ d.half => d.wire # <<>>

\* A new direction has nothing under way.
LEMMA DueAtFirst == Due(Datagrams!Direction)
<1>1. Datagrams!Direction = [wire |-> <<>>, sent |-> 0, next |-> 0, half |-> FALSE]
  BY DEF Datagrams!Direction
<1>2. <<>> \in Seq(Nat) /\ Len(<<>>) = 0
  OBVIOUS
<1> QED BY <1>1, <1>2 DEF Due, Directions

\* A frame is sent with the next number.
LEMMA DueOnSent ==
  ASSUME NEW d, Due(d) PROVE Due(Datagrams!Sent(d))
<1> DEFINE e == Datagrams!Sent(d)
           w == Append(d.wire, d.sent)
<1>1. /\ d \in Directions /\ d.wire \in Seq(Nat) /\ d.sent \in Nat /\ d.next \in Nat
      /\ d.half \in BOOLEAN
  BY DEF Due, Directions
<1>2. e = [d EXCEPT !.wire = w, !.sent = d.sent + 1]
  BY DEF Datagrams!Sent
<1>3. /\ w \in Seq(Nat) /\ Len(w) = Len(d.wire) + 1 /\ w # <<>>
      /\ \A i \in 1..Len(d.wire) : w[i] = d.wire[i]
      /\ w[Len(d.wire) + 1] = d.sent
  <2>1. PICK x \in Seq(Nat), n \in Nat : x = d.wire /\ n = d.sent
    BY <1>1
  <2>2. /\ Append(x, n) \in Seq(Nat) /\ Len(Append(x, n)) = Len(x) + 1 /\ Append(x, n) # <<>>
        /\ \A i \in 1..Len(x) : Append(x, n)[i] = x[i]
        /\ Append(x, n)[Len(x) + 1] = n
    BY AppendProperties
  <2> QED BY <2>1, <2>2
<1> HIDE DEF w, e
<1>31. e = [wire |-> w, sent |-> d.sent + 1, next |-> d.next, half |-> d.half]
  BY <1>1, <1>2 DEF Directions
<1>4. /\ e \in Directions /\ e.wire = w /\ e.sent = d.sent + 1
      /\ e.next = d.next /\ e.half = d.half
  BY <1>1, <1>31, <1>3 DEF Directions
<1>5. Len(d.wire) \in Nat
  BY <1>1
<1>6. \A i \in 1..Len(w) : w[i] = d.next + i - 1
  BY <1>1, <1>3, <1>5 DEF Due
<1>7. Due(e)
  <2>1. d.next + Len(d.wire) = d.sent
    BY DEF Due
  <2>2. e.next + Len(e.wire) = e.sent
    <3>1. e.next = d.next /\ Len(e.wire) = Len(d.wire) + 1 /\ e.sent = d.sent + 1
      BY <1>3, <1>4, Zenon
    <3>2. d.next + (Len(d.wire) + 1) = d.sent + 1
      BY <1>1, <1>5, <2>1
    <3> QED BY <3>1, <3>2, Zenon
  <2>3. \A i \in 1..Len(e.wire) : e.wire[i] = e.next + i - 1
    BY <1>4, <1>6, Zenon
  <2> QED BY <1>3, <1>4, <2>2, <2>3, Zenon DEF Due
<1> QED BY <1>7 DEF e

\* Reading half a frame keeps the numbers.
LEMMA DueOnHalved ==
  ASSUME NEW d, Due(d), d.wire # <<>> PROVE Due(Datagrams!Halved(d))
  BY DEF Datagrams!Halved, Due, Directions

\* The frame that is taken is the one that is due.
LEMMA DueOnTaken ==
  ASSUME NEW d, Due(d), d.half PROVE Due(Datagrams!Taken(d))
<1> DEFINE w == Tail(d.wire)
<1>1. /\ d \in Directions /\ d.wire \in Seq(Nat) /\ d.sent \in Nat /\ d.next \in Nat
      /\ d.wire # <<>>
  BY DEF Due, Directions
<1>2. /\ w \in Seq(Nat) /\ Len(w) = Len(d.wire) - 1 /\ Len(d.wire) >= 1
      /\ \A i \in 1..Len(w) : w[i] = d.wire[i + 1]
      /\ Head(d.wire) = d.wire[1]
  BY <1>1, HeadTailProperties
<1>3. Head(d.wire) = d.next
  BY <1>1, <1>2 DEF Due
<1>4. Datagrams!Taken(d) = [d EXCEPT !.wire = w, !.half = FALSE, !.next = d.next + 1]
  BY <1>1, <1>3 DEF Datagrams!Taken, Datagrams!Decoded, Directions
<1>5. Len(d.wire) \in Nat
  BY <1>1
<1>6. \A i \in 1..Len(w) : w[i] = d.next + 1 + i - 1
  BY <1>1, <1>2, <1>5 DEF Due
<1> DEFINE e == Datagrams!Taken(d)
<1> HIDE DEF w, e
<1>61. e = [wire |-> w, sent |-> d.sent, next |-> d.next + 1, half |-> FALSE]
  BY <1>1, <1>4 DEF Directions, e
<1>7. /\ e \in Directions /\ e.wire = w /\ e.sent = d.sent
      /\ e.next = d.next + 1 /\ e.half = FALSE
  BY <1>1, <1>2, <1>61 DEF Directions
<1>8. Due(e)
  <2>1. d.next + Len(d.wire) = d.sent
    BY DEF Due
  <2>2. e.next + Len(e.wire) = e.sent
    <3>1. e.next = d.next + 1 /\ Len(e.wire) = Len(d.wire) - 1 /\ e.sent = d.sent
      BY <1>2, <1>7, Zenon
    <3>2. (d.next + 1) + (Len(d.wire) - 1) = d.sent
      BY <1>1, <1>5, <2>1
    <3> QED BY <3>1, <3>2, Zenon
  <2>3. \A i \in 1..Len(e.wire) : e.wire[i] = e.next + i - 1
    BY <1>6, <1>7, Zenon
  <2>4. ~e.half
    BY <1>7
  <2> QED BY <1>7, <2>2, <2>3, <2>4, Zenon DEF Due
<1> QED BY <1>8 DEF e

\* Stated as the frames of the specification are.
LEMMA DueIsExact ==
  ASSUME NEW d, Due(d)
  PROVE  d.wire = [i \in 1..(d.sent - d.next) |-> d.next + i - 1]
<1>1. /\ d.wire \in Seq(Nat) /\ d.sent \in Nat /\ d.next \in Nat
  BY DEF Due, Directions
<1>2. d.wire \in [1..Len(d.wire) -> Nat] /\ Len(d.wire) \in Nat
  BY <1>1, LenProperties
<1>3. d.sent - d.next = Len(d.wire)
  BY <1>1, <1>2 DEF Due
<1> QED BY <1>2, <1>3 DEF Due

DatagramFlowSet ==
    [client : UdpPeers \cup UdpApps \cup {Absent}, at : {"none", "opening", "open", "ended"},
     queue : 0..QueueLimit, carrier : Carriers \cup {Absent}, attempts : Nat, stop : BOOLEAN]

DatagramCarrierSet ==
    [travel : BOOLEAN, home : {"none", "connecting", "open", "ended"},
     up : Directions, down : Directions]

DatagramKinds ==
    /\ dRun \in {"up", "stopping", "stopped"}
    /\ dAssoc \in [UdpPeers -> Associations \cup {Absent}]
    /\ dFlow \in [Associations -> DatagramFlowSet]
    /\ dShown \subseteq Associations

\* An association without a client has ended, one whose pump runs has a Carrier, and
\* the live one of a client address is registered.
AssociationsOK ==
    /\ \A f \in Associations :
          /\ dFlow[f].client = Absent => dFlow[f].at = "none"
          /\ dFlow[f].at = "open" => dFlow[f].carrier \in Carriers
          /\ dFlow[f].at \in {"opening", "open"} /\ dFlow[f].client \in UdpPeers =>
                dAssoc[dFlow[f].client] = f
    /\ dRun = "stopped" => \A f \in Associations : dFlow[f].at = "none"

\* Both directions of every Carrier carry the numbers that are due.
CarriersOK ==
    /\ dCarrier \in [Carriers -> DatagramCarrierSet]
    /\ \A c \in Carriers : Due(dCarrier[c].up) /\ Due(dCarrier[c].down)

DatagramInv == DatagramKinds /\ AssociationsOK /\ CarriersOK

\* A Carrier of good directions.
GoodCarrier(k) == k \in DatagramCarrierSet /\ Due(k.up) /\ Due(k.down)

\* A Carrier that is closed, and one that opens.
LEMMA CarrierOpens ==
  /\ GoodCarrier(Datagrams!Closed)
  /\ GoodCarrier([Datagrams!Closed EXCEPT !.travel = TRUE, !.home = "connecting"])
<1> DEFINE d == Datagrams!Direction
<1>1. Due(d) /\ d \in Directions
  BY DueAtFirst DEF Due
<1>2. Datagrams!Closed = [travel |-> FALSE, home |-> "none", up |-> d, down |-> d]
  BY DEF Datagrams!Closed
<1> HIDE DEF d
<1> QED BY <1>1, <1>2 DEF GoodCarrier, DatagramCarrierSet

\* Closing an end leaves the directions alone.
LEMMA CarrierCloses ==
  ASSUME NEW k, GoodCarrier(k)
  PROVE  GoodCarrier(Datagrams!TravelCloses(k)) /\ GoodCarrier(Datagrams!HomeCloses(k))
<1> DEFINE d == Datagrams!Direction
<1>1. Due(d) /\ d \in Directions
  BY DueAtFirst DEF Due
<1>2. /\ Datagrams!TravelCloses(k) = IF k.home = "ended" THEN Datagrams!Closed
                                     ELSE [k EXCEPT !.travel = FALSE, !.down = d]
      /\ Datagrams!HomeCloses(k) = IF k.travel THEN [k EXCEPT !.home = "ended", !.up = d]
                                   ELSE Datagrams!Closed
  BY DEF Datagrams!TravelCloses, Datagrams!HomeCloses
<1> HIDE DEF d
<1>3. /\ GoodCarrier([k EXCEPT !.travel = FALSE, !.down = d])
      /\ GoodCarrier([k EXCEPT !.home = "ended", !.up = d])
  BY <1>1 DEF GoodCarrier, DatagramCarrierSet
<1> QED BY <1>2, <1>3, CarrierOpens, Zenon

\* A Carrier whose directions are replaced by good ones.
LEMMA CarrierMoves ==
  ASSUME NEW k, NEW d, GoodCarrier(k), Due(d)
  PROVE  /\ GoodCarrier([k EXCEPT !.up = d]) /\ GoodCarrier([k EXCEPT !.down = d])
         /\ GoodCarrier([k EXCEPT !.home = "open"])
  BY DEF GoodCarrier, DatagramCarrierSet, Due

\* One Carrier changes, or some do.
LEMMA OneCarrier ==
  ASSUME CarriersOK, NEW c \in Carriers, NEW k, GoodCarrier(k),
         dCarrier' = [dCarrier EXCEPT ![c] = k]
  PROVE  CarriersOK'
  BY DEF CarriersOK, GoodCarrier

\* Every Carrier is a good one.
LEMMA CarrierHere ==
  ASSUME CarriersOK, NEW c \in Carriers
  PROVE  GoodCarrier(dCarrier[c])
  BY DEF CarriersOK, GoodCarrier

\* Steps that touch no Carrier.
LEMMA CarriersKept ==
  ASSUME CarriersOK, dCarrier' = dCarrier
  PROVE  CarriersOK'
  BY DEF CarriersOK

\* Every step keeps the numbers due.
LEMMA CarriersSteps ==
  ASSUME DatagramInv, Datagrams!Next
  PROVE  CarriersOK'
<1> USE DEF DatagramInv
<1>1. ASSUME NEW p \in UdpPeers, Datagrams!RecvKnown(p) \/ Datagrams!RecvNew(p)
      PROVE  CarriersOK'
  BY <1>1, CarriersKept DEF Datagrams!RecvKnown, Datagrams!RecvNew
<1>2. ASSUME NEW a \in UdpApps,
             Datagrams!Connect(a) \/ Datagrams!AppSend(a) \/ Datagrams!AppDrop(a)
      PROVE  CarriersOK'
  BY <1>2, CarriersKept DEF Datagrams!Connect, Datagrams!AppSend, Datagrams!AppDrop
<1>3. ASSUME NEW f \in Associations, Datagrams!Attempt(f) PROVE CarriersOK'
  <2>1. Datagrams!FreshCarrier \in Carriers
    BY <1>3 DEF Datagrams!Attempt, Datagrams!FreshCarrier, Datagrams!FreeCarriers
  <2>2. dCarrier' = [dCarrier EXCEPT ![Datagrams!FreshCarrier] =
                        [Datagrams!Closed EXCEPT !.travel = TRUE, !.home = "connecting"]]
    BY <1>3 DEF Datagrams!Attempt
  <2> QED BY <2>1, <2>2, CarrierOpens, OneCarrier
<1>4. ASSUME NEW f \in Associations,
             Datagrams!AttemptFails(f) \/ Datagrams!AssociationEnds(f)
      PROVE  CarriersOK'
  <2>1. \/ dCarrier' = dCarrier
        \/ /\ dFlow[f].carrier \in Carriers
           /\ dCarrier' = [dCarrier EXCEPT ![dFlow[f].carrier] =
                              Datagrams!TravelCloses(dCarrier[dFlow[f].carrier])]
    BY <1>4 DEF Datagrams!AttemptFails, Datagrams!AssociationEnds, DatagramKinds,
       DatagramFlowSet
  <2> QED BY <2>1, CarriersKept, CarrierHere, CarrierCloses, OneCarrier
<1>5. ASSUME NEW f \in Associations,
             \/ Datagrams!Opened(f) \/ Datagrams!Cleanup(f)
      PROVE  CarriersOK'
  BY <1>5, CarriersKept DEF Datagrams!Opened, Datagrams!Cleanup
<1>6. ASSUME NEW f \in Associations,
             \/ Datagrams!TravelSends(f) \/ Datagrams!TravelHalfReads(f)
             \/ Datagrams!TravelReads(f)
      PROVE  CarriersOK'
  <2>1. PICK c \in Carriers : c = dFlow[f].carrier
    BY <1>6 DEF AssociationsOK, Datagrams!TravelSends, Datagrams!TravelHalfReads,
       Datagrams!TravelReads
  <2>2. GoodCarrier(dCarrier[c]) /\ Due(dCarrier[c].up) /\ Due(dCarrier[c].down)
    BY CarrierHere DEF GoodCarrier
  <2>3. \/ dCarrier' = dCarrier
        \/ dCarrier' = [dCarrier EXCEPT ![c] =
                [dCarrier[c] EXCEPT !.up = Datagrams!Sent(dCarrier[c].up)]]
        \/ /\ dCarrier[c].down.wire # <<>>
           /\ dCarrier' = [dCarrier EXCEPT ![c] =
                [dCarrier[c] EXCEPT !.down = Datagrams!Halved(dCarrier[c].down)]]
        \/ /\ dCarrier[c].down.half
           /\ dCarrier' = [dCarrier EXCEPT ![c] =
                [dCarrier[c] EXCEPT !.down = Datagrams!Taken(dCarrier[c].down)]]
    BY <1>6, <2>1 DEF Datagrams!TravelSends, Datagrams!TravelHalfReads,
       Datagrams!TravelReads
  <2> QED
    BY <2>2, <2>3, CarriersKept, CarrierMoves, OneCarrier, DueOnSent, DueOnHalved, DueOnTaken
<1>7. ASSUME NEW c \in Carriers,
             \/ Datagrams!HomeAccepts(c) \/ Datagrams!HomeSends(c)
             \/ Datagrams!HomeHalfReads(c) \/ Datagrams!HomeReads(c)
             \/ Datagrams!HomeEnds(c)
      PROVE  CarriersOK'
  <2>2. GoodCarrier(dCarrier[c]) /\ Due(dCarrier[c].up) /\ Due(dCarrier[c].down)
    BY CarrierHere DEF GoodCarrier
  <2>3. \/ dCarrier' = [dCarrier EXCEPT ![c] = [dCarrier[c] EXCEPT !.home = "open"]]
        \/ dCarrier' = [dCarrier EXCEPT ![c] =
                [dCarrier[c] EXCEPT !.down = Datagrams!Sent(dCarrier[c].down)]]
        \/ /\ dCarrier[c].up.wire # <<>>
           /\ dCarrier' = [dCarrier EXCEPT ![c] =
                [dCarrier[c] EXCEPT !.up = Datagrams!Halved(dCarrier[c].up)]]
        \/ /\ dCarrier[c].up.half
           /\ dCarrier' = [dCarrier EXCEPT ![c] =
                [dCarrier[c] EXCEPT !.up = Datagrams!Taken(dCarrier[c].up)]]
        \/ dCarrier' = [dCarrier EXCEPT ![c] = Datagrams!HomeCloses(dCarrier[c])]
    BY <1>7 DEF Datagrams!HomeAccepts, Datagrams!HomeSends,
       Datagrams!HomeHalfReads, Datagrams!HomeReads, Datagrams!HomeEnds
  <2> QED
    BY <2>2, <2>3, CarrierMoves, CarrierCloses, OneCarrier, DueOnSent, DueOnHalved, DueOnTaken
<1>8. CASE Datagrams!NetworkChange \/ Datagrams!Shutdown
  BY <1>8, CarriersKept DEF Datagrams!NetworkChange, Datagrams!Shutdown
<1>9. CASE Datagrams!ListenerRestarts \/ Datagrams!ShutdownReturns
  <2>1. dCarrier' = [c \in Carriers |->
                     IF \E f \in Datagrams!Aborted : dFlow[f].carrier = c
                     THEN Datagrams!TravelCloses(dCarrier[c]) ELSE dCarrier[c]]
    BY <1>9 DEF Datagrams!ListenerRestarts, Datagrams!ShutdownReturns, Datagrams!AbortClients
  <2>2. \A c \in Carriers : GoodCarrier(dCarrier'[c])
    BY <2>1, CarrierHere, CarrierCloses
  <2> QED BY <2>1, <2>2 DEF CarriersOK, GoodCarrier
<1> QED
  BY <1>1, <1>2, <1>3, <1>4, <1>5, <1>6, <1>7, <1>8, <1>9 DEF Datagrams!Next

\* One association changes, its client's registration with it.
LEMMA OneAssociation ==
  ASSUME DatagramKinds, AssociationsOK, dRun' = dRun, dAssoc' = dAssoc,
         NEW f \in Associations, NEW g \in DatagramFlowSet, dFlow' = [dFlow EXCEPT ![f] = g],
         dShown' \subseteq Associations,
         g.client = Absent => g.at = "none",
         g.at = "open" => g.carrier \in Carriers,
         g.at \in {"opening", "open"} =>
             g.client = dFlow[f].client /\ dFlow[f].at \in {"opening", "open"},
         g.at # "none" => dFlow[f].at # "none"
  PROVE  DatagramKinds' /\ AssociationsOK'
  BY DEF DatagramKinds, AssociationsOK

\* The record of an association.
LEMMA AssociationHere ==
  ASSUME DatagramKinds, NEW f \in Associations
  PROVE  dFlow[f] \in DatagramFlowSet
  BY DEF DatagramKinds

\* The place of an association that is not used.
LEMMA UnusedAssociation ==
  Datagrams!Unused \in DatagramFlowSet /\ Datagrams!Unused.at = "none"
  BY DatagramConstants DEF Datagrams!Unused, DatagramFlowSet

\* An association that begins.
LEMMA NewAssociation ==
  ASSUME NEW client \in UdpPeers \cup UdpApps, NEW q \in 0..QueueLimit
  PROVE  /\ Datagrams!Association(client, q) \in DatagramFlowSet
         /\ Datagrams!Association(client, q).client = client
         /\ Datagrams!Association(client, q).at = "opening"
  BY DatagramConstants DEF Datagrams!Association, DatagramFlowSet

\* With a permit there is a place that is not used.
LEMMA FreshAssociation ==
  ASSUME Datagrams!Permits # {}
  PROVE  Datagrams!Fresh \in Associations /\ dFlow[Datagrams!Fresh].at = "none"
  BY DEF Datagrams!Permits, Datagrams!Fresh

\* One field of an association changes.
LEMMA AssociationFields ==
  ASSUME NEW r \in DatagramFlowSet, NEW q \in 0..QueueLimit, NEW c \in Carriers \cup {Absent},
         NEW n \in Nat
  PROVE  /\ [r EXCEPT !.queue = q] \in DatagramFlowSet
         /\ [r EXCEPT !.carrier = c] \in DatagramFlowSet
         /\ [r EXCEPT !.carrier = c, !.attempts = n] \in DatagramFlowSet
         /\ [r EXCEPT !.at = "open", !.attempts = n] \in DatagramFlowSet
         /\ [r EXCEPT !.stop = TRUE] \in DatagramFlowSet
<1>1. PICK yes \in BOOLEAN : yes = TRUE
  OBVIOUS
<1>2. PICK open \in {"none", "opening", "open", "ended"} : open = "open"
  OBVIOUS
<1>3. /\ r.client \in UdpPeers \cup UdpApps \cup {Absent}
      /\ r.at \in {"none", "opening", "open", "ended"}
      /\ r.queue \in 0..QueueLimit /\ r.carrier \in Carriers \cup {Absent}
      /\ r.attempts \in Nat /\ r.stop \in BOOLEAN
  BY DEF DatagramFlowSet
<1>40. [r EXCEPT !.queue = q] =
         [client |-> r.client, at |-> r.at, queue |-> q, carrier |-> r.carrier, attempts |-> r.attempts, stop |-> r.stop]
  BY DEF DatagramFlowSet
<1>41. [r EXCEPT !.carrier = c] =
         [client |-> r.client, at |-> r.at, queue |-> r.queue, carrier |-> c, attempts |-> r.attempts, stop |-> r.stop]
  BY DEF DatagramFlowSet
<1>42. [r EXCEPT !.carrier = c, !.attempts = n] =
         [client |-> r.client, at |-> r.at, queue |-> r.queue, carrier |-> c, attempts |-> n, stop |-> r.stop]
  <2>1. PICK e : e = [r EXCEPT !.carrier = c, !.attempts = n]
    OBVIOUS
  <2>2. e = [client |-> r.client, at |-> r.at, queue |-> r.queue, carrier |-> c, attempts |-> n, stop |-> r.stop]
    BY <2>1 DEF DatagramFlowSet
  <2> QED BY <2>1, <2>2, Zenon
<1>43. [r EXCEPT !.at = open, !.attempts = n] =
         [client |-> r.client, at |-> open, queue |-> r.queue, carrier |-> r.carrier, attempts |-> n, stop |-> r.stop]
  <2>1. PICK e : e = [r EXCEPT !.at = open, !.attempts = n]
    OBVIOUS
  <2>2. e = [client |-> r.client, at |-> open, queue |-> r.queue, carrier |-> r.carrier, attempts |-> n, stop |-> r.stop]
    BY <2>1 DEF DatagramFlowSet
  <2> QED BY <2>1, <2>2, Zenon
<1>44. [r EXCEPT !.stop = yes] =
         [client |-> r.client, at |-> r.at, queue |-> r.queue, carrier |-> r.carrier, attempts |-> r.attempts, stop |-> yes]
  BY DEF DatagramFlowSet
<1>5. \A cl \in UdpPeers \cup UdpApps \cup {Absent}, at \in {"none", "opening", "open", "ended"},
         qq \in 0..QueueLimit, cc \in Carriers \cup {Absent}, nn \in Nat, st \in BOOLEAN :
         [client |-> cl, at |-> at, queue |-> qq, carrier |-> cc, attempts |-> nn, stop |-> st]
            \in DatagramFlowSet
  BY DEF DatagramFlowSet
<1>6. /\ [r EXCEPT !.queue = q] \in DatagramFlowSet
      /\ [r EXCEPT !.carrier = c] \in DatagramFlowSet
      /\ [r EXCEPT !.carrier = c, !.attempts = n] \in DatagramFlowSet
      /\ [r EXCEPT !.at = open, !.attempts = n] \in DatagramFlowSet
      /\ [r EXCEPT !.stop = yes] \in DatagramFlowSet
  BY <1>3, <1>40, <1>41, <1>42, <1>43, <1>44, <1>5
<1> QED BY <1>1, <1>2, <1>6, Zenon

\* An association that has ended.
LEMMA AssociationEnded ==
  ASSUME NEW client \in UdpPeers \cup UdpApps \cup {Absent}
  PROVE  /\ [Datagrams!Unused EXCEPT !.client = client, !.at = "ended"] \in DatagramFlowSet
         /\ [Datagrams!Unused EXCEPT !.client = client, !.at = "ended"].client = client
         /\ [Datagrams!Unused EXCEPT !.client = client, !.at = "ended"].at = "ended"
<1>1. PICK e : e = [Datagrams!Unused EXCEPT !.client = client, !.at = "ended"]
  OBVIOUS
<1>2. e = [client |-> client, at |-> "ended", queue |-> 0, carrier |-> Absent,
           attempts |-> 0, stop |-> FALSE]
  BY <1>1 DEF Datagrams!Unused
<1>3. e \in DatagramFlowSet /\ e.client = client /\ e.at = "ended"
  BY <1>2, DatagramConstants DEF DatagramFlowSet
<1> QED BY <1>1, <1>3, Zenon

\* A stop flag is set here and there.
LEMMA StoppedFlows ==
  ASSUME DatagramKinds, NEW which, dFlow' = Datagrams!Stopped(which)
  PROVE  /\ dFlow' \in [Associations -> DatagramFlowSet]
         /\ \A f \in Associations : /\ dFlow'[f].client = dFlow[f].client
                                    /\ dFlow'[f].at = dFlow[f].at
                                    /\ dFlow'[f].carrier = dFlow[f].carrier
<1>1. \A f \in Associations : /\ dFlow[f] \in DatagramFlowSet
                              /\ dFlow'[f] = dFlow[f] \/ dFlow'[f] = [dFlow[f] EXCEPT !.stop = TRUE]
  BY AssociationHere DEF Datagrams!Stopped
<1>2. \A f \in Associations : /\ dFlow'[f].client = dFlow[f].client
                              /\ dFlow'[f].at = dFlow[f].at
                              /\ dFlow'[f].carrier = dFlow[f].carrier
  BY <1>1 DEF DatagramFlowSet
<1>4. 0 \in 0..QueueLimit /\ 0 \in Nat
  BY DatagramConstants
<1>5. \A f \in Associations : dFlow'[f] \in DatagramFlowSet
  BY <1>1, <1>4, AssociationFields
<1>3. dFlow' = [f \in Associations |-> dFlow'[f]]
  BY DEF Datagrams!Stopped
<1> QED BY <1>2, <1>3, <1>5

\* Associations are told to stop.
LEMMA StoppedAssociations ==
  ASSUME DatagramKinds, AssociationsOK, NEW which, dFlow' = Datagrams!Stopped(which),
         UNCHANGED <<dRun, dAssoc, dShown>>
  PROVE  DatagramKinds' /\ AssociationsOK'
  BY StoppedFlows DEF DatagramKinds, AssociationsOK

\* The associations of the clients are gone, and nothing else.
LEMMA AbortedAssociations ==
  ASSUME DatagramKinds, AssociationsOK, Datagrams!AbortClients
  PROVE  /\ dAssoc' \in [UdpPeers -> Associations \cup {Absent}]
         /\ dFlow' \in [Associations -> DatagramFlowSet]
         /\ \A f \in Associations :
               IF dFlow[f].client \in UdpPeers
               THEN dFlow'[f] = Datagrams!Unused ELSE dFlow'[f] = dFlow[f]
         /\ \A f \in Associations : /\ dFlow'[f].client \in UdpPeers => dFlow'[f].at = "none"
                                    /\ dFlow[f].at = "none" => dFlow'[f].at = "none"
  BY UnusedAssociation, AssociationHere, DatagramConstants
     DEF Datagrams!AbortClients, Datagrams!Aborted, Datagrams!Unused, DatagramKinds

\* What a client does.
LEMMA ClientSteps ==
  ASSUME DatagramKinds, AssociationsOK,
         \/ \E p \in UdpPeers : Datagrams!RecvKnown(p) \/ Datagrams!RecvNew(p)
         \/ \E a \in UdpApps : Datagrams!Connect(a) \/ Datagrams!AppSend(a) \/ Datagrams!AppDrop(a)
  PROVE  DatagramKinds' /\ AssociationsOK'
<1>1. ASSUME NEW p \in UdpPeers, Datagrams!RecvKnown(p)
      PROVE  DatagramKinds' /\ AssociationsOK'
  <2>1. PICK f \in Associations : f = dAssoc[p]
    BY <1>1 DEF Datagrams!RecvKnown, DatagramKinds
  <2>2. /\ dFlow[f].queue < QueueLimit /\ dFlow' = [dFlow EXCEPT ![f].queue = @ + 1]
        /\ dFlow[f].at \in {"opening", "open"}
    BY <1>1, <2>1 DEF Datagrams!RecvKnown, Datagrams!Live
  <2>3. PICK g \in DatagramFlowSet : g = [dFlow[f] EXCEPT !.queue = dFlow[f].queue + 1]
    <3>1. dFlow[f] \in DatagramFlowSet /\ dFlow[f].queue \in 0..QueueLimit
      BY AssociationHere DEF DatagramFlowSet
    <3>2. dFlow[f].queue + 1 \in 0..QueueLimit
      BY <2>2, <3>1, DatagramConstants
    <3> QED BY <3>1, <3>2, AssociationFields
  <2>4. /\ dFlow' = [dFlow EXCEPT ![f] = g]
        /\ g.client = dFlow[f].client /\ g.at = dFlow[f].at /\ g.carrier = dFlow[f].carrier
    BY <2>2, <2>3, AssociationHere DEF DatagramKinds, DatagramFlowSet
  <2> QED
    BY <1>1, <2>2, <2>4, OneAssociation DEF Datagrams!RecvKnown, DatagramKinds, AssociationsOK
<1>2. ASSUME NEW p \in UdpPeers, Datagrams!RecvNew(p)
      PROVE  DatagramKinds' /\ AssociationsOK'
  <2>1. /\ dRun = "up" /\ dRun' = "up"
        /\ dAssoc[p] # Absent => ~(dFlow[dAssoc[p]].at \in {"opening", "open"})
    BY <1>2 DEF Datagrams!RecvNew, Datagrams!Live
  <2>2. \A f \in Associations : dFlow[f].at \in {"opening", "open"} => dFlow[f].client # p
    BY <2>1, DatagramConstants DEF AssociationsOK, DatagramKinds
  <2>3. CASE Datagrams!Permits = {}
    BY <1>2, <2>1, <2>2, <2>3 DEF Datagrams!RecvNew, DatagramKinds, AssociationsOK
  <2>4. CASE Datagrams!Permits # {}
    <3>1. PICK f \in Associations : f = Datagrams!Fresh /\ dFlow[f].at = "none"
      BY <2>4, FreshAssociation
    <3>2. PICK g \in DatagramFlowSet : g = Datagrams!Association(p, 1) /\ g.client = p /\ g.at = "opening"
      BY NewAssociation, DatagramConstants
    <3>3. /\ dAssoc' = [dAssoc EXCEPT ![p] = f] /\ dFlow' = [dFlow EXCEPT ![f] = g]
          /\ dShown' = dShown \cup {f}
      BY <1>2, <2>4, <3>1, <3>2 DEF Datagrams!RecvNew, Datagrams!BeginRoute
    <3> QED
      BY <2>1, <2>2, <3>1, <3>2, <3>3, DatagramConstants DEF DatagramKinds, AssociationsOK
  <2> QED BY <2>3, <2>4
<1>3. ASSUME NEW a \in UdpApps, Datagrams!Connect(a)
      PROVE  DatagramKinds' /\ AssociationsOK'
  <2>1. PICK f \in Associations : f = Datagrams!Fresh /\ dFlow[f].at = "none"
    BY <1>3, FreshAssociation DEF Datagrams!Connect
  <2>2. PICK g \in DatagramFlowSet : g = Datagrams!Association(a, 0) /\ g.client = a /\ g.at = "opening"
    BY NewAssociation, DatagramConstants
  <2>3. /\ dAssoc' = dAssoc /\ dFlow' = [dFlow EXCEPT ![f] = g]
        /\ dShown' = dShown \cup {f} /\ dRun = "up" /\ dRun' = "up"
    BY <1>3, <2>1, <2>2 DEF Datagrams!Connect, Datagrams!BeginRoute
  <2> QED
    BY <2>1, <2>2, <2>3, DatagramConstants DEF DatagramKinds, AssociationsOK
<1>4. ASSUME NEW a \in UdpApps, Datagrams!AppSend(a)
      PROVE  DatagramKinds' /\ AssociationsOK'
  <2>2. PICK f \in Associations :
            /\ dFlow[f].queue < QueueLimit /\ dFlow' = [dFlow EXCEPT ![f].queue = @ + 1]
            /\ dFlow[f].at \in {"opening", "open"}
    BY <1>4 DEF Datagrams!AppSend, Datagrams!Holds, Datagrams!Live
  <2>3. PICK g \in DatagramFlowSet : g = [dFlow[f] EXCEPT !.queue = dFlow[f].queue + 1]
    <3>1. dFlow[f] \in DatagramFlowSet /\ dFlow[f].queue \in 0..QueueLimit
      BY AssociationHere DEF DatagramFlowSet
    <3>2. dFlow[f].queue + 1 \in 0..QueueLimit
      BY <2>2, <3>1, DatagramConstants
    <3> QED BY <3>1, <3>2, AssociationFields
  <2>4. /\ dFlow' = [dFlow EXCEPT ![f] = g]
        /\ g.client = dFlow[f].client /\ g.at = dFlow[f].at /\ g.carrier = dFlow[f].carrier
    BY <2>2, <2>3, AssociationHere DEF DatagramKinds, DatagramFlowSet
  <2> QED
    BY <1>4, <2>2, <2>4, OneAssociation DEF Datagrams!AppSend, DatagramKinds, AssociationsOK
<1>5. ASSUME NEW a \in UdpApps, Datagrams!AppDrop(a)
      PROVE  DatagramKinds' /\ AssociationsOK'
  BY <1>5, StoppedAssociations DEF Datagrams!AppDrop
<1> QED BY <1>1, <1>2, <1>3, <1>4, <1>5

\* What the pump of an association does.
LEMMA AssociationSteps ==
  ASSUME DatagramKinds, AssociationsOK, NEW f \in Associations,
         \/ Datagrams!Attempt(f) \/ Datagrams!AttemptFails(f) \/ Datagrams!Opened(f)
         \/ Datagrams!TravelSends(f)
  PROVE  DatagramKinds' /\ AssociationsOK'
<1>0. dFlow[f] \in DatagramFlowSet
  BY AssociationHere
<1>1. dFlow[f].at \in {"opening", "open"} /\ dRun' = dRun /\ dAssoc' = dAssoc /\ dShown' = dShown
  BY DEF Datagrams!Attempt, Datagrams!AttemptFails, Datagrams!Opened, Datagrams!TravelSends,
     Datagrams!Pump
<1>2. PICK g \in DatagramFlowSet :
        /\ dFlow' = [dFlow EXCEPT ![f] = g]
        /\ g.client = dFlow[f].client /\ g.at \in {"opening", "open"}
        /\ g.at = "open" => g.carrier \in Carriers
  <2>1. CASE Datagrams!Attempt(f)
    <3>1. Datagrams!FreshCarrier \in Carriers
      BY <2>1 DEF Datagrams!Attempt, Datagrams!FreshCarrier, Datagrams!FreeCarriers
    <3>2. PICK g \in DatagramFlowSet :
            g = [dFlow[f] EXCEPT !.carrier = Datagrams!FreshCarrier,
                                 !.attempts = dFlow[f].attempts + 1]
      <4>1. dFlow[f].attempts + 1 \in Nat
        BY <1>0 DEF DatagramFlowSet
      <4>2. PICK c \in Carriers \cup {Absent}, n \in Nat, q \in 0..QueueLimit :
                c = Datagrams!FreshCarrier /\ n = dFlow[f].attempts + 1
        <5>1. 0 \in 0..QueueLimit /\ Datagrams!FreshCarrier \in Carriers \cup {Absent}
          BY <3>1, DatagramConstants
        <5> QED BY <4>1, <5>1, Zenon
      <4>3. [dFlow[f] EXCEPT !.carrier = c, !.attempts = n] \in DatagramFlowSet
        BY <1>0, AssociationFields, Zenon
      <4> QED BY <4>2, <4>3, Zenon
    <3>3. dFlow' = [dFlow EXCEPT ![f] = g] /\ g.client = dFlow[f].client /\ g.at = "opening"
      BY <1>0, <2>1, <3>2 DEF Datagrams!Attempt, DatagramFlowSet, DatagramKinds
    <3> QED BY <3>3
  <2>2. CASE Datagrams!AttemptFails(f)
    <3>2. PICK g \in DatagramFlowSet : g = [dFlow[f] EXCEPT !.carrier = Absent]
      BY <1>0 DEF DatagramFlowSet
    <3>3. dFlow' = [dFlow EXCEPT ![f] = g] /\ g.client = dFlow[f].client /\ g.at = "opening"
      BY <1>0, <2>2, <3>2 DEF Datagrams!AttemptFails, DatagramFlowSet, DatagramKinds
    <3> QED BY <3>3
  <2>3. CASE Datagrams!Opened(f)
    <3>2. PICK g \in DatagramFlowSet : g = [dFlow[f] EXCEPT !.at = "open", !.attempts = 0]
      BY <1>0 DEF DatagramFlowSet
    <3>3. /\ dFlow' = [dFlow EXCEPT ![f] = g] /\ g.client = dFlow[f].client /\ g.at = "open"
          /\ g.carrier \in Carriers
      BY <1>0, <2>3, <3>2 DEF Datagrams!Opened, DatagramFlowSet, DatagramKinds
    <3> QED BY <3>3
  <2>4. CASE Datagrams!TravelSends(f)
    <3>2. PICK g \in DatagramFlowSet : g = [dFlow[f] EXCEPT !.queue = dFlow[f].queue - 1]
      <4>1. dFlow[f].queue \in 0..QueueLimit /\ dFlow[f].queue > 0
        BY <1>0, <2>4 DEF DatagramFlowSet, Datagrams!TravelSends
      <4>2. dFlow[f].queue - 1 \in 0..QueueLimit
        BY <4>1, DatagramConstants
      <4> QED BY <1>0, <4>2, AssociationFields
    <3>3. /\ dFlow' = [dFlow EXCEPT ![f] = g] /\ g.client = dFlow[f].client /\ g.at = "open"
          /\ g.carrier = dFlow[f].carrier
      BY <1>0, <2>4, <3>2 DEF Datagrams!TravelSends, DatagramFlowSet, DatagramKinds
    <3> QED BY <2>4, <3>3 DEF AssociationsOK, Datagrams!TravelSends
  <2> QED BY <2>1, <2>2, <2>3, <2>4
<1>3. dFlow[f].client # Absent
  BY <1>1 DEF AssociationsOK
<1>4. dShown' \subseteq Associations
  BY <1>1 DEF DatagramKinds
<1> QED BY <1>1, <1>2, <1>3, <1>4, OneAssociation

\* The end of an association: it is unregistered only where it is registered.
LEMMA AssociationStops ==
  ASSUME DatagramKinds, AssociationsOK, NEW f \in Associations,
         Datagrams!AssociationEnds(f) \/ Datagrams!Cleanup(f)
  PROVE  DatagramKinds' /\ AssociationsOK'
<1>1. CASE Datagrams!AssociationEnds(f)
  <2>1. dFlow[f].at \in {"opening", "open"} /\ dFlow[f] \in DatagramFlowSet
    BY <1>1, AssociationHere DEF Datagrams!AssociationEnds, Datagrams!Live, Datagrams!NoRelayLeft
  <2>2. dFlow[f].client # Absent
    BY <2>1 DEF AssociationsOK
  <2>3. PICK g \in DatagramFlowSet :
            /\ g = [Datagrams!Unused EXCEPT !.client = dFlow[f].client, !.at = "ended"]
            /\ g.at = "ended" /\ g.client = dFlow[f].client
    <3>1. dFlow[f].client \in UdpPeers \cup UdpApps \cup {Absent}
      BY <2>1 DEF DatagramFlowSet
    <3> QED BY <3>1, AssociationEnded
  <2> QED
    BY <1>1, <2>1, <2>2, <2>3, OneAssociation
       DEF Datagrams!AssociationEnds, Datagrams!FinishRoute, DatagramKinds
<1>2. CASE Datagrams!Cleanup(f)
  <2>1. /\ dFlow' = [dFlow EXCEPT ![f] = Datagrams!Unused]
        /\ dAssoc' = [p \in UdpPeers |-> IF dAssoc[p] = f THEN Absent ELSE dAssoc[p]]
        /\ dFlow[f].at = "ended" /\ dRun' = dRun /\ dShown' = dShown
    BY <1>2 DEF Datagrams!Cleanup
  <2> QED BY <2>1, UnusedAssociation DEF DatagramKinds, AssociationsOK
<1> QED BY <1>1, <1>2

\* Every step keeps the associations registered.
LEMMA AssociationsSteps ==
  ASSUME DatagramInv, Datagrams!Next
  PROVE  DatagramKinds' /\ AssociationsOK'
<1> USE DEF DatagramInv
<1>1. ASSUME NEW f \in Associations, Datagrams!TravelHalfReads(f) \/ Datagrams!TravelReads(f)
      PROVE  DatagramKinds' /\ AssociationsOK'
  BY <1>1 DEF Datagrams!TravelHalfReads, Datagrams!TravelReads, Datagrams!Pump,
     DatagramKinds, AssociationsOK
<1>2. ASSUME NEW c \in Carriers,
             \/ Datagrams!HomeAccepts(c) \/ Datagrams!HomeSends(c)
             \/ Datagrams!HomeHalfReads(c) \/ Datagrams!HomeReads(c)
             \/ Datagrams!HomeEnds(c)
      PROVE  DatagramKinds' /\ AssociationsOK'
  BY <1>2 DEF Datagrams!HomeAccepts, Datagrams!HomeSends, Datagrams!HomeHalfReads,
     Datagrams!HomeReads, Datagrams!HomeEnds, Datagrams!Pump, DatagramKinds, AssociationsOK
<1>3. CASE Datagrams!NetworkChange
  BY <1>3, StoppedAssociations DEF Datagrams!NetworkChange
<1>4. CASE Datagrams!Shutdown
  <2>1. /\ dFlow' = Datagrams!Stopped(UdpApps) /\ dAssoc' = dAssoc /\ dShown' = dShown
        /\ dRun = "up" /\ dRun' = "stopping"
    BY <1>4 DEF Datagrams!Shutdown
  <2> QED BY <2>1, StoppedFlows DEF DatagramKinds, AssociationsOK
<1>5. CASE Datagrams!ListenerRestarts
  BY <1>5, AbortedAssociations, UnusedAssociation
     DEF Datagrams!ListenerRestarts, DatagramKinds, AssociationsOK
<1>6. CASE Datagrams!ShutdownReturns
  <2>1. /\ \A f \in Associations : dFlow[f].client \notin UdpApps
        /\ Datagrams!AbortClients /\ dShown' = {} /\ dRun' = "stopped"
    BY <1>6 DEF Datagrams!ShutdownReturns
  <2>2. \A f \in Associations : dFlow'[f].at = "none"
    <3> SUFFICES ASSUME NEW f \in Associations PROVE dFlow'[f].at = "none"
      OBVIOUS
    <3>1. dFlow[f].client \in UdpPeers \/ dFlow[f].client = Absent
      BY <2>1, AssociationHere DEF DatagramFlowSet
    <3>2. dFlow[f].client \in UdpPeers => dFlow'[f] = Datagrams!Unused
      BY <2>1, AbortedAssociations
    <3>3. dFlow[f].client = Absent => dFlow'[f].at = "none"
      BY <2>1, AbortedAssociations DEF AssociationsOK
    <3> QED BY <3>1, <3>2, <3>3, UnusedAssociation
  <2> QED BY <2>1, <2>2, AbortedAssociations DEF DatagramKinds, AssociationsOK
<1> QED
  BY <1>1, <1>2, <1>3, <1>4, <1>5, <1>6, ClientSteps, AssociationSteps, AssociationStops
     DEF Datagrams!Next

\* The invariant holds as long as associations are looked at.
LEMMA DatagramsAlways == LocalSpec => [](comp = "datagrams" => DatagramInv)
<1> DEFINE Inv == comp = "datagrams" => DatagramInv
<1>1. LocalInit => Inv
  <2> SUFFICES ASSUME Datagrams!Init PROVE DatagramInv
    BY DEF LocalInit
  <2>1. CarriersOK
    BY CarrierOpens DEF Datagrams!Init, CarriersOK, GoodCarrier
  <2>2. DatagramKinds /\ AssociationsOK
    BY UnusedAssociation DEF Datagrams!Init, DatagramKinds, AssociationsOK
  <2> QED BY <2>1, <2>2 DEF DatagramInv
<1>2. Inv /\ [LocalNext]_<<vars, shared, comp>> => Inv'
  <2> SUFFICES ASSUME Inv, [LocalNext]_<<vars, shared, comp>>, comp' = "datagrams"
               PROVE  DatagramInv'
    OBVIOUS
  <2>1. comp = "datagrams" /\ [Datagrams!Next]_(Datagrams!vars)
    BY DatagramsTurn
  <2>2. CASE UNCHANGED Datagrams!vars
    BY <2>1, <2>2 DEF Datagrams!vars, DatagramInv, DatagramKinds, AssociationsOK, CarriersOK
  <2>3. CASE Datagrams!Next
    BY <2>1, <2>3, CarriersSteps, AssociationsSteps DEF DatagramInv
  <2> QED BY <2>1, <2>2, <2>3
<1> QED BY <1>1, <1>2, PTL DEF LocalSpec

\* A live association is the one its client's datagrams go to, frames carry the
\* numbers that are due, and no association outlives a shutdown (run_udp_listener,
\* pump_udp_association, serve_udp), for any number of clients, associations,
\* Carriers and datagrams.
THEOREM LocalLiveIsRegistered == LocalSpec => []LiveIsRegistered
<1>1. DatagramInv => /\ Datagrams!LiveIsRegistered
                     /\ Datagrams!NumbersAreDue
                     /\ Datagrams!NoneAfterShutdown
  <2> SUFFICES ASSUME DatagramInv
               PROVE  /\ Datagrams!LiveIsRegistered
                      /\ Datagrams!NumbersAreDue
                      /\ Datagrams!NoneAfterShutdown
    OBVIOUS
  <2>1. Datagrams!LiveIsRegistered /\ Datagrams!NoneAfterShutdown
    BY DEF DatagramInv, AssociationsOK, Datagrams!LiveIsRegistered, Datagrams!Live,
       Datagrams!NoneAfterShutdown
  <2>2. \A c \in Carriers :
          /\ dCarrier[c].up.wire = [i \in 1..(dCarrier[c].up.sent - dCarrier[c].up.next) |->
                                       dCarrier[c].up.next + i - 1]
          /\ dCarrier[c].down.wire = [i \in 1..(dCarrier[c].down.sent - dCarrier[c].down.next) |->
                                       dCarrier[c].down.next + i - 1]
    BY DueIsExact DEF DatagramInv, CarriersOK
  <2> QED BY <2>1, <2>2, Zenon DEF Datagrams!NumbersAreDue
<1>2. (comp = "datagrams" => DatagramInv) => LiveIsRegistered
  BY <1>1 DEF LiveIsRegistered
<1> QED BY <1>2, DatagramsAlways, PTL

-----------------------------------------------------------------------------
(* The local listeners of a Travel (module Mappings).                       *)

lRun == v1
lDurable == v2
lMappings == v3
lTasks == v4
lCurrent == v5
lReady == v6
lOp == v7
lWrites == v8
lAbandoned == v9
lTorn == v10
lErrors == v11
lCancels == v12
USE DEF lRun, lDurable, lMappings, lTasks, lCurrent, lReady, lOp, lWrites, lAbandoned, lTorn,
        lErrors, lCancels

\* Only their own steps change the listeners.
LEMMA ListenersTurn ==
  ASSUME [LocalNext]_<<vars, shared, comp>>, comp' = "listeners"
  PROVE  comp = "listeners" /\ [Listeners!Next]_(Listeners!vars)
  BY DEF LocalNext, InstallStep, RotationStep, SamplesStep, ListenersStep, DatagramsStep,
         RuntimeStep, shared, Listeners!vars

TaskNames == 1..MaxListeners
MappingSets == [Services -> Loopbacks \cup {Absent}]
ListenerSet ==
    [service : Services \cup {Absent}, bind : Loopbacks \cup {Absent},
     at : {"bound", "running", "stopped", "failed", "rebinding", "done"},
     stop : {"no", "sent", "dropped"}]
OperationSet ==
    [at : {"idle", "persisting", "persisted", "switched", "joining"},
     service : Services \cup {Absent}, next : MappingSets, old : TaskNames \cup {0}]

ListenerKinds ==
    /\ lRun \in {"down", "up", "stopping"}
    /\ lDurable \in MappingSets /\ lMappings \in MappingSets
    /\ lTasks \in [TaskNames -> ListenerSet]
    /\ lCurrent \in [Services -> TaskNames \cup {0}]
    /\ lReady \in [Services -> TaskNames \cup {0}]
    /\ lOp \in OperationSet
    /\ lWrites \subseteq MappingSets

\* A listener of the service that nobody has told to stop.
Serves(t, s) ==
    /\ t \in TaskNames
    /\ lTasks[t].at \in {"bound", "running", "failed", "rebinding"}
    /\ lTasks[t].stop = "no"
    /\ lTasks[t].service = s

\* A name nothing refers to.
Unnamed(t) ==
    /\ t \in TaskNames
    /\ lTasks[t].at = "done"
    /\ \A s \in Services : lCurrent[s] # t /\ lReady[s] # t

\* While the runtime is up every registered task serves, and what is shown of a service
\* is what its task, or the task it is about to take leave of, listens on.
RegisteredServes ==
    lRun = "up" =>
        /\ \A s \in Services : lCurrent[s] # 0 => Serves(lCurrent[s], s)
        /\ \A s \in Services \ lTorn :
              lMappings[s] # Absent =>
                  IF lOp.at = "switched" /\ lOp.service = s
                  THEN Serves(lOp.old, s) /\ lTasks[lOp.old].bind = lMappings[s]
                  ELSE lCurrent[s] # 0 /\ lTasks[lCurrent[s]].bind = lMappings[s]

\* An operation runs while the runtime is up and changes one service; its new task has a
\* name, and then listens where the new set says.
OperationOK ==
    /\ lOp.at # "idle" => lRun = "up" /\ lOp.service \in Services
    /\ lOp.at \in {"persisting", "persisted", "switched"} =>
          \A s \in Services : s # lOp.service => lOp.next[s] = lMappings[s]
    /\ lOp.at \in {"persisting", "persisted"} =>
          (lOp.next[lOp.service] # Absent => \E t \in TaskNames : Unnamed(t))
    /\ lOp.at \notin {"switched", "joining"} => lOp.old = 0
    /\ lOp.at = "switched" /\ lOp.next[lOp.service] # Absent =>
          /\ lCurrent[lOp.service] # 0
          /\ lTasks[lCurrent[lOp.service]].bind = lOp.next[lOp.service]
    /\ lOp.old # 0 => \A s \in Services : lCurrent[s] # lOp.old

\* Every listener that lives is registered, waited for or abandoned; one that has
\* stopped was told to; and a runtime that is down has nothing registered or under way.
ListenersAccounted ==
    /\ \A t \in TaskNames :
          /\ lTasks[t].at = "stopped" => lTasks[t].stop # "no"
          /\ lTasks[t].at # "done" =>
                \/ t \in lAbandoned \/ lOp.old = t
                \/ \E s \in Services : lCurrent[s] = t
    /\ lRun = "down" => lWrites = {} /\ \A s \in Services : lCurrent[s] = 0

ListenerInv == ListenerKinds /\ RegisteredServes /\ OperationOK /\ ListenersAccounted

\* The names of module Mappings, by those of this one.
LEMMA ListenerNames ==
  /\ Listeners!Tasks = TaskNames /\ Listeners!Sets = MappingSets
  /\ Listeners!NoTask = 0 /\ 0 \notin TaskNames
  /\ Listeners!NoMappings \in MappingSets
  /\ Listeners!Idle \in OperationSet /\ Listeners!Idle.at = "idle" /\ Listeners!Idle.old = 0
  /\ Listeners!Unspawned \in ListenerSet /\ Listeners!Unspawned.at = "done"
<1>1. Listeners!NoMappings \in MappingSets
  BY DEF Listeners!NoMappings, MappingSets
<1>2. Listeners!Tasks = TaskNames /\ Listeners!Sets = MappingSets
      /\ Listeners!NoTask = 0 /\ 0 \notin TaskNames
  BY DEF Listeners!Tasks, TaskNames, Listeners!Sets, MappingSets, Listeners!NoTask
<1>3. Listeners!Unspawned \in ListenerSet /\ Listeners!Unspawned.at = "done"
  BY DEF Listeners!Unspawned, ListenerSet
<1>4. Listeners!Idle \in OperationSet /\ Listeners!Idle.at = "idle" /\ Listeners!Idle.old = 0
  BY <1>1, <1>2 DEF Listeners!Idle, OperationSet
<1> QED BY <1>1, <1>2, <1>3, <1>4

\* A listener that is told to stop, or not.
LEMMA ListenerTold ==
  ASSUME NEW r \in ListenerSet, NEW how \in {"no", "sent", "dropped"}
  PROVE  /\ [r EXCEPT !.stop = how] \in ListenerSet
         /\ [r EXCEPT !.stop = how].at = r.at /\ [r EXCEPT !.stop = how].stop = how
         /\ [r EXCEPT !.stop = how].service = r.service /\ [r EXCEPT !.stop = how].bind = r.bind
  BY DEF ListenerSet

\* A listener that goes on to another state.
LEMMA ListenerMoved ==
  ASSUME NEW r \in ListenerSet,
         NEW at \in {"bound", "running", "stopped", "failed", "rebinding", "done"}
  PROVE  /\ [r EXCEPT !.at = at] \in ListenerSet
         /\ [r EXCEPT !.at = at].at = at /\ [r EXCEPT !.at = at].stop = r.stop
         /\ [r EXCEPT !.at = at].service = r.service /\ [r EXCEPT !.at = at].bind = r.bind
  BY DEF ListenerSet

\* A listener that has bound its socket.
LEMMA NewListener ==
  ASSUME NEW s \in Services, NEW b \in Loopbacks
  PROVE  /\ Listeners!Listener(s, b) \in ListenerSet
         /\ Listeners!Listener(s, b).service = s /\ Listeners!Listener(s, b).bind = b
         /\ Listeners!Listener(s, b).at = "bound" /\ Listeners!Listener(s, b).stop = "no"
  BY DEF Listeners!Listener, ListenerSet

\* The fields of the operation.
LEMMA OperationFields ==
  ASSUME ListenerKinds
  PROVE  /\ lOp.at \in {"idle", "persisting", "persisted", "switched", "joining"}
         /\ lOp.service \in Services \cup {Absent} /\ lOp.next \in MappingSets
         /\ lOp.old \in TaskNames \cup {0}
  BY DEF ListenerKinds, OperationSet

\* Where a name is free, the one that is taken is.
LEMMA FreshListener ==
  ASSUME lOp.old = 0, \E t \in TaskNames : Unnamed(t)
  PROVE  Unnamed(Listeners!Fresh)
<1>1. \A t \in Listeners!Free : Unnamed(t)
  BY ListenerNames DEF Listeners!Free, Listeners!Alive, Unnamed
<1>2. \E t \in TaskNames : t \in Listeners!Free
  BY ListenerNames DEF Listeners!Free, Listeners!Alive, Unnamed
<1> QED BY <1>1, <1>2 DEF Listeners!Fresh

\* One listener goes on, or ends because it was told to.
LEMMA OneListener ==
  ASSUME ListenerInv, NEW t \in TaskNames, NEW u \in ListenerSet,
         lTasks[t].at # "done", lTasks' = [lTasks EXCEPT ![t] = u],
         \/ u.at = "done" /\ lTasks[t].stop # "no" /\ lAbandoned' = lAbandoned \ {t}
         \/ /\ u.at # "done" /\ lAbandoned' = lAbandoned
            /\ u.service = lTasks[t].service /\ u.bind = lTasks[t].bind
            /\ u.stop = lTasks[t].stop /\ (u.at = "stopped" => u.stop # "no"),
         lReady' \in [Services -> TaskNames \cup {0}],
         \A s \in Services : lReady'[s] \in {lReady[s], 0} \/ (u.at # "done" /\ lReady'[s] = t),
         UNCHANGED <<lRun, lDurable, lMappings, lCurrent, lOp, lWrites, lTorn>>
  PROVE  ListenerInv'
<1> USE DEF ListenerInv
<1>1. lTasks' \in [TaskNames -> ListenerSet] /\ lTasks'[t] = u
      /\ \A q \in TaskNames : q # t => lTasks'[q] = lTasks[q]
  BY DEF ListenerKinds
<1>2. u.at \in {"bound", "running", "stopped", "failed", "rebinding", "done"}
  BY DEF ListenerSet
<1>3. ListenerKinds'
  BY <1>1 DEF ListenerKinds
<1>4. \A q, s : Serves(q, s) => Serves(q, s)' /\ lTasks'[q].bind = lTasks[q].bind
  BY <1>1, <1>2 DEF Serves
<1>5. \A s \in Services : lCurrent[s] # 0 => lCurrent[s] \in TaskNames
  BY DEF ListenerKinds
<1>6. RegisteredServes'
  BY <1>4 DEF RegisteredServes
<1>7. \A q \in TaskNames : Unnamed(q) => Unnamed(q)'
  BY <1>1, ListenerNames DEF Unnamed
<1>8. OperationOK'
  <2>1. lOp.at = "switched" /\ lOp.next[lOp.service] # Absent =>
           lTasks'[lCurrent[lOp.service]].bind = lTasks[lCurrent[lOp.service]].bind
    BY <1>4 DEF OperationOK, RegisteredServes
  <2> QED BY <1>7, <2>1 DEF OperationOK
<1>9. ListenersAccounted'
  BY <1>1 DEF ListenersAccounted
<1> QED BY <1>3, <1>6, <1>8, <1>9

\* A task goes on by itself.
LEMMA ListenerGoes ==
  ASSUME ListenerInv, NEW t \in TaskNames,
         NEW at \in {"bound", "running", "stopped", "failed", "rebinding", "done"},
         Listeners!TaskStep(t, at),
         at \in {"stopped", "done"} => lTasks[t].stop # "no",
         lTasks[t].at # "done",
         \/ lReady' = lReady
         \/ at # "done" /\ lReady' = [lReady EXCEPT ![lTasks[t].service] = t]
         \/ lReady' = [lReady EXCEPT ![lTasks[t].service] = 0]
  PROVE  ListenerInv'
<1>0. lTasks[t] \in ListenerSet /\ lReady \in [Services -> TaskNames \cup {0}]
  BY DEF ListenerInv, ListenerKinds
<1>2. UNCHANGED <<lRun, lDurable, lMappings, lCurrent, lOp, lWrites, lTorn>>
  BY DEF Listeners!TaskStep
<1>3. /\ lReady' \in [Services -> TaskNames \cup {0}]
      /\ \A s \in Services : lReady'[s] \in {lReady[s], 0} \/ (at # "done" /\ lReady'[s] = t)
  BY <1>0
<1>5. lAbandoned' = IF at = "done" THEN lAbandoned \ {t} ELSE lAbandoned
  BY DEF Listeners!TaskStep
<1>6. CASE at = "done"
  <2>1. PICK u \in ListenerSet : u = Listeners!Unspawned /\ u.at = "done"
    BY ListenerNames
  <2>2. lTasks' = [lTasks EXCEPT ![t] = u]
    BY <1>6, <2>1 DEF Listeners!TaskStep
  <2> QED BY <1>2, <1>3, <1>5, <1>6, <2>1, <2>2, OneListener
<1>7. CASE at # "done"
  <2>1. PICK u \in ListenerSet :
           /\ u = [lTasks[t] EXCEPT !.at = at] /\ u.at = at
           /\ u.service = lTasks[t].service /\ u.bind = lTasks[t].bind
           /\ u.stop = lTasks[t].stop
    <3>1. PICK r \in ListenerSet : r = lTasks[t]
      BY <1>0
    <3>2. /\ [r EXCEPT !.at = at] \in ListenerSet
          /\ [r EXCEPT !.at = at].at = at /\ [r EXCEPT !.at = at].stop = r.stop
          /\ [r EXCEPT !.at = at].service = r.service /\ [r EXCEPT !.at = at].bind = r.bind
      BY ListenerMoved
    <3> QED BY <3>1, <3>2
  <2>2. lTasks' = [lTasks EXCEPT ![t] = [lTasks[t] EXCEPT !.at = at]]
    BY <1>7 DEF Listeners!TaskStep
  <2>3. lTasks' = [lTasks EXCEPT ![t] = u]
    BY <2>1, <2>2
  <2>4. u.at = "stopped" => u.stop # "no"
    BY <2>1
  <2> QED BY <1>2, <1>3, <1>5, <1>7, <2>1, <2>3, <2>4, OneListener
<1> QED BY <1>6, <1>7

\* What a listener task does.
LEMMA ListenerTaskSteps ==
  ASSUME ListenerInv, NEW t \in TaskNames,
         \/ Listeners!ShowReady(t) \/ Listeners!ListenerStops(t) \/ Listeners!ListenerFails(t)
         \/ Listeners!Withdraw(t) \/ Listeners!Rebind(t) \/ Listeners!RebindEnds(t)
  PROVE  ListenerInv'
<1>1. CASE Listeners!ShowReady(t)
  <2>1. /\ Listeners!TaskStep(t, "running") /\ lTasks[t].at # "done"
        /\ lReady' = [lReady EXCEPT ![lTasks[t].service] = t]
    BY <1>1 DEF Listeners!ShowReady
  <2> QED BY <2>1, ListenerGoes
<1>2. CASE Listeners!ListenerStops(t)
  <2>1. /\ Listeners!TaskStep(t, "stopped") /\ lTasks[t].at # "done"
        /\ lReady' = lReady /\ lTasks[t].stop # "no"
    BY <1>2 DEF Listeners!ListenerStops
  <2> QED BY <2>1, ListenerGoes
<1>3. CASE Listeners!ListenerFails(t)
  <2>1. /\ Listeners!TaskStep(t, "failed") /\ lTasks[t].at # "done"
        /\ lReady' = lReady
    BY <1>3 DEF Listeners!ListenerFails
  <2> QED BY <2>1, ListenerGoes
<1>4. CASE Listeners!Withdraw(t)
  <2>1. /\ lTasks[t].at \in {"stopped", "failed"}
        /\ lTasks[t].at = "stopped" => lTasks[t].stop # "no"
        /\ lReady' = lReady \/ lReady' = [lReady EXCEPT ![lTasks[t].service] = 0]
        /\ Listeners!TaskStep(t, IF lTasks[t].at = "stopped" \/ lTasks[t].stop = "sent"
                                 THEN "done" ELSE "rebinding")
    BY <1>4, ListenerNames DEF Listeners!Withdraw, ListenerInv, ListenersAccounted
  <2>2. CASE lTasks[t].at = "stopped" \/ lTasks[t].stop = "sent"
    <3>1. Listeners!TaskStep(t, "done") /\ lTasks[t].stop # "no" /\ lTasks[t].at # "done"
      BY <2>1, <2>2
    <3> QED BY <2>1, <3>1, ListenerGoes
  <2>3. CASE ~(lTasks[t].at = "stopped" \/ lTasks[t].stop = "sent")
    <3>1. Listeners!TaskStep(t, "rebinding") /\ lTasks[t].at # "done"
      BY <2>1, <2>3
    <3> QED BY <2>1, <3>1, ListenerGoes
  <2> QED BY <2>2, <2>3
<1>5. CASE Listeners!Rebind(t)
  <2>1. /\ Listeners!TaskStep(t, "bound") /\ lTasks[t].at # "done"
        /\ lReady' = lReady
    BY <1>5 DEF Listeners!Rebind
  <2> QED BY <2>1, ListenerGoes
<1>6. CASE Listeners!RebindEnds(t)
  <2>1. /\ Listeners!TaskStep(t, "done") /\ lTasks[t].at # "done"
        /\ lReady' = lReady /\ lTasks[t].stop # "no"
    BY <1>6 DEF Listeners!RebindEnds
  <2> QED BY <2>1, ListenerGoes
<1> QED BY <1>1, <1>2, <1>3, <1>4, <1>5, <1>6

\* An operation begins: an address or nothing for a service.
LEMMA OperationBegins ==
  ASSUME ListenerInv, NEW s \in Services, NEW b \in Loopbacks \cup {Absent},
         lRun = "up", lOp.at = "idle",
         b # Absent => \E t \in TaskNames : Unnamed(t),
         Listeners!Begin(s, [lMappings EXCEPT ![s] = b])
  PROVE  ListenerInv'
<1> DEFINE next == [lMappings EXCEPT ![s] = b]
<1>1. lMappings \in MappingSets
  BY DEF ListenerInv, ListenerKinds
<1>2. next \in MappingSets /\ next[s] = b /\ \A q \in Services : q # s => next[q] = lMappings[q]
  BY <1>1 DEF MappingSets
<1>3. /\ lOp' = [at |-> "persisting", service |-> s, next |-> next, old |-> 0]
      /\ lWrites' = lWrites \cup {next}
      /\ UNCHANGED <<lRun, lDurable, lMappings, lTasks, lCurrent, lReady, lAbandoned, lTorn>>
  BY ListenerNames DEF Listeners!Begin, Listeners!NoStop
<1> HIDE DEF next
<1>4. /\ lOp' \in OperationSet /\ lOp'.at = "persisting" /\ lOp'.service = s
      /\ lOp'.next = next /\ lOp'.old = 0
  BY <1>2, <1>3 DEF OperationSet
<1>5. lOp.old = 0
  BY DEF ListenerInv, OperationOK
<1>6. ListenerKinds'
  BY <1>2, <1>3, <1>4 DEF ListenerInv, ListenerKinds
<1>7. \A q, r : (Serves(q, r) => Serves(q, r)') /\ (Unnamed(q) => Unnamed(q)')
  BY <1>3 DEF Serves, Unnamed
<1>8. RegisteredServes'
  BY <1>3, <1>4, <1>7 DEF ListenerInv, RegisteredServes
<1>9. OperationOK'
  BY <1>2, <1>3, <1>4, <1>7 DEF OperationOK
<1>10. ListenersAccounted'
  BY <1>3, <1>4, <1>5, ListenerNames DEF ListenerInv, ListenersAccounted
<1> QED BY <1>6, <1>8, <1>9, <1>10 DEF ListenerInv

\* An operation begins.
LEMMA ListenerRequests ==
  ASSUME ListenerInv, NEW s \in Services,
         Listeners!Delete(s) \/ \E b \in Loopbacks : Listeners!Upsert(s, b)
  PROVE  ListenerInv'
<1>1. CASE Listeners!Delete(s)
  BY <1>1, OperationBegins DEF Listeners!Delete
<1>2. ASSUME NEW b \in Loopbacks, Listeners!Upsert(s, b) PROVE ListenerInv'
  <2>1. \E t \in TaskNames : Unnamed(t)
    BY <1>2, ListenerNames DEF Listeners!Upsert, Listeners!Free, Listeners!Alive, Unnamed
  <2>2. PICK c \in Loopbacks \cup {Absent} : c = b
    OBVIOUS
  <2>3. lRun = "up" /\ lOp.at = "idle" /\ Listeners!Begin(s, [lMappings EXCEPT ![s] = c])
    BY <1>2, <2>2 DEF Listeners!Upsert
  <2> QED BY <2>1, <2>3, OperationBegins
<1> QED BY <1>1, <1>2

\* A write of the pool is carried out or fails.
LEMMA ListenerWrites ==
  ASSUME ListenerInv, NEW next \in MappingSets,
         Listeners!Persist(next) \/ Listeners!PersistFails(next)
  PROVE  ListenerInv'
<1> USE DEF ListenerInv
<1>1. /\ lWrites' = lWrites \ {next} /\ next \in lWrites /\ lDurable' \in MappingSets
      /\ UNCHANGED <<lRun, lMappings, lTasks, lCurrent, lReady, lAbandoned, lTorn>>
  BY DEF Listeners!Persist, Listeners!PersistFails, Listeners!NoStop, ListenerKinds
<1>2. \/ lOp' = lOp
      \/ lOp.at = "persisting" /\ lOp' = [lOp EXCEPT !.at = "persisted"]
      \/ lOp.at = "persisting" /\ lOp' = Listeners!Idle
  BY DEF Listeners!Persist, Listeners!PersistFails
<1>3. /\ lOp' \in OperationSet /\ lOp'.old = lOp.old
      /\ \/ lOp' = lOp
         \/ lOp'.at = "idle" /\ lOp.at = "persisting"
         \/ /\ lOp'.at = "persisted" /\ lOp.at = "persisting"
            /\ lOp'.service = lOp.service /\ lOp'.next = lOp.next
  <2>1. lOp \in OperationSet
    BY DEF ListenerKinds
  <2>2. CASE lOp.at = "persisting" /\ lOp' = [lOp EXCEPT !.at = "persisted"]
    BY <2>1, <2>2 DEF OperationSet
  <2>3. CASE lOp.at = "persisting" /\ lOp' = Listeners!Idle
    <3>1. lOp.old = 0
      BY <2>3 DEF OperationOK
    <3> QED BY <2>3, <3>1, ListenerNames
  <2>4. CASE lOp' = lOp
    BY <2>1, <2>4
  <2> QED BY <1>2, <2>2, <2>3, <2>4
<1>4. \A q, r : (Serves(q, r) <=> Serves(q, r)') /\ (Unnamed(q) => Unnamed(q)')
  BY <1>1 DEF Serves, Unnamed
<1>5. ListenerKinds'
  BY <1>1, <1>3 DEF ListenerKinds
<1>6. RegisteredServes'
  BY <1>1, <1>3, <1>4 DEF RegisteredServes
<1>7. OperationOK'
  BY <1>1, <1>3, <1>4 DEF OperationOK
<1>8. ListenersAccounted'
  BY <1>1, <1>3 DEF ListenersAccounted
<1> QED BY <1>5, <1>6, <1>7, <1>8

\* The new listener takes the place of the old one, which still serves.
LEMMA ListenerSwitches ==
  ASSUME ListenerInv, Listeners!SwitchTask
  PROVE  ListenerInv'
<1> USE DEF ListenerInv
<1>1. PICK s \in Services : s = lOp.service
  BY DEF Listeners!SwitchTask, Listeners!Registered, OperationOK
<1>2. PICK b \in Loopbacks \cup {Absent} : b = lOp.next[s]
  BY DEF ListenerKinds, OperationSet, MappingSets
<1>3. PICK old \in TaskNames \cup {0} : old = lCurrent[s]
  BY DEF ListenerKinds
<1>4. /\ lOp.at = "persisted" /\ lRun = "up" /\ lOp.old = 0
      /\ UNCHANGED <<lRun, lDurable, lMappings, lReady, lWrites, lAbandoned, lTorn>>
      /\ lOp' = [lOp EXCEPT !.at = "switched", !.old = old]
  BY <1>1, <1>3 DEF Listeners!SwitchTask, Listeners!Registered, Listeners!NoStop, OperationOK
<1>5. /\ lOp' \in OperationSet /\ lOp'.at = "switched" /\ lOp'.service = s
      /\ lOp'.next = lOp.next /\ lOp'.old = old
  <2>1. lOp \in OperationSet
    BY DEF ListenerKinds
  <2>2. PICK o : o = lOp'
    OBVIOUS
  <2>3. o = [at |-> "switched", service |-> s, next |-> lOp.next, old |-> old]
    BY <1>1, <1>4, <2>1, <2>2 DEF OperationSet
  <2> QED BY <2>1, <2>2, <2>3, <1>1 DEF OperationSet
<1>6. \A q \in Services : lCurrent[q] # 0 => Serves(lCurrent[q], q)
  BY <1>4 DEF RegisteredServes
<1>7. old # 0 => \A q \in Services : q # s => lCurrent[q] # old
  BY <1>3, <1>6 DEF Serves
<1>8. s \notin lTorn /\ lMappings[s] # Absent => Serves(old, s) /\ lTasks[old].bind = lMappings[s]
  BY <1>3, <1>4, <1>6 DEF RegisteredServes
<1>9. \A q \in Services : q # s => lOp.next[q] = lMappings[q]
  BY <1>1, <1>4 DEF OperationOK
<1>10. CASE b = Absent
  <2>1. /\ lCurrent' = [lCurrent EXCEPT ![s] = 0] /\ lTasks' = lTasks
        /\ lCurrent' \in [Services -> TaskNames \cup {0}]
    BY <1>1, <1>2, <1>10, ListenerNames
       DEF Listeners!SwitchTask, Listeners!Registered, ListenerKinds
  <2>2. \A q, r : Serves(q, r) <=> Serves(q, r)'
    BY <2>1 DEF Serves
  <2>3. ListenerKinds'
    BY <1>4, <1>5, <2>1 DEF ListenerKinds
  <2>4. lCurrent'[s] = 0 /\ \A q \in Services : q # s => lCurrent'[q] = lCurrent[q]
    BY <2>1 DEF ListenerKinds
  <2>5. RegisteredServes'
    BY <1>4, <1>5, <1>6, <1>8, <2>1, <2>2, <2>4 DEF RegisteredServes
  <2>6. OperationOK'
    BY <1>2, <1>4, <1>5, <1>7, <1>9, <1>10, <2>4 DEF OperationOK
  <2>7. ListenersAccounted'
    BY <1>3, <1>4, <1>5, <2>1, <2>4, ListenerNames DEF ListenersAccounted
  <2> QED BY <2>3, <2>5, <2>6, <2>7
<1>11. CASE b # Absent
  <2>0. PICK n \in TaskNames : n = Listeners!Fresh /\ Unnamed(n)
    <3>1. \E t \in TaskNames : Unnamed(t)
      BY <1>1, <1>2, <1>4, <1>11 DEF OperationOK
    <3>2. Unnamed(Listeners!Fresh)
      BY <1>4, <3>1, FreshListener
    <3> QED BY <3>2 DEF Unnamed
  <2>01. PICK u \in ListenerSet : /\ u = Listeners!Listener(s, b)
                                  /\ u.service = s /\ u.bind = b /\ u.at = "bound" /\ u.stop = "no"
    BY <1>11, NewListener
  <2>1. /\ lCurrent' = [lCurrent EXCEPT ![s] = n] /\ lTasks' = [lTasks EXCEPT ![n] = u]
        /\ lCurrent' \in [Services -> TaskNames \cup {0}]
    BY <1>1, <1>2, <1>11, <2>0, <2>01, ListenerNames
       DEF Listeners!SwitchTask, Listeners!Registered, ListenerKinds
  <2>2. /\ lTasks' \in [TaskNames -> ListenerSet] /\ lTasks'[n] = u
        /\ \A q \in TaskNames : q # n => lTasks'[q] = lTasks[q]
        /\ lCurrent'[s] = n /\ \A q \in Services : q # s => lCurrent'[q] = lCurrent[q]
        /\ n # 0 /\ old # n /\ \A q \in Services : lCurrent[q] # n
    BY <1>3, <2>0, <2>1, ListenerNames DEF ListenerKinds, Unnamed
  <2>3. \A q, r : q # n /\ Serves(q, r) => Serves(q, r)' /\ lTasks'[q].bind = lTasks[q].bind
    BY <2>2 DEF Serves
  <2>31. Serves(n, s)'
    BY <2>01, <2>2 DEF Serves
  <2>4. ListenerKinds'
    BY <1>4, <1>5, <2>1, <2>2 DEF ListenerKinds
  <2>5. RegisteredServes'
    <3>2. \A q \in Services : lCurrent'[q] # 0 => Serves(lCurrent[q], q)'
      <4> SUFFICES ASSUME NEW q \in Services, lCurrent'[q] # 0
                   PROVE  Serves(lCurrent[q], q)'
        OBVIOUS
      <4>1. CASE q = s
        BY <2>01, <2>2, <4>1 DEF Serves
      <4>2. CASE q # s
        <5>1. Serves(lCurrent[q], q) /\ lCurrent[q] # n /\ lCurrent'[q] = lCurrent[q]
          BY <1>6, <2>2, <4>2
        <5> QED BY <2>2, <5>1 DEF Serves
      <4> QED BY <4>1, <4>2
    <3>3. \A q \in Services : q \notin lTorn /\ lMappings[q] # Absent /\ q # s =>
             lCurrent'[q] # 0 /\ lTasks'[lCurrent'[q]].bind = lMappings[q]
      BY <1>1, <1>4, <1>6, <2>2, <2>3 DEF RegisteredServes
    <3>4. s \notin lTorn /\ lMappings[s] # Absent =>
             Serves(old, s)' /\ lTasks'[old].bind = lMappings[s]
      BY <1>8, <2>2, <2>3
    <3>5. s \notin lTorn /\ lMappings[s] # Absent =>
             Serves(lOp.old, s)' /\ lTasks'[lOp'.old].bind = lMappings[s]
      BY <1>5, <3>4 DEF Serves
    <3> QED BY <1>4, <1>5, <3>2, <3>3, <3>5 DEF RegisteredServes
  <2>6. OperationOK'
    BY <1>2, <1>4, <1>5, <1>7, <1>9, <2>01, <2>2 DEF OperationOK
  <2>7. ListenersAccounted'
    BY <1>3, <1>4, <1>5, <2>01, <2>2, ListenerNames DEF ListenersAccounted
  <2> QED BY <2>4, <2>5, <2>6, <2>7
<1> QED BY <1>10, <1>11

\* The listener that an operation takes leave of is told to stop, and no other.
LEMMA OldTold ==
  ASSUME ListenerKinds, NEW how \in {"sent", "dropped"},
         lTasks' = Listeners!Told(lOp.old, how)
  PROVE  /\ lTasks' \in [TaskNames -> ListenerSet]
         /\ \A q \in TaskNames :
               /\ lTasks'[q].at = lTasks[q].at /\ lTasks'[q].service = lTasks[q].service
               /\ lTasks'[q].bind = lTasks[q].bind
               /\ lTasks[q].stop # "no" => lTasks'[q].stop # "no"
               /\ q # lOp.old => lTasks'[q] = lTasks[q]
<1>1. CASE lOp.old = 0
  BY <1>1, ListenerNames DEF Listeners!Told, ListenerKinds
<1>2. CASE lOp.old # 0
  <2>1. PICK old \in TaskNames : old = lOp.old
    BY <1>2, OperationFields
  <2>2. PICK r \in ListenerSet : r = lTasks[old]
    BY DEF ListenerKinds
  <2>3. PICK u \in ListenerSet :
          /\ u = [r EXCEPT !.stop = how] /\ u.at = r.at /\ u.stop = how
          /\ u.service = r.service /\ u.bind = r.bind
    <3>1. /\ [r EXCEPT !.stop = how] \in ListenerSet
          /\ [r EXCEPT !.stop = how].at = r.at /\ [r EXCEPT !.stop = how].stop = how
          /\ [r EXCEPT !.stop = how].service = r.service /\ [r EXCEPT !.stop = how].bind = r.bind
      <4>1. PICK h \in {"no", "sent", "dropped"} : h = how
        OBVIOUS
      <4>2. /\ [r EXCEPT !.stop = h] \in ListenerSet
            /\ [r EXCEPT !.stop = h].at = r.at /\ [r EXCEPT !.stop = h].stop = h
            /\ [r EXCEPT !.stop = h].service = r.service /\ [r EXCEPT !.stop = h].bind = r.bind
        BY ListenerTold
      <4> QED BY <4>1, <4>2
    <3> QED BY <3>1
  <2>4. lTasks' = [lTasks EXCEPT ![old] = u]
    BY <1>2, <2>1, <2>2, <2>3, ListenerNames DEF Listeners!Told
  <2> QED BY <2>1, <2>2, <2>3, <2>4 DEF ListenerKinds
<1> QED BY <1>1, <1>2

\* The new set is shown.
LEMMA ListenerShows ==
  ASSUME ListenerInv, Listeners!ShowSet
  PROVE  ListenerInv'
<1> USE DEF ListenerInv
<1>1. PICK s \in Services : s = lOp.service
  BY DEF Listeners!ShowSet, OperationOK
<1>2. /\ lOp.at = "switched" /\ lRun = "up" /\ lMappings' = lOp.next
      /\ lTorn' = lTorn \ {s} /\ lTasks' = Listeners!Told(lOp.old, "sent")
      /\ lOp' = [lOp EXCEPT !.at = "joining"]
      /\ UNCHANGED <<lRun, lDurable, lCurrent, lReady, lWrites, lAbandoned>>
  BY <1>1 DEF Listeners!ShowSet, OperationOK
<1>3. /\ lOp' \in OperationSet /\ lOp'.at = "joining" /\ lOp'.service = s
      /\ lOp'.next = lOp.next /\ lOp'.old = lOp.old /\ lOp.next \in MappingSets
  BY <1>1, <1>2 DEF ListenerKinds, OperationSet
<1>4. /\ lTasks' \in [TaskNames -> ListenerSet]
      /\ \A q \in TaskNames :
            /\ lTasks'[q].at = lTasks[q].at /\ lTasks'[q].service = lTasks[q].service
            /\ lTasks'[q].bind = lTasks[q].bind
            /\ lTasks[q].stop # "no" => lTasks'[q].stop # "no"
            /\ q # lOp.old => lTasks'[q] = lTasks[q]
  BY <1>2, OldTold
<1>5. ListenerKinds'
  BY <1>2, <1>3, <1>4 DEF ListenerKinds
<1>6. \A q \in Services : lCurrent[q] # 0 =>
          /\ Serves(lCurrent[q], q) /\ Serves(lCurrent[q], q)'
          /\ lTasks'[lCurrent[q]].bind = lTasks[lCurrent[q]].bind
  <2> SUFFICES ASSUME NEW q \in Services, lCurrent[q] # 0
               PROVE  /\ Serves(lCurrent[q], q) /\ Serves(lCurrent[q], q)'
                      /\ lTasks'[lCurrent[q]].bind = lTasks[lCurrent[q]].bind
    OBVIOUS
  <2>1. Serves(lCurrent[q], q)
    BY <1>2 DEF RegisteredServes
  <2>2. lCurrent[q] \in TaskNames /\ lOp.old # lCurrent[q] /\ lCurrent' = lCurrent
    BY <1>2, <2>1, ListenerNames DEF Serves, OperationOK
  <2> QED BY <1>4, <2>1, <2>2 DEF Serves
<1>7. RegisteredServes'
  <2>1. \A q \in Services : q \notin lTorn' /\ lMappings'[q] # Absent =>
           lCurrent[q] # 0 /\ lTasks[lCurrent[q]].bind = lMappings'[q]
    BY <1>1, <1>2 DEF RegisteredServes, OperationOK
  <2> QED BY <1>2, <1>3, <1>6, <2>1 DEF RegisteredServes
<1>8. OperationOK'
  BY <1>2, <1>3 DEF OperationOK
<1>9. ListenersAccounted'
  BY <1>2, <1>3, <1>4 DEF ListenersAccounted
<1> QED BY <1>5, <1>7, <1>8, <1>9

\* An operation ends, or loses its caller.
LEMMA ListenerEnds ==
  ASSUME ListenerInv, Listeners!JoinOld \/ Listeners!Cancel
  PROVE  ListenerInv'
<1> USE DEF ListenerInv
<1>1. /\ lOp' = Listeners!Idle /\ lOp.at # "idle" /\ lRun = "up"
      /\ UNCHANGED <<lRun, lDurable, lMappings, lCurrent, lReady, lWrites>>
  BY DEF Listeners!JoinOld, Listeners!Cancel, Listeners!NoStop, OperationOK
<1>2. lOp' \in OperationSet /\ lOp'.at = "idle" /\ lOp'.old = 0
  BY <1>1, ListenerNames
<1>3. OperationOK'
  BY <1>2 DEF OperationOK
<1>4. CASE Listeners!JoinOld
  <2>1. /\ UNCHANGED <<lTasks, lAbandoned, lTorn>> /\ lOp.at = "joining"
        /\ lOp.old # 0 => lTasks[lOp.old].at = "done"
    BY <1>4, ListenerNames DEF Listeners!JoinOld, Listeners!NoStop, Listeners!Alive
  <2>2. \A q, r : Serves(q, r) <=> Serves(q, r)'
    BY <2>1 DEF Serves
  <2>3. RegisteredServes'
    BY <1>1, <1>2, <2>1, <2>2 DEF RegisteredServes
  <2>4. ListenersAccounted'
    BY <1>1, <1>2, <2>1, ListenerNames DEF ListenersAccounted
  <2>5. ListenerKinds'
    BY <1>1, <1>2, <2>1 DEF ListenerKinds
  <2> QED BY <1>3, <2>3, <2>4, <2>5
<1>5. CASE Listeners!Cancel
  <2>1. /\ lTasks' = IF lOp.at = "switched" THEN Listeners!Told(lOp.old, "dropped") ELSE lTasks
        /\ lTorn' = IF lOp.at = "switched" THEN lTorn \cup {lOp.service} ELSE lTorn
        /\ lAbandoned' = lAbandoned \cup
              {t \in TaskNames : lOp.at \in {"switched", "joining"} /\ lOp.old = t
                                 /\ lTasks[t].at # "done"}
    BY <1>5, ListenerNames DEF Listeners!Cancel, Listeners!Alive
  <2>2. /\ lTasks' \in [TaskNames -> ListenerSet]
        /\ \A q \in TaskNames :
            /\ lTasks'[q].at = lTasks[q].at /\ lTasks'[q].service = lTasks[q].service
            /\ lTasks'[q].bind = lTasks[q].bind
            /\ lTasks[q].stop # "no" => lTasks'[q].stop # "no"
            /\ q # lOp.old => lTasks'[q] = lTasks[q]
    <3>1. CASE lOp.at = "switched"
      BY <2>1, <3>1, OldTold
    <3>2. CASE lOp.at # "switched"
      BY <2>1, <3>2 DEF ListenerKinds
    <3> QED BY <3>1, <3>2
  <2>3. \A q \in Services : lCurrent[q] # 0 =>
          /\ Serves(lCurrent[q], q) /\ Serves(lCurrent[q], q)'
          /\ lTasks'[lCurrent[q]].bind = lTasks[lCurrent[q]].bind
    <3> SUFFICES ASSUME NEW q \in Services, lCurrent[q] # 0
                 PROVE  /\ Serves(lCurrent[q], q) /\ Serves(lCurrent[q], q)'
                        /\ lTasks'[lCurrent[q]].bind = lTasks[lCurrent[q]].bind
      OBVIOUS
    <3>1. Serves(lCurrent[q], q)
      BY <1>1 DEF RegisteredServes
    <3>2. lCurrent[q] \in TaskNames /\ lOp.old # lCurrent[q] /\ lCurrent' = lCurrent
      BY <1>1, <3>1, ListenerNames DEF Serves, OperationOK
    <3> QED BY <2>2, <3>1, <3>2 DEF Serves
  <2>4. RegisteredServes'
    <3>1. \A q \in Services : q \notin lTorn' /\ lMappings[q] # Absent =>
             lCurrent[q] # 0 /\ lTasks[lCurrent[q]].bind = lMappings[q]
      BY <1>1, <2>1 DEF RegisteredServes
    <3> QED BY <1>1, <1>2, <2>3, <3>1 DEF RegisteredServes
  <2>5. ListenersAccounted'
    <3>1. \A t \in TaskNames : lTasks[t].at # "done" =>
             t \in lAbandoned' \/ \E s \in Services : lCurrent[s] = t
      BY <2>1, ListenerNames DEF ListenersAccounted, OperationOK
    <3> QED BY <1>1, <2>2, <3>1 DEF ListenersAccounted
  <2>6. ListenerKinds'
    BY <1>1, <1>2, <2>2 DEF ListenerKinds
  <2> QED BY <1>3, <2>4, <2>5, <2>6
<1> QED BY <1>4, <1>5

\* The runtime is shut down or dies.
LEMMA ListenerStopsAll ==
  ASSUME ListenerInv, Listeners!Shutdown \/ Listeners!ShutdownReturns \/ Listeners!Crash
  PROVE  ListenerInv'
<1> USE DEF ListenerInv
<1>1. CASE Listeners!Shutdown
  <2>1. /\ lTasks' = [t \in TaskNames |->
                        IF \E s \in Services : lCurrent[s] = t
                        THEN [lTasks[t] EXCEPT !.stop = "sent"] ELSE lTasks[t]]
        /\ lOp.at = "idle" /\ lRun' = "stopping" /\ lOp.old = 0
        /\ UNCHANGED <<lDurable, lMappings, lCurrent, lReady, lOp, lWrites, lAbandoned, lTorn>>
    BY <1>1, ListenerNames DEF Listeners!Shutdown, Listeners!NoStop, OperationOK
  <2>2. \A t \in TaskNames :
           /\ lTasks'[t] \in ListenerSet /\ lTasks'[t].at = lTasks[t].at
           /\ lTasks[t].stop # "no" => lTasks'[t].stop # "no"
    BY <2>1, ListenerTold DEF ListenerKinds
  <2>3. ListenerKinds'
    BY <2>1, <2>2 DEF ListenerKinds
  <2>4. RegisteredServes' /\ OperationOK'
    BY <2>1 DEF RegisteredServes, OperationOK
  <2>5. ListenersAccounted'
    BY <2>1, <2>2 DEF ListenersAccounted
  <2> QED BY <2>3, <2>4, <2>5
<1>2. CASE Listeners!ShutdownReturns
  <2>1. /\ lRun = "stopping" /\ lRun' = "down" /\ lWrites = {} /\ lWrites' = {}
        /\ \A s \in Services : lCurrent[s] # 0 => lTasks[lCurrent[s]].at = "done"
        /\ lCurrent' = [s \in Services |-> 0] /\ lMappings' = Listeners!NoMappings
        /\ UNCHANGED <<lDurable, lTasks, lReady, lOp, lAbandoned>>
    BY <1>2, ListenerNames DEF Listeners!ShutdownReturns, Listeners!Alive
  <2>2. lOp.at = "idle" /\ lOp.old = 0
    BY <2>1 DEF OperationOK
  <2>3. ListenerKinds'
    BY <2>1, ListenerNames DEF ListenerKinds
  <2>4. RegisteredServes' /\ OperationOK'
    BY <2>1, <2>2 DEF RegisteredServes, OperationOK
  <2>5. ListenersAccounted'
    BY <2>1, <2>2, ListenerNames DEF ListenersAccounted
  <2> QED BY <2>3, <2>4, <2>5
<1>3. CASE Listeners!Crash
  <2>1. /\ lRun' = "down" /\ lWrites' = {} /\ lTasks' = [t \in TaskNames |-> Listeners!Unspawned]
        /\ lCurrent' = [s \in Services |-> 0] /\ lReady' = [s \in Services |-> 0]
        /\ lMappings' = Listeners!NoMappings /\ lOp' = Listeners!Idle /\ lDurable' = lDurable
    BY <1>3, ListenerNames DEF Listeners!Crash
  <2>3. ListenerKinds'
    BY <2>1, ListenerNames DEF ListenerKinds
  <2>4. RegisteredServes' /\ OperationOK'
    BY <2>1, ListenerNames DEF RegisteredServes, OperationOK
  <2>5. ListenersAccounted'
    BY <2>1, ListenerNames DEF ListenersAccounted
  <2> QED BY <2>3, <2>4, <2>5
<1> QED BY <1>1, <1>2, <1>3

\* The stored set can be bound: every mapped service gets a task of its own.
LEMMA EnoughNames ==
  ASSUME NEW S, S \subseteq Services
  PROVE  \E f \in Listeners!Injections(S) : TRUE
<1>1. PICK g \in [Services -> TaskNames] : \A s, t \in Services : g[s] = g[t] => s = t
  BY ListenerConstants DEF TaskNames
<1> DEFINE f == [s \in S |-> g[s]]
<1>2. f \in [S -> TaskNames] /\ \A s, t \in S : f[s] = f[t] => s = t
  BY <1>1
<1> HIDE DEF f
<1>3. f \in Listeners!Injections(S)
  BY <1>2, ListenerNames, Zenon DEF Listeners!Injections
<1> QED BY <1>3

\* The runtime starts: a listener is bound for every stored mapping.
LEMMA ListenerStarts ==
  ASSUME ListenerInv, Listeners!Start
  PROVE  ListenerInv'
<1> USE DEF ListenerInv
<1> DEFINE S == Listeners!Mapped(lDurable)
           f == CHOOSE g \in Listeners!Injections(S) : TRUE
           owner(t) == CHOOSE s \in S : f[s] = t
<1>0. S \subseteq Services
  BY DEF Listeners!Mapped
<1>1. f \in [S -> TaskNames] /\ \A s, t \in S : f[s] = f[t] => s = t
  <2>1. f \in Listeners!Injections(S)
    <3>1. S \subseteq Services
      BY <1>0
    <3> HIDE DEF S
    <3> QED BY <3>1, EnoughNames
  <2> HIDE DEF f, S
  <2> QED BY <2>1, ListenerNames, Zenon DEF Listeners!Injections
<1>2. S = {s \in Services : lDurable[s] # Absent}
  BY DEF Listeners!Mapped
<1>3. /\ lRun = "down" /\ lRun' = "up" /\ lMappings' = lDurable
      /\ \A t \in TaskNames : lTasks[t].at = "done"
      /\ UNCHANGED <<lDurable, lReady, lOp, lWrites, lAbandoned, lTorn>>
  BY ListenerNames DEF Listeners!Start, Listeners!NoStop, Listeners!Alive
<1>4. /\ lTasks' = [t \in TaskNames |->
                      IF \E s \in S : f[s] = t
                      THEN Listeners!Listener(owner(t), lDurable[owner(t)])
                      ELSE Listeners!Unspawned]
      /\ lCurrent' = [s \in Services |-> IF s \in S THEN f[s] ELSE 0]
  <2>1. /\ lTasks' = [t \in Listeners!Tasks |->
                        IF \E s \in S : f[s] = t
                        THEN Listeners!Listener(owner(t), lDurable[owner(t)])
                        ELSE Listeners!Unspawned]
        /\ lCurrent' = [s \in Services |-> IF s \in S THEN f[s] ELSE Listeners!NoTask]
    BY Zenon DEF Listeners!Start
  <2> HIDE DEF f, S, owner
  <2> QED BY <2>1, ListenerNames, Zenon
<1>5. \A s \in S : /\ s \in Services /\ f[s] \in TaskNames
                   /\ owner(f[s]) = s /\ lDurable[s] \in Loopbacks
  <2>1. \A s \in S : s \in Services /\ f[s] \in TaskNames /\ lDurable[s] \in Loopbacks
    BY <1>1, <1>2 DEF ListenerKinds, MappingSets
  <2>2. ASSUME NEW s \in S PROVE owner(f[s]) = s
    <3> HIDE DEF f, S
    <3>1. \E q \in S : f[q] = f[s]
      OBVIOUS
    <3>2. owner(f[s]) \in S /\ f[owner(f[s])] = f[s]
      BY <3>1
    <3> HIDE DEF owner
    <3> QED BY <1>1, <3>2
  <2> QED BY <2>1, <2>2
<1> HIDE DEF owner
<1>6. \A s \in S : lTasks'[f[s]] = Listeners!Listener(s, lDurable[s])
  <2> HIDE DEF f, S
  <2> QED BY <1>4, <1>5, Zenon
<1>7. \A t \in TaskNames :
         \/ \E s \in S : f[s] = t /\ lTasks'[t] = Listeners!Listener(s, lDurable[s])
         \/ lTasks'[t] = Listeners!Unspawned
  <2> HIDE DEF f, S
  <2> QED BY <1>4, <1>6
<1>8. \A s \in Services : IF lDurable[s] # Absent THEN s \in S /\ lCurrent'[s] = f[s]
                          ELSE lCurrent'[s] = 0
  <2> HIDE DEF f, S
  <2> QED BY <1>2, <1>4
<1>9. lCurrent' \in [Services -> TaskNames \cup {0}]
  <2> HIDE DEF f, S
  <2> QED BY <1>4, <1>5
<1> HIDE DEF f, S
<1>10. \A t \in TaskNames : lTasks'[t] \in ListenerSet
  BY <1>5, <1>7, NewListener, ListenerNames
<1>11. lTasks' \in [TaskNames -> ListenerSet]
  BY <1>4, <1>10
<1>12. ListenerKinds'
  BY <1>3, <1>9, <1>11 DEF ListenerKinds
<1>13. lOp.at = "idle" /\ lOp.old = 0
  BY <1>3 DEF OperationOK
<1>14. RegisteredServes'
  <2>1. \A s \in S : /\ Serves(lCurrent[s], s)' /\ lCurrent'[s] # 0
                     /\ lTasks'[lCurrent'[s]].bind = lDurable[s]
    <3> SUFFICES ASSUME NEW s \in S
                 PROVE  /\ Serves(lCurrent[s], s)' /\ lCurrent'[s] # 0
                        /\ lTasks'[lCurrent'[s]].bind = lDurable[s]
      OBVIOUS
    <3>1. /\ s \in Services /\ f[s] \in TaskNames /\ lDurable[s] \in Loopbacks
          /\ lTasks'[f[s]] = Listeners!Listener(s, lDurable[s])
      BY <1>5, <1>6
    <3>2. lCurrent'[s] = f[s]
      BY <1>4, <3>1
    <3>3. /\ lTasks'[f[s]].service = s /\ lTasks'[f[s]].bind = lDurable[s]
          /\ lTasks'[f[s]].at = "bound" /\ lTasks'[f[s]].stop = "no"
      BY <3>1, NewListener
    <3> QED BY <3>1, <3>2, <3>3, ListenerNames DEF Serves
  <2>2. \A s \in Services : lCurrent'[s] # 0 => s \in S
    BY <1>8
  <2> QED BY <1>3, <1>8, <1>13, <2>1, <2>2 DEF RegisteredServes
<1>15. OperationOK'
  BY <1>3, <1>13 DEF OperationOK
<1>16. ListenersAccounted'
  <2>1. \A t \in TaskNames : lTasks'[t].at # "done" =>
           /\ \E s \in Services : lCurrent'[s] = t
           /\ lTasks'[t].at # "stopped"
    <3> SUFFICES ASSUME NEW t \in TaskNames, lTasks'[t].at # "done"
                 PROVE  /\ \E s \in Services : lCurrent'[s] = t
                        /\ lTasks'[t].at # "stopped"
      OBVIOUS
    <3>1. PICK s \in S : f[s] = t /\ lTasks'[t] = Listeners!Listener(s, lDurable[s])
      BY <1>7, ListenerNames
    <3>2. s \in Services /\ lCurrent'[s] = t /\ lDurable[s] \in Loopbacks
      BY <1>4, <1>5, <3>1
    <3> QED BY <3>1, <3>2, NewListener
  <2> QED BY <1>3, <2>1 DEF ListenersAccounted
<1> QED BY <1>12, <1>14, <1>15, <1>16

\* The invariant holds as long as listeners are looked at.
LEMMA ListenersAlways == LocalSpec => [](comp = "listeners" => ListenerInv)
<1> DEFINE Inv == comp = "listeners" => ListenerInv
<1>1. LocalInit => Inv
  <2> SUFFICES ASSUME Listeners!Init PROVE ListenerInv
    BY DEF LocalInit
  <2>1. /\ lRun = "down" /\ lDurable \in MappingSets /\ lMappings = Listeners!NoMappings
        /\ lTasks = [t \in TaskNames |-> Listeners!Unspawned]
        /\ lCurrent = [s \in Services |-> 0] /\ lReady = [s \in Services |-> 0]
        /\ lOp = Listeners!Idle /\ lWrites = {}
    BY ListenerNames DEF Listeners!Init
  <2>2. ListenerKinds
    BY <2>1, ListenerNames DEF ListenerKinds
  <2>3. RegisteredServes /\ OperationOK /\ ListenersAccounted
    BY <2>1, ListenerNames DEF RegisteredServes, OperationOK, ListenersAccounted
  <2> QED BY <2>2, <2>3 DEF ListenerInv
<1>2. Inv /\ [LocalNext]_<<vars, shared, comp>> => Inv'
  <2> SUFFICES ASSUME Inv, [LocalNext]_<<vars, shared, comp>>, comp' = "listeners"
               PROVE  ListenerInv'
    OBVIOUS
  <2>1. comp = "listeners" /\ [Listeners!Next]_(Listeners!vars)
    BY ListenersTurn
  <2>2. CASE UNCHANGED Listeners!vars
    <3>1. \A q, r : (Serves(q, r) <=> Serves(q, r)') /\ (Unnamed(q) <=> Unnamed(q)')
      BY <2>2 DEF Listeners!vars, Serves, Unnamed
    <3> QED
      BY <2>1, <2>2, <3>1 DEF Listeners!vars, ListenerInv, ListenerKinds, RegisteredServes,
         OperationOK, ListenersAccounted
  <2>3. CASE Listeners!Next
    BY <2>1, <2>3, ListenerNames, ListenerStarts, ListenerRequests, ListenerWrites,
       ListenerSwitches, ListenerShows, ListenerEnds, ListenerTaskSteps, ListenerStopsAll
       DEF Listeners!Next
  <2> QED BY <2>1, <2>2, <2>3
<1> QED BY <1>1, <1>2, PTL DEF LocalSpec

\* Every mapping that is shown has a live listener for its address whatever operation is
\* under way, fails or loses its caller, and nothing runs after a shutdown has returned
\* but what was abandoned (upsert_mapping, TravelCore::shutdown), for any number of
\* services, addresses, listeners and failures.
THEOREM LocalServesWhatIsShown == LocalSpec => []ServesWhatIsShown
<1>1. ListenerInv => Listeners!ServesWhatIsShown /\ Listeners!QuietAfterShutdown
  <2> SUFFICES ASSUME ListenerInv
               PROVE  Listeners!ServesWhatIsShown /\ Listeners!QuietAfterShutdown
    OBVIOUS
  <2>1. Listeners!ServesWhatIsShown
    <3> SUFFICES ASSUME lRun = "up", NEW s \in Services, lMappings[s] # Absent, s \notin lTorn
                 PROVE  \E t \in TaskNames :
                           /\ lTasks[t].at # "done" /\ lTasks[t].stop = "no"
                           /\ lTasks[t].service = s /\ lTasks[t].bind = lMappings[s]
      BY ListenerNames DEF Listeners!ServesWhatIsShown, Listeners!Mapped, Listeners!Alive
    <3>1. \E t \in TaskNames : Serves(t, s) /\ lTasks[t].bind = lMappings[s]
      BY DEF ListenerInv, RegisteredServes, Serves
    <3> QED BY <3>1 DEF Serves
  <2>2. Listeners!QuietAfterShutdown
    <3>1. lRun = "down" => lOp.old = 0
      BY DEF ListenerInv, OperationOK
    <3> QED
      BY <3>1, ListenerNames
         DEF ListenerInv, ListenersAccounted, Listeners!QuietAfterShutdown, Listeners!Alive
  <2> QED BY <2>1, <2>2
<1>2. (comp = "listeners" => ListenerInv) => ServesWhatIsShown
  BY <1>1 DEF ServesWhatIsShown
<1> QED BY <1>2, ListenersAlways, PTL

-----------------------------------------------------------------------------
(* The statistics of a node (module Statistics).                            *)

sRole == v1
sAccumulator == v2
sPoint == v3
sReports == v4
sSession == v5
sSent == v6
sReplies == v7
sCounted == v8
sRecorded == v9
sCollided == v10
sFaulted == v11
sDropped == v12
USE DEF sRole, sAccumulator, sPoint, sReports, sSession, sSent, sReplies, sCounted, sRecorded,
        sCollided, sFaulted, sDropped

\* Only their own steps change the statistics.
LEMMA SamplesTurn ==
  ASSUME [LocalNext]_<<vars, shared, comp>>, comp' = "samples"
  PROVE  comp = "samples" /\ [Samples!Next]_(Samples!vars)
  BY DEF LocalNext, InstallStep, RotationStep, SamplesStep, ListenersStep, DatagramsStep,
         RuntimeStep, shared, Samples!vars

Counts == [Buckets -> Nat]
PointSet == [revision : Nat, count : Nat]
StoredSet == [revision : Nat \ {0}, count : Nat]
ReportSet == [bucket : Buckets, revision : Nat \ {0}, count : Nat]
ReplySet == [report : ReportSet, ok : BOOLEAN]
Batches == UNION {[S -> StoredSet] : S \in SUBSET Buckets}

SampleSteps ==
    [at : {"idle"}] \cup [at : {"scan"}, staged : BOOLEAN]
    \cup [at : {"build"}, deltas : Counts]
    \cup [at : {"commit"}, deltas : Counts, batch : Batches]
    \cup [at : {"lookup"}, report : ReportSet] \cup [at : {"delete"}, bucket : Buckets]

SessionSet == [on : BOOLEAN, keys : SUBSET ReportSet, pending : BOOLEAN, step : SampleSteps]

SampleKinds ==
    /\ sRole \in NodeRoles
    /\ sAccumulator \in Counts /\ sRecorded \in Counts
    /\ sPoint \in [Buckets -> PointSet] /\ sCounted \in [Buckets -> PointSet]
    /\ DOMAIN sReports = Buckets
    /\ \A b \in Buckets : sReports[b] = Absent \/ sReports[b] \in ReportSet
    /\ sSession \in [SampleSessions -> SessionSet]
    /\ sSent \in [SampleSessions -> Seq(ReportSet)]
    /\ sReplies \in [SampleSessions -> Seq(ReplySet)]
    /\ sCollided \in BOOLEAN

Busy(s) == sSession[s].step.at \in {"build", "commit", "delete"}
FlushRuns(s) == sSession[s].step.at \in {"build", "commit"}

\* A session that is down does nothing.
SessionsRest == \A s \in SampleSessions : ~sSession[s].on => sSession[s].step.at = "idle"

\* One session at a time works on the store.
OneIsBusy == \A s, t \in SampleSessions : Busy(s) /\ Busy(t) => s = t

\* What a session is about to commit adds its samples to the points as they are.
BatchesAdd == \A s \in SampleSessions, b \in Buckets :
    sSession[s].step.at = "commit" =>
        /\ b \in DOMAIN sSession[s].step.batch <=> sSession[s].step.deltas[b] > 0
        /\ b \in DOMAIN sSession[s].step.batch =>
              /\ sSession[s].step.batch[b].revision = sPoint[b].revision + 1
              /\ sSession[s].step.batch[b].count = sPoint[b].count + sSession[s].step.deltas[b]

\* Every sample is in memory, in the store or in the hands of the flush that runs.
NoneLost == \A b \in Buckets :
    /\ (\A s \in SampleSessions : ~FlushRuns(s)) =>
          sAccumulator[b] + sPoint[b].count = sRecorded[b]
    /\ \A s \in SampleSessions : FlushRuns(s) =>
          sAccumulator[b] + sPoint[b].count + sSession[s].step.deltas[b] = sRecorded[b]

SamplesHeld == SessionsRest /\ (~sCollided => OneIsBusy /\ BatchesAdd /\ NoneLost)

\* A report says what the point was at some time.
Fits(r) ==
    /\ r.revision <= sPoint[r.bucket].revision
    /\ r.count <= sPoint[r.bucket].count
    /\ r.revision = sPoint[r.bucket].revision => r.count = sPoint[r.bucket].count

\* The outbox holds the newest points, and each until the Server has it.
OutboxHolds == \A b \in Buckets :
    /\ sReports[b] # Absent =>
          /\ sReports[b].bucket = b
          /\ sReports[b].revision = sPoint[b].revision
          /\ sReports[b].count = sPoint[b].count
    /\ sPoint[b].revision > sCounted[b].revision => sReports[b] # Absent

\* What the Server has counted the points have been.
CountedFits == \A b \in Buckets :
    /\ sCounted[b].revision <= sPoint[b].revision
    /\ sCounted[b].count <= sPoint[b].count
    /\ sCounted[b].revision = sPoint[b].revision => sCounted[b].count = sPoint[b].count

\* So has what is on its way there.
SentFits == \A s \in SampleSessions : \A i \in 1..Len(sSent[s]) : Fits(sSent[s][i])

\* A report is deleted when the Server has its point.
DeletesCounted == \A s \in SampleSessions : sSession[s].step.at = "delete" =>
    sCounted[sSession[s].step.bucket].revision >= sPoint[sSession[s].step.bucket].revision

ReportsHeld == ~sCollided => OutboxHolds /\ CountedFits /\ SentFits /\ DeletesCounted

\* What the Server has acknowledged it has.
RepliesOK == \A s \in SampleSessions : \A i \in 1..Len(sReplies[s]) : sReplies[s][i].ok =>
    sReplies[s][i].report.revision <= sCounted[sReplies[s][i].report.bucket].revision
LookupsOK == \A s \in SampleSessions : sSession[s].step.at = "lookup" =>
    sSession[s].step.report.revision <= sCounted[sSession[s].step.report.bucket].revision

SampleInv == SampleKinds /\ SamplesHeld /\ ReportsHeld /\ RepliesOK /\ LookupsOK

\* The fields of a step, by its kind.
LEMMA StepFields ==
  ASSUME NEW x \in SampleSteps
  PROVE  /\ x.at \in {"idle", "scan", "build", "commit", "lookup", "delete"}
         /\ x.at \in {"build", "commit"} => x.deltas \in Counts
         /\ x.at = "commit" => x.batch \in Batches
         /\ x.at = "lookup" => x.report \in ReportSet
         /\ x.at = "delete" => x.bucket \in Buckets
  BY DEF SampleSteps

\* A session that waits.
LEMMA IdleStep ==
  Samples!Idle \in SampleSteps /\ Samples!Idle.at = "idle"
  BY DEF Samples!Idle, SampleSteps

\* A session about to scan the outbox.
LEMMA ScanStep ==
  ASSUME NEW b \in BOOLEAN
  PROVE  Samples!Scanning(b) \in SampleSteps /\ Samples!Scanning(b).at = "scan"
  BY DEF Samples!Scanning, SampleSteps

\* A session with the samples it took.
LEMMA BuildStep ==
  ASSUME NEW d \in Counts
  PROVE  /\ [at |-> "build", deltas |-> d] \in SampleSteps
         /\ [at |-> "build", deltas |-> d].at = "build"
         /\ [at |-> "build", deltas |-> d].deltas = d
  BY DEF SampleSteps

\* A session with the batch it is about to commit.
LEMMA CommitStep ==
  ASSUME NEW d \in Counts, NEW batch \in Batches
  PROVE  /\ [at |-> "commit", deltas |-> d, batch |-> batch] \in SampleSteps
         /\ [at |-> "commit", deltas |-> d, batch |-> batch].at = "commit"
         /\ [at |-> "commit", deltas |-> d, batch |-> batch].deltas = d
         /\ [at |-> "commit", deltas |-> d, batch |-> batch].batch = batch
  BY DEF SampleSteps

\* A session with an answer to look up.
LEMMA LookupStep ==
  ASSUME NEW r \in ReportSet
  PROVE  /\ [at |-> "lookup", report |-> r] \in SampleSteps
         /\ [at |-> "lookup", report |-> r].at = "lookup"
         /\ [at |-> "lookup", report |-> r].report = r
  BY DEF SampleSteps

\* A session about to delete a report.
LEMMA DeleteStep ==
  ASSUME NEW b \in Buckets
  PROVE  /\ [at |-> "delete", bucket |-> b] \in SampleSteps
         /\ [at |-> "delete", bucket |-> b].at = "delete"
         /\ [at |-> "delete", bucket |-> b].bucket = b
  BY DEF SampleSteps

\* One session goes on to another step.
LEMMA SessionGoes ==
  ASSUME SampleKinds, NEW s \in SampleSessions, NEW x \in SampleSteps, Samples!Go(s, x)
  PROVE  /\ sSession' \in [SampleSessions -> SessionSet]
         /\ sSession'[s].step = x /\ sSession'[s].on = sSession[s].on
         /\ sSession'[s].keys = sSession[s].keys
         /\ \A t \in SampleSessions : t # s => sSession'[t] = sSession[t]
<1>1. sSession' = [sSession EXCEPT ![s].step = x]
  BY DEF Samples!Go
<1>2. PICK r \in SessionSet : r = sSession[s]
  BY DEF SampleKinds
<1>3. [r EXCEPT !.step = x] \in SessionSet /\ [r EXCEPT !.step = x].step = x
      /\ [r EXCEPT !.step = x].on = r.on /\ [r EXCEPT !.step = x].keys = r.keys
  BY DEF SessionSet
<1>4. PICK u \in SessionSet : u = [r EXCEPT !.step = x] /\ u.step = x
                              /\ u.on = r.on /\ u.keys = r.keys
  BY <1>3
<1>5. sSession' = [sSession EXCEPT ![s] = u]
  BY <1>1, <1>2, <1>4
<1> QED BY <1>2, <1>4, <1>5 DEF SampleKinds

\* The fields of a session.
LEMMA SessionFields ==
  ASSUME SampleKinds, NEW s \in SampleSessions
  PROVE  /\ sSession[s].on \in BOOLEAN /\ sSession[s].keys \subseteq ReportSet
         /\ sSession[s].step \in SampleSteps
  BY DEF SampleKinds, SessionSet


\* No other session is at work on the store.
FlushesAlone(s) == \A t \in SampleSessions : t # s => ~Busy(t)

\* A blocking step that collides with no other is alone.
LEMMA CollidesAlone ==
  ASSUME SampleKinds, NEW s \in SampleSessions, sCollided' = Samples!Collides(s)
  PROVE  sCollided' \in BOOLEAN /\ (~sCollided' => ~sCollided /\ FlushesAlone(s))
<1>1. sCollided' = (sCollided \/ \E t \in SampleSessions \ {s} :
                        sSession[t].step.at \in {"build", "commit", "delete"})
  BY DEF Samples!Collides
<1> QED BY <1>1, Zenon DEF FlushesAlone, Busy

\* What stands for nothing in the outbox is no report.
LEMMA ReportIsNotAbsent == Absent \notin ReportSet
  BY SampleConstants DEF ReportSet

\* The numbers of a bucket.
LEMMA PointFields ==
  ASSUME SampleKinds, NEW b \in Buckets
  PROVE  /\ sPoint[b].revision \in Nat /\ sPoint[b].count \in Nat
         /\ sCounted[b].revision \in Nat /\ sCounted[b].count \in Nat
         /\ sAccumulator[b] \in Nat /\ sRecorded[b] \in Nat
  BY DEF SampleKinds, Counts, PointSet

\* The samples of a flush.
LEMMA FlushFields ==
  ASSUME SampleKinds, NEW s \in SampleSessions, FlushRuns(s), NEW b \in Buckets
  PROVE  sSession[s].step.deltas \in Counts /\ sSession[s].step.deltas[b] \in Nat
  BY SessionFields, StepFields DEF FlushRuns, Counts

\* A sample is added to memory.
LEMMA SampleKeeps ==
  ASSUME SampleInv, NEW b \in Buckets, Samples!Sample(b)
  PROVE  SampleInv'
<1>1. /\ sAccumulator' = [sAccumulator EXCEPT ![b] = @ + 1]
      /\ sRecorded' = [sRecorded EXCEPT ![b] = @ + 1]
      /\ sRole' = sRole /\ sPoint' = sPoint /\ sReports' = sReports /\ sSession' = sSession
      /\ sSent' = sSent /\ sReplies' = sReplies /\ sCounted' = sCounted
      /\ sCollided' = sCollided
  BY Zenon DEF Samples!Sample, Samples!store, Samples!wire
<1>0. SampleKinds
  BY DEF SampleInv
<1>2. SampleKinds'
  BY <1>0, <1>1 DEF SampleKinds, Counts
<1>3. ASSUME ~sCollided PROVE NoneLost'
  <2>1. NoneLost
    BY <1>3 DEF SampleInv, SamplesHeld
  <2>2. ASSUME NEW c \in Buckets, \A s \in SampleSessions : ~FlushRuns(s)'
        PROVE  sAccumulator'[c] + sPoint'[c].count = sRecorded'[c]
    <3>1. \A s \in SampleSessions : ~FlushRuns(s)
      BY <2>2, <1>1 DEF FlushRuns
    <3>2. sAccumulator[c] + sPoint[c].count = sRecorded[c]
      BY <3>1, <2>1 DEF NoneLost
    <3>6. /\ sPoint[c].count \in Nat /\ sAccumulator[c] \in Nat /\ sRecorded[c] \in Nat
          /\ sAccumulator'[c] = IF c = b THEN sAccumulator[c] + 1 ELSE sAccumulator[c]
          /\ sRecorded'[c] = IF c = b THEN sRecorded[c] + 1 ELSE sRecorded[c]
          /\ sPoint'[c].count = sPoint[c].count
      BY <1>0, <1>1, PointFields DEF SampleKinds, Counts
    <3> QED BY <3>2, <3>6
  <2>3. ASSUME NEW c \in Buckets, NEW s \in SampleSessions, FlushRuns(s)'
        PROVE  sAccumulator'[c] + sPoint'[c].count + sSession'[s].step.deltas[c] = sRecorded'[c]
    <3>1. FlushRuns(s)
      BY <2>3, <1>1 DEF FlushRuns
    <3>2. sAccumulator[c] + sPoint[c].count + sSession[s].step.deltas[c] = sRecorded[c]
      BY <3>1, <2>1 DEF NoneLost
    <3>3. PICK d \in Nat : d = sSession[s].step.deltas[c]
      BY <3>1, <1>0, FlushFields
    <3>4. sSession'[s].step.deltas[c] = d /\ sPoint'[c].count = sPoint[c].count
      BY <1>1, <3>3
    <3>5. sAccumulator[c] + sPoint[c].count + d = sRecorded[c]
      BY <3>2, <3>3
    <3>6. /\ sPoint[c].count \in Nat /\ sAccumulator[c] \in Nat /\ sRecorded[c] \in Nat
          /\ sAccumulator'[c] = IF c = b THEN sAccumulator[c] + 1 ELSE sAccumulator[c]
          /\ sRecorded'[c] = IF c = b THEN sRecorded[c] + 1 ELSE sRecorded[c]
      BY <1>0, <1>1, PointFields DEF SampleKinds, Counts
    <3>7. sAccumulator'[c] + sPoint[c].count + d = sRecorded'[c]
      BY <3>5, <3>6
    <3> QED BY <3>4, <3>7
  <2> QED BY <2>2, <2>3 DEF NoneLost
<1>4. SamplesHeld'
  BY <1>1, <1>3 DEF SampleInv, SamplesHeld, SessionsRest, OneIsBusy, BatchesAdd, Busy
<1>5. ReportsHeld' /\ RepliesOK' /\ LookupsOK'
  BY <1>1 DEF SampleInv, ReportsHeld, OutboxHolds, CountedFits, SentFits, DeletesCounted, Fits,
              RepliesOK, LookupsOK
<1> QED BY <1>2, <1>4, <1>5 DEF SampleInv

\* A session that comes, ends or goes down with the process is at rest.
LEMMA OffSession ==
  /\ Samples!Off \in SessionSet /\ Samples!Off.step.at = "idle" /\ Samples!Off.on = FALSE
  /\ [Samples!Off EXCEPT !.on = TRUE, !.pending = TRUE] \in SessionSet
  /\ [Samples!Off EXCEPT !.on = TRUE, !.pending = TRUE].step.at = "idle"
<1>1. PICK e \in SampleSteps : e = Samples!Idle /\ e.at = "idle"
  BY IdleStep
<1>2. Samples!Off = [on |-> FALSE, keys |-> {}, pending |-> FALSE, step |-> e]
  BY <1>1, Zenon DEF Samples!Off
<1>4. PICK r : r = [on |-> FALSE, keys |-> {}, pending |-> FALSE, step |-> e]
  OBVIOUS
<1>5. PICK u : u = [r EXCEPT !.on = TRUE, !.pending = TRUE]
  OBVIOUS
<1>6. u = [on |-> TRUE, keys |-> {}, pending |-> TRUE, step |-> e]
  BY <1>4, <1>5
<1>3. [Samples!Off EXCEPT !.on = TRUE, !.pending = TRUE]
        = [on |-> TRUE, keys |-> {}, pending |-> TRUE, step |-> e]
  BY <1>2, <1>4, <1>5, <1>6
<1> QED BY <1>1, <1>2, <1>3 DEF SessionSet

\* Sessions are replaced by sessions at rest, none of which ran a flush, and answers are
\* dropped.
LEMMA RestKeeps ==
  ASSUME SampleInv,
         sRole' = sRole, sAccumulator' = sAccumulator, sPoint' = sPoint,
         sReports' = sReports, sSent' = sSent, sCounted' = sCounted,
         sRecorded' = sRecorded, sCollided' = sCollided,
         sSession' \in [SampleSessions -> SessionSet],
         sReplies' \in [SampleSessions -> Seq(ReplySet)],
         \A t \in SampleSessions : sReplies'[t] = sReplies[t] \/ sReplies'[t] = <<>>,
         \A t \in SampleSessions : \/ sSession'[t] = sSession[t]
                                   \/ sSession[t].step.at \in {"idle", "scan", "lookup"}
                                      /\ sSession'[t].step.at \in {"idle", "scan"}
                                      /\ (~sSession'[t].on => sSession'[t].step.at = "idle")
  PROVE  SampleInv'
<1>2. SampleKinds'
  BY DEF SampleInv, SampleKinds
<1>3. \A t \in SampleSessions : /\ Busy(t)' <=> Busy(t)
                                /\ FlushRuns(t)' <=> FlushRuns(t)
                                /\ Busy(t)' => sSession'[t] = sSession[t]
  BY DEF Busy, FlushRuns
<1>4. \A t \in SampleSessions : /\ FlushRuns(t)' => sSession'[t] = sSession[t]
                                /\ sSession'[t].step.at = "commit" => sSession'[t] = sSession[t]
                                /\ sSession'[t].step.at = "delete" => sSession'[t] = sSession[t]
                                /\ sSession'[t].step.at = "lookup" => sSession'[t] = sSession[t]
  BY DEF FlushRuns
<1>5. SessionsRest'
  BY DEF SampleInv, SamplesHeld, SessionsRest
<1>6. ASSUME ~sCollided PROVE OneIsBusy'
  BY <1>3, <1>6 DEF SampleInv, SamplesHeld, OneIsBusy
<1>7. ASSUME ~sCollided PROVE BatchesAdd'
  BY <1>4, <1>7 DEF SampleInv, SamplesHeld, BatchesAdd
<1>8. ASSUME ~sCollided PROVE NoneLost'
  BY <1>3, <1>4, <1>8 DEF SampleInv, SamplesHeld, NoneLost
<1>9. ReportsHeld'
  BY <1>4 DEF SampleInv, ReportsHeld, OutboxHolds, CountedFits, SentFits, DeletesCounted, Fits
<1>10. RepliesOK'
  <2> SUFFICES ASSUME NEW t \in SampleSessions, NEW i \in 1..Len(sReplies'[t])
               PROVE  sReplies'[t] = sReplies[t]
    BY DEF SampleInv, RepliesOK
  <2>1. sReplies'[t] # <<>>
    OBVIOUS
  <2> QED BY <2>1
<1>11. LookupsOK'
  BY <1>4 DEF SampleInv, LookupsOK
<1> QED BY <1>2, <1>5, <1>6, <1>7, <1>8, <1>9, <1>10, <1>11 DEF SampleInv, SamplesHeld

\* A session begins.
LEMMA ConnectKeeps ==
  ASSUME SampleInv, NEW s \in SampleSessions, Samples!Connect(s)
  PROVE  SampleInv'
<1>1. PICK e \in SessionSet : /\ e = [Samples!Off EXCEPT !.on = TRUE, !.pending = TRUE]
                              /\ e.step.at = "idle"
  BY OffSession
<1>2. /\ ~sSession[s].on
      /\ sSession' = [sSession EXCEPT ![s] = e]
      /\ sRole' = sRole /\ sAccumulator' = sAccumulator /\ sPoint' = sPoint
      /\ sReports' = sReports /\ sSent' = sSent /\ sReplies' = sReplies
      /\ sCounted' = sCounted /\ sRecorded' = sRecorded /\ sCollided' = sCollided
  BY <1>1, Zenon DEF Samples!Connect, Samples!store, Samples!wire
<1>3. sSession[s].step.at = "idle"
  BY <1>2 DEF SampleInv, SamplesHeld, SessionsRest
<1>4. /\ sSession' \in [SampleSessions -> SessionSet]
      /\ sSession'[s] = e /\ \A t \in SampleSessions : t # s => sSession'[t] = sSession[t]
  BY <1>2 DEF SampleInv, SampleKinds
<1>5. sReplies \in [SampleSessions -> Seq(ReplySet)]
  BY DEF SampleInv, SampleKinds
<1> QED BY <1>1, <1>2, <1>3, <1>4, <1>5, RestKeeps

\* A session ends between two of its events.
LEMMA DisconnectKeeps ==
  ASSUME SampleInv, NEW s \in SampleSessions, Samples!Disconnect(s)
  PROVE  SampleInv'
<1>1. PICK e \in SessionSet : e = Samples!Off /\ e.step.at = "idle"
  BY OffSession
<1>2. /\ sSession[s].step.at = "idle"
      /\ sSession' = [sSession EXCEPT ![s] = e]
      /\ sReplies' = [sReplies EXCEPT ![s] = <<>>]
      /\ sRole' = sRole /\ sAccumulator' = sAccumulator /\ sPoint' = sPoint
      /\ sReports' = sReports /\ sSent' = sSent
      /\ sCounted' = sCounted /\ sRecorded' = sRecorded /\ sCollided' = sCollided
  BY <1>1, Zenon DEF Samples!Disconnect, Samples!At, Samples!store
<1>4. /\ sSession' \in [SampleSessions -> SessionSet]
      /\ sSession'[s] = e /\ \A t \in SampleSessions : t # s => sSession'[t] = sSession[t]
  BY <1>2 DEF SampleInv, SampleKinds
<1>5. <<>> \in Seq(ReplySet)
  OBVIOUS
<1>6. /\ sReplies' \in [SampleSessions -> Seq(ReplySet)]
      /\ sReplies'[s] = <<>> /\ \A t \in SampleSessions : t # s => sReplies'[t] = sReplies[t]
  BY <1>2, <1>5 DEF SampleInv, SampleKinds
<1> QED BY <1>1, <1>2, <1>4, <1>6, RestKeeps

\* The process dies with what it had in memory.
LEMMA CrashKeeps ==
  ASSUME SampleInv, Samples!Crash
  PROVE  SampleInv'
<1>1. PICK e \in SessionSet : e = Samples!Off /\ e.step.at = "idle" /\ e.on = FALSE
  BY OffSession
<1>2. /\ sAccumulator' = [b \in Buckets |-> 0]
      /\ sRecorded' = [b \in Buckets |-> sPoint[b].count]
      /\ sSession' = [t \in SampleSessions |-> e]
      /\ sReplies' = [t \in SampleSessions |-> <<>>]
      /\ sRole' = sRole /\ sPoint' = sPoint /\ sReports' = sReports /\ sSent' = sSent
      /\ sCounted' = sCounted /\ sCollided' = sCollided
  BY <1>1, Zenon DEF Samples!Crash, Samples!store, Samples!None
<1>0. SampleKinds
  BY DEF SampleInv
<1>3. /\ \A b \in Buckets : sPoint[b].count \in Nat
      /\ <<>> \in Seq(ReplySet)
  BY <1>0, PointFields
<1>4. SampleKinds'
  BY <1>0, <1>1, <1>2, <1>3 DEF SampleKinds, Counts
<1>5. \A t \in SampleSessions : sSession'[t].step.at = "idle" /\ sReplies'[t] = <<>>
  BY <1>1, <1>2
<1>6. SamplesHeld'
  BY <1>2, <1>3, <1>5 DEF SamplesHeld, SessionsRest, OneIsBusy, BatchesAdd, NoneLost, Busy, FlushRuns
<1>7. ReportsHeld'
  BY <1>2, <1>5 DEF SampleInv, ReportsHeld, OutboxHolds, CountedFits, SentFits, DeletesCounted, Fits
<1>8. RepliesOK' /\ LookupsOK'
  BY <1>5 DEF RepliesOK, LookupsOK
<1> QED BY <1>4, <1>6, <1>7, <1>8 DEF SampleInv

\* The samples are taken from memory.
LEMMA FlushKeeps ==
  ASSUME SampleInv, NEW s \in SampleSessions, Samples!Flush(s)
  PROVE  SampleInv'
<1>0. SampleKinds
  BY DEF SampleInv
<1>1. PICK acc \in Counts : acc = sAccumulator
  BY <1>0 DEF SampleKinds
<1>2. /\ sSession[s].on /\ sSession[s].step.at = "idle"
      /\ sAccumulator' = Samples!None
      /\ Samples!Go(s, IF sAccumulator = Samples!None THEN Samples!Scanning(FALSE)
                       ELSE [at |-> "build", deltas |-> acc])
      /\ sCollided' = (sCollided \/ (sAccumulator # Samples!None /\ Samples!Collides(s)))
      /\ sRole' = sRole /\ sPoint' = sPoint /\ sReports' = sReports
      /\ sSent' = sSent /\ sReplies' = sReplies /\ sCounted' = sCounted
      /\ sRecorded' = sRecorded
  BY <1>1, Zenon DEF Samples!Flush, Samples!At, Samples!store, Samples!wire
<1>3. CASE sAccumulator = Samples!None
  <2>1. PICK x \in SampleSteps : x = Samples!Scanning(FALSE) /\ x.at = "scan"
    BY ScanStep
  <2>2. Samples!Go(s, x)
    BY <1>2, <1>3, <2>1
  <2>3. /\ sSession' \in [SampleSessions -> SessionSet]
        /\ sSession'[s].step = x /\ sSession'[s].on = sSession[s].on
        /\ \A t \in SampleSessions : t # s => sSession'[t] = sSession[t]
    BY <1>0, <2>2, SessionGoes
  <2>4. sCollided' = sCollided /\ sAccumulator' = sAccumulator
    <3>1. sCollided \in BOOLEAN
      BY <1>0 DEF SampleKinds
    <3> QED BY <1>2, <1>3, <3>1, Zenon
  <2>5. sReplies \in [SampleSessions -> Seq(ReplySet)]
    BY <1>0 DEF SampleKinds
  <2> QED BY <1>2, <2>1, <2>3, <2>4, <2>5, RestKeeps
<1>4. CASE sAccumulator # Samples!None
  <2>1. PICK x \in SampleSteps : /\ x = [at |-> "build", deltas |-> acc]
                                 /\ x.at = "build" /\ x.deltas = acc
    BY BuildStep
  <2>2. Samples!Go(s, x)
    BY <1>2, <1>4, <2>1
  <2>3. /\ sSession' \in [SampleSessions -> SessionSet]
        /\ sSession'[s].step = x /\ sSession'[s].on = sSession[s].on
        /\ \A t \in SampleSessions : t # s => sSession'[t] = sSession[t]
    BY <1>0, <2>2, SessionGoes
  <2>4. sCollided' = Samples!Collides(s)
    <3>1. sCollided => Samples!Collides(s)
      BY Zenon DEF Samples!Collides
    <3>2. Samples!Collides(s) \in BOOLEAN
      BY Zenon DEF Samples!Collides
    <3> QED BY <1>2, <1>4, <3>1, <3>2, Zenon
  <2>5. sCollided' \in BOOLEAN /\ (~sCollided' => ~sCollided /\ FlushesAlone(s))
    BY <1>0, <2>4, CollidesAlone
  <2>6. sAccumulator' = [b \in Buckets |-> 0]
    BY <1>2, Zenon DEF Samples!None
  <2>7. SampleKinds'
    BY <1>0, <1>2, <2>3, <2>5, <2>6 DEF SampleKinds, Counts
  <2>8. SessionsRest'
    BY <1>2, <2>3 DEF SampleInv, SamplesHeld, SessionsRest
  <2>9. ASSUME ~sCollided' PROVE OneIsBusy' /\ BatchesAdd' /\ NoneLost'
    <3>1. ~sCollided /\ \A t \in SampleSessions : t # s => ~Busy(t)
      BY <2>5, <2>9 DEF FlushesAlone
    <3>2. \A t \in SampleSessions : t # s =>
              ~Busy(t)' /\ ~FlushRuns(t)' /\ ~FlushRuns(t) /\ sSession'[t].step.at # "commit"
      BY <3>1, <2>3 DEF Busy, FlushRuns
    <3>3. OneIsBusy'
      BY <3>2 DEF OneIsBusy
    <3>4. BatchesAdd'
      BY <3>2, <2>1, <2>3 DEF BatchesAdd
    <3>5. ASSUME NEW b \in Buckets
          PROVE  sAccumulator'[b] + sPoint'[b].count + acc[b] = sRecorded'[b]
      <4>1. \A t \in SampleSessions : ~FlushRuns(t)
        BY <3>2, <1>2 DEF FlushRuns
      <4>2. NoneLost
        BY <3>1 DEF SampleInv, SamplesHeld
      <4>3. acc[b] + sPoint[b].count = sRecorded[b]
        BY <4>1, <4>2, <1>1 DEF NoneLost
      <4>4. acc[b] \in Nat /\ sPoint[b].count \in Nat
        BY <1>0, <1>1, PointFields DEF Counts
      <4>5. sAccumulator'[b] = 0
        BY <2>6
      <4> QED BY <4>3, <4>4, <4>5, <1>2
    <3>6. FlushRuns(s)' /\ sSession'[s].step.deltas = acc
      BY <2>1, <2>3 DEF FlushRuns
    <3>7. NoneLost'
      BY <3>2, <3>5, <3>6 DEF NoneLost
    <3> QED BY <3>3, <3>4, <3>7
  <2>10. SamplesHeld'
    BY <2>8, <2>9 DEF SamplesHeld
  <2>11. \A t \in SampleSessions :
            /\ sSession'[t].step.at = "delete" => sSession'[t] = sSession[t]
            /\ sSession'[t].step.at = "lookup" => sSession'[t] = sSession[t]
    BY <2>1, <2>3
  <2>12. ReportsHeld'
    BY <1>2, <2>5, <2>11 DEF SampleInv, ReportsHeld, OutboxHolds, CountedFits, SentFits,
                             DeletesCounted, Fits
  <2>13. RepliesOK' /\ LookupsOK'
    BY <1>2, <2>11 DEF SampleInv, RepliesOK, LookupsOK
  <2> QED BY <2>7, <2>10, <2>12, <2>13 DEF SampleInv
<1> QED BY <1>3, <1>4

\* The points a flush adds to are read.
LEMMA BuildKeeps ==
  ASSUME SampleInv, NEW s \in SampleSessions, Samples!Build(s)
  PROVE  SampleInv'
<1>0. SampleKinds
  BY DEF SampleInv
<1>1. sSession[s].on /\ sSession[s].step.at = "build"
  BY Zenon DEF Samples!Build, Samples!At
<1>2. FlushRuns(s)
  BY <1>1 DEF FlushRuns
<1>3. PICK d \in Counts : d = sSession[s].step.deltas
  BY <1>0, <1>2, SessionFields, StepFields DEF FlushRuns
<1>4. PICK batch : batch = [b \in {c \in Buckets : d[c] > 0} |-> Samples!Merged(b, d[b])]
  OBVIOUS
<1>5. /\ Samples!Go(s, [at |-> "commit", deltas |-> d, batch |-> batch])
      /\ sCollided' = Samples!Collides(s)
      /\ sRole' = sRole /\ sAccumulator' = sAccumulator /\ sPoint' = sPoint
      /\ sReports' = sReports /\ sSent' = sSent /\ sReplies' = sReplies
      /\ sCounted' = sCounted /\ sRecorded' = sRecorded
  BY <1>3, <1>4, Zenon DEF Samples!Build, Samples!store, Samples!wire
<1>6. ASSUME NEW b \in Buckets, d[b] > 0
      PROVE  /\ Samples!Merged(b, d[b]) \in StoredSet
             /\ Samples!Merged(b, d[b]).revision = sPoint[b].revision + 1
             /\ Samples!Merged(b, d[b]).count = sPoint[b].count + d[b]
  <2>1. sPoint[b].revision \in Nat /\ sPoint[b].count \in Nat /\ d[b] \in Nat
    BY <1>0, PointFields DEF Counts
  <2> QED BY <2>1 DEF Samples!Merged, StoredSet
<1>7. /\ DOMAIN batch = {c \in Buckets : d[c] > 0}
      /\ \A b \in DOMAIN batch : /\ batch[b] \in StoredSet
                                 /\ batch[b].revision = sPoint[b].revision + 1
                                 /\ batch[b].count = sPoint[b].count + d[b]
  BY <1>4, <1>6
<1>8. batch \in Batches
  <2>1. batch \in [{c \in Buckets : d[c] > 0} -> StoredSet]
    BY <1>4, <1>6
  <2> QED BY <2>1 DEF Batches
<1>9. PICK x \in SampleSteps : /\ x = [at |-> "commit", deltas |-> d, batch |-> batch]
                               /\ x.at = "commit" /\ x.deltas = d /\ x.batch = batch
  BY <1>8, CommitStep
<1>10. /\ sSession' \in [SampleSessions -> SessionSet]
       /\ sSession'[s].step = x /\ sSession'[s].on = sSession[s].on
       /\ \A t \in SampleSessions : t # s => sSession'[t] = sSession[t]
  <2>1. Samples!Go(s, x)
    BY <1>5, <1>9
  <2> QED BY <1>0, <2>1, SessionGoes
<1>11. sCollided' \in BOOLEAN /\ (~sCollided' => ~sCollided /\ FlushesAlone(s))
  BY <1>0, <1>5, CollidesAlone
<1>12. SampleKinds'
  BY <1>0, <1>5, <1>10, <1>11 DEF SampleKinds
<1>13. SessionsRest'
  BY <1>1, <1>10 DEF SampleInv, SamplesHeld, SessionsRest
<1>14. ASSUME ~sCollided' PROVE OneIsBusy' /\ BatchesAdd' /\ NoneLost'
  <2>1. ~sCollided /\ \A t \in SampleSessions : t # s => ~Busy(t)
    BY <1>11, <1>14 DEF FlushesAlone
  <2>2. \A t \in SampleSessions : t # s =>
            ~Busy(t)' /\ ~FlushRuns(t)' /\ sSession'[t].step.at # "commit"
    BY <2>1, <1>10 DEF Busy, FlushRuns
  <2>3. OneIsBusy'
    BY <2>2 DEF OneIsBusy
  <2>4. \A b \in Buckets : /\ b \in DOMAIN batch <=> d[b] > 0
                           /\ b \in DOMAIN batch =>
                                 /\ batch[b].revision = sPoint'[b].revision + 1
                                 /\ batch[b].count = sPoint'[b].count + d[b]
    BY <1>5, <1>7
  <2>5. BatchesAdd'
    BY <2>2, <2>4, <1>9, <1>10 DEF BatchesAdd
  <2>6. NoneLost
    BY <2>1 DEF SampleInv, SamplesHeld
  <2>7. \A b \in Buckets : sAccumulator'[b] + sPoint'[b].count + d[b] = sRecorded'[b]
    BY <2>6, <1>2, <1>3, <1>5 DEF NoneLost
  <2>8. FlushRuns(s)' /\ sSession'[s].step.deltas = d
    BY <1>9, <1>10 DEF FlushRuns
  <2>9. NoneLost'
    BY <2>2, <2>7, <2>8 DEF NoneLost
  <2> QED BY <2>3, <2>5, <2>9
<1>15. \A t \in SampleSessions :
          /\ sSession'[t].step.at = "delete" => sSession'[t] = sSession[t]
          /\ sSession'[t].step.at = "lookup" => sSession'[t] = sSession[t]
  BY <1>9, <1>10
<1>16. ReportsHeld'
  BY <1>5, <1>11, <1>15 DEF SampleInv, ReportsHeld, OutboxHolds, CountedFits, SentFits,
                            DeletesCounted, Fits
<1>17. RepliesOK' /\ LookupsOK'
  BY <1>5, <1>15 DEF SampleInv, RepliesOK, LookupsOK
<1> QED BY <1>12, <1>13, <1>14, <1>16, <1>17 DEF SampleInv, SamplesHeld

\* The points a flush has added to, and their reports, are stored.
LEMMA CommitKeeps ==
  ASSUME SampleInv, NEW s \in SampleSessions, Samples!Commit(s)
  PROVE  SampleInv'
<1>0. SampleKinds
  BY DEF SampleInv
<1>1. sSession[s].on /\ sSession[s].step.at = "commit"
  BY Zenon DEF Samples!Commit, Samples!At
<1>2. FlushRuns(s) /\ Busy(s)
  BY <1>1 DEF FlushRuns, Busy
<1>3. PICK d \in Counts : d = sSession[s].step.deltas
  BY <1>0, <1>2, SessionFields, StepFields DEF FlushRuns
<1>4. PICK batch \in Batches : batch = sSession[s].step.batch
  BY <1>0, <1>1, SessionFields, StepFields
<1>5. /\ Samples!Go(s, Samples!Scanning(TRUE))
      /\ sCollided' = Samples!Collides(s)
      /\ sPoint' = [b \in Buckets |-> IF b \in DOMAIN batch THEN batch[b] ELSE sPoint[b]]
      /\ sReports' = [b \in Buckets |-> IF b \in DOMAIN batch
                         THEN Samples!Report(b, batch[b]) ELSE sReports[b]]
      /\ sRole' = sRole /\ sAccumulator' = sAccumulator
      /\ sSent' = sSent /\ sReplies' = sReplies
      /\ sCounted' = sCounted /\ sRecorded' = sRecorded
  BY <1>4, Zenon DEF Samples!Commit, Samples!wire
<1>6. \A b \in DOMAIN batch : batch[b] \in StoredSet
  BY DEF Batches
<1>7. PICK x \in SampleSteps : x = Samples!Scanning(TRUE) /\ x.at = "scan"
  BY ScanStep
<1>8. /\ sSession' \in [SampleSessions -> SessionSet]
      /\ sSession'[s].step = x /\ sSession'[s].on = sSession[s].on
      /\ \A t \in SampleSessions : t # s => sSession'[t] = sSession[t]
  <2>1. Samples!Go(s, x)
    BY <1>5, <1>7
  <2> QED BY <1>0, <2>1, SessionGoes
<1>9. sCollided' \in BOOLEAN /\ (~sCollided' => ~sCollided /\ FlushesAlone(s))
  BY <1>0, <1>5, CollidesAlone
<1>10. ASSUME NEW b \in Buckets, b \in DOMAIN batch
       PROVE  /\ sReports'[b] \in ReportSet
              /\ sReports'[b].bucket = b
              /\ sReports'[b].revision = batch[b].revision
              /\ sReports'[b].count = batch[b].count
  <2>1. batch[b].revision \in Nat \ {0} /\ batch[b].count \in Nat
    BY <1>6, <1>10 DEF StoredSet
  <2>2. sReports'[b] = [bucket |-> b, revision |-> batch[b].revision, count |-> batch[b].count]
    BY <1>5, <1>10 DEF Samples!Report
  <2> QED BY <2>1, <2>2 DEF ReportSet
<1>11. ASSUME NEW b \in Buckets, b \notin DOMAIN batch
       PROVE  sReports'[b] = sReports[b] /\ sPoint'[b] = sPoint[b]
  BY <1>5, <1>11
<1>12. SampleKinds'
  <2>1. sPoint' \in [Buckets -> PointSet]
    <3>1. StoredSet \subseteq PointSet
      BY DEF StoredSet, PointSet
    <3>2. \A b \in Buckets : sPoint[b] \in PointSet
      BY <1>0 DEF SampleKinds
    <3> QED BY <1>5, <1>6, <3>1, <3>2
  <2>2. DOMAIN sReports' = Buckets
    BY <1>5
  <2>3. \A b \in Buckets : sReports'[b] = Absent \/ sReports'[b] \in ReportSet
    BY <1>0, <1>10, <1>11 DEF SampleKinds
  <2> QED BY <1>0, <1>5, <1>8, <1>9, <2>1, <2>2, <2>3 DEF SampleKinds
<1>13. SessionsRest'
  BY <1>1, <1>8 DEF SampleInv, SamplesHeld, SessionsRest
<1>14. ASSUME ~sCollided'
       PROVE  /\ ~sCollided
              /\ \A t \in SampleSessions : ~Busy(t)' /\ ~FlushRuns(t)'
                   /\ sSession'[t].step.at \notin {"commit", "delete"}
  <2>1. ~sCollided /\ \A t \in SampleSessions : t # s => ~Busy(t)
    BY <1>9, <1>14 DEF FlushesAlone
  <2> QED BY <2>1, <1>7, <1>8 DEF Busy, FlushRuns
<1>15. ASSUME NEW b \in Buckets, ~sCollided'
       PROVE  /\ b \in DOMAIN batch => /\ sPoint'[b] = batch[b]
                                       /\ sPoint'[b].revision = sPoint[b].revision + 1
              /\ sPoint'[b].count = sPoint[b].count + d[b]
              /\ b \notin DOMAIN batch => sPoint'[b] = sPoint[b]
  <2>1. BatchesAdd
    BY <1>14, <1>15 DEF SampleInv, SamplesHeld
  <2>2. /\ b \in DOMAIN batch <=> d[b] > 0
        /\ b \in DOMAIN batch => /\ batch[b].revision = sPoint[b].revision + 1
                                 /\ batch[b].count = sPoint[b].count + d[b]
    BY <2>1, <1>1, <1>3, <1>4 DEF BatchesAdd
  <2>3. d[b] \in Nat /\ sPoint[b].count \in Nat
    BY <1>0, PointFields DEF Counts
  <2>4. b \notin DOMAIN batch => d[b] = 0
    BY <2>2, <2>3
  <2>5. sPoint'[b] = IF b \in DOMAIN batch THEN batch[b] ELSE sPoint[b]
    BY <1>5
  <2>6. CASE b \in DOMAIN batch
    BY <2>2, <2>5, <2>6
  <2>7. CASE b \notin DOMAIN batch
    BY <2>3, <2>4, <2>5, <2>7
  <2> QED BY <2>6, <2>7
<1>16. ASSUME ~sCollided' PROVE OneIsBusy' /\ BatchesAdd' /\ NoneLost'
  <2>1. OneIsBusy' /\ BatchesAdd'
    BY <1>14, <1>16 DEF OneIsBusy, BatchesAdd
  <2>2. NoneLost
    BY <1>14, <1>16 DEF SampleInv, SamplesHeld
  <2>3. ASSUME NEW b \in Buckets
        PROVE  sAccumulator'[b] + sPoint'[b].count = sRecorded'[b]
    <3>1. sAccumulator[b] + sPoint[b].count + d[b] = sRecorded[b]
      BY <2>2, <1>2, <1>3 DEF NoneLost
    <3>2. d[b] \in Nat /\ sPoint[b].count \in Nat /\ sAccumulator[b] \in Nat
      BY <1>0, PointFields DEF Counts
    <3>3. sPoint'[b].count = sPoint[b].count + d[b]
      BY <1>15, <1>16
    <3> QED BY <3>1, <3>2, <3>3, <1>5
  <2>4. NoneLost'
    BY <1>14, <1>16, <2>3 DEF NoneLost
  <2> QED BY <2>1, <2>4
<1>17. ASSUME ~sCollided' PROVE OutboxHolds' /\ CountedFits' /\ SentFits' /\ DeletesCounted'
  <2>1. OutboxHolds /\ CountedFits /\ SentFits
    BY <1>14, <1>17 DEF SampleInv, ReportsHeld
  <2>2. ASSUME NEW b \in Buckets
        PROVE  /\ sPoint[b].revision \in Nat /\ sPoint[b].count \in Nat /\ d[b] \in Nat
               /\ sCounted[b].revision \in Nat /\ sCounted[b].count \in Nat
               /\ sPoint'[b] = sPoint[b] \/ sPoint'[b].revision = sPoint[b].revision + 1
               /\ sPoint'[b].count = sPoint[b].count + d[b]
    BY <1>0, <1>15, <1>17, PointFields DEF Counts
  <2>3. OutboxHolds'
    <3> SUFFICES ASSUME NEW b \in Buckets
                 PROVE  /\ sReports'[b] # Absent =>
                              /\ sReports'[b].bucket = b
                              /\ sReports'[b].revision = sPoint'[b].revision
                              /\ sReports'[b].count = sPoint'[b].count
                        /\ sPoint'[b].revision > sCounted'[b].revision => sReports'[b] # Absent
      BY DEF OutboxHolds
    <3>1. CASE b \in DOMAIN batch
      <4>1. sPoint'[b] = batch[b]
        BY <1>15, <1>17, <3>1
      <4>2. Absent \notin ReportSet
        BY ReportIsNotAbsent
      <4> QED BY <1>10, <3>1, <4>1, <4>2
    <3>2. CASE b \notin DOMAIN batch
      BY <1>5, <1>11, <2>1, <3>2 DEF OutboxHolds
    <3> QED BY <3>1, <3>2
  <2>4. CountedFits'
    <3> SUFFICES ASSUME NEW b \in Buckets
                 PROVE  /\ sCounted[b].revision <= sPoint'[b].revision
                        /\ sCounted[b].count <= sPoint'[b].count
                        /\ sCounted[b].revision = sPoint'[b].revision =>
                              sCounted[b].count = sPoint'[b].count
      BY <1>5 DEF CountedFits
    <3>1. /\ sCounted[b].revision <= sPoint[b].revision
          /\ sCounted[b].count <= sPoint[b].count
          /\ sCounted[b].revision = sPoint[b].revision => sCounted[b].count = sPoint[b].count
      BY <2>1 DEF CountedFits
    <3>2. CASE sPoint'[b] = sPoint[b]
      BY <3>1, <3>2
    <3>3. CASE sPoint'[b].revision = sPoint[b].revision + 1
      BY <2>2, <3>1, <3>3
    <3> QED BY <2>2, <3>2, <3>3
  <2>5. SentFits'
    <3> SUFFICES ASSUME NEW t \in SampleSessions, NEW i \in 1..Len(sSent[t])
                 PROVE  Fits(sSent[t][i])'
      BY <1>5 DEF SentFits
    <3>1. PICK r \in ReportSet : r = sSent[t][i]
      <4>1. PICK q \in Seq(ReportSet) : q = sSent[t]
        BY <1>0 DEF SampleKinds
      <4> QED BY <4>1, LenProperties
    <3>2. sSent'[t][i] = r /\ Fits(r)
      BY <2>1, <1>5, <3>1 DEF SentFits
    <3>3. PICK b \in Buckets : b = r.bucket
      BY DEF ReportSet
    <3>4. r.revision \in Nat /\ r.count \in Nat
      BY DEF ReportSet
    <3>5. /\ r.revision <= sPoint[b].revision /\ r.count <= sPoint[b].count
          /\ r.revision = sPoint[b].revision => r.count = sPoint[b].count
      BY <3>2, <3>3 DEF Fits
    <3>6. /\ r.revision <= sPoint'[b].revision /\ r.count <= sPoint'[b].count
          /\ r.revision = sPoint'[b].revision => r.count = sPoint'[b].count
      <4>1. CASE sPoint'[b] = sPoint[b]
        BY <3>5, <4>1
      <4>2. CASE sPoint'[b].revision = sPoint[b].revision + 1
        BY <2>2, <3>4, <3>5, <4>2
      <4> QED BY <2>2, <4>1, <4>2
    <3> QED BY <3>2, <3>3, <3>6 DEF Fits
  <2>6. DeletesCounted'
    BY <1>14, <1>17 DEF DeletesCounted
  <2> QED BY <2>3, <2>4, <2>5, <2>6
<1>18. \A t \in SampleSessions : sSession'[t].step.at = "lookup" => sSession'[t] = sSession[t]
  BY <1>7, <1>8
<1>19. RepliesOK' /\ LookupsOK'
  BY <1>5, <1>18 DEF SampleInv, RepliesOK, LookupsOK
<1> QED BY <1>12, <1>13, <1>16, <1>17, <1>19 DEF SampleInv, SamplesHeld, ReportsHeld

\* The samples go back to memory.
LEMMA CommitFailsKeeps ==
  ASSUME SampleInv, NEW s \in SampleSessions, Samples!CommitFails(s)
  PROVE  SampleInv'
<1>0. SampleKinds
  BY DEF SampleInv
<1>1. sSession[s].on /\ sSession[s].step.at = "commit"
  BY Zenon DEF Samples!CommitFails, Samples!At
<1>2. FlushRuns(s) /\ Busy(s)
  BY <1>1 DEF FlushRuns, Busy
<1>3. PICK d \in Counts : d = sSession[s].step.deltas
  BY <1>0, <1>2, SessionFields, StepFields DEF FlushRuns
<1>4. PICK e \in SessionSet : e = Samples!Off /\ e.step.at = "idle" /\ e.on = FALSE
  BY OffSession
<1>5. PICK x \in SampleSteps : x = Samples!Scanning(FALSE) /\ x.at = "scan"
  BY ScanStep
<1>6. /\ \/ Samples!Go(s, x) /\ sReplies' = sReplies
         \/ /\ sSession' = [sSession EXCEPT ![s] = e]
            /\ sReplies' = [sReplies EXCEPT ![s] = <<>>]
      /\ sCollided' = Samples!Collides(s)
      /\ sAccumulator' = [b \in Buckets |-> sAccumulator[b] + d[b]]
      /\ sRole' = sRole /\ sPoint' = sPoint /\ sReports' = sReports
      /\ sSent' = sSent /\ sCounted' = sCounted /\ sRecorded' = sRecorded
  BY <1>3, <1>4, <1>5, Zenon DEF Samples!CommitFails, Samples!store, Samples!Restored
<1>7. /\ sSession' \in [SampleSessions -> SessionSet]
      /\ sSession'[s].step.at \in {"idle", "scan"}
      /\ ~sSession'[s].on => sSession'[s].step.at = "idle"
      /\ \A t \in SampleSessions : t # s => sSession'[t] = sSession[t]
  <2>1. CASE Samples!Go(s, x)
    <3>1. /\ sSession' \in [SampleSessions -> SessionSet]
          /\ sSession'[s].step = x /\ sSession'[s].on = sSession[s].on
          /\ \A t \in SampleSessions : t # s => sSession'[t] = sSession[t]
      BY <1>0, <2>1, SessionGoes
    <3> QED BY <1>1, <1>5, <3>1
  <2>2. CASE sSession' = [sSession EXCEPT ![s] = e]
    BY <1>0, <1>4, <2>2 DEF SampleKinds
  <2> QED BY <1>6, <2>1, <2>2
<1>8. /\ sReplies' \in [SampleSessions -> Seq(ReplySet)]
      /\ \A t \in SampleSessions : sReplies'[t] = sReplies[t] \/ sReplies'[t] = <<>>
  <2>1. <<>> \in Seq(ReplySet)
    OBVIOUS
  <2> QED BY <1>0, <1>6, <2>1 DEF SampleKinds
<1>9. sCollided' \in BOOLEAN /\ (~sCollided' => ~sCollided /\ FlushesAlone(s))
  BY <1>0, <1>6, CollidesAlone
<1>10. \A b \in Buckets : /\ sAccumulator[b] \in Nat /\ d[b] \in Nat /\ sPoint[b].count \in Nat
                          /\ sAccumulator'[b] = sAccumulator[b] + d[b]
  BY <1>0, <1>6, PointFields DEF Counts
<1>11. SampleKinds'
  <2>1. sAccumulator' \in Counts
    BY <1>6, <1>10 DEF Counts
  <2> QED BY <1>0, <1>6, <1>7, <1>8, <1>9, <2>1 DEF SampleKinds
<1>12. SessionsRest'
  BY <1>7 DEF SampleInv, SamplesHeld, SessionsRest
<1>13. ASSUME ~sCollided'
       PROVE  /\ ~sCollided
              /\ \A t \in SampleSessions : ~Busy(t)' /\ ~FlushRuns(t)'
                   /\ sSession'[t].step.at \notin {"commit", "delete"}
  <2>1. ~sCollided /\ \A t \in SampleSessions : t # s => ~Busy(t)
    BY <1>9, <1>13 DEF FlushesAlone
  <2> QED BY <2>1, <1>7 DEF Busy, FlushRuns
<1>14. ASSUME ~sCollided' PROVE OneIsBusy' /\ BatchesAdd' /\ NoneLost'
  <2>1. OneIsBusy' /\ BatchesAdd'
    BY <1>13, <1>14 DEF OneIsBusy, BatchesAdd
  <2>2. NoneLost
    BY <1>13, <1>14 DEF SampleInv, SamplesHeld
  <2>3. ASSUME NEW b \in Buckets
        PROVE  sAccumulator'[b] + sPoint'[b].count = sRecorded'[b]
    <3>1. sAccumulator[b] + sPoint[b].count + d[b] = sRecorded[b]
      BY <2>2, <1>2, <1>3 DEF NoneLost
    <3> QED BY <3>1, <1>6, <1>10
  <2>4. NoneLost'
    BY <1>13, <1>14, <2>3 DEF NoneLost
  <2> QED BY <2>1, <2>4
<1>15. ReportsHeld'
  BY <1>6, <1>13 DEF SampleInv, ReportsHeld, OutboxHolds, CountedFits, SentFits,
                     DeletesCounted, Fits
<1>16. RepliesOK'
  <2> SUFFICES ASSUME NEW t \in SampleSessions, NEW i \in 1..Len(sReplies'[t])
               PROVE  sReplies'[t] = sReplies[t]
    BY <1>6 DEF SampleInv, RepliesOK
  <2>1. sReplies'[t] # <<>>
    OBVIOUS
  <2> QED BY <2>1, <1>8
<1>17. \A t \in SampleSessions : sSession'[t].step.at = "lookup" => sSession'[t] = sSession[t]
  BY <1>7
<1>18. LookupsOK'
  BY <1>6, <1>17 DEF SampleInv, LookupsOK
<1> QED BY <1>11, <1>12, <1>14, <1>15, <1>16, <1>18 DEF SampleInv, SamplesHeld

\* Nobody else is at work on the store: a session that is not at a flush goes on to a
\* step that is none.
LEMMA GoKeepsSamples ==
  ASSUME SampleInv, NEW s \in SampleSessions, ~FlushRuns(s), ~FlushRuns(s)',
         sCollided' \in BOOLEAN, ~sCollided' => ~sCollided /\ FlushesAlone(s),
         sAccumulator' = sAccumulator, sPoint' = sPoint, sRecorded' = sRecorded,
         \A t \in SampleSessions : t # s => sSession'[t] = sSession[t],
         ~sSession'[s].on => sSession'[s].step.at = "idle"
  PROVE  SamplesHeld'
<1>1. SessionsRest'
  BY DEF SampleInv, SamplesHeld, SessionsRest
<1>2. ASSUME ~sCollided' PROVE OneIsBusy' /\ BatchesAdd' /\ NoneLost'
  <2>1. ~sCollided /\ \A t \in SampleSessions : t # s => ~Busy(t)
    BY <1>2 DEF FlushesAlone
  <2>2. \A t \in SampleSessions : t # s => ~Busy(t)' /\ ~FlushRuns(t)' /\ ~FlushRuns(t)
    BY <2>1 DEF Busy, FlushRuns
  <2>3. \A t \in SampleSessions : ~FlushRuns(t)' /\ ~FlushRuns(t) /\ sSession'[t].step.at # "commit"
    BY <2>2 DEF FlushRuns
  <2>4. NoneLost
    BY <2>1 DEF SampleInv, SamplesHeld
  <2>5. OneIsBusy'
    BY <2>2 DEF OneIsBusy
  <2>6. BatchesAdd'
    BY <2>3 DEF BatchesAdd
  <2>7. NoneLost'
    BY <2>3, <2>4 DEF NoneLost
  <2> QED BY <2>5, <2>6, <2>7
<1> QED BY <1>1, <1>2 DEF SamplesHeld

\* An answer is looked up in the outbox: the report there is the newest of its bucket.
LEMMA LookupKeeps ==
  ASSUME SampleInv, NEW s \in SampleSessions, Samples!Lookup(s)
  PROVE  SampleInv'
<1>0. SampleKinds
  BY DEF SampleInv
<1>1. sSession[s].on /\ sSession[s].step.at = "lookup"
  BY Zenon DEF Samples!Lookup, Samples!At
<1>2. PICK r \in ReportSet : r = sSession[s].step.report
  BY <1>0, <1>1, SessionFields, StepFields
<1>3. PICK b \in Buckets : b = r.bucket
  BY DEF ReportSet
<1>4. PICK e \in SampleSteps : e = Samples!Idle /\ e.at = "idle"
  BY IdleStep
<1>5. PICK y \in SampleSteps : /\ y = [at |-> "delete", bucket |-> b]
                               /\ y.at = "delete" /\ y.bucket = b
  BY DeleteStep
<1>6. /\ Samples!Go(s, IF sReports[b] = r THEN y ELSE e)
      /\ sCollided' = Samples!Collides(s)
      /\ sRole' = sRole /\ sAccumulator' = sAccumulator /\ sPoint' = sPoint
      /\ sReports' = sReports /\ sSent' = sSent /\ sReplies' = sReplies
      /\ sCounted' = sCounted /\ sRecorded' = sRecorded
  BY <1>2, <1>3, <1>4, <1>5, Zenon DEF Samples!Lookup, Samples!store, Samples!wire
<1>7. PICK x \in SampleSteps : /\ x = IF sReports[b] = r THEN y ELSE e
                               /\ x.at \in {"idle", "delete"}
                               /\ x.at = "delete" => x = y /\ sReports[b] = r
  BY <1>4, <1>5
<1>8. /\ sSession' \in [SampleSessions -> SessionSet]
      /\ sSession'[s].step = x /\ sSession'[s].on = sSession[s].on
      /\ \A t \in SampleSessions : t # s => sSession'[t] = sSession[t]
  <2>1. Samples!Go(s, x)
    BY <1>6, <1>7
  <2> QED BY <1>0, <2>1, SessionGoes
<1>9. sCollided' \in BOOLEAN /\ (~sCollided' => ~sCollided /\ FlushesAlone(s))
  BY <1>0, <1>6, CollidesAlone
<1>10. SampleKinds'
  BY <1>0, <1>6, <1>8, <1>9 DEF SampleKinds
<1>11. SamplesHeld'
  <2>1. ~FlushRuns(s) /\ ~FlushRuns(s)'
    BY <1>1, <1>7, <1>8 DEF FlushRuns
  <2> QED BY <1>1, <1>6, <1>8, <1>9, <2>1, GoKeepsSamples
<1>12. ASSUME ~sCollided' PROVE DeletesCounted'
  <2>1. OutboxHolds /\ DeletesCounted
    BY <1>9, <1>12 DEF SampleInv, ReportsHeld
  <2>2. r.revision <= sCounted[b].revision
    BY <1>1, <1>2, <1>3 DEF SampleInv, LookupsOK
  <2>3. ASSUME x.at = "delete"
        PROVE  x.bucket = b /\ sCounted[b].revision >= sPoint[b].revision
    <3>1. sReports[b] = r /\ r # Absent
      BY <1>7, <2>3, ReportIsNotAbsent
    <3>2. r.revision = sPoint[b].revision
      BY <2>1, <3>1 DEF OutboxHolds
    <3>3. sCounted[b].revision \in Nat /\ sPoint[b].revision \in Nat
      BY <1>0, PointFields
    <3> QED BY <1>5, <1>7, <2>2, <2>3, <3>2, <3>3
  <2> QED BY <1>6, <1>8, <2>1, <2>3 DEF DeletesCounted
<1>13. ReportsHeld'
  BY <1>6, <1>9, <1>12 DEF SampleInv, ReportsHeld, OutboxHolds, CountedFits, SentFits, Fits
<1>14. \A t \in SampleSessions : sSession'[t].step.at = "lookup" => sSession'[t] = sSession[t]
  BY <1>7, <1>8
<1>15. RepliesOK' /\ LookupsOK'
  BY <1>6, <1>14 DEF SampleInv, RepliesOK, LookupsOK
<1> QED BY <1>10, <1>11, <1>13, <1>15 DEF SampleInv

\* A report the Server has is deleted.
LEMMA DeleteKeeps ==
  ASSUME SampleInv, NEW s \in SampleSessions, Samples!Delete(s)
  PROVE  SampleInv'
<1>0. SampleKinds
  BY DEF SampleInv
<1>1. sSession[s].on /\ sSession[s].step.at = "delete"
  BY Zenon DEF Samples!Delete, Samples!At
<1>2. PICK b \in Buckets : b = sSession[s].step.bucket
  BY <1>0, <1>1, SessionFields, StepFields
<1>3. PICK e \in SampleSteps : e = Samples!Idle /\ e.at = "idle"
  BY IdleStep
<1>4. /\ Samples!Go(s, e)
      /\ sReports' = [sReports EXCEPT ![b] = Absent]
      /\ sCollided' = Samples!Collides(s)
      /\ sRole' = sRole /\ sAccumulator' = sAccumulator /\ sPoint' = sPoint
      /\ sSent' = sSent /\ sReplies' = sReplies
      /\ sCounted' = sCounted /\ sRecorded' = sRecorded
  BY <1>2, <1>3, Zenon DEF Samples!Delete, Samples!wire
<1>5. /\ sSession' \in [SampleSessions -> SessionSet]
      /\ sSession'[s].step = e /\ sSession'[s].on = sSession[s].on
      /\ \A t \in SampleSessions : t # s => sSession'[t] = sSession[t]
  BY <1>0, <1>4, SessionGoes
<1>6. sCollided' \in BOOLEAN /\ (~sCollided' => ~sCollided /\ FlushesAlone(s))
  BY <1>0, <1>4, CollidesAlone
<1>7. /\ DOMAIN sReports' = Buckets /\ sReports'[b] = Absent
      /\ \A c \in Buckets : c # b => sReports'[c] = sReports[c]
  BY <1>0, <1>4 DEF SampleKinds
<1>8. SampleKinds'
  BY <1>0, <1>4, <1>5, <1>6, <1>7 DEF SampleKinds
<1>9. SamplesHeld'
  <2>1. ~FlushRuns(s) /\ ~FlushRuns(s)'
    BY <1>1, <1>3, <1>5 DEF FlushRuns
  <2> QED BY <1>1, <1>4, <1>5, <1>6, <2>1, GoKeepsSamples
<1>10. ASSUME ~sCollided' PROVE OutboxHolds' /\ DeletesCounted'
  <2>1. OutboxHolds /\ DeletesCounted
    BY <1>6, <1>10 DEF SampleInv, ReportsHeld
  <2>2. sCounted[b].revision >= sPoint[b].revision
    BY <1>1, <1>2, <2>1 DEF DeletesCounted
  <2>3. ~(sPoint[b].revision > sCounted[b].revision)
    <3>1. sCounted[b].revision \in Nat /\ sPoint[b].revision \in Nat
      BY <1>0, PointFields
    <3> QED BY <2>2, <3>1
  <2>4. OutboxHolds'
    BY <1>4, <1>7, <2>1, <2>3 DEF OutboxHolds
  <2>5. DeletesCounted'
    BY <1>3, <1>4, <1>5, <2>1 DEF DeletesCounted
  <2> QED BY <2>4, <2>5
<1>11. ReportsHeld'
  BY <1>4, <1>6, <1>10 DEF SampleInv, ReportsHeld, CountedFits, SentFits, Fits
<1>12. \A t \in SampleSessions : sSession'[t].step.at = "lookup" => sSession'[t] = sSession[t]
  BY <1>3, <1>5
<1>13. RepliesOK' /\ LookupsOK'
  BY <1>4, <1>12 DEF SampleInv, RepliesOK, LookupsOK
<1> QED BY <1>8, <1>9, <1>11, <1>13 DEF SampleInv

\* An answer is taken: a positive one is looked up.
LEMMA ReceiveAckKeeps ==
  ASSUME SampleInv, NEW s \in SampleSessions, Samples!ReceiveAck(s)
  PROVE  SampleInv'
<1>0. SampleKinds
  BY DEF SampleInv
<1>1. PICK q \in Seq(ReplySet) : q = sReplies[s] /\ q # <<>>
  BY <1>0, Zenon DEF Samples!ReceiveAck, SampleKinds
<1>2. PICK a \in ReplySet : a = Head(q) /\ a = q[1]
  BY <1>1, HeadTailProperties
<1>3. PICK r \in ReportSet : r = a.report
  BY DEF ReplySet
<1>4. PICK e \in SampleSteps : e = Samples!Idle /\ e.at = "idle"
  BY IdleStep
<1>5. PICK y \in SampleSteps : /\ y = [at |-> "lookup", report |-> r]
                               /\ y.at = "lookup" /\ y.report = r
  BY LookupStep
<1>6. PICK w : w = [sSession[s] EXCEPT
                      !.keys = IF a.ok \/ sRole = "travel" THEN sSession[s].keys \ {r}
                               ELSE sSession[s].keys,
                      !.step = IF a.ok /\ r \in sSession[s].keys THEN y ELSE e]
  OBVIOUS
<1>7. /\ sSession[s].on /\ sSession[s].step.at = "idle"
      /\ sSession' = [sSession EXCEPT ![s] = w]
      /\ sReplies' = [sReplies EXCEPT ![s] = Tail(@)]
  <2>1. Head(sReplies[s]) = a /\ a.report = r
    BY <1>1, <1>2, <1>3
  <2>2. sSession' = [sSession EXCEPT ![s] =
            [sSession[s] EXCEPT
                      !.keys = IF a.ok \/ sRole = "travel" THEN sSession[s].keys \ {r}
                               ELSE sSession[s].keys,
                      !.step = IF a.ok /\ r \in sSession[s].keys THEN y ELSE e]]
    BY <2>1, <1>4, <1>5, Zenon DEF Samples!ReceiveAck
  <2>3. sSession' = [sSession EXCEPT ![s] = w]
    BY <2>2, <1>6, Zenon
  <2> QED BY <2>3, Zenon DEF Samples!ReceiveAck, Samples!At
<1>8. /\ sRole' = sRole /\ sAccumulator' = sAccumulator /\ sPoint' = sPoint
      /\ sReports' = sReports /\ sSent' = sSent
      /\ sCounted' = sCounted /\ sRecorded' = sRecorded /\ sCollided' = sCollided
  BY Zenon DEF Samples!ReceiveAck, Samples!store
<1>9. PICK u \in SessionSet : u = sSession[s]
  BY <1>0 DEF SampleKinds
<1>10. PICK x \in SampleSteps : /\ x = IF a.ok /\ r \in sSession[s].keys THEN y ELSE e
                                /\ \/ x.at = "idle"
                                   \/ x = y /\ a.ok
  BY <1>4, <1>5
<1>11. PICK keys \in SUBSET ReportSet :
          keys = IF a.ok \/ sRole = "travel" THEN sSession[s].keys \ {r} ELSE sSession[s].keys
  BY <1>9 DEF SessionSet
<1>12. w = [on |-> u.on, keys |-> keys, pending |-> u.pending, step |-> x]
  BY <1>6, <1>9, <1>10, <1>11 DEF SessionSet
<1>14. w \in SessionSet /\ w.step = x /\ w.on = u.on
  BY <1>12 DEF SessionSet
<1>15. /\ sSession' \in [SampleSessions -> SessionSet]
       /\ sSession'[s].step = x /\ sSession'[s].on = sSession[s].on
       /\ \A t \in SampleSessions : t # s => sSession'[t] = sSession[t]
  BY <1>0, <1>7, <1>9, <1>14 DEF SampleKinds
<1>16. PICK q2 \in Seq(ReplySet) : q2 = Tail(q) /\ Len(q2) = Len(q) - 1
                                   /\ \A i \in 1..Len(q2) : q2[i] = q[i + 1]
  BY <1>1, HeadTailProperties
<1>17. /\ sReplies' \in [SampleSessions -> Seq(ReplySet)]
       /\ sReplies'[s] = q2 /\ \A t \in SampleSessions : t # s => sReplies'[t] = sReplies[t]
  BY <1>0, <1>1, <1>7, <1>16 DEF SampleKinds
<1>18. SampleKinds'
  BY <1>0, <1>8, <1>15, <1>17 DEF SampleKinds
<1>19. \A t \in SampleSessions :
          /\ Busy(t)' <=> Busy(t)
          /\ FlushRuns(t)' <=> FlushRuns(t)
          /\ FlushRuns(t)' => sSession'[t] = sSession[t]
          /\ sSession'[t].step.at = "commit" => sSession'[t] = sSession[t]
          /\ sSession'[t].step.at = "delete" => sSession'[t] = sSession[t]
  BY <1>5, <1>7, <1>10, <1>15 DEF Busy, FlushRuns
<1>20. SessionsRest'
  BY <1>7, <1>15 DEF SampleInv, SamplesHeld, SessionsRest
<1>21. ASSUME ~sCollided PROVE OneIsBusy' /\ BatchesAdd' /\ NoneLost'
  <2>1. OneIsBusy'
    BY <1>19, <1>21 DEF SampleInv, SamplesHeld, OneIsBusy
  <2>2. BatchesAdd'
    BY <1>8, <1>19, <1>21 DEF SampleInv, SamplesHeld, BatchesAdd
  <2>3. NoneLost'
    BY <1>8, <1>19, <1>21 DEF SampleInv, SamplesHeld, NoneLost
  <2> QED BY <2>1, <2>2, <2>3
<1>22. ReportsHeld'
  BY <1>8, <1>19 DEF SampleInv, ReportsHeld, OutboxHolds, CountedFits, SentFits,
                     DeletesCounted, Fits
<1>23. Len(q) \in Nat /\ Len(q) > 0
  BY <1>1, LenProperties
<1>24. RepliesOK'
  <2> SUFFICES ASSUME NEW t \in SampleSessions, NEW i \in 1..Len(sReplies'[t])
               PROVE  \E j \in 1..Len(sReplies[t]) : sReplies'[t][i] = sReplies[t][j]
    BY <1>8 DEF SampleInv, RepliesOK
  <2>1. CASE t = s
    <3>1. i + 1 \in 1..Len(q) /\ q2[i] = q[i + 1]
      BY <1>16, <1>17, <1>23, <2>1
    <3> QED BY <1>1, <1>17, <2>1, <3>1
  <2>2. CASE t # s
    BY <1>17, <2>2
  <2> QED BY <2>1, <2>2
<1>25. LookupsOK'
  <2>1. ASSUME x.at = "lookup"
        PROVE  x.report.revision <= sCounted[x.report.bucket].revision
    <3>1. x = y /\ a.ok /\ y.report = r
      BY <1>5, <1>10, <2>1
    <3>2. 1 \in 1..Len(sReplies[s]) /\ sReplies[s][1] = a
      BY <1>1, <1>2, <1>23
    <3>3. a.report.revision <= sCounted[a.report.bucket].revision
      BY <3>1, <3>2 DEF SampleInv, RepliesOK
    <3> QED BY <1>3, <3>1, <3>3
  <2> QED BY <1>8, <1>15, <2>1 DEF SampleInv, LookupsOK
<1> QED BY <1>8, <1>18, <1>20, <1>21, <1>22, <1>24, <1>25 DEF SampleInv, SamplesHeld

\* The instance counts as the module does.
LEMMA SameCardinality == \A set : Samples!Cardinality(set) = Cardinality(set)
  BY Zenon DEF Samples!Cardinality, Cardinality

\* What is sent are the reports of buckets in which one waits.
LEMMA SentWaits ==
  ASSUME SampleKinds, NEW set \in SUBSET Buckets,
         \A b \in set : sReports[b] # Absent,
         NEW new \in Samples!InOrder(set)
  PROVE  /\ new \in Seq(ReportSet)
         /\ \A i \in 1..Len(new) : \E b \in set : new[i] = sReports[b]
<1>1. PICK n : n = Samples!Cardinality(set)
  OBVIOUS
<1>2. n \in Nat
  <2>1. IsFiniteSet(set)
    BY SampleConstants, FS_Subset
  <2> QED BY <1>1, <2>1, SameCardinality, FS_CardinalityType
<1>3. PICK order \in [1..n -> set] : new = [i \in 1..n |-> sReports[order[i]]]
  BY <1>1, Zenon DEF Samples!InOrder
<1>4. \A b \in set : sReports[b] \in ReportSet
  BY DEF SampleKinds
<1>5. \A i \in 1..n : order[i] \in set /\ new[i] = sReports[order[i]]
  BY <1>3
<1>6. new \in [1..n -> ReportSet]
  BY <1>3, <1>4
<1>7. new \in Seq(ReportSet) /\ Len(new) = n
  BY <1>2, <1>6
<1> QED BY <1>5, <1>7

\* The first reports of the outbox are sent.
LEMMA SendKeeps ==
  ASSUME SampleInv, NEW s \in SampleSessions, Samples!Send(s)
  PROVE  SampleInv'
<1>0. SampleKinds
  BY DEF SampleInv
<1>1. PICK toSend : toSend = {b \in Samples!Pending :
                                ~(sRole = "travel" /\ sReports[b] \in sSession[s].keys)}
  OBVIOUS
<1>2. toSend \in SUBSET Buckets /\ \A b \in toSend : sReports[b] # Absent
  BY <1>1 DEF Samples!Pending
<1>3. PICK e \in SampleSteps : e = Samples!Idle /\ e.at = "idle"
  BY IdleStep
<1>4. PICK pending \in BOOLEAN : pending = (Samples!Pending # {})
  OBVIOUS
<1>5. PICK w : w = [sSession[s] EXCEPT
                      !.step = e, !.pending = pending,
                      !.keys = sSession[s].keys \union {sReports[b] : b \in toSend}]
  OBVIOUS
<1>6. /\ sSession[s].on /\ sSession[s].step.at = "scan"
      /\ \/ /\ \E new \in Samples!InOrder(toSend) : sSent' = [sSent EXCEPT ![s] = @ \o new]
            /\ sSession' = [sSession EXCEPT ![s] = w]
         \/ Samples!Go(s, e) /\ sSent' = sSent
  <2>1. \/ /\ \E new \in Samples!InOrder(toSend) : sSent' = [sSent EXCEPT ![s] = @ \o new]
           /\ sSession' = [sSession EXCEPT ![s] =
                  [sSession[s] EXCEPT !.step = e, !.pending = (Samples!Pending # {}),
                            !.keys = sSession[s].keys \union {sReports[b] : b \in toSend}]]
        \/ Samples!Go(s, e) /\ sSent' = sSent
    BY <1>1, <1>3, Zenon DEF Samples!Send
  <2>2. \/ /\ \E new \in Samples!InOrder(toSend) : sSent' = [sSent EXCEPT ![s] = @ \o new]
           /\ sSession' = [sSession EXCEPT ![s] = w]
        \/ Samples!Go(s, e) /\ sSent' = sSent
    BY <2>1, <1>4, <1>5, Zenon
  <2> QED BY <2>2, Zenon DEF Samples!Send, Samples!At
<1>23. /\ sRole' = sRole /\ sAccumulator' = sAccumulator /\ sPoint' = sPoint
      /\ sReports' = sReports /\ sReplies' = sReplies
      /\ sCounted' = sCounted /\ sRecorded' = sRecorded /\ sCollided' = sCollided
  BY Zenon DEF Samples!Send, Samples!store
<1>7. PICK u \in SessionSet : u = sSession[s]
  BY <1>0 DEF SampleKinds
<1>8. PICK keys \in SUBSET ReportSet :
         keys = sSession[s].keys \union {sReports[b] : b \in toSend}
  <2>1. \A b \in toSend : sReports[b] \in ReportSet
    BY <1>0, <1>2 DEF SampleKinds
  <2> QED BY <1>7, <2>1 DEF SessionSet
<1>10. w = [on |-> u.on, keys |-> keys, pending |-> pending, step |-> e]
  BY <1>5, <1>7, <1>8 DEF SessionSet
<1>11. w \in SessionSet /\ w.step = e /\ w.on = u.on
  BY <1>10 DEF SessionSet
<1>12. /\ sSession' \in [SampleSessions -> SessionSet]
       /\ sSession'[s].step = e /\ sSession'[s].on = sSession[s].on
       /\ \A t \in SampleSessions : t # s => sSession'[t] = sSession[t]
  <2>1. CASE Samples!Go(s, e)
    BY <1>0, <2>1, SessionGoes
  <2>2. CASE sSession' = [sSession EXCEPT ![s] = w]
    BY <1>0, <1>7, <1>11, <2>2 DEF SampleKinds
  <2> QED BY <1>6, <2>1, <2>2
<1>13. PICK old \in Seq(ReportSet) : old = sSent[s]
  BY <1>0 DEF SampleKinds
<1>14. PICK now \in Seq(ReportSet) :
          /\ sSent' = [sSent EXCEPT ![s] = now]
          /\ \A i \in 1..Len(now) : \/ \E j \in 1..Len(old) : now[i] = old[j]
                                    \/ \E b \in toSend : now[i] = sReports[b]
  <2>1. CASE sSent' = sSent
    BY <1>0, <1>13, <2>1 DEF SampleKinds
  <2>2. CASE \E new \in Samples!InOrder(toSend) : sSent' = [sSent EXCEPT ![s] = @ \o new]
    <3>1. PICK new \in Samples!InOrder(toSend) : sSent' = [sSent EXCEPT ![s] = @ \o new]
      BY <2>2
    <3>2. /\ new \in Seq(ReportSet)
          /\ \A i \in 1..Len(new) : \E b \in toSend : new[i] = sReports[b]
      BY <1>0, <1>2, SentWaits
    <3>3. PICK m \in Seq(ReportSet) : m = new
      BY <3>2
    <3>4. PICK z \in Seq(ReportSet) :
             /\ z = old \o m /\ Len(z) = Len(old) + Len(m)
             /\ \A i \in 1..Len(old) + Len(m) :
                   z[i] = IF i <= Len(old) THEN old[i] ELSE m[i - Len(old)]
      <4>1. /\ old \o m \in Seq(ReportSet) /\ Len(old \o m) = Len(old) + Len(m)
            /\ \A i \in 1..Len(old) + Len(m) :
                  (old \o m)[i] = IF i <= Len(old) THEN old[i] ELSE m[i - Len(old)]
        BY ConcatProperties
      <4> QED BY <4>1
    <3>5. Len(old) \in Nat /\ Len(m) \in Nat
      BY LenProperties
    <3>6. ASSUME NEW i \in 1..Len(z)
          PROVE  \/ \E j \in 1..Len(old) : z[i] = old[j]
                 \/ \E b \in toSend : z[i] = sReports[b]
      <4>1. CASE i <= Len(old)
        BY <3>4, <3>5, <4>1
      <4>2. CASE ~(i <= Len(old))
        <5>1. i - Len(old) \in 1..Len(m) /\ z[i] = m[i - Len(old)]
          BY <3>4, <3>5, <4>2
        <5> QED BY <3>2, <3>3, <5>1
      <4> QED BY <4>1, <4>2
    <3> QED BY <1>13, <3>1, <3>3, <3>4, <3>6
  <2> QED BY <1>6, <2>1, <2>2
<1>15. /\ sSent' \in [SampleSessions -> Seq(ReportSet)] /\ sSent'[s] = now
       /\ \A t \in SampleSessions : t # s => sSent'[t] = sSent[t]
  BY <1>0, <1>14 DEF SampleKinds
<1>16. SampleKinds'
  BY <1>0, <1>23, <1>12, <1>15 DEF SampleKinds
<1>17. \A t \in SampleSessions :
          /\ Busy(t)' <=> Busy(t)
          /\ FlushRuns(t)' <=> FlushRuns(t)
          /\ FlushRuns(t)' => sSession'[t] = sSession[t]
          /\ sSession'[t].step.at = "commit" => sSession'[t] = sSession[t]
          /\ sSession'[t].step.at = "delete" => sSession'[t] = sSession[t]
          /\ sSession'[t].step.at = "lookup" => sSession'[t] = sSession[t]
  BY <1>3, <1>6, <1>12 DEF Busy, FlushRuns
<1>18. SessionsRest'
  BY <1>3, <1>12 DEF SampleInv, SamplesHeld, SessionsRest
<1>19. ASSUME ~sCollided PROVE OneIsBusy' /\ BatchesAdd' /\ NoneLost'
  <2>1. OneIsBusy'
    BY <1>17, <1>19 DEF SampleInv, SamplesHeld, OneIsBusy
  <2>2. BatchesAdd'
    BY <1>23, <1>17, <1>19 DEF SampleInv, SamplesHeld, BatchesAdd
  <2>3. NoneLost'
    BY <1>23, <1>17, <1>19 DEF SampleInv, SamplesHeld, NoneLost
  <2> QED BY <2>1, <2>2, <2>3
<1>20. ASSUME ~sCollided PROVE SentFits'
  <2>1. OutboxHolds /\ SentFits
    BY <1>20 DEF SampleInv, ReportsHeld
  <2>2. ASSUME NEW b \in toSend PROVE Fits(sReports[b])
    <3>1. /\ sReports[b].bucket = b /\ sReports[b].revision = sPoint[b].revision
          /\ sReports[b].count = sPoint[b].count
      BY <1>2, <2>1 DEF OutboxHolds
    <3>2. sPoint[b].revision \in Nat /\ sPoint[b].count \in Nat
      BY <1>0, <1>2, PointFields
    <3> QED BY <3>1, <3>2 DEF Fits
  <2>3. ASSUME NEW i \in 1..Len(now) PROVE Fits(now[i])
    BY <1>13, <1>14, <2>1, <2>2 DEF SentFits
  <2>4. ASSUME NEW t \in SampleSessions, NEW i \in 1..Len(sSent'[t]) PROVE Fits(sSent'[t][i])
    BY <1>15, <2>1, <2>3 DEF SentFits
  <2> QED BY <1>23, <2>4 DEF SentFits, Fits
<1>21. ReportsHeld'
  BY <1>23, <1>17, <1>20 DEF SampleInv, ReportsHeld, OutboxHolds, CountedFits, DeletesCounted
<1>22. RepliesOK' /\ LookupsOK'
  BY <1>23, <1>17 DEF SampleInv, RepliesOK, LookupsOK
<1> QED BY <1>23, <1>16, <1>18, <1>19, <1>21, <1>22 DEF SampleInv, SamplesHeld

\* The next report of a session is taken from the wire; the Server counts it, or leaves
\* what it has; the node may be told.
LEMMA TakeKeeps ==
  ASSUME SampleInv, NEW s \in SampleSessions, sSent[s] # <<>>,
         sSent' = [sSent EXCEPT ![s] = Tail(@)],
         sRole' = sRole, sAccumulator' = sAccumulator, sPoint' = sPoint,
         sReports' = sReports, sSession' = sSession, sRecorded' = sRecorded,
         sCollided' = sCollided,
         NEW r \in ReportSet, r = Head(sSent[s]),
         NEW ok \in BOOLEAN,
         \/ sCounted' = sCounted
         \/ sCounted' = [sCounted EXCEPT ![r.bucket] = Samples!Accept(r.bucket, r)],
         ok => sCounted' = [sCounted EXCEPT ![r.bucket] = Samples!Accept(r.bucket, r)],
         \/ sReplies' = sReplies
         \/ sReplies' = [sReplies EXCEPT ![s] = Append(@, [report |-> r, ok |-> ok])]
  PROVE  SampleInv'
<1>0. SampleKinds
  BY DEF SampleInv
<1>1. PICK b \in Buckets : b = r.bucket
  BY DEF ReportSet
<1>2. r.revision \in Nat /\ r.count \in Nat
  BY DEF ReportSet
<1>3. PICK old \in Seq(ReportSet) : old = sSent[s] /\ old # <<>>
  BY <1>0 DEF SampleKinds
<1>25. r = old[1]
  <2>1. Head(old) = old[1]
    BY <1>3
  <2>2. Head(sSent[s]) = Head(old)
    BY <1>3
  <2> QED BY <2>1, <2>2
<1>4. PICK now \in Seq(ReportSet) : /\ now = Tail(old) /\ Len(now) = Len(old) - 1
                                    /\ \A i \in 1..Len(now) : now[i] = old[i + 1]
  <2>1. /\ Tail(old) \in Seq(ReportSet) /\ Len(Tail(old)) = Len(old) - 1
        /\ \A i \in 1..Len(Tail(old)) : Tail(old)[i] = old[i + 1]
    BY <1>3, HeadTailProperties
  <2> QED BY <2>1
<1>5. Len(old) \in Nat /\ Len(old) > 0
  BY <1>3, LenProperties
<1>6. /\ sSent' \in [SampleSessions -> Seq(ReportSet)] /\ sSent'[s] = now
      /\ \A t \in SampleSessions : t # s => sSent'[t] = sSent[t]
  BY <1>0, <1>3, <1>4 DEF SampleKinds
<1>7. ASSUME NEW t \in SampleSessions, NEW i \in 1..Len(sSent'[t])
      PROVE  \E j \in 1..Len(sSent[t]) : sSent'[t][i] = sSent[t][j]
  <2>1. CASE t = s
    <3>1. i + 1 \in 1..Len(old) /\ now[i] = old[i + 1]
      BY <1>4, <1>5, <1>6, <2>1
    <3> QED BY <1>3, <1>6, <2>1, <3>1
  <2>2. CASE t # s
    BY <1>6, <2>2
  <2> QED BY <2>1, <2>2
<1>8. PICK p \in PointSet : p = Samples!Accept(b, r) /\ sCounted[b] \in PointSet
                            /\ p = IF r.revision > sCounted[b].revision
                                   THEN [revision |-> r.revision, count |-> r.count]
                                   ELSE sCounted[b]
  <2>1. sCounted[b] \in PointSet
    BY <1>0 DEF SampleKinds
  <2>2. [revision |-> r.revision, count |-> r.count] \in PointSet
    BY <1>2 DEF PointSet
  <2> QED BY <2>1, <2>2 DEF Samples!Accept
<1>9. /\ sCounted' \in [Buckets -> PointSet]
      /\ \A c \in Buckets : c # b => sCounted'[c] = sCounted[c]
      /\ sCounted'[b] = sCounted[b] \/ sCounted'[b] = p
      /\ ok => sCounted'[b] = p
  <2>1. \/ sCounted' = sCounted
        \/ sCounted' = [sCounted EXCEPT ![b] = p]
    BY <1>1, <1>8
  <2>2. ok => sCounted' = [sCounted EXCEPT ![b] = p]
    BY <1>1, <1>8
  <2>3. sCounted \in [Buckets -> PointSet]
    BY <1>0 DEF SampleKinds
  <2>4. CASE sCounted' = [sCounted EXCEPT ![b] = p]
    BY <2>3, <2>4
  <2>5. CASE sCounted' = sCounted /\ ~ok
    BY <2>3, <2>5
  <2> QED BY <2>1, <2>2, <2>4, <2>5
<1>10. \A c \in Buckets : /\ sCounted[c].revision \in Nat /\ sCounted[c].count \in Nat
                          /\ sPoint[c].revision \in Nat /\ sPoint[c].count \in Nat
  BY <1>0, PointFields
<1>11. /\ p.revision \in Nat /\ p.count \in Nat
       /\ r.revision > sCounted[b].revision => p.revision = r.revision /\ p.count = r.count
       /\ ~(r.revision > sCounted[b].revision) => p = sCounted[b]
  BY <1>8 DEF PointSet
<1>12. /\ \A c \in Buckets : /\ sCounted[c].revision <= sCounted'[c].revision
                             /\ sCounted'[c].revision \in Nat
       /\ ok => r.revision <= sCounted'[b].revision
  <2>1. sCounted[b].revision <= p.revision /\ r.revision <= p.revision
    BY <1>2, <1>10, <1>11
  <2>2. sCounted[b].revision <= sCounted'[b].revision /\ sCounted'[b].revision \in Nat
    BY <1>9, <1>10, <1>11, <2>1
  <2>3. \A c \in Buckets : c # b => /\ sCounted[c].revision <= sCounted'[c].revision
                                    /\ sCounted'[c].revision \in Nat
    BY <1>9, <1>10
  <2>4. ok => r.revision <= sCounted'[b].revision
    BY <1>9, <2>1
  <2> QED BY <2>2, <2>3, <2>4
<1>13. PICK a \in ReplySet : a = [report |-> r, ok |-> ok] /\ a.report = r /\ a.ok = ok
  BY DEF ReplySet
<1>14. PICK q \in Seq(ReplySet) : q = sReplies[s]
  BY <1>0 DEF SampleKinds
<1>15. PICK z \in Seq(ReplySet) : /\ z = Append(q, a) /\ Len(z) = Len(q) + 1
                                  /\ \A i \in 1..Len(q) : z[i] = q[i]
                                  /\ z[Len(q) + 1] = a
  <2>1. /\ Append(q, a) \in Seq(ReplySet) /\ Len(Append(q, a)) = Len(q) + 1
        /\ \A i \in 1..Len(q) : Append(q, a)[i] = q[i]
        /\ Append(q, a)[Len(q) + 1] = a
    BY AppendProperties
  <2> QED BY <2>1
<1>16. /\ sReplies' \in [SampleSessions -> Seq(ReplySet)]
       /\ \A t \in SampleSessions : t # s => sReplies'[t] = sReplies[t]
       /\ sReplies'[s] = q \/ sReplies'[s] = z
  <2>1. sReplies' = sReplies \/ sReplies' = [sReplies EXCEPT ![s] = z]
    BY <1>13, <1>14, <1>15
  <2>2. sReplies \in [SampleSessions -> Seq(ReplySet)]
    BY <1>0 DEF SampleKinds
  <2>3. CASE sReplies' = sReplies
    BY <1>14, <2>2, <2>3
  <2>4. CASE sReplies' = [sReplies EXCEPT ![s] = z]
    BY <2>2, <2>4
  <2> QED BY <2>1, <2>3, <2>4
<1>17. Len(q) \in Nat
  BY LenProperties
<1>18. ASSUME NEW t \in SampleSessions, NEW i \in 1..Len(sReplies'[t])
       PROVE  \/ \E j \in 1..Len(sReplies[t]) : sReplies'[t][i] = sReplies[t][j]
              \/ sReplies'[t][i] = a
  <2>1. CASE t = s /\ sReplies'[s] = z
    <3>1. CASE i <= Len(q)
      <4>1. i \in 1..Len(q) /\ z[i] = q[i]
        BY <1>15, <1>17, <2>1, <3>1
      <4> QED BY <1>14, <2>1, <4>1
    <3>2. CASE ~(i <= Len(q))
      <4>1. i = Len(q) + 1
        BY <1>15, <1>17, <2>1, <3>2
      <4> QED BY <1>15, <2>1, <4>1
    <3> QED BY <3>1, <3>2
  <2>2. CASE sReplies'[t] = sReplies[t]
    BY <2>2
  <2> QED BY <1>14, <1>16, <2>1, <2>2
<1>19. ASSUME NEW t \in SampleSessions, NEW i \in 1..Len(sReplies[t])
       PROVE  sReplies[t][i] \in ReplySet
  <2>1. PICK u \in Seq(ReplySet) : u = sReplies[t]
    BY <1>0 DEF SampleKinds
  <2> QED BY <2>1, LenProperties
<1>20. SampleKinds'
  BY <1>0, <1>6, <1>9, <1>16 DEF SampleKinds
<1>21. SamplesHeld'
  BY DEF SampleInv, SamplesHeld, SessionsRest, OneIsBusy, BatchesAdd, NoneLost, Busy, FlushRuns
<1>22. ASSUME ~sCollided PROVE OutboxHolds' /\ CountedFits' /\ SentFits' /\ DeletesCounted'
  <2>1. OutboxHolds /\ CountedFits /\ SentFits /\ DeletesCounted
    BY <1>22 DEF SampleInv, ReportsHeld
  <2>2. OutboxHolds'
    <3> SUFFICES ASSUME NEW c \in Buckets, sPoint[c].revision > sCounted'[c].revision
                 PROVE  sPoint[c].revision > sCounted[c].revision
      BY <2>1 DEF OutboxHolds
    <3> QED BY <1>10, <1>12
  <2>3. Fits(r)
    <3>1. 1 \in 1..Len(sSent[s]) /\ sSent[s][1] = r
      BY <1>3, <1>25, <1>5
    <3> QED BY <2>1, <3>1 DEF SentFits
  <2>4. CountedFits'
    <3>1. /\ p.revision <= sPoint[b].revision /\ p.count <= sPoint[b].count
          /\ p.revision = sPoint[b].revision => p.count = sPoint[b].count
      <4>1. /\ r.revision <= sPoint[b].revision /\ r.count <= sPoint[b].count
            /\ r.revision = sPoint[b].revision => r.count = sPoint[b].count
        BY <1>1, <2>3 DEF Fits
      <4>2. /\ sCounted[b].revision <= sPoint[b].revision
            /\ sCounted[b].count <= sPoint[b].count
            /\ sCounted[b].revision = sPoint[b].revision => sCounted[b].count = sPoint[b].count
        BY <2>1 DEF CountedFits
      <4> QED BY <1>11, <4>1, <4>2
    <3>2. ASSUME NEW c \in Buckets
          PROVE  /\ sCounted'[c].revision <= sPoint[c].revision
                 /\ sCounted'[c].count <= sPoint[c].count
                 /\ sCounted'[c].revision = sPoint[c].revision =>
                       sCounted'[c].count = sPoint[c].count
      <4>1. CASE sCounted'[c] = sCounted[c]
        BY <2>1, <4>1 DEF CountedFits
      <4>2. CASE c = b /\ sCounted'[b] = p
        BY <3>1, <4>2
      <4> QED BY <1>9, <4>1, <4>2
    <3> QED BY <3>2 DEF CountedFits
  <2>5. SentFits'
    <3>1. ASSUME NEW t \in SampleSessions, NEW i \in 1..Len(sSent'[t]) PROVE Fits(sSent'[t][i])
      BY <1>7, <2>1 DEF SentFits
    <3>2. \A x : Fits(x)' <=> Fits(x)
      BY DEF Fits
    <3>3. \A t \in SampleSessions : \A i \in 1..Len(sSent'[t]) : Fits(sSent[t][i])'
      <4> SUFFICES ASSUME NEW t \in SampleSessions, NEW i \in 1..Len(sSent'[t])
                   PROVE  Fits(sSent[t][i])'
        OBVIOUS
      <4> QED BY <3>1, <3>2 DEF Fits
    <3> QED BY <3>3 DEF SentFits
  <2>6. DeletesCounted'
    <3> SUFFICES ASSUME NEW t \in SampleSessions, sSession[t].step.at = "delete"
                 PROVE  sCounted'[sSession[t].step.bucket].revision >=
                            sPoint[sSession[t].step.bucket].revision
      BY DEF DeletesCounted
    <3>1. PICK c \in Buckets : c = sSession[t].step.bucket
      BY <1>0, SessionFields, StepFields
    <3>2. sCounted[c].revision >= sPoint[c].revision
      BY <2>1, <3>1 DEF DeletesCounted
    <3> QED BY <1>10, <1>12, <3>1, <3>2
  <2> QED BY <2>2, <2>4, <2>5, <2>6
<1>23. RepliesOK'
  <2> SUFFICES ASSUME NEW t \in SampleSessions, NEW i \in 1..Len(sReplies'[t]), sReplies'[t][i].ok
               PROVE  sReplies'[t][i].report.revision
                          <= sCounted'[sReplies'[t][i].report.bucket].revision
    BY DEF RepliesOK
  <2>1. CASE sReplies'[t][i] = a
    BY <1>1, <1>12, <1>13, <2>1
  <2>2. CASE \E j \in 1..Len(sReplies[t]) : sReplies'[t][i] = sReplies[t][j]
    <3>1. PICK j \in 1..Len(sReplies[t]) : sReplies'[t][i] = sReplies[t][j]
      BY <2>2
    <3>2. PICK d \in ReplySet : d = sReplies[t][j]
      BY <1>19
    <3>3. PICK g \in ReportSet : g = d.report
      BY DEF ReplySet
    <3>4. g.bucket \in Buckets /\ g.revision \in Nat
      BY DEF ReportSet
    <3>5. g.revision <= sCounted[g.bucket].revision
      BY <3>1, <3>2, <3>3 DEF SampleInv, RepliesOK
    <3>6. g.revision <= sCounted'[g.bucket].revision
      BY <1>10, <1>12, <3>4, <3>5
    <3> QED BY <3>1, <3>2, <3>3, <3>6
  <2> QED BY <1>18, <2>1, <2>2
<1>24. LookupsOK'
  <2> SUFFICES ASSUME NEW t \in SampleSessions, sSession[t].step.at = "lookup"
               PROVE  sSession[t].step.report.revision
                          <= sCounted'[sSession[t].step.report.bucket].revision
    BY DEF LookupsOK
  <2>1. PICK g \in ReportSet : g = sSession[t].step.report
    BY <1>0, SessionFields, StepFields
  <2>2. g.bucket \in Buckets /\ g.revision \in Nat
    BY DEF ReportSet
  <2>3. g.revision <= sCounted[g.bucket].revision
    BY <2>1 DEF SampleInv, LookupsOK
  <2>4. g.revision <= sCounted'[g.bucket].revision
    BY <1>10, <1>12, <2>2, <2>3
  <2> QED BY <2>1, <2>4
<1> QED BY <1>20, <1>21, <1>22, <1>23, <1>24 DEF SampleInv, ReportsHeld

\* The Server counts a report.
LEMMA IngestKeeps ==
  ASSUME SampleInv, NEW s \in SampleSessions, Samples!Ingest(s)
  PROVE  SampleInv'
<1>1. PICK old \in Seq(ReportSet) : old = sSent[s] /\ old # <<>>
  BY Zenon DEF SampleInv, SampleKinds, Samples!Ingest
<1>2. PICK r \in ReportSet : r = Head(sSent[s])
  BY <1>1, HeadTailProperties
<1>3. PICK ok \in BOOLEAN : ok = ~Samples!Conflicts(r)
  OBVIOUS
<1>4. /\ sSent[s] # <<>>
      /\ sSent' = [sSent EXCEPT ![s] = Tail(@)]
      /\ sRole' = sRole /\ sAccumulator' = sAccumulator /\ sPoint' = sPoint
      /\ sReports' = sReports /\ sSession' = sSession /\ sRecorded' = sRecorded
      /\ sCollided' = sCollided
      /\ sCounted' = IF Samples!Conflicts(r) THEN sCounted
                     ELSE [sCounted EXCEPT ![r.bucket] = Samples!Accept(r.bucket, r)]
      /\ Samples!Reply(s, r, ~Samples!Conflicts(r))
  BY <1>2, Zenon DEF Samples!Ingest, Samples!store
<1>5. /\ \/ sCounted' = sCounted
         \/ sCounted' = [sCounted EXCEPT ![r.bucket] = Samples!Accept(r.bucket, r)]
      /\ ok => sCounted' = [sCounted EXCEPT ![r.bucket] = Samples!Accept(r.bucket, r)]
  BY <1>3, <1>4
<1>6. \/ sReplies' = sReplies
      \/ sReplies' = [sReplies EXCEPT ![s] = Append(@, [report |-> r, ok |-> ok])]
  <2>1. sReplies' = IF sSession[s].on
            THEN [sReplies EXCEPT ![s] = Append(@, [report |-> r, ok |-> ~Samples!Conflicts(r)])]
            ELSE sReplies
    BY <1>4, Zenon DEF Samples!Reply
  <2> QED BY <2>1, <1>3, Zenon
<1> QED BY <1>1, <1>2, <1>4, <1>5, <1>6, TakeKeeps

\* The Server refuses a report, or its answer is lost.
LEMMA RefuseKeeps ==
  ASSUME SampleInv, NEW s \in SampleSessions, Samples!Refuse(s)
  PROVE  SampleInv'
<1>1. PICK old \in Seq(ReportSet) : old = sSent[s] /\ old # <<>>
  BY Zenon DEF SampleInv, SampleKinds, Samples!Refuse
<1>2. PICK r \in ReportSet : r = Head(sSent[s])
  BY <1>1, HeadTailProperties
<1>3. PICK ok \in BOOLEAN : ok = FALSE
  OBVIOUS
<1>4. /\ sSent[s] # <<>>
      /\ sSent' = [sSent EXCEPT ![s] = Tail(@)]
      /\ sRole' = sRole /\ sAccumulator' = sAccumulator /\ sPoint' = sPoint
      /\ sReports' = sReports /\ sSession' = sSession /\ sRecorded' = sRecorded
      /\ sCollided' = sCollided
      /\ \/ sCounted' = sCounted
         \/ sCounted' = [sCounted EXCEPT ![r.bucket] = Samples!Accept(r.bucket, r)]
      /\ Samples!Reply(s, r, ok)
  BY <1>2, <1>3, Zenon DEF Samples!Refuse, Samples!store
<1>6. \/ sReplies' = sReplies
      \/ sReplies' = [sReplies EXCEPT ![s] = Append(@, [report |-> r, ok |-> ok])]
  BY <1>4, Zenon DEF Samples!Reply
<1> QED BY <1>1, <1>2, <1>3, <1>4, <1>6, TakeKeeps

\* A node begins with nothing.
LEMMA SamplesBegin ==
  ASSUME Samples!Init PROVE SampleInv
<1>1. PICK e \in SessionSet : e = Samples!Off /\ e.step.at = "idle" /\ e.on = FALSE
  BY OffSession
<1>2. PICK p \in PointSet : p = Samples!NoPoint /\ p.revision = 0 /\ p.count = 0
  <2>1. Samples!NoPoint = [revision |-> 0, count |-> 0]
    BY DEF Samples!NoPoint
  <2> QED BY <2>1 DEF PointSet
<1>3. /\ sRole \in NodeRoles
      /\ sAccumulator = [b \in Buckets |-> 0] /\ sRecorded = [b \in Buckets |-> 0]
      /\ sPoint = [b \in Buckets |-> p] /\ sCounted = [b \in Buckets |-> p]
      /\ sReports = [b \in Buckets |-> Absent]
      /\ sSession = [s \in SampleSessions |-> e]
      /\ sSent = [s \in SampleSessions |-> <<>>]
      /\ sReplies = [s \in SampleSessions |-> <<>>]
      /\ sCollided = FALSE
  BY <1>1, <1>2, Zenon DEF Samples!Init, Samples!None
<1>4. <<>> \in Seq(ReportSet) /\ <<>> \in Seq(ReplySet)
  OBVIOUS
<1>5. SampleKinds
  BY <1>3, <1>4 DEF SampleKinds, Counts
<1>6. SamplesHeld
  BY <1>1, <1>2, <1>3 DEF SamplesHeld, SessionsRest, OneIsBusy, BatchesAdd, NoneLost, Busy,
                          FlushRuns
<1>7. OutboxHolds /\ CountedFits /\ DeletesCounted
  BY <1>1, <1>2, <1>3 DEF OutboxHolds, CountedFits, DeletesCounted
<1>8. SentFits /\ RepliesOK /\ LookupsOK
  BY <1>1, <1>3 DEF SentFits, RepliesOK, LookupsOK
<1> QED BY <1>5, <1>6, <1>7, <1>8 DEF SampleInv, ReportsHeld

\* Nothing happens.
LEMMA SampleStill ==
  ASSUME SampleInv, UNCHANGED Samples!vars PROVE SampleInv'
<1>1. /\ sRole' = sRole /\ sAccumulator' = sAccumulator /\ sPoint' = sPoint
      /\ sReports' = sReports /\ sSession' = sSession /\ sSent' = sSent
      /\ sReplies' = sReplies /\ sCounted' = sCounted /\ sRecorded' = sRecorded
      /\ sCollided' = sCollided
  BY DEF Samples!vars
<1>2. sSession' \in [SampleSessions -> SessionSet] /\ sReplies' \in [SampleSessions -> Seq(ReplySet)]
  BY <1>1 DEF SampleInv, SampleKinds
<1> QED BY <1>1, <1>2, RestKeeps

\* A sample that is dropped leaves everything else as it is.
LEMMA DropKeeps ==
  ASSUME SampleInv, Samples!SampleDropped PROVE SampleInv'
<1>1. /\ sRole' = sRole /\ sAccumulator' = sAccumulator /\ sPoint' = sPoint
      /\ sReports' = sReports /\ sSession' = sSession /\ sSent' = sSent
      /\ sReplies' = sReplies /\ sCounted' = sCounted /\ sRecorded' = sRecorded
      /\ sCollided' = sCollided
  BY DEF Samples!SampleDropped, Samples!store, Samples!wire
<1>2. sSession' \in [SampleSessions -> SessionSet] /\ sReplies' \in [SampleSessions -> Seq(ReplySet)]
  BY <1>1 DEF SampleInv, SampleKinds
<1> QED BY <1>1, <1>2, RestKeeps

\* Dropped samples are counted.
LEMMA DroppedAlways == LocalSpec => [](comp = "samples" => sDropped \in Nat)
<1> DEFINE Inv == comp = "samples" => sDropped \in Nat
<1>1. LocalInit => Inv
  BY DEF LocalInit, Samples!Init
<1>2. Inv /\ [LocalNext]_<<vars, shared, comp>> => Inv'
  <2> SUFFICES ASSUME sDropped \in Nat, [Samples!Next]_(Samples!vars)
               PROVE  sDropped' \in Nat
    BY SamplesTurn
  <2>1. CASE UNCHANGED Samples!vars
    BY <2>1 DEF Samples!vars
  <2>2. CASE Samples!Crash \/ Samples!SampleDropped
    BY <2>2 DEF Samples!Crash, Samples!SampleDropped
  <2>3. ASSUME NEW b \in Buckets, Samples!Sample(b) PROVE sDropped' = sDropped
    BY <2>3 DEF Samples!Sample
  <2>4. ASSUME NEW s \in SampleSessions,
               \/ Samples!Connect(s) \/ Samples!Disconnect(s) \/ Samples!Flush(s)
               \/ Samples!Build(s) \/ Samples!Commit(s) \/ Samples!CommitFails(s)
        PROVE  sDropped' = sDropped
    BY <2>4 DEF Samples!Connect, Samples!Disconnect, Samples!Flush, Samples!Build,
                Samples!Commit, Samples!CommitFails
  <2>5. ASSUME NEW s \in SampleSessions,
               \/ Samples!Send(s) \/ Samples!Ingest(s) \/ Samples!Refuse(s)
               \/ Samples!ReceiveAck(s) \/ Samples!Lookup(s) \/ Samples!Delete(s)
        PROVE  sDropped' = sDropped
    BY <2>5 DEF Samples!Send, Samples!Ingest, Samples!Refuse, Samples!ReceiveAck,
                Samples!Lookup, Samples!Delete
  <2> QED BY <2>1, <2>2, <2>3, <2>4, <2>5, Zenon DEF Samples!Next
<1> QED BY <1>1, <1>2, PTL DEF LocalSpec

\* The invariant holds as long as statistics are looked at.
LEMMA SamplesAlways == LocalSpec => [](comp = "samples" => SampleInv)
<1> DEFINE Inv == comp = "samples" => SampleInv
<1>1. LocalInit => Inv
  BY SamplesBegin DEF LocalInit
<1>2. Inv /\ [LocalNext]_<<vars, shared, comp>> => Inv'
  <2> SUFFICES ASSUME Inv, [LocalNext]_<<vars, shared, comp>>, comp' = "samples"
               PROVE  SampleInv'
    OBVIOUS
  <2>1. SampleInv /\ [Samples!Next]_(Samples!vars)
    BY SamplesTurn
  <2>2. CASE UNCHANGED Samples!vars
    BY <2>1, <2>2, SampleStill
  <2>3. CASE Samples!Crash
    BY <2>1, <2>3, CrashKeeps
  <2>4. ASSUME NEW b \in Buckets, Samples!Sample(b) PROVE SampleInv'
    BY <2>1, <2>4, SampleKeeps
  <2>5. CASE Samples!SampleDropped
    BY <2>1, <2>5, DropKeeps
  <2>6. ASSUME NEW s \in SampleSessions,
               \/ Samples!Connect(s) \/ Samples!Disconnect(s) \/ Samples!Flush(s)
               \/ Samples!Build(s) \/ Samples!Commit(s) \/ Samples!CommitFails(s)
               \/ Samples!Send(s) \/ Samples!Ingest(s) \/ Samples!Refuse(s)
               \/ Samples!ReceiveAck(s) \/ Samples!Lookup(s) \/ Samples!Delete(s)
        PROVE  SampleInv'
    BY <2>1, <2>6, ConnectKeeps, DisconnectKeeps, FlushKeeps, BuildKeeps, CommitKeeps,
       CommitFailsKeeps, SendKeeps, IngestKeeps, RefuseKeeps, ReceiveAckKeeps, LookupKeeps,
       DeleteKeeps
  <2> QED BY <2>1, <2>2, <2>3, <2>4, <2>5, <2>6, Zenon DEF Samples!Next
<1> QED BY <1>1, <1>2, PTL DEF LocalSpec

\* Unless flushes ran together no sample that the accumulator took is lost before the
\* process dies, the newest point waits until the Server has it, and the Server counts no more than the node stored.
THEOREM LocalCountedOnce == LocalSpec => []CountedOnce
<1>1. ASSUME comp = "samples" => SampleInv PROVE CountedOnce
  <2> SUFFICES ASSUME comp = "samples", ~sCollided, SampleInv
               PROVE  /\ \A b \in Buckets : Samples!Survives(b)
                      /\ \A b \in Buckets : sPoint[b].revision > sCounted[b].revision =>
                            sReports[b] = Samples!Report(b, sPoint[b])
                      /\ \A b \in Buckets :
                            /\ sCounted[b].count <= sPoint[b].count
                            /\ sCounted[b].revision = sPoint[b].revision =>
                                  sCounted[b] = sPoint[b]
    BY <1>1 DEF CountedOnce, Samples!NoSampleLost, Samples!NewestIsReported, Samples!CountedOnce
  <2>1. NoneLost /\ OutboxHolds /\ CountedFits /\ SampleKinds
    BY DEF SampleInv, SamplesHeld, ReportsHeld
  <2>2. \A b \in Buckets : Samples!Survives(b)
    BY <2>1 DEF NoneLost, Samples!Survives, Samples!Flushing, FlushRuns
  <2>3. ASSUME NEW b \in Buckets, sPoint[b].revision > sCounted[b].revision
        PROVE  sReports[b] = Samples!Report(b, sPoint[b])
    <3>1. PICK r \in ReportSet : r = sReports[b] /\ r.bucket = b
                /\ r.revision = sPoint[b].revision /\ r.count = sPoint[b].count
      BY <2>1, <2>3 DEF OutboxHolds, SampleKinds
    <3>2. r = [bucket |-> b, revision |-> sPoint[b].revision, count |-> sPoint[b].count]
      BY <3>1 DEF ReportSet
    <3> QED BY <3>1, <3>2 DEF Samples!Report
  <2>4. ASSUME NEW b \in Buckets
        PROVE  /\ sCounted[b].count <= sPoint[b].count
               /\ sCounted[b].revision = sPoint[b].revision => sCounted[b] = sPoint[b]
    <3>1. PICK p \in PointSet, c \in PointSet : p = sPoint[b] /\ c = sCounted[b]
      BY <2>1 DEF SampleKinds
    <3>2. c.revision = p.revision /\ c.count = p.count => c = p
      BY DEF PointSet
    <3> QED BY <2>1, <3>1, <3>2 DEF CountedFits
  <2> QED BY <2>2, <2>3, <2>4
<1>2. (comp = "samples" => SampleInv) => CountedOnce
  BY <1>1
<1> QED BY <1>2, SamplesAlways, PTL

-----------------------------------------------------------------------------
(* The password rotation (module KeyRotation), and the types of all parts.  *)

\* Whatever component is chosen, the keys are rotated as KeyRotation specifies.
THEOREM LocalRotates == LocalSpec => Spec
<1>1. LocalInit => Init
  BY DEF LocalInit
<1>2. [LocalNext]_<<vars, shared, comp>> => [Next]_vars
  BY DEF LocalNext, InstallStep, RotationStep, SamplesStep, ListenersStep, DatagramsStep,
         RuntimeStep, vars
<1> QED BY <1>1, <1>2, PTL DEF LocalSpec, Spec

\* The types of the installation.
LEMMA InstallTypes == ASSUME InstallInv PROVE Install!TypeOK
<1>1. InstallKinds
  BY DEF InstallInv
<1>2. /\ iAttempt.at \in Install!Ended \union {"discover", "look", "create", "remember", "poll",
             "asking", "identity", "config", "record", "bind", "clean"}
      /\ iAttempt.at = "asking" => iAttempt.relay \in 1..PolledRelays
  BY <1>1 DEF InstallKinds, InstallAttempt, Install!Ended
<1>3. {iRecorded, iBinding, iApproved, iSpoiled} \subseteq BOOLEAN
  BY <1>1 DEF InstallKinds
<1> QED BY <1>1, <1>2, <1>3 DEF InstallKinds, Install!TypeOK

\* The types of the statistics.
LEMMA SampleTypes == ASSUME SampleInv, sDropped \in Nat PROVE Samples!TypeOK
<1>1. SampleKinds
  BY DEF SampleInv
<1>2. ASSUME NEW s \in SampleSessions
      PROVE  /\ sSession[s].on \in BOOLEAN /\ sSession[s].pending \in BOOLEAN
             /\ sSession[s].keys \subseteq Samples!Reports
             /\ sSession[s].step.at \in
                   {"idle", "build", "commit", "scan", "lookup", "delete"}
  <2>1. sSession[s].pending \in BOOLEAN
    BY <1>1 DEF SampleKinds, SessionSet
  <2> QED BY <1>1, <2>1, SessionFields, StepFields DEF Samples!Reports, ReportSet
<1>3. ASSUME NEW s \in SampleSessions, NEW i \in DOMAIN sSent[s]
      PROVE  sSent[s][i] \in Samples!Reports
  <2>1. PICK q \in Seq(ReportSet) : q = sSent[s]
    BY <1>1 DEF SampleKinds
  <2>2. q[i] \in ReportSet
    BY <2>1
  <2> QED BY <2>1, <2>2 DEF Samples!Reports, ReportSet
<1>4. ASSUME NEW s \in SampleSessions, NEW i \in DOMAIN sReplies[s]
      PROVE  sReplies[s][i].report \in Samples!Reports
  <2>1. PICK q \in Seq(ReplySet) : q = sReplies[s]
    BY <1>1 DEF SampleKinds
  <2>2. q[i] \in ReplySet
    BY <2>1
  <2> QED BY <2>1, <2>2 DEF ReplySet, Samples!Reports, ReportSet
<1>5. \A b \in Buckets : sReports[b] = Absent \/ sReports[b] \in Samples!Reports
  BY <1>1 DEF SampleKinds, Samples!Reports, ReportSet
<1>6. sPoint \in [Buckets -> Samples!Points] /\ sCounted \in [Buckets -> Samples!Points]
  BY <1>1 DEF SampleKinds, Samples!Points, PointSet
<1>7. sRole \in NodeRoles /\ sAccumulator \in [Buckets -> Nat]
  BY <1>1 DEF SampleKinds, Counts
<1> QED BY <1>2, <1>3, <1>4, <1>5, <1>6, <1>7 DEF Samples!TypeOK

\* The types of the listeners.
LEMMA ListenerTypes == ASSUME ListenerInv PROVE Listeners!TypeOK
<1>1. ListenerKinds
  BY DEF ListenerInv
<1>2. \A t \in TaskNames :
         /\ lTasks[t].service \in Services \cup {Absent}
         /\ lTasks[t].bind \in Loopbacks \cup {Absent}
         /\ lTasks[t].at \in {"bound", "running", "stopped", "failed", "rebinding", "done"}
         /\ lTasks[t].stop \in {"no", "sent", "dropped"}
  BY <1>1 DEF ListenerKinds, ListenerSet
<1>3. lOp.at \in {"idle", "persisting", "persisted", "switched", "joining"}
  BY <1>1 DEF ListenerKinds, OperationSet
<1> QED BY <1>1, <1>2, <1>3 DEF ListenerKinds, Listeners!TypeOK, Listeners!Sets, MappingSets,
                                Listeners!Tasks, TaskNames, Listeners!NoTask

\* The types of the associations.
LEMMA DatagramTypes == ASSUME DatagramInv PROVE Datagrams!TypeOK
<1>1. DatagramKinds /\ dCarrier \in [Carriers -> DatagramCarrierSet]
  BY DEF DatagramInv, CarriersOK
<1>2. \A f \in Associations :
         /\ dFlow[f].client \in UdpPeers \cup UdpApps \cup {Absent}
         /\ dFlow[f].at \in {"none", "opening", "open", "ended"}
         /\ dFlow[f].queue \in 0..QueueLimit
         /\ dFlow[f].carrier \in Carriers \cup {Absent}
  BY <1>1 DEF DatagramKinds, DatagramFlowSet
<1>3. \A c \in Carriers : dCarrier[c].home \in {"none", "connecting", "open", "ended"}
  BY <1>1 DEF DatagramCarrierSet
<1> QED BY <1>1, <1>2, <1>3 DEF DatagramKinds, Datagrams!TypeOK, Datagrams!Clients

\* The types of the runtime.
LEMMA RuntimeTypes == ASSUME RuntimeInv PROVE Runtime!TypeOK
<1>1. rBlocking \in 0..2
  BY DEF RuntimeInv, FlushIsAlone
<1> QED BY <1>1 DEF RuntimeInv, RuntimeKinds, Runtime!TypeOK

\* The variables of whatever component is chosen hold values of their kinds.
THEOREM LocalTypesOK == LocalSpec => []TypesOK
<1>1. ASSUME comp = "install" => InstallInv, comp = "samples" => SampleInv,
             comp = "samples" => sDropped \in Nat,
             comp = "listeners" => ListenerInv, comp = "datagrams" => DatagramInv,
             comp = "runtime" => RuntimeInv, TypeOK
      PROVE  TypesOK
  BY <1>1, InstallTypes, SampleTypes, ListenerTypes, DatagramTypes, RuntimeTypes, Zenon
     DEF TypesOK
<1>2. /\ comp = "install" => InstallInv
      /\ comp = "samples" => SampleInv
      /\ comp = "samples" => sDropped \in Nat
      /\ comp = "listeners" => ListenerInv
      /\ comp = "datagrams" => DatagramInv
      /\ comp = "runtime" => RuntimeInv
      /\ TypeOK
      => TypesOK
  BY <1>1
<1> QED BY <1>2, InstallAlways, SamplesAlways, DroppedAlways, ListenersAlways, DatagramsAlways,
           RuntimeAlways, LocalRotates, RotationTypesOK, PTL

\* A key of an agent is never a torn file, and its keys are not left half rotated
\* unless a rotation ran beside one whose client had left.
THEOREM LocalRotationIsAtomic == LocalSpec => []RotationIsAtomic
  BY LocalRotates, RotationIsAtomicThm, PTL
=============================================================================
