------------------------------ MODULE Mappings ------------------------------
(***************************************************************************)
(* The local listeners of a Travel: which service is offered on which      *)
(* loopback address.  An operation (insert or change, delete) binds the    *)
(* new address, persists the new set on the blocking pool, switches the    *)
(* listener task, shows the new set, and then stops the old task.  The     *)
(* operations exclude each other, but the caller may go away between two   *)
(* steps; the write it has handed to the pool is carried out all the same. *)
(*                                                                         *)
(* Every listener has a supervising task that binds again when accepting   *)
(* fails, and that publishes under its own token whether it is ready.  A   *)
(* bind that fails because another program has the address changes         *)
(* nothing, and so needs no step.                                          *)
(***************************************************************************)
EXTENDS Naturals, FiniteSets

CONSTANTS
    Services,   \* (home, service, protocol): mapping_key
    Binds,      \* loopback addresses
    NoBind,     \* a service without a mapping
    MaxTasks,   \* bound: listener tasks alive at a time, the names of tasks
    MaxErrors,  \* bound: failed accepts
    MaxCancels  \* bound: callers that go away, crashes

VARIABLES
    run,        \* the runtime: "down", "up", "stopping"
    durable,    \* the mapping set in the state store
    mappings,   \* AppState.mappings: the set that is shown
    tasks,      \* 1..MaxTasks -> a listener task
    current,    \* AppState.mapping_tasks: Services -> the registered task
    ready,      \* AppState.ready_mapping_listeners: Services -> a token
    op,         \* the operation that holds mapping_operation
    writes,     \* sets handed to the blocking pool, not yet committed
    abandoned,  \* history: stopped tasks nobody waits for
    torn,       \* history: services whose caller left in the middle of the switch
    errors,     \* failed accepts so far
    cancels     \* callers gone so far

vars == <<run, durable, mappings, tasks, current, ready, op, writes,
          abandoned, torn, errors, cancels>>

Tasks == 1..MaxTasks
NoTask == 0
Sets == [Services -> Binds \cup {NoBind}]
NoMappings == [s \in Services |-> NoBind]

\* validate_mapping_set: no address twice.
Valid(set) ==
    \A s, t \in Services : set[s] = set[t] /\ set[s] # NoBind => s = t

Listener(s, b) == [service |-> s, bind |-> b, at |-> "bound", stop |-> "no"]
Unspawned == [service |-> NoBind, bind |-> NoBind, at |-> "done", stop |-> "no"]

Idle == [at |-> "idle", service |-> NoBind, next |-> NoMappings, old |-> NoTask]

Init ==
    /\ run = "down"
    /\ durable \in {set \in Sets : Valid(set)}
    /\ mappings = NoMappings
    /\ tasks = [t \in Tasks |-> Unspawned]
    /\ current = [s \in Services |-> NoTask]
    /\ ready = [s \in Services |-> NoTask]
    /\ op = Idle
    /\ writes = {}
    /\ abandoned = {}
    /\ torn = {}
    /\ errors = 0
    /\ cancels = 0

Alive(t) == tasks[t].at # "done"

\* A fresh task and its token: a name nothing refers to.
Free == {t \in Tasks : ~Alive(t) /\ op.old # t
                       /\ \A s \in Services : t \notin {current[s], ready[s]}}
Fresh == CHOOSE t \in Free : TRUE
Injections(S) == {f \in [S -> Tasks] : \A s, t \in S : f[s] = f[t] => s = t}

\* A socket is open from its bind until the listener loop ends, or until the
\* operation that holds it ends.
Bound(b) ==
    \/ \E t \in Tasks : tasks[t].at \in {"bound", "running"} /\ tasks[t].bind = b
    \/ op.at \in {"persisting", "persisted"} /\ op.service # NoBind
          /\ op.next[op.service] = b

NoStop == UNCHANGED <<abandoned, torn, errors, cancels>>

(***************************************************************************)
(* Start: the stored set (the configured one at the first start) is bound  *)
(* as a whole before any task runs.  The state store is open exclusively,  *)
(* so nothing of an earlier runtime lives.                                 *)
(***************************************************************************)
Mapped(set) == {s \in Services : set[s] # NoBind}

Start ==
    /\ run = "down"
    /\ \A t \in Tasks : ~Alive(t)
    /\ LET f == CHOOSE f \in Injections(Mapped(durable)) : TRUE IN
       /\ tasks' = [t \in Tasks |->
                      IF \E s \in Mapped(durable) : f[s] = t
                      THEN LET s == CHOOSE s \in Mapped(durable) : f[s] = t
                           IN  Listener(s, durable[s])
                      ELSE Unspawned]
       /\ current' = [s \in Services |-> IF s \in Mapped(durable) THEN f[s] ELSE NoTask]
    /\ run' = "up"
    /\ mappings' = durable
    /\ UNCHANGED <<durable, ready, op, writes>>
    /\ NoStop

(***************************************************************************)
(* Operations.                                                             *)
(***************************************************************************)
Begin(s, next) ==
    /\ op' = [at |-> "persisting", service |-> s, next |-> next, old |-> NoTask]
    /\ writes' = writes \cup {next}
    /\ UNCHANGED <<run, durable, mappings, tasks, current, ready>>
    /\ NoStop

\* upsert_mapping up to the write: the address is bound first, and an unchanged
\* mapping, an invalid set or an occupied address ends the operation here.
Upsert(s, b) ==
    LET next == [mappings EXCEPT ![s] = b] IN
    /\ run = "up"
    /\ op.at = "idle"
    /\ mappings[s] # b
    /\ Valid(next)
    /\ ~Bound(b)
    /\ Free # {}
    /\ next \notin writes   \* two equal writes in the pool are one
    /\ Begin(s, next)

Delete(s) ==
    LET next == [mappings EXCEPT ![s] = NoBind] IN
    /\ run = "up"
    /\ op.at = "idle"
    /\ mappings[s] # NoBind
    /\ next \notin writes
    /\ Begin(s, next)

\* persist_runtime_mappings on a thread of the blocking pool; the writes of
\* operations whose callers have gone are committed in any order.
Persist(next) ==
    /\ next \in writes
    /\ writes' = writes \ {next}
    /\ durable' = next
    /\ op' = IF op.at = "persisting" /\ op.next = next
             THEN [op EXCEPT !.at = "persisted"] ELSE op
    /\ UNCHANGED <<run, mappings, tasks, current, ready>>
    /\ NoStop

PersistFails(next) ==
    /\ next \in writes
    /\ errors < MaxErrors
    /\ errors' = errors + 1
    /\ writes' = writes \ {next}
    /\ op' = IF op.at = "persisting" /\ op.next = next THEN Idle ELSE op
    /\ UNCHANGED <<run, durable, mappings, tasks, current, ready,
                   abandoned, torn, cancels>>

Told(t, how) == IF t = NoTask THEN tasks ELSE [tasks EXCEPT ![t].stop = how]

\* The new listener's task is spawned and takes the place of the old one, which
\* is told nothing yet.
Registered(told) ==
    LET s == op.service
        b == op.next[s]
    IN
    /\ op.at = "persisted"
    /\ current' = [current EXCEPT ![s] = IF b = NoBind THEN NoTask ELSE Fresh]
    /\ tasks' = IF b = NoBind THEN told ELSE [told EXCEPT ![Fresh] = Listener(s, b)]
    /\ op' = [op EXCEPT !.at = "switched", !.old = current[s]]
    /\ UNCHANGED <<run, durable, mappings, ready, writes>>
    /\ NoStop

\* Mutant: the old task is stopped before the new set is shown.
StopThenSwitch == Registered(Told(current[op.service], "sent"))

SwitchTask == Registered(tasks)

\* The new set is shown, and the old task is told to stop.
ShowSet ==
    /\ op.at = "switched"
    /\ mappings' = op.next
    /\ tasks' = Told(op.old, "sent")
    /\ op' = [op EXCEPT !.at = "joining"]
    /\ torn' = torn \ {op.service}
    /\ UNCHANGED <<run, durable, current, ready, writes,
                   abandoned, errors, cancels>>

JoinOld ==
    /\ op.at = "joining"
    /\ op.old # NoTask => ~Alive(op.old)
    /\ op' = Idle
    /\ UNCHANGED <<run, durable, mappings, tasks, current, ready, writes>>
    /\ NoStop

\* The caller goes away and its future is dropped at an await: what it held is
\* closed, and a task it held stops because its sender is gone.
Cancel ==
    /\ op.at \in {"persisting", "persisted", "switched", "joining"}
    /\ cancels < MaxCancels
    /\ cancels' = cancels + 1
    /\ tasks' = IF op.at = "switched" THEN Told(op.old, "dropped") ELSE tasks
    /\ torn' = IF op.at = "switched" THEN torn \cup {op.service} ELSE torn
    /\ abandoned' = abandoned \cup
          {t \in Tasks : op.at \in {"switched", "joining"} /\ op.old = t /\ Alive(t)}
    /\ op' = Idle
    /\ UNCHANGED <<run, durable, mappings, current, ready, writes, errors>>

(***************************************************************************)
(* supervise_mapping_listener.                                             *)
(***************************************************************************)
TaskStep(t, at) ==
    /\ tasks' = [tasks EXCEPT ![t] = IF at = "done" THEN Unspawned ELSE [@ EXCEPT !.at = at]]
    /\ abandoned' = IF at = "done" THEN abandoned \ {t} ELSE abandoned
    /\ UNCHANGED <<run, durable, mappings, current, op, writes, torn, cancels>>

\* set_mapping_listener_ready(.., true)
ShowReady(t) ==
    /\ tasks[t].at = "bound"
    /\ ready' = [ready EXCEPT ![tasks[t].service] = t]
    /\ TaskStep(t, "running")
    /\ UNCHANGED errors

\* run_tcp_listener sees the stop: the listener closes, its flows are joined.
ListenerStops(t) ==
    /\ tasks[t].at = "running"
    /\ tasks[t].stop # "no"
    /\ TaskStep(t, "stopped")
    /\ UNCHANGED <<ready, errors>>

\* Accepting fails: the listener and its flows end too.
ListenerFails(t) ==
    /\ tasks[t].at = "running"
    /\ errors < MaxErrors
    /\ errors' = errors + 1
    /\ TaskStep(t, "failed")
    /\ UNCHANGED ready

\* set_mapping_listener_ready(.., false) withdraws the task's own token only.
\* After an error the task binds again unless a stop was sent (a sender that is
\* merely gone is not seen here).
Withdraw(t) ==
    /\ tasks[t].at \in {"stopped", "failed"}
    /\ ready' = IF ready[tasks[t].service] = t
                THEN [ready EXCEPT ![tasks[t].service] = NoTask] ELSE ready
    /\ TaskStep(t, IF tasks[t].at = "stopped" \/ tasks[t].stop = "sent"
                   THEN "done" ELSE "rebinding")
    /\ UNCHANGED errors

\* One attempt to bind is made even after a stop.
Rebind(t) ==
    /\ tasks[t].at = "rebinding"
    /\ ~Bound(tasks[t].bind)
    /\ TaskStep(t, "bound")
    /\ UNCHANGED <<ready, errors>>

\* The attempt fails, and the stop ends the wait for the next one.
RebindEnds(t) ==
    /\ tasks[t].at = "rebinding"
    /\ tasks[t].stop # "no"
    /\ TaskStep(t, "done")
    /\ UNCHANGED <<ready, errors>>

(***************************************************************************)
(* The end of the runtime.                                                 *)
(***************************************************************************)
\* TravelCore::shutdown excludes the operations and stops every registered task.
Shutdown ==
    /\ run = "up"
    /\ op.at = "idle"
    /\ run' = "stopping"
    /\ tasks' = [t \in Tasks |->
                   IF \E s \in Services : current[s] = t
                   THEN [tasks[t] EXCEPT !.stop = "sent"] ELSE tasks[t]]
    /\ UNCHANGED <<durable, mappings, current, ready, op, writes>>
    /\ NoStop

\* Mutant: the writes in the pool are not waited for.
ShutdownReturnsEarly ==
    /\ run = "stopping"
    /\ \A s \in Services : current[s] # NoTask => ~Alive(current[s])
    /\ run' = "down"
    /\ current' = [s \in Services |-> NoTask]
    /\ mappings' = NoMappings
    /\ torn' = {}
    /\ UNCHANGED <<durable, tasks, ready, op, writes, abandoned, errors, cancels>>

\* The drained tasks have been joined and blocking_operations is zero.
ShutdownReturns ==
    /\ run = "stopping"
    /\ \A s \in Services : current[s] # NoTask => ~Alive(current[s])
    /\ writes = {}
    /\ run' = "down"
    /\ current' = [s \in Services |-> NoTask]
    /\ mappings' = NoMappings
    /\ torn' = {}
    /\ UNCHANGED <<durable, tasks, ready, op, writes, abandoned, errors, cancels>>

Crash ==
    /\ run # "down"
    /\ cancels < MaxCancels
    /\ cancels' = cancels + 1
    /\ run' = "down"
    /\ tasks' = [t \in Tasks |-> Unspawned]
    /\ current' = [s \in Services |-> NoTask]
    /\ ready' = [s \in Services |-> NoTask]
    /\ op' = Idle
    /\ writes' = {}
    /\ mappings' = NoMappings
    /\ torn' = {}
    /\ abandoned' = {}
    /\ UNCHANGED <<durable, errors>>

Next ==
    \/ Start
    \/ \E s \in Services : Delete(s) \/ \E b \in Binds : Upsert(s, b)
    \/ \E next \in Sets : Persist(next) \/ PersistFails(next)
    \/ SwitchTask
    \/ ShowSet
    \/ JoinOld
    \/ Cancel
    \/ \E t \in Tasks :
          \/ ShowReady(t)
          \/ ListenerStops(t)
          \/ ListenerFails(t)
          \/ Withdraw(t)
          \/ Rebind(t)
          \/ RebindEnds(t)
    \/ Shutdown
    \/ ShutdownReturns
    \/ Crash

Spec == Init /\ [][Next]_vars

(***************************************************************************)
(* Properties.                                                             *)
(***************************************************************************)
\* The variables hold values of their kinds.
TypeOK ==
    /\ run \in {"down", "up", "stopping"}
    /\ durable \in Sets
    /\ mappings \in Sets
    /\ \A t \in Tasks :
          /\ tasks[t].service \in Services \cup {NoBind}
          /\ tasks[t].bind \in Binds \cup {NoBind}
          /\ tasks[t].at \in {"bound", "running", "stopped", "failed", "rebinding", "done"}
          /\ tasks[t].stop \in {"no", "sent", "dropped"}
    /\ current \in [Services -> Tasks \cup {NoTask}]
    /\ ready \in [Services -> Tasks \cup {NoTask}]
    /\ op.at \in {"idle", "persisting", "persisted", "switched", "joining"}
    /\ writes \subseteq Sets

\* "An update binds the replacement socket before committing and switching, so an
\* invalid or occupied port cannot disrupt the old listener": while the runtime
\* is up, every mapping that is shown has a listener task for that address that
\* nobody has told to stop, whatever operation is under way, fails or loses its
\* caller (the one gap, a caller that leaves between the switch and the showing,
\* is counted in torn).
ServesWhatIsShown ==
    run = "up" =>
        \A s \in Mapped(mappings) \ torn :
            \E t \in Tasks : /\ Alive(t)
                             /\ tasks[t].stop = "no"
                             /\ tasks[t].service = s
                             /\ tasks[t].bind = mappings[s]

\* After TravelCore::shutdown has returned no write of a mapping set is under way
\* and no listener runs, except one whose operation lost its caller while it
\* waited for the old task.
QuietAfterShutdown ==
    run = "down" =>
        /\ writes = {}
        /\ \A t \in Tasks : Alive(t) => t \in abandoned
=============================================================================
