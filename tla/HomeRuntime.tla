----------------------------- MODULE HomeRuntime -----------------------------
(***************************************************************************)
(* The tasks a Home runtime owns, and how it stops.                        *)
(*                                                                         *)
(* HomeRuntime::run (flowsplice-home-core runtime.rs) selects between the  *)
(* shutdown watch of its Tasks (tasks.rs), the expiry of its trust and the *)
(* control session.  The session spawns a task for each OpenRelayWork      *)
(* (control.rs, lib.rs run_work), which spawns the task of a Flow; its     *)
(* statistics writes are blocking work that outlives it.  shutdown may be  *)
(* called from any thread while the session is in the middle of a poll,    *)
(* so a spawn may come after the stop.                                     *)
(*                                                                         *)
(* A Home that issues gives run its hooks, which the session awaits for an *)
(* enrollment message and every minute.  Their work on the store is a      *)
(* spawn_blocking of their own: Tasks does not count it, and when run's    *)
(* select drops the session it goes on.  run_serving has no such hooks     *)
(* (ServingOnly).                                                          *)
(*                                                                         *)
(* The connection itself, its registration and its authorization are       *)
(* module HomeSession; here the session is open or it is not.              *)
(***************************************************************************)
EXTENDS Naturals, FiniteSets

CONSTANTS
    Callers,     \* callers of HomeRuntime::shutdown
    MaxTasks,    \* bound: tasks at a time
    MaxLoads     \* bound: runtimes loaded one after another

VARIABLES
    started,    \* run was called: AtomicBool started
    run,        \* where HomeRuntime::run is
    session,    \* a control session is open
    stopped,    \* Tasks.shutdown
    tasks,      \* Tasks.children: how many run
    blocking,   \* Tasks.blocking: how many blocking operations run
    caller,     \* per caller of shutdown
    loads,
    adapter,    \* the process runs it with hooks that work on the store
    hook        \* an operation of theirs on the store runs

vars == <<started, run, session, stopped, tasks, blocking, caller, loads, adapter, hook>>
hooks == <<adapter, hook>>

\* One type invariant.
TypeOK ==
    /\ started \in BOOLEAN /\ session \in BOOLEAN /\ stopped \in BOOLEAN
    /\ run \in {"none", "control", "finishing", "flushing", "returned", "cancelled"}
    /\ tasks \in 0..MaxTasks /\ blocking \in 0..2
    /\ caller \in [Callers -> {"none", "waiting", "returned"}]
    /\ loads \in 1..MaxLoads
    /\ adapter \in BOOLEAN /\ hook \in BOOLEAN

\* HomeRuntime::load: the files are checked and the store opened; nothing runs.
Init ==
    /\ started = FALSE /\ run = "none" /\ session = FALSE
    /\ stopped = FALSE /\ tasks = 0 /\ blocking = 0
    /\ caller = [k \in Callers |-> "none"]
    /\ loads = 1
    /\ adapter \in BOOLEAN /\ hook = FALSE

-----------------------------------------------------------------------------
(* The control loop and what it starts.                                     *)

\* run, run_serving: once per runtime.
Run ==
    /\ ~started
    /\ started' = TRUE /\ run' = "control"
    /\ UNCHANGED <<session, stopped, tasks, blocking, caller, loads, hooks>>

\* run_control_loop: a session opens, fails, and the loop dials again.
SessionOpens ==
    /\ run = "control" /\ ~session
    /\ session' = TRUE
    /\ UNCHANGED <<started, run, stopped, tasks, blocking, caller, loads, hooks>>

\* The session ends with an error of its own; it awaits a hook that it called.
SessionEnds ==
    /\ session /\ ~hook
    /\ session' = FALSE
    /\ UNCHANGED <<started, run, stopped, tasks, blocking, caller, loads, hooks>>

\* Mutant: a task is admitted whatever the shutdown watch says.
AdmitAlways == tasks < MaxTasks

\* Tasks::spawn refuses once the shutdown watch is set; stop takes the same lock.
Admits == ~stopped /\ tasks < MaxTasks

\* OpenRelayWork, or a Flow that run_work starts.
Spawn ==
    /\ session \/ tasks > 0
    /\ Admits
    /\ tasks' = tasks + 1
    /\ UNCHANGED <<started, run, session, stopped, blocking, caller, loads, hooks>>

\* OpenRelayWork after the stop: the refusal is the session's error.
SpawnRefused ==
    /\ session /\ stopped
    /\ session' = FALSE
    /\ UNCHANGED <<started, run, stopped, tasks, blocking, caller, loads, hooks>>

\* A task ends, by itself or because the shutdown watch is set.
TaskEnds ==
    /\ tasks > 0
    /\ tasks' = tasks - 1
    /\ UNCHANGED <<started, run, session, stopped, blocking, caller, loads, hooks>>

\* Tasks::blocking, for the statistics of a session: the count is raised first,
\* and lowered by the thread that did the work.
BlockingBegins ==
    /\ session /\ blocking = 0
    /\ blocking' = 1
    /\ UNCHANGED <<started, run, session, stopped, tasks, caller, loads, hooks>>

BlockingEnds ==
    /\ blocking > IF run = "flushing" THEN 1 ELSE 0
    /\ blocking' = blocking - 1
    /\ UNCHANGED <<started, run, session, stopped, tasks, caller, loads, hooks>>

\* hooks.handle for an enrollment message, hooks.tick: an issuer's spawn_blocking
\* on the state store, which Tasks does not count.
HookBegins ==
    /\ session /\ adapter /\ ~hook
    /\ hook' = TRUE
    /\ UNCHANGED <<started, run, session, stopped, tasks, blocking, caller, loads, adapter>>

HookEnds ==
    /\ hook
    /\ hook' = FALSE
    /\ UNCHANGED <<started, run, session, stopped, tasks, blocking, caller, loads, adapter>>

-----------------------------------------------------------------------------
(* Its end.                                                                 *)

\* HomeRuntime::shutdown: Tasks::stop, then Tasks::finish.
Shutdown(k) ==
    /\ caller[k] = "none"
    /\ caller' = [caller EXCEPT ![k] = "waiting"]
    /\ stopped' = TRUE
    /\ UNCHANGED <<started, run, session, tasks, blocking, loads, hooks>>

\* Mutant: finish joins the tasks and leaves the blocking work alone.
TasksDrained == tasks = 0

\* Tasks::finish: every task joined, and no blocking work left.
Drained == tasks = 0 /\ blocking = 0

ShutdownReturns(k) ==
    /\ caller[k] = "waiting" /\ Drained
    /\ caller' = [caller EXCEPT ![k] = "returned"]
    /\ UNCHANGED <<started, run, session, stopped, tasks, blocking, loads, hooks>>

\* run's select: the watch is set, or the trust has expired.  The control
\* future is dropped, and TcpFlowRegistry::shutdown stops the tasks.
RunStops ==
    /\ run = "control"
    /\ run' = "finishing" /\ session' = FALSE /\ stopped' = TRUE
    /\ UNCHANGED <<started, tasks, blocking, caller, loads, hooks>>

\* The final flush is blocking work too, begun when all other is done.
FinalFlush ==
    /\ run = "finishing" /\ Drained
    /\ run' = "flushing" /\ blocking' = blocking + 1
    /\ UNCHANGED <<started, session, stopped, tasks, caller, loads, hooks>>

RunReturns ==
    /\ run = "flushing"
    /\ run' = "returned" /\ blocking' = blocking - 1
    /\ UNCHANGED <<started, session, stopped, tasks, caller, loads, hooks>>

\* The caller drops run's future: StopOnDrop stops the tasks and waits for none.
RunCancelled ==
    /\ run \in {"control", "finishing", "flushing"}
    /\ run' = "cancelled" /\ session' = FALSE /\ stopped' = TRUE
    /\ UNCHANGED <<started, tasks, blocking, caller, loads, hooks>>

\* A new runtime opens the store again, when run has returned, as the
\* documentation of shutdown asks.  While a hook still holds the store, redb
\* refuses to open its file.
Reload ==
    /\ loads < MaxLoads /\ run = "returned" /\ ~hook
    /\ started' = FALSE /\ run' = "none" /\ session' = FALSE
    /\ stopped' = FALSE /\ tasks' = 0 /\ blocking' = 0
    /\ caller' = [k \in Callers |-> "none"]
    /\ loads' = loads + 1
    /\ adapter' \in BOOLEAN /\ hook' = FALSE

Next ==
    \/ Run \/ SessionOpens \/ SessionEnds \/ Spawn \/ SpawnRefused \/ TaskEnds
    \/ BlockingBegins \/ BlockingEnds \/ HookBegins \/ HookEnds
    \/ \E k \in Callers : Shutdown(k) \/ ShutdownReturns(k)
    \/ RunStops \/ FinalFlush \/ RunReturns \/ RunCancelled \/ Reload

Spec == Init /\ [][Next]_vars

-----------------------------------------------------------------------------
(* Properties.                                                              *)

\* Once a call of shutdown has returned no task of the runtime is left and none
\* starts, though the session may still be in the middle of a poll; once run has
\* returned none of the runtime's own work is on the state store either, and a
\* runtime without an issuer's hooks leaves the store free for the next one
\* (Tasks::spawn, stop and finish, HomeRuntime::run).  A hook's operation is
\* excepted: nothing waits for it.
QuietAfterStop ==
    /\ (\E k \in Callers : caller[k] = "returned") => tasks = 0
    /\ run \in {"flushing", "returned"} => tasks = 0
    /\ run = "returned" => blocking = 0 /\ (hook => adapter)
=============================================================================
