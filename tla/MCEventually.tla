---------------------------- MODULE MCEventually ----------------------------
(***************************************************************************)
(* What must eventually happen, in a Flow with every timer and in the      *)
(* control session of a Home, checked in one run.  The initial state       *)
(* chooses one of the two; the other one is at rest from the start, the    *)
(* Flow given up or the Home stopped, and takes no step.                   *)
(*                                                                         *)
(* A third choice is a download whose Home flow is lost and recreated      *)
(* under the same key: acknowledgements then fall inside its segments.     *)
(* It is there for the invariant; the fairness is that of the timers of    *)
(* the first, which it does not have.                                      *)
(***************************************************************************)
EXTENDS TcpFlow

CONSTANTS r1, s1, s2, a, b, None

VARIABLES registry, granted, ack, conn, agent, command, faults, comp

sessionVars == <<registry, granted, ack, conn, agent, command, faults>>

Session == INSTANCE HomeSession WITH
    home <- agent, Conns <- {s1, s2}, Catalogs <- {a, b}, NoConn <- None,
    NoCatalog <- None, MaxGeneration <- 2, MaxFaults <- 1

Recreated == INSTANCE TcpFlow WITH
    MaxUnacked <- 3, SegLens <- {1, 2}, MaxUp <- 0, MaxDown <- 3, MaxBreaks <- 0,
    Faults <- {"home_stop"}

\* A Flow that Travel has given up before it started, and a Home that is stopped.
FlowAtRest ==
    /\ tx = [s \in Sides |-> NewTx] /\ rx = [s \in Sides |-> NewRx]
    /\ inbox = [s \in Sides |-> [c \in Carriers |-> <<>>]]
    /\ link = [c \in Carriers |-> "idle"]
    /\ travel = [phase |-> "failed", reason |-> "stopped", racing |-> FALSE, race |-> 0,
                 active |-> NoCarrier, carriers |-> {}, opening |-> {},
                 recovery_expired |-> FALSE, heard |-> {}]
    /\ home = [phase |-> "absent", inc |-> 0, outcome |-> "none", incoming |-> {},
               carriers |-> {}, active |-> NoCarrier, race_winners |-> <<>>, past |-> {}]
    /\ breaks = 0

SessionAtRest ==
    /\ registry = Session!NewRegistry
    /\ granted = 1 /\ ack = 0
    /\ conn = [c \in {s1, s2} |-> Session!NewConn]
    /\ agent = [Session!Loaded(a, 0) EXCEPT !.run = FALSE]
    /\ command = "none"
    /\ faults = 0

BothInit ==
    \/ comp = "flow" /\ Init /\ SessionAtRest
    \/ comp = "session" /\ FlowAtRest /\ Session!Init
    \/ comp = "recreated" /\ Recreated!Init /\ SessionAtRest

FlowStep == comp = "flow" /\ Next /\ UNCHANGED <<sessionVars, comp>>
SessionStep == comp = "session" /\ Session!Next /\ UNCHANGED <<vars, comp>>

RecreatedStep == comp = "recreated" /\ Recreated!Next /\ UNCHANGED <<sessionVars, comp>>

BothNext == FlowStep \/ SessionStep \/ RecreatedStep

BothSpec ==
    /\ BothInit /\ [][BothNext]_<<vars, sessionVars, comp>>
    /\ Fairness /\ Session!Fairness

\* When faults stop, a Home that runs ends up registered, synchronized and with
\* its command answered, and one that was stopped leaves the registry
\* (run_control_loop, handle_home, clear_home_session).
HomeSettles == Session!HomeSettles
=============================================================================
