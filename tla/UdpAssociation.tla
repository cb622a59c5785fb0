--------------------------- MODULE UdpAssociation ---------------------------
(***************************************************************************)
(* Logical UDP.  A Travel turns every local client address of a UDP        *)
(* mapping, and every in-process datagram socket, into an association: a   *)
(* task with a bounded queue that opens one Carrier to the Home and pumps  *)
(* datagrams both ways.  The Home gives the Carrier one connected target   *)
(* socket.  Datagrams are framed and numbered in each direction.           *)
(*                                                                         *)
(* Both pumps wait for several things at once, and what loses the race is  *)
(* dropped and started anew: a frame may be half read when a datagram is   *)
(* taken instead.  A frame therefore arrives in two halves.  A Carrier is  *)
(* a pair of byte streams: an end that closes lets the other end read what *)
(* is still under way.                                                     *)
(***************************************************************************)
EXTENDS Naturals, Sequences, FiniteSets

CONSTANTS
    Peers,        \* client addresses of one UDP mapping
    Apps,         \* in-process datagram sockets
    NoOne,        \* no client
    Flows,        \* association tasks: the permits of max_active_flows
    Carriers,     \* Carriers alive at a time
    NoFlow,
    NoCarrier,
    QueueLimit,   \* capacity of an association's queue
    MaxAttempts,  \* Relays that are tried
    MaxUp,        \* bound: datagrams a Carrier takes to the Home
    MaxDown,      \* bound: datagrams a Carrier takes to the Travel
    MaxEvents     \* bound: network changes, listener restarts and dropped handles

VARIABLES
    run,          \* the Travel runtime: "up", "stopping", "stopped"
    assoc,        \* Peers -> the association whose channel is registered
    flow,         \* Flows -> the association task
    shown,        \* the flows in the route diagnostics
    carrier,      \* Carriers -> both ends and what is under way
    events        \* events so far

vars == <<run, assoc, flow, shown, carrier, events>>

Clients == Peers \cup Apps

Unused == [client |-> NoOne, at |-> "none", queue |-> 0, carrier |-> NoCarrier,
           attempts |-> 0, stop |-> FALSE]

\* One direction of a Carrier: frames under way, the next number to send and
\* the next to accept, and whether the reader holds the head's first half.
Direction == [wire |-> <<>>, sent |-> 0, next |-> 0, half |-> FALSE]
Closed == [travel |-> FALSE, home |-> "none", up |-> Direction, down |-> Direction]

Init ==
    /\ run = "up"
    /\ assoc = [p \in Peers |-> NoFlow]
    /\ flow = [f \in Flows |-> Unused]
    /\ shown = {}
    /\ carrier = [c \in Carriers |-> Closed]
    /\ events = 0

Live(f) == flow[f].at \in {"opening", "open"}

\* A permit goes back when its task ends; a task that has ended is Unused.
Permits == {f \in Flows : flow[f].at = "none"}
Fresh == CHOOSE f \in Permits : TRUE

\* The route diagnostics have an entry from the begin to the finish of a flow.
BeginRoute(f) == shown \cup {f}
FinishRoute(f) == shown \ {f}

Association(client, queued) ==
    [client |-> client, at |-> "opening", queue |-> queued, carrier |-> NoCarrier,
     attempts |-> 0, stop |-> FALSE]

(***************************************************************************)
(* run_udp_listener.                                                       *)
(***************************************************************************)
\* Mutant: a datagram is queued whether or not there is room.
QueueAnyway(p) ==
    /\ run = "up"
    /\ assoc[p] # NoFlow
    /\ Live(assoc[p])
    /\ flow' = [flow EXCEPT ![assoc[p]].queue = @ + 1]
    /\ UNCHANGED <<run, assoc, shown, carrier, events>>

\* A datagram of a client that has an association is queued, or dropped when
\* the queue is full.
RecvKnown(p) ==
    /\ run = "up"
    /\ assoc[p] # NoFlow
    /\ Live(assoc[p])
    /\ flow[assoc[p]].queue < QueueLimit
    /\ flow' = [flow EXCEPT ![assoc[p]].queue = @ + 1]
    /\ UNCHANGED <<run, assoc, shown, carrier, events>>

\* A client without one, or whose association has ended and not yet cleaned up
\* after itself, gets a new association; without a permit the datagram is
\* dropped, and the entry of the ended association with it.
RecvNew(p) ==
    /\ run = "up"
    /\ assoc[p] # NoFlow => ~Live(assoc[p])
    /\ IF Permits = {}
       THEN assoc' = [assoc EXCEPT ![p] = NoFlow] /\ UNCHANGED <<flow, shown>>
       ELSE /\ assoc' = [assoc EXCEPT ![p] = Fresh]
            /\ flow' = [flow EXCEPT ![Fresh] = Association(p, 1)]
            /\ shown' = BeginRoute(Fresh)
    /\ UNCHANGED <<run, carrier, events>>

(***************************************************************************)
(* The in-process datagram socket.                                         *)
(***************************************************************************)
Holds(a, f) == flow[f].client = a /\ Live(f)

\* Mutant: the stop flag is read before the lifecycle lock is taken.
ConnectUnlocked(a) ==
    /\ run \in {"up", "stopping", "stopped"}
    /\ \A f \in Flows : ~Holds(a, f)
    /\ Permits # {}
    /\ flow' = [flow EXCEPT ![Fresh] = Association(a, 0)]
    /\ shown' = BeginRoute(Fresh)
    /\ UNCHANGED <<run, assoc, carrier, events>>

\* connect_udp holds the lifecycle lock until its task is registered.
Connect(a) ==
    /\ run = "up"
    /\ \A f \in Flows : ~Holds(a, f)
    /\ Permits # {}
    /\ flow' = [flow EXCEPT ![Fresh] = Association(a, 0)]
    /\ shown' = BeginRoute(Fresh)
    /\ UNCHANGED <<run, assoc, carrier, events>>

\* The application waits for room in the queue.
AppSend(a) ==
    \E f \in Flows :
        /\ Holds(a, f)
        /\ flow[f].queue < QueueLimit
        /\ flow' = [flow EXCEPT ![f].queue = @ + 1]
        /\ UNCHANGED <<run, assoc, shown, carrier, events>>

Event == events < MaxEvents /\ events' = events + 1

Stopped(which) == [f \in Flows |-> IF Live(f) /\ flow[f].client \in which
                                   THEN [flow[f] EXCEPT !.stop = TRUE] ELSE flow[f]]

\* Dropping the handle stops its association only.
AppDrop(a) ==
    /\ Event
    /\ \E f \in Flows : Holds(a, f) /\ ~flow[f].stop
    /\ flow' = Stopped({a})
    /\ UNCHANGED <<run, assoc, shown, carrier>>

(***************************************************************************)
(* run_udp_association.                                                    *)
(***************************************************************************)
FreeCarriers == {c \in Carriers : carrier[c] = Closed}
FreshCarrier == CHOOSE c \in FreeCarriers : TRUE

\* One end of a Carrier is closed: nothing reads its direction any more.
TravelCloses(k) ==
    IF k.home = "ended" THEN Closed ELSE [k EXCEPT !.travel = FALSE, !.down = Direction]
HomeCloses(k) ==
    IF k.travel THEN [k EXCEPT !.home = "ended", !.up = Direction] ELSE Closed

\* open_business_on: the Relay pairs a socket of the Travel with one of the Home.
Attempt(f) ==
    /\ flow[f].at = "opening"
    /\ flow[f].carrier = NoCarrier
    /\ flow[f].attempts < MaxAttempts
    /\ FreeCarriers # {}
    /\ carrier' = [carrier EXCEPT ![FreshCarrier] =
                     [Closed EXCEPT !.travel = TRUE, !.home = "connecting"]]
    /\ flow' = [flow EXCEPT ![f].carrier = FreshCarrier, ![f].attempts = @ + 1]
    /\ UNCHANGED <<run, assoc, shown, events>>

\* The attempt fails or times out on this side only; the next Relay is tried.
AttemptFails(f) ==
    /\ flow[f].at = "opening"
    /\ flow[f].carrier # NoCarrier
    /\ carrier' = [carrier EXCEPT ![flow[f].carrier] = TravelCloses(@)]
    /\ flow' = [flow EXCEPT ![f].carrier = NoCarrier]
    /\ UNCHANGED <<run, assoc, shown, events>>

\* OpenOk has been read, select_route_relay.
Opened(f) ==
    /\ flow[f].at = "opening"
    /\ flow[f].carrier # NoCarrier
    /\ carrier[flow[f].carrier].home \in {"open", "ended"}
    /\ flow' = [flow EXCEPT ![f].at = "open", ![f].attempts = 0]
    /\ UNCHANGED <<run, assoc, shown, carrier, events>>

NoRelayLeft(f) ==
    /\ flow[f].at = "opening"
    /\ flow[f].carrier = NoCarrier
    /\ flow[f].attempts = MaxAttempts

\* The pump, or the opening, is over: the queue's receiver and the Carrier are
\* dropped and the diagnostics are told.  Its reasons: a stop or a network change,
\* no Relay left, an error of the Carrier or of the application, the idle time.
AssociationEnds(f) ==
    /\ \/ Live(f) /\ flow[f].stop
       \/ NoRelayLeft(f)
       \/ flow[f].at = "open"
    /\ flow' = [flow EXCEPT ![f] = [Unused EXCEPT !.client = flow[f].client, !.at = "ended"]]
    /\ carrier' = IF flow[f].carrier = NoCarrier THEN carrier
                  ELSE [carrier EXCEPT ![flow[f].carrier] = TravelCloses(@)]
    /\ shown' = FinishRoute(f)
    /\ UNCHANGED <<run, assoc, events>>

\* Mutant: the client's entry is removed whichever association it names.
RemoveEntry(f) ==
    /\ flow[f].at = "ended"
    /\ assoc' = [p \in Peers |-> IF flow[f].client = p THEN NoFlow ELSE assoc[p]]
    /\ flow' = [flow EXCEPT ![f] = Unused]
    /\ UNCHANGED <<run, shown, carrier, events>>

\* The task removes its own channel only, and its permit goes back.
Cleanup(f) ==
    /\ flow[f].at = "ended"
    /\ assoc' = [p \in Peers |-> IF assoc[p] = f THEN NoFlow ELSE assoc[p]]
    /\ flow' = [flow EXCEPT ![f] = Unused]
    /\ UNCHANGED <<run, shown, carrier, events>>

(***************************************************************************)
(* The two pumps: pump_udp_association and serve_udp.                      *)
(***************************************************************************)
Sent(d) == [d EXCEPT !.wire = Append(@, d.sent), !.sent = @ + 1]

\* LengthPrefixedReader keeps what it has read when its future is dropped.
Halved(d) == [d EXCEPT !.half = TRUE]

\* The frame is complete: it is decoded, and the reader starts anew.
Decoded(d) == [d EXCEPT !.wire = Tail(@), !.half = FALSE]

\* The number that is due is delivered; a later one is passed over.
Taken(d) == [Decoded(d) EXCEPT !.next = IF Head(d.wire) = d.next THEN @ + 1 ELSE @]

Serving(c) == carrier[c].home = "open"

Pump == UNCHANGED <<run, assoc, shown, events>>

\* A datagram of the client is framed; the frame is written to its end before
\* anything else is waited for.
TravelSends(f) ==
    LET c == flow[f].carrier IN
    /\ flow[f].at = "open"
    /\ flow[f].queue > 0
    /\ carrier[c].up.sent < MaxUp
    /\ flow' = [flow EXCEPT ![f].queue = @ - 1]
    /\ carrier' = IF Serving(c) THEN [carrier EXCEPT ![c].up = Sent(@)] ELSE carrier
    /\ Pump

TravelHalfReads(f) ==
    LET c == flow[f].carrier IN
    /\ flow[f].at = "open"
    /\ carrier[c].down.wire # <<>>
    /\ ~carrier[c].down.half
    /\ carrier' = [carrier EXCEPT ![c].down = Halved(@)]
    /\ UNCHANGED flow
    /\ Pump

\* A number below the one that is due is an invalid frame and ends the pump
\* (AssociationEnds).
TravelReads(f) ==
    LET c == flow[f].carrier IN
    /\ flow[f].at = "open"
    /\ carrier[c].down.half
    /\ Head(carrier[c].down.wire) >= carrier[c].down.next
    /\ carrier' = [carrier EXCEPT ![c].down = Taken(@)]
    /\ UNCHANGED flow
    /\ Pump

\* The Home: authorization, permit, the target's socket, then OpenOk.
HomeAccepts(c) ==
    /\ carrier[c].home = "connecting"
    /\ carrier' = [carrier EXCEPT ![c].home = "open"]
    /\ UNCHANGED flow
    /\ Pump

\* Mutant: taking the target's datagram loses a half-read frame.
SendLosesHalf(c) ==
    /\ Serving(c)
    /\ carrier[c].down.sent < MaxDown
    /\ carrier' = [carrier EXCEPT
          ![c].down = Sent(@),
          ![c].up = IF @.half THEN [@ EXCEPT !.wire = Tail(@), !.half = FALSE] ELSE @]
    /\ UNCHANGED flow
    /\ Pump

HomeSends(c) ==
    /\ Serving(c)
    /\ carrier[c].down.sent < MaxDown
    /\ carrier' = [carrier EXCEPT ![c].down = Sent(@)]
    /\ UNCHANGED flow
    /\ Pump

HomeHalfReads(c) ==
    /\ Serving(c)
    /\ carrier[c].up.wire # <<>>
    /\ ~carrier[c].up.half
    /\ carrier' = [carrier EXCEPT ![c].up = Halved(@)]
    /\ UNCHANGED flow
    /\ Pump

HomeReads(c) ==
    /\ Serving(c)
    /\ carrier[c].up.half
    /\ Head(carrier[c].up.wire) >= carrier[c].up.next
    /\ carrier' = [carrier EXCEPT ![c].up = Taken(@)]
    /\ UNCHANGED flow
    /\ Pump

\* The idle time, an error of the target or the Carrier, an invalid frame, the
\* expiry or the revocation of the credential (lifetime::guard).
HomeEnds(c) ==
    /\ carrier[c].home \in {"connecting", "open"}
    /\ carrier' = [carrier EXCEPT ![c] = HomeCloses(@)]
    /\ UNCHANGED flow
    /\ Pump

(***************************************************************************)
(* What ends many associations at once.                                    *)
(***************************************************************************)
NetworkChange ==
    /\ run = "up"
    /\ Event
    /\ flow' = Stopped(Clients)
    /\ UNCHANGED <<run, assoc, shown, carrier>>

\* The listener stops (its mapping changes, or receiving fails) and aborts the
\* tasks of its clients where they are: a task that is aborted tells the
\* diagnostics nothing.
Aborted == {f \in Flows : flow[f].client \in Peers}

AbortClients ==
    /\ assoc' = [p \in Peers |-> NoFlow]
    /\ flow' = [f \in Flows |-> IF f \in Aborted THEN Unused ELSE flow[f]]
    /\ carrier' = [c \in Carriers |->
                     IF \E f \in Aborted : flow[f].carrier = c
                     THEN TravelCloses(carrier[c]) ELSE carrier[c]]

ListenerRestarts ==
    /\ run = "up"
    /\ Event
    /\ Aborted # {}
    /\ AbortClients
    /\ UNCHANGED <<run, shown>>

\* TravelCore::shutdown: the in-process associations are stopped and joined.
Shutdown ==
    /\ run = "up"
    /\ run' = "stopping"
    /\ flow' = Stopped(Apps)
    /\ UNCHANGED <<assoc, shown, carrier, events>>

\* Then the listeners; the diagnostics are cleared at the end.
ShutdownReturns ==
    /\ run = "stopping"
    /\ \A f \in Flows : flow[f].client \notin Apps
    /\ run' = "stopped"
    /\ AbortClients
    /\ shown' = {}
    /\ UNCHANGED events

Next ==
    \/ \E p \in Peers : RecvKnown(p) \/ RecvNew(p)
    \/ \E a \in Apps : Connect(a) \/ AppSend(a) \/ AppDrop(a)
    \/ \E f \in Flows :
          \/ Attempt(f)
          \/ AttemptFails(f)
          \/ Opened(f)
          \/ AssociationEnds(f)
          \/ Cleanup(f)
          \/ TravelSends(f)
          \/ TravelHalfReads(f)
          \/ TravelReads(f)
    \/ \E c \in Carriers :
          \/ HomeAccepts(c)
          \/ HomeSends(c)
          \/ HomeHalfReads(c)
          \/ HomeReads(c)
          \/ HomeEnds(c)
    \/ NetworkChange
    \/ ListenerRestarts
    \/ Shutdown
    \/ ShutdownReturns

Spec == Init /\ [][Next]_vars

(***************************************************************************)
(* Properties.                                                             *)
(***************************************************************************)
\* The variables hold values of their kinds.
TypeOK ==
    /\ run \in {"up", "stopping", "stopped"}
    /\ assoc \in [Peers -> Flows \cup {NoFlow}]
    /\ \A f \in Flows :
          /\ flow[f].client \in Clients \cup {NoOne}
          /\ flow[f].at \in {"none", "opening", "open", "ended"}
          /\ flow[f].queue \in 0..QueueLimit
          /\ flow[f].carrier \in Carriers \cup {NoCarrier}
    /\ shown \subseteq Flows
    /\ \A c \in Carriers : carrier[c].home \in {"none", "connecting", "open", "ended"}

\* A live association of a client address is the one its datagrams go to: the
\* late end of an earlier association of the same address does not unregister
\* it, so no client is left with an association that never hears from it.
LiveIsRegistered ==
    \A f \in Flows : Live(f) /\ flow[f].client \in Peers => assoc[flow[f].client] = f

\* Between a pump that sends and a pump that reads, the frames under way carry
\* exactly the numbers that are due, whichever waits were dropped half way: a
\* missing number would silence the direction for good, a repeated one would end
\* the association.
NumbersAreDue ==
    \A c \in Carriers :
        LET due(d) == d.wire = [i \in 1..(d.sent - d.next) |-> d.next + i - 1] IN
        /\ Serving(c) => due(carrier[c].up)
        /\ (\E f \in Flows : flow[f].at = "open" /\ flow[f].carrier = c) => due(carrier[c].down)

\* Once TravelCore::shutdown has returned no association is left, and none can be
\* connected any more.
NoneAfterShutdown == run = "stopped" => \A f \in Flows : flow[f].at = "none"

=============================================================================
