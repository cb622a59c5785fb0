------------------------------- MODULE TcpFlow -------------------------------
(***************************************************************************)
(* One TCP Flow between a Travel agent and a Home agent.                   *)
(*                                                                         *)
(* Travel (crates/flowsplice-travel-core/src/tcp_flow.rs) owns the local   *)
(* client socket, Home (crates/flowsplice-home-core/src/tcp_flow.rs) the   *)
(* target socket.  Between them they keep a replaceable set of Carriers,   *)
(* each a TLS stream through one Relay.  Travel races Carriers against     *)
(* each other; Home arbitrates every race, and both sides retransmit what  *)
(* is not acknowledged on the Carrier that wins.  A Carrier is FIFO until  *)
(* it fails, and loses an arbitrary suffix of what it holds when it does.  *)
(*                                                                         *)
(* Bytes are abstracted to their offsets.  A segment is a half-open        *)
(* interval of offsets; its bytes are those of the stream at that place.   *)
(***************************************************************************)
EXTENDS Naturals, Sequences, FiniteSets

CONSTANTS
    Relays,              \* Relay IDs of the verified directory
    MaxCarriersPerFlow,  \* max_carriers_per_flow
    MaxUnacked,          \* max_unacked_bytes, the send credit of each side
    RaceHistory,         \* races whose winner Home remembers (32 in the code)
    NoCarrier,           \* Option::None of an Option<Uuid> carrier
    SegLens,             \* sizes a read of a local or target socket can return
    MaxUp, MaxDown,      \* bound: bytes each application writes
    MaxRaces,            \* bound: races of the Flow
    MaxIncarnations,     \* bound: Home flows (and target sockets) of this key
    MaxBreaks,           \* bound: Carrier failures outside either endpoint
    Faults               \* which timers and endpoint failures can happen

ASSUME FlowConstants ==
    /\ IsFiniteSet(Relays)
    /\ MaxCarriersPerFlow \in Nat \ {0}
    /\ MaxUnacked \in Nat \ {0}
    /\ RaceHistory \in Nat \ {0}
    /\ SegLens \subseteq Nat \ {0}
    /\ MaxUp \in Nat /\ MaxDown \in Nat /\ MaxRaces \in Nat
    /\ MaxIncarnations \in Nat /\ MaxBreaks \in Nat
    /\ NoCarrier \notin (1..MaxRaces) \X Relays

Sides == {"travel", "home"}
Peer(s) == IF s = "travel" THEN "home" ELSE "travel"

\* carrier_id: a candidate is named by the race and the Relay it was opened for.
Carriers == (1..MaxRaces) \X Relays
OptionCarrier == Carriers \cup {NoCarrier}

\* Bound on the bytes the application of side s writes.
MaxBytes(s) == IF s = "travel" THEN MaxUp ELSE MaxDown

Segment == [offset : Nat, len : Nat]
End(seg) == seg.offset + seg.len

(***************************************************************************)
(* DataFrame.  "src" is a history field: the Home flow that read the bytes *)
(* from its target (0 for Travel's bytes).                                 *)
(***************************************************************************)
Frame ==
         [type : {"OpenOk"}, receive_offset : Nat, send_offset : Nat]
    \cup [type : {"Data"}, offset : Nat, len : Nat, src : Nat]
    \cup [type : {"Ack", "Duplicate"}, next_offset : Nat]
    \cup [type : {"Fin", "FinAck"}, final_offset : Nat]
    \cup [type : {"Race"}, race : Nat, next_offset : Nat]
    \cup [type : {"RaceAck", "RaceDuplicate"}, race : Nat, winner : Carriers]
    \cup [type : {"Close"}]

OpenOk(r, a) == [type |-> "OpenOk", receive_offset |-> r, send_offset |-> a]
Data(seg, i) == [type |-> "Data", offset |-> seg.offset, len |-> seg.len, src |-> i]
Ack(n) == [type |-> "Ack", next_offset |-> n]
Duplicate(n) == [type |-> "Duplicate", next_offset |-> n]
Fin(n) == [type |-> "Fin", final_offset |-> n]
FinAck(n) == [type |-> "FinAck", final_offset |-> n]
Race(r, n) == [type |-> "Race", race |-> r, next_offset |-> n]
RaceAck(r, w) == [type |-> "RaceAck", race |-> r, winner |-> w]
RaceDuplicate(r, w) == [type |-> "RaceDuplicate", race |-> r, winner |-> w]
Close == [type |-> "Close"]

VARIABLES
    tx,      \* per side: what it sends (send_offset, send_acked, unacked, ...)
    rx,      \* per side: what it has delivered (receive_offset, remote_eof)
    inbox,   \* per side and Carrier: frames that may still reach that side
    link,    \* per Carrier: the stream between the two endpoints
    travel,  \* Travel's race and Carrier bookkeeping
    home,    \* Home's flow registry entry and Carrier bookkeeping
    breaks   \* Carrier failures so far

vars == <<tx, rx, inbox, link, travel, home, breaks>>

TxState == [send_offset : Nat, send_acked : Nat, unacked : Seq(Segment),
            local_eof : BOOLEAN, fin_acked : BOOLEAN]
RxState == [receive_offset : Nat, remote_eof : BOOLEAN]

\* Why an endpoint gave the Flow up.
TravelReasons ==
    {"none", "ACK split a frame", "Home closed flow", "acknowledged unsent data",
     "acknowledgement moved backwards", "drain timed out", "invalid frame",
     "local TCP failed", "non-contiguous data", "recovery deadline expired", "stopped"}
HomeOutcomes ==
    {"none", "finished", "ACK split a frame", "OpenOk write failed",
     "detached-flow timeout expired", "drain timed out", "stopped"}

\* "recovery_expired" is recovery_started.elapsed() > carrier_recovery_timeout;
\* "heard" is history: which Home flows' bytes reached the local client.
TravelState ==
    [phase : {"running", "finished", "failed"}, reason : TravelReasons,
     racing : BOOLEAN, race : 0..MaxRaces,
     active : OptionCarrier, carriers : SUBSET Carriers, opening : SUBSET Carriers,
     recovery_expired : BOOLEAN, heard : SUBSET Nat]
\* "past" is history: what earlier flows of this key wrote to their targets.
HomeState ==
    [phase : {"absent", "connecting", "running"}, inc : 0..MaxIncarnations,
     outcome : HomeOutcomes, incoming : SUBSET Carriers, carriers : SUBSET Carriers,
     active : OptionCarrier,
     race_winners : Seq([race : Nat, winner : Carriers]), past : SUBSET RxState]

TypeOK ==
    /\ tx \in [Sides -> TxState]
    /\ rx \in [Sides -> RxState]
    /\ inbox \in [Sides -> [Carriers -> Seq(Frame)]]
    /\ link \in [Carriers -> {"idle", "opening", "up", "closing", "down"}]
    /\ travel \in TravelState
    /\ home \in HomeState
    /\ breaks \in 0..MaxBreaks

NewTx == [send_offset |-> 0, send_acked |-> 0, unacked |-> <<>>,
          local_eof |-> FALSE, fin_acked |-> FALSE]
NewRx == [receive_offset |-> 0, remote_eof |-> FALSE]

Init ==
    /\ tx = [s \in Sides |-> NewTx]
    /\ rx = [s \in Sides |-> NewRx]
    /\ inbox = [s \in Sides |-> [c \in Carriers |-> <<>>]]
    /\ link = [c \in Carriers |-> "idle"]
    /\ travel = [phase |-> "running", reason |-> "none", racing |-> FALSE, race |-> 0,
                 active |-> NoCarrier, carriers |-> {}, opening |-> {},
                 recovery_expired |-> FALSE, heard |-> {}]
    /\ home = [phase |-> "absent", inc |-> 0, outcome |-> "none", incoming |-> {},
               carriers |-> {}, active |-> NoCarrier, race_winners |-> <<>>, past |-> {}]
    /\ breaks = 0

-----------------------------------------------------------------------------
(* Carriers as channels.                                                    *)

\* send_to: a frame reaches the wire only on a Carrier the side still holds.
Sent(box, s, held, c, frames) ==
    IF c \in held /\ link[c] = "up"
    THEN [box EXCEPT ![Peer(s)][c] = @ \o frames]
    ELSE box

Holds(s) == IF s = "travel" THEN travel.carriers ELSE home.carriers
Reply(s, c, frame) == Sent([inbox EXCEPT ![s][c] = Tail(@)], s, Holds(s), c, <<frame>>)
Consumed(s, c) == [inbox EXCEPT ![s][c] = Tail(@)]

\* Dropping a stream: the peer reads a prefix of what was in flight, then EOF.
Dropped(S) == [c \in Carriers |-> IF c \in S THEN "down" ELSE link[c]]

\* Closing only the outgoing queue: everything queued is written before EOF.
Drained(S) == [c \in Carriers |-> IF c \in S /\ link[c] = "up" THEN "closing" ELSE link[c]]

\* Mutant: a failed Carrier goes unreported.
SeesOnlyCleanClose(s, c) == link[c] = "closing" /\ inbox[s][c] = <<>>

\* A CarrierClosed event can be the next event of c at side s.
SeesClosed(s, c) ==
    \/ link[c] = "down"
    \/ link[c] = "closing" /\ inbox[s][c] = <<>>

\* CarrierClosed clears the selection when it names that Carrier.
\* Mutant: the selection survives.
NeverDetached(active, c) == active
Detached(active, c) == IF active = c THEN NoCarrier ELSE active

Deaf(s) == [inbox EXCEPT ![s] = [c \in Carriers |-> <<>>]]

-----------------------------------------------------------------------------
(* The transfer state both endpoints keep for their sending direction.      *)

\* Mutant: nothing is repeated.
RetransmitNothing(t, src) == <<>>
\* Mutant: the FIN is sent before the application closed.
RetransmitAlwaysFin(t, src) ==
    [i \in 1..Len(t.unacked) |-> Data(t.unacked[i], src)] \o <<Fin(t.send_offset)>>

\* The frames of retransmit(): every unacknowledged segment, then the FIN.
Retransmission(t, src) ==
    [i \in 1..Len(t.unacked) |-> Data(t.unacked[i], src)]
        \o IF t.local_eof THEN <<Fin(t.send_offset)>> ELSE <<>>

\* acknowledge(): the loop pops the first j segments, those that end by next.
Pops(t, next, j) ==
    /\ \A i \in 1..j : End(t.unacked[i]) <= next
    /\ j < Len(t.unacked) => End(t.unacked[j + 1]) > next
\* "ACK split a TCP data frame"
Splits(t, next, j) == j < Len(t.unacked) /\ t.unacked[j + 1].offset < next
\* Mutant: any ACK acknowledges everything sent.
AcknowledgeAll(t, next, j) == [t EXCEPT !.send_acked = t.send_offset, !.unacked = <<>>]
\* Mutant: off by one, below zero for the first acknowledgement.
AcknowledgeOneLess(t, next, j) ==
    [t EXCEPT !.send_acked = next - 1, !.unacked = SubSeq(@, j + 1, Len(@))]
Acknowledge(t, next, j) ==
    [t EXCEPT !.send_acked = next, !.unacked = SubSeq(@, j + 1, Len(@))]

InWindow(t, next) == next >= t.send_acked /\ next <= t.send_offset

\* The send credit is taken before a read is queued; the segments that hold it
\* cover exactly send_acked to send_offset.
HasCredit(t, len) == (t.send_offset - t.send_acked) + len <= MaxUnacked
Buffer(t, len) ==
    [t EXCEPT !.send_offset = @ + len,
              !.unacked = Append(@, [offset |-> t.send_offset, len |-> len])]

\* Mutant: the FIN need not be acknowledged.
CompleteWithoutFinAck(s) ==
    tx[s].local_eof /\ rx[s].remote_eof /\ tx[s].unacked = <<>>
\* Mutant: the peer's FIN is not awaited.
CompleteWithoutEof(s) ==
    tx[s].local_eof /\ tx[s].fin_acked /\ tx[s].unacked = <<>>
Complete(s) ==
    /\ tx[s].local_eof /\ rx[s].remote_eof /\ tx[s].fin_acked
    /\ tx[s].unacked = <<>>

-----------------------------------------------------------------------------
(* The steps the two event loops share.                                     *)

Active(s) == IF s = "travel" THEN travel.active ELSE home.active
Src(s) == IF s = "home" THEN home.inc ELSE 0

\* The event loop of side s is at its select.  Travel leaves it for a race as
\* soon as it has no active Carrier, and both leave it when the Flow completes.
Polls(s) ==
    IF s = "travel"
    THEN travel.phase = "running" /\ (travel.racing \/ (travel.active # NoCarrier /\ ~Complete(s)))
    ELSE home.phase = "running" /\ ~Complete(s)

\* The next event of side s is a frame of c of one of these types.
Arrives(s, c, types) ==
    Polls(s) /\ inbox[s][c] # <<>> /\ Head(inbox[s][c]).type \in types

\* LocalData, TargetData
ReadData(s, len) ==
    /\ Polls(s)
    /\ ~tx[s].local_eof
    /\ HasCredit(tx[s], len)
    /\ tx[s].send_offset + len <= MaxBytes(s)
    /\ tx' = [tx EXCEPT ![s] = Buffer(@, len)]
    /\ inbox' = Sent(inbox, s, Holds(s), Active(s),
                     <<Data([offset |-> tx[s].send_offset, len |-> len], Src(s))>>)
    /\ UNCHANGED <<rx, link, travel, home, breaks>>

\* LocalEof, TargetEof
ReadEof(s) ==
    /\ Polls(s)
    /\ ~tx[s].local_eof
    /\ tx' = [tx EXCEPT ![s].local_eof = TRUE]
    /\ inbox' = Sent(inbox, s, Holds(s), Active(s), <<Fin(tx[s].send_offset)>>)
    /\ UNCHANGED <<rx, link, travel, home, breaks>>

\* Data whose bytes were all delivered before.
DataDuplicate(s, c) ==
    /\ Arrives(s, c, {"Data"})
    /\ LET m == Head(inbox[s][c]) IN
           /\ m.offset # rx[s].receive_offset
           /\ End(m) <= rx[s].receive_offset
    /\ inbox' = Reply(s, c, Duplicate(rx[s].receive_offset))
    /\ UNCHANGED <<tx, rx, link, travel, home, breaks>>

\* Ack, Duplicate inside the window and on a segment boundary.
AckInWindow(s, c) ==
    /\ Arrives(s, c, {"Ack", "Duplicate"})
    /\ LET next == Head(inbox[s][c]).next_offset IN
           /\ InWindow(tx[s], next)
           /\ \E j \in 0..Len(tx[s].unacked) :
                  /\ Pops(tx[s], next, j) /\ ~Splits(tx[s], next, j)
                  /\ tx' = [tx EXCEPT ![s] = Acknowledge(@, next, j)]
    /\ inbox' = Consumed(s, c)
    /\ UNCHANGED <<rx, link, travel, home, breaks>>

\* An Ack inside a segment ends the Flow (guard of the two failure actions).
AckSplits(s, c) ==
    /\ Arrives(s, c, {"Ack", "Duplicate"})
    /\ LET next == Head(inbox[s][c]).next_offset IN
           /\ InWindow(tx[s], next)
           /\ \E j \in 0..Len(tx[s].unacked) :
                  Pops(tx[s], next, j) /\ Splits(tx[s], next, j)

\* Fin at the end of what was delivered: shut the socket down once, answer always.
FinInOrder(s, c) ==
    /\ Arrives(s, c, {"Fin"})
    /\ Head(inbox[s][c]).final_offset = rx[s].receive_offset
    /\ rx' = [rx EXCEPT ![s].remote_eof = TRUE]
    /\ inbox' = Reply(s, c, FinAck(rx[s].receive_offset))
    /\ UNCHANGED <<tx, link, travel, home, breaks>>

FinAckInOrder(s, c) ==
    /\ Arrives(s, c, {"FinAck"})
    /\ tx[s].local_eof
    /\ Head(inbox[s][c]).final_offset = tx[s].send_offset
    /\ tx' = [tx EXCEPT ![s].fin_acked = TRUE]
    /\ inbox' = Consumed(s, c)
    /\ UNCHANGED <<rx, link, travel, home, breaks>>

\* A frame that fits none of its arms' guards.
OutOfOrder(s, c) ==
    \/ /\ Arrives(s, c, {"Ack", "Duplicate"})
       /\ ~InWindow(tx[s], Head(inbox[s][c]).next_offset)
    \/ /\ Arrives(s, c, {"Fin"})
       /\ Head(inbox[s][c]).final_offset # rx[s].receive_offset
    \/ /\ Arrives(s, c, {"FinAck"})
       /\ ~(tx[s].local_eof /\ Head(inbox[s][c]).final_offset = tx[s].send_offset)

-----------------------------------------------------------------------------
(* Travel: run_inner, perform_race and handle_event.                        *)

\* The Flow ends: readers, opens and Carriers are aborted.
TravelFails(reason) ==
    /\ travel' = [travel EXCEPT !.phase = "failed", !.reason = reason, !.racing = FALSE,
                                !.active = NoCarrier, !.carriers = {}, !.opening = {}]
    /\ link' = Dropped(travel.carriers \cup travel.opening)
    /\ inbox' = Deaf("travel")
    /\ UNCHANGED <<tx, home, breaks>>

\* Completion is tested before every select; drain_carriers lets the final
\* FinAck out, and discards whatever Home still sends.
TravelCompletes ==
    /\ travel.phase = "running" /\ ~travel.racing /\ Complete("travel")
    /\ travel' = [travel EXCEPT !.phase = "finished", !.active = NoCarrier, !.carriers = {}]
    /\ link' = Drained(travel.carriers)
    /\ inbox' = Deaf("travel")
    /\ UNCHANGED <<tx, rx, home, breaks>>

TravelDrainTimesOut ==
    /\ "drain" \in Faults
    /\ travel.phase = "running" /\ ~travel.racing /\ Complete("travel")
    /\ TravelFails("drain timed out")
    /\ UNCHANGED rx

\* The head of perform_race: candidates through Relays other than the one of
\* the active Carrier, as many as slots and permits allow, and the race on the
\* active Carrier itself.
StartRace(S) ==
    LET race == travel.race + 1
        opened == {<<race, r>> : r \in S}
    IN
    /\ travel.phase = "running" /\ ~travel.racing /\ ~Complete("travel")
    /\ travel.active = NoCarrier => ~travel.recovery_expired
    /\ race <= MaxRaces
    /\ IF travel.active # NoCarrier
       THEN /\ travel.active[2] \notin S
            \* Bound: a race is kept in reserve for every Carrier failure.
            /\ race + MaxBreaks <= MaxRaces
       ELSE S # {} \/ "race_timeout" \in Faults  \* no permit, no Relay: only the deadline ends it
    /\ Cardinality(S) + (IF travel.active = NoCarrier THEN 0 ELSE 1) <= MaxCarriersPerFlow
    /\ travel' = [travel EXCEPT !.racing = TRUE, !.race = race, !.opening = opened]
    /\ link' = [c \in Carriers |-> IF c \in opened THEN "opening" ELSE link[c]]
    /\ inbox' = Sent(inbox, "travel", travel.carriers, travel.active,
                     <<Race(race, tx["travel"].send_acked)>>)
    /\ UNCHANGED <<tx, rx, home, breaks>>

\* "carrier recovery deadline expired"
RecoveryExpires ==
    /\ travel.phase = "running" /\ ~travel.racing /\ ~Complete("travel")
    /\ travel.active = NoCarrier /\ travel.recovery_expired
    /\ TravelFails("recovery deadline expired")
    /\ UNCHANGED rx

\* open_business_on returned: the candidate joins the race, or its OpenOk
\* contradicts what Travel knows and the Flow fails.
Opened(c) ==
    LET ok == Head(inbox["travel"][c])
        t == tx["travel"]
    IN
    /\ travel.racing /\ c \in travel.opening
    /\ Arrives("travel", c, {"OpenOk"})
    /\ InWindow(t, ok.receive_offset)
    /\ \E j \in 0..Len(t.unacked) :
           /\ Pops(t, ok.receive_offset, j) /\ ~Splits(t, ok.receive_offset, j)
           /\ tx' = [tx EXCEPT !["travel"] = Acknowledge(@, ok.receive_offset, j)]
    /\ travel' = [travel EXCEPT !.opening = @ \ {c}, !.carriers = @ \cup {c}]
    /\ inbox' = Sent(Consumed("travel", c), "travel", {c}, c,
                     <<Race(travel.race, ok.receive_offset)>>)
    /\ UNCHANGED <<rx, link, home, breaks>>

OpenedInconsistent(c) ==
    LET ok == Head(inbox["travel"][c])
        t == tx["travel"]
    IN
    /\ travel.racing /\ c \in travel.opening
    /\ Arrives("travel", c, {"OpenOk"})
    /\ \/ /\ ok.receive_offset > t.send_offset
          /\ TravelFails("acknowledged unsent data")
       \/ /\ ok.receive_offset < t.send_acked
          /\ TravelFails("acknowledgement moved backwards")
       \/ /\ InWindow(t, ok.receive_offset)
          /\ \E j \in 0..Len(t.unacked) :
                 Pops(t, ok.receive_offset, j) /\ Splits(t, ok.receive_offset, j)
          /\ TravelFails("ACK split a frame")
    /\ UNCHANGED rx

\* The race is over at once when nothing is left to wait for.
StillRacing(active, carriers, opening) ==
    travel.racing /\ ~(active = NoCarrier /\ opening = {} /\ carriers = {})

OpenFailed(c) ==
    /\ travel.phase = "running" /\ travel.racing /\ c \in travel.opening
    /\ link[c] = "down" \/ "open" \in Faults
    /\ travel' = [travel EXCEPT
                    !.opening = @ \ {c},
                    !.racing = StillRacing(travel.active, travel.carriers, travel.opening \ {c})]
    /\ link' = Dropped({c})
    /\ inbox' = [inbox EXCEPT !["travel"][c] = <<>>]
    /\ UNCHANGED <<tx, rx, home, breaks>>

\* RaceAck or RaceDuplicate of the current race: keep the winner, cut every
\* other Carrier and open, retransmit; an unknown winner leaves none at all.
RaceAnswered(c) ==
    LET m == Head(inbox["travel"][c])
        known == m.winner \in travel.carriers
        kept == travel.carriers \cap {m.winner}
    IN
    /\ travel.racing
    /\ Arrives("travel", c, {"RaceAck", "RaceDuplicate"}) /\ m.race = travel.race
    /\ travel' = [travel EXCEPT
                    !.racing = FALSE, !.opening = {}, !.carriers = kept,
                    !.active = IF known THEN m.winner ELSE NoCarrier,
                    !.recovery_expired = @ /\ ~known]
    /\ link' = Dropped((travel.carriers \cup travel.opening) \ kept)
    /\ inbox' = Sent([Consumed("travel", c) EXCEPT
                         !["travel"] = [x \in Carriers |->
                             IF x \in travel.opening THEN <<>> ELSE @[x]]],
                     "travel", kept, m.winner, Retransmission(tx["travel"], 0))
    /\ UNCHANGED <<tx, rx, home, breaks>>

\* The race deadline: the candidates are cut, an old active Carrier survives.
RaceTimesOut ==
    LET kept == travel.carriers \cap {travel.active} IN
    /\ "race_timeout" \in Faults
    /\ travel.phase = "running" /\ travel.racing
    /\ travel' = [travel EXCEPT !.racing = FALSE, !.opening = {}, !.carriers = kept]
    /\ link' = Dropped((travel.carriers \cup travel.opening) \ kept)
    /\ inbox' = [inbox EXCEPT !["travel"] = [x \in Carriers |->
                     IF x \in travel.opening THEN <<>> ELSE @[x]]]
    /\ UNCHANGED <<tx, rx, home, breaks>>

\* An answer to an earlier race.
RaceAnswerIgnored(c) ==
    /\ Arrives("travel", c, {"RaceAck", "RaceDuplicate"})
    /\ ~(travel.racing /\ Head(inbox["travel"][c]).race = travel.race)
    /\ inbox' = Consumed("travel", c)
    /\ UNCHANGED <<tx, rx, link, travel, home, breaks>>

LocalData(len) == ReadData("travel", len)
LocalEof == ReadEof("travel")

\* Data from any Carrier, the closed ones whose events are still queued included.
TravelData(c) ==
    LET m == Head(inbox["travel"][c]) IN
    /\ Arrives("travel", c, {"Data"})
    /\ m.offset = rx["travel"].receive_offset
    /\ ~rx["travel"].remote_eof
    /\ rx' = [rx EXCEPT !["travel"].receive_offset = End(m)]
    /\ travel' = [travel EXCEPT !.heard = @ \cup {m.src}]
    /\ inbox' = Reply("travel", c, Ack(End(m)))
    /\ UNCHANGED <<tx, link, home, breaks>>

\* The local write fails after some bytes were taken, or at once on a socket
\* that was shut down.
LocalWriteFails(c) ==
    LET m == Head(inbox["travel"][c]) IN
    /\ Arrives("travel", c, {"Data"})
    /\ m.offset = rx["travel"].receive_offset
    /\ "local" \in Faults \/ rx["travel"].remote_eof
    /\ \E delivered \in IF rx["travel"].remote_eof THEN {0} ELSE 0..(m.len - 1) :
           rx' = [rx EXCEPT !["travel"].receive_offset = m.offset + delivered]
    /\ TravelFails("local TCP failed")

TravelDuplicate(c) == DataDuplicate("travel", c)
TravelAck(c) == AckInWindow("travel", c)
TravelFin(c) == FinInOrder("travel", c)
TravelFinAck(c) == FinAckInOrder("travel", c)

\* The arms of handle_event that bail.
TravelBails(c) ==
    /\ \/ /\ Arrives("travel", c, {"Data"})
          /\ Head(inbox["travel"][c]).offset # rx["travel"].receive_offset
          /\ End(Head(inbox["travel"][c])) > rx["travel"].receive_offset
          /\ TravelFails("non-contiguous data")
       \/ AckSplits("travel", c) /\ TravelFails("ACK split a frame")
       \/ Arrives("travel", c, {"Close"}) /\ TravelFails("Home closed flow")
       \/ OutOfOrder("travel", c) /\ TravelFails("invalid frame")
    /\ UNCHANGED rx

\* CarrierClosed: detaches the Carrier, and the Flow when it was the active one.
\* The recovery deadline starts only when run_inner sees it, not during a race.
TravelCarrierClosed(c) ==
    LET active == Detached(travel.active, c)
        carriers == travel.carriers \ {c}
    IN
    /\ Polls("travel")
    /\ c \in travel.carriers \/ inbox["travel"][c] # <<>>
    /\ c \notin travel.opening
    /\ SeesClosed("travel", c)
    /\ travel' = [travel EXCEPT
                    !.active = active, !.carriers = carriers,
                    !.racing = StillRacing(active, carriers, travel.opening),
                    !.recovery_expired = @ /\ ~(travel.active = c /\ ~travel.racing)]
    /\ inbox' = [inbox EXCEPT !["travel"][c] = <<>>]
    /\ UNCHANGED <<tx, rx, link, home, breaks>>

\* The mapping stops, or the local socket reports an error.
TravelStops ==
    /\ "local" \in Faults
    /\ travel.phase = "running"
    /\ TravelFails("stopped")
    /\ UNCHANGED rx

\* carrier_recovery_timeout passes since recovery_started.
RecoveryTimePasses ==
    /\ "deadline" \in Faults
    /\ travel.phase = "running"
    /\ ~travel.recovery_expired
    /\ travel' = [travel EXCEPT !.recovery_expired = TRUE]
    /\ UNCHANGED <<tx, rx, inbox, link, home, breaks>>

TravelNext ==
    \/ TravelCompletes \/ TravelDrainTimesOut
    \/ \E S \in SUBSET Relays : StartRace(S)
    \/ RecoveryExpires \/ RaceTimesOut
    \/ \E c \in Carriers :
           \/ Opened(c) \/ OpenedInconsistent(c) \/ OpenFailed(c)
           \/ RaceAnswered(c) \/ RaceAnswerIgnored(c)
           \/ TravelData(c) \/ LocalWriteFails(c) \/ TravelDuplicate(c)
           \/ TravelAck(c) \/ TravelFin(c) \/ TravelFinAck(c) \/ TravelBails(c)
           \/ TravelCarrierClosed(c)
    \/ \E len \in SegLens : LocalData(len)
    \/ LocalEof
    \/ TravelStops
    \/ RecoveryTimePasses

-----------------------------------------------------------------------------
(* Home: TcpFlowRegistry.attach and run_flow.                               *)

\* The flow task returns: Carrier tasks are aborted, queued Carriers dropped,
\* the registry entry removed.
HomeEnds(outcome, links) ==
    /\ home' = [home EXCEPT !.phase = "absent", !.outcome = outcome, !.incoming = {},
                            !.carriers = {}, !.active = NoCarrier, !.race_winners = <<>>]
    /\ link' = links
    /\ inbox' = Deaf("home")
    /\ UNCHANGED <<tx, rx, travel, breaks>>

HomeFails(outcome) == HomeEnds(outcome, Dropped(home.carriers \cup home.incoming))

\* attach: a key without a flow gets a new one, with a target socket of its own.
Attaches(queued) ==
    IF home.phase # "absent"
    THEN /\ home' = [home EXCEPT !.incoming = @ \cup queued]
         /\ UNCHANGED <<tx, rx>>
    ELSE /\ home.inc < MaxIncarnations
         /\ home' = [home EXCEPT !.phase = "connecting", !.inc = @ + 1, !.outcome = "none",
                                 !.incoming = queued,
                                 !.past = IF home.inc = 0 THEN {} ELSE @ \cup {rx["home"]}]
         /\ tx' = [tx EXCEPT !["home"] = NewTx]
         /\ rx' = [rx EXCEPT !["home"] = NewRx]

Unattached(c) == link[c] = "opening" /\ c \notin home.incoming

Attach(c) ==
    /\ Unattached(c)
    /\ Attaches({c})
    /\ UNCHANGED <<inbox, link, travel, breaks>>

\* The Carrier limits are tested after the flow was created, which then waits
\* without this Carrier.
AttachNoSlot(c) ==
    /\ "reject" \in Faults
    /\ Unattached(c)
    /\ Attaches({})
    /\ link' = Dropped({c})
    /\ UNCHANGED <<inbox, travel, breaks>>

\* Any refusal before that: flow limit, other service, flow just ended.
AttachRejected(c) ==
    /\ "reject" \in Faults \/ (home.phase = "absent" /\ home.inc = MaxIncarnations)
    /\ Unattached(c)
    /\ link' = Dropped({c})
    /\ UNCHANGED <<tx, rx, inbox, travel, home, breaks>>

TargetConnects ==
    /\ home.phase = "connecting"
    /\ home' = [home EXCEPT !.phase = "running"]
    /\ UNCHANGED <<tx, rx, inbox, link, travel, breaks>>

\* A queued Carrier is answered with OpenOk and starts its pump.  The answer
\* to a Carrier that is gone may still be taken by the socket.
Admit(c) ==
    LET live == link[c] = "opening" IN
    /\ Polls("home")
    /\ c \in home.incoming
    /\ home' = [home EXCEPT !.incoming = @ \ {c}, !.carriers = @ \cup {c}]
    /\ link' = [link EXCEPT ![c] = IF live THEN "up" ELSE @]
    /\ inbox' = IF live
                THEN [inbox EXCEPT !["travel"][c] =
                        <<OpenOk(rx["home"].receive_offset, tx["home"].send_acked)>>]
                ELSE inbox
    /\ UNCHANGED <<tx, rx, travel, breaks>>

\* The write of OpenOk fails: its error ends the whole flow.
AdmitFails(c) ==
    /\ "open_write" \in Faults
    /\ Polls("home")
    /\ c \in home.incoming
    /\ link[c] = "down"
    /\ HomeFails("OpenOk write failed")

Winners(race) == {w \in Carriers :
    \E i \in 1..Len(home.race_winners) : home.race_winners[i] = [race |-> race, winner |-> w]}

\* Mutant: the winner is not recorded.
RememberNothing(s, e) == s
\* race_order: only the youngest races keep their winner.
Remember(s, e) ==
    IF Len(s) < RaceHistory THEN Append(s, e) ELSE Append(Tail(s), e)

\* The first Race of a race wins, becomes active and gets the retransmission.
HomeRaceWon(c) ==
    LET m == Head(inbox["home"][c]) IN
    /\ Arrives("home", c, {"Race"})
    /\ m.next_offset <= rx["home"].receive_offset
    /\ Winners(m.race) = {}
    /\ home' = [home EXCEPT !.active = c,
                            !.race_winners = Remember(@, [race |-> m.race, winner |-> c])]
    /\ inbox' = Sent(Consumed("home", c), "home", home.carriers, c,
                     <<RaceAck(m.race, c)>> \o Retransmission(tx["home"], home.inc))
    /\ UNCHANGED <<tx, rx, link, travel, breaks>>

\* Every later one is told who won.
HomeRaceLost(c) ==
    LET m == Head(inbox["home"][c]) IN
    /\ Arrives("home", c, {"Race"})
    /\ m.next_offset <= rx["home"].receive_offset
    /\ \E w \in Winners(m.race) : inbox' = Reply("home", c, RaceDuplicate(m.race, w))
    /\ UNCHANGED <<tx, rx, link, travel, home, breaks>>

TargetData(len) == ReadData("home", len)
TargetEof == ReadEof("home")

\* Data at the delivery point, from the active Carrier only.
HomeData(c) ==
    LET m == Head(inbox["home"][c]) IN
    /\ Arrives("home", c, {"Data"})
    /\ m.offset = rx["home"].receive_offset
    /\ home.active = c
    /\ rx' = [rx EXCEPT !["home"].receive_offset = End(m)]
    /\ inbox' = Reply("home", c, Ack(End(m)))
    /\ UNCHANGED <<tx, link, travel, home, breaks>>

HomeDuplicate(c) == DataDuplicate("home", c)

\* An Ack inside the window is taken; one that falls inside a segment ends the flow.
HomeAck(c) ==
    IF AckSplits("home", c)
    THEN HomeFails("ACK split a frame")
    ELSE AckInWindow("home", c)

HomeFin(c) == FinInOrder("home", c)
HomeFinAck(c) == FinAckInOrder("home", c)

\* Everything else is answered with Close; only Travel ends the Flow over it.
HomeObjects(c) ==
    /\ \/ /\ Arrives("home", c, {"Data"})
          /\ ~(Head(inbox["home"][c]).offset = rx["home"].receive_offset /\ home.active = c)
          /\ End(Head(inbox["home"][c])) > rx["home"].receive_offset
       \/ /\ Arrives("home", c, {"Race"})
          /\ Head(inbox["home"][c]).next_offset > rx["home"].receive_offset
       \/ OutOfOrder("home", c)
    /\ inbox' = Reply("home", c, Close)
    /\ UNCHANGED <<tx, rx, link, travel, home, breaks>>

\* CarrierClosed: the target socket is retained when the active Carrier is lost.
HomeCarrierClosed(c) ==
    /\ Polls("home")
    /\ c \in home.carriers
    /\ SeesClosed("home", c)
    /\ home' = [home EXCEPT !.carriers = @ \ {c},
                            !.active = Detached(@, c)]
    /\ inbox' = [inbox EXCEPT !["home"][c] = <<>>]
    /\ UNCHANGED <<tx, rx, link, travel, breaks>>

\* detached_deadline is set exactly while no Carrier is active.
DetachExpires ==
    /\ "detach" \in Faults
    /\ Polls("home")
    /\ home.active = NoCarrier
    /\ HomeFails("detached-flow timeout expired")

\* Revocation, expiry, a target error, a refused target, a process restart.
HomeStops ==
    /\ "home_stop" \in Faults
    /\ home.phase # "absent"
    /\ HomeFails("stopped")

HomeCompletes ==
    /\ home.phase = "running" /\ Complete("home")
    /\ HomeEnds("finished", [c \in Carriers |->
                    IF c \in home.incoming THEN "down" ELSE Drained(home.carriers)[c]])

HomeDrainTimesOut ==
    /\ "drain" \in Faults
    /\ home.phase = "running" /\ Complete("home")
    /\ HomeFails("drain timed out")

HomeNext ==
    \/ \E c \in Carriers :
           \/ Attach(c) \/ AttachNoSlot(c) \/ AttachRejected(c)
           \/ Admit(c) \/ AdmitFails(c)
           \/ HomeRaceWon(c) \/ HomeRaceLost(c)
           \/ HomeData(c) \/ HomeDuplicate(c) \/ HomeAck(c)
           \/ HomeFin(c) \/ HomeFinAck(c) \/ HomeObjects(c)
           \/ HomeCarrierClosed(c)
    \/ TargetConnects
    \/ \E len \in SegLens : TargetData(len)
    \/ TargetEof
    \/ DetachExpires \/ HomeStops \/ HomeCompletes \/ HomeDrainTimesOut

-----------------------------------------------------------------------------
\* Reset, EOF, write failure, missed heartbeats, a network change: outside both
\* endpoints, a Carrier that was in use loses what it still holds.
Break(c) ==
    /\ breaks < MaxBreaks
    /\ link[c] \in {"up", "closing"}
    /\ link' = Dropped({c})
    /\ breaks' = breaks + 1
    /\ UNCHANGED <<tx, rx, inbox, travel, home>>

Next == TravelNext \/ HomeNext \/ \E c \in Carriers : Break(c)

Spec == Init /\ [][Next]_vars

\* Each endpoint's task keeps polling its events, and its timers expire.  The
\* applications and the network owe nothing: no fairness of LocalData, LocalEof,
\* TargetData, TargetEof, Break or of the faults other than timers.
Fairness ==
    /\ WF_vars(TravelCompletes) /\ WF_vars(RecoveryExpires) /\ WF_vars(RaceTimesOut)
    /\ WF_vars(travel.active = NoCarrier /\ \E S \in SUBSET Relays : StartRace(S))
    /\ \A c \in Carriers :
           /\ WF_vars(Opened(c) \/ OpenedInconsistent(c) \/ OpenFailed(c))
           /\ WF_vars(\/ RaceAnswered(c) \/ RaceAnswerIgnored(c) \/ TravelData(c)
                      \/ TravelDuplicate(c) \/ TravelAck(c) \/ TravelFin(c)
                      \/ TravelFinAck(c) \/ TravelBails(c) \/ TravelCarrierClosed(c))
           /\ WF_vars(Attach(c) \/ AttachRejected(c))
           /\ WF_vars(Admit(c))
           /\ WF_vars(\/ HomeRaceWon(c) \/ HomeRaceLost(c) \/ HomeData(c)
                      \/ HomeDuplicate(c) \/ HomeAck(c)
                      \/ HomeFin(c) \/ HomeFinAck(c) \/ HomeObjects(c)
                      \/ HomeCarrierClosed(c))
    /\ WF_vars(RecoveryTimePasses)
    /\ WF_vars(TargetConnects) /\ WF_vars(DetachExpires) /\ WF_vars(HomeCompletes)

FairSpec == Spec /\ Fairness

-----------------------------------------------------------------------------
(* Properties.  A Home flow that ended can be recreated under the same key; *)
(* what the two sides promise each other is about the first one.            *)

SoleHome == home.inc <= 1

\* What a side treats as acknowledged was written to the peer's socket, and
\* nothing is delivered that was not sent: whatever Carriers failed or raced,
\* send_acked, the peer's receive_offset and send_offset stay in this order.
AckedIsDelivered ==
    SoleHome => \A s \in Sides :
        /\ tx[s].send_acked <= rx[Peer(s)].receive_offset
        /\ rx[Peer(s)].receive_offset <= tx[s].send_offset

\* A socket is shut down for writing only after the peer's application closed
\* its side and every byte it wrote before was delivered.
EofIsLast ==
    SoleHome => \A s \in Sides :
        rx[s].remote_eof => /\ tx[Peer(s)].local_eof
                            /\ rx[s].receive_offset = tx[Peer(s)].send_offset

\* An endpoint reports a Flow as completed only when both applications closed
\* and everything each of them wrote has reached the other.
CompletionMeansDelivered ==
    SoleHome /\ (travel.phase = "finished" \/ home.outcome = "finished") =>
        \A s \in Sides : rx[s].remote_eof /\ rx[s].receive_offset = tx[Peer(s)].send_offset

\* Even when Home restarted, and its flow was recreated under the same key, a
\* completed Flow has brought the whole upload, EOF included, to one target.
UploadReachesOneTarget ==
    travel.phase = "finished" =>
        \E r \in home.past \cup {rx["home"]} :
            r.remote_eof /\ r.receive_offset = tx["travel"].send_offset

\* The failures that would mean lost or corrupted bytes never happen between
\* these two endpoints: no gap, no acknowledgement of unsent data or of half a
\* segment, however retransmissions and acknowledgements cross.
NoTransferError ==
    SoleHome =>
        /\ travel.reason \notin {"acknowledged unsent data", "ACK split a frame",
                                 "non-contiguous data"}
        /\ home.outcome # "ACK split a frame"

\* The unacknowledged queue holds exactly the bytes from send_acked to
\* send_offset, in order and without gap, and never more than the credit: no late
\* acknowledgement moves send_acked back.
QueueIsTheWindow ==
    \A s \in Sides :
        LET q == tx[s].unacked IN
        /\ q = <<>> => tx[s].send_acked = tx[s].send_offset
        /\ q # <<>> => q[1].offset = tx[s].send_acked /\ End(q[Len(q)]) = tx[s].send_offset
        /\ \A i \in 1..(Len(q) - 1) : End(q[i]) = q[i + 1].offset
        /\ tx[s].send_offset - tx[s].send_acked <= MaxUnacked

\* What each side keeps is exactly what may have to be repeated, and repeating it
\* on any Carrier meets no error at the other side.
TransferIsExact == NoTransferError /\ QueueIsTheWindow

\* A Flow that only downloads survives every handover: what crosses on losing
\* and winning Carriers never makes either endpoint give it up.
DownloadKeepsFlow ==
    SoleHome /\ tx["travel"].send_offset = 0 =>
        travel.reason \notin {"acknowledgement moved backwards", "non-contiguous data",
                              "ACK split a frame", "Home closed flow", "invalid frame"}

\* Home never names two winners of one race: every answer in flight agrees
\* with every other one and with what Home remembers.
RaceHasOneWinner ==
    SoleHome =>
        LET answers == UNION {{inbox["travel"][c][i] : i \in 1..Len(inbox["travel"][c])}
                                : c \in Carriers}
        IN \A m, n \in {a \in answers : a.type \in {"RaceAck", "RaceDuplicate"}} :
               m.race = n.race => m.winner = n.winner

\* While both applications have closed, the Flow does not stay open at Travel:
\* no loss of Carriers leaves it waiting for ever.  (A recreated Home flow has a
\* target of its own, which owes nothing.)
BothClosed == tx["travel"].local_eof /\ tx["home"].local_eof
ClosedFlowEnds == BothClosed ~> (travel.phase # "running" \/ ~BothClosed)

\* Home listens to another Carrier than the one Travel uses, or has told it so.
SplitSelection ==
    \/ travel.active # NoCarrier /\ home.active # travel.active
    \/ travel.reason = "Home closed flow"

\* Losing Carriers costs no Flow by itself: with Relays left to race and no
\* deadline missed, both closed ends in completion at one endpoint at least (the
\* last acknowledgement may be lost with its Carrier), unless the two endpoints
\* stay on different Carriers: Home lets a Race frame delayed since an earlier
\* race win, and then listens to a Carrier that Travel has left.
LossIsRecovered ==
    BothClosed ~> (\/ travel.phase = "finished" \/ home.outcome = "finished"
                   \/ []SplitSelection)

\* Home releases the target socket of a Flow that Travel has left.
HomeReleases == (travel.phase # "running") ~> (home.phase = "absent")

-----------------------------------------------------------------------------
(* The abstract stream this Flow implements while Home keeps its flow.      *)

HomeOutcome ==
    IF home.inc = 0 \/ home.phase # "absent" THEN "running"
    ELSE IF home.outcome = "finished" THEN "finished" ELSE "failed"

Stream == INSTANCE FlowStream WITH
    written <- [s \in Sides |-> tx[s].send_offset],
    closed <- [s \in Sides |-> tx[s].local_eof],
    delivered <- [s \in Sides |-> rx[Peer(s)].receive_offset],
    eof <- [s \in Sides |-> rx[Peer(s)].remote_eof],
    outcome <- [s \in Sides |-> IF s = "travel" THEN travel.phase ELSE HomeOutcome]

\* With one Home flow, every step of the two endpoints is a step of the
\* abstract stream: in-order, exactly-once, EOF last, completion only when done.
IsStream == Stream!Spec

-----------------------------------------------------------------------------
(* What the documentation says of a Flow, and the code does not keep.       *)

\* architecture.md: in a periodic race Travel "keeps the winner, closes the losing
\* candidates, retransmits unacknowledged frames, and uses that Carrier"; neither
\* the race nor the handover costs the Flow.  In the code an OpenOk is a snapshot
\* that Acks on the active Carrier overtake (and that overtakes them), and Home
\* answers data that still arrives on the former Carrier with Close.
RaceKeepsFlow ==
    SoleHome => travel.reason \notin
        {"acknowledgement moved backwards", "Home closed flow", "invalid frame"}

\* README.md: a Home restart "ends the Flow"; the local client never receives
\* the bytes of two different target connections in one stream.
OneTargetPerFlow == Cardinality(travel.heard) <= 1
=============================================================================
