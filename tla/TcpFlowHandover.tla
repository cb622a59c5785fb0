--------------------------- MODULE TcpFlowHandover ---------------------------
(***************************************************************************)
(* Races and handovers of a Flow for every value of the constants: what a  *)
(* retransmission repeats, what acknowledgements that cross can hit, who   *)
(* wins a race and which target got the upload.                            *)
(*                                                                         *)
(* The frames on all Carriers that may still reach a side are one set      *)
(* here.  A step delivers some of them and adds frames that speak for the  *)
(* state of their sender after the step (Effects); the invariants follow   *)
(* from that without another look at the actions.  Of those here, only     *)
(* NoGap needs the order in which one Carrier delivers.                    *)
(***************************************************************************)
EXTENDS TcpFlowDelivery, FiniteSetTheorems

\* The frames that may still reach side s, on whatever Carrier.
Flying(box, s) == UNION {{box[s][c][i] : i \in 1..Len(box[s][c])} : c \in Carriers}
InFlight(s) == Flying(inbox, s)

Remembered == {home.race_winners[i] : i \in 1..Len(home.race_winners)}
IsAnswer(m) == m.type \in {"RaceAck", "RaceDuplicate"}

-----------------------------------------------------------------------------
(* Frames in flight.                                                        *)

LEMMA FlyingDef ==
  ASSUME NEW box, NEW s, NEW m
  PROVE  m \in Flying(box, s) <=> \E c \in Carriers : \E i \in 1..Len(box[s][c]) : m = box[s][c][i]
  BY DEF Flying

LEMMA FlyingFrames ==
  ASSUME NEW box \in Boxes, NEW s \in Sides, NEW m \in Flying(box, s)
  PROVE  m \in Frame
<1>0. PICK c \in Carriers : \E i \in 1..Len(box[s][c]) : m = box[s][c][i] BY FlyingDef
<1>1. PICK i \in 1..Len(box[s][c]) : m = box[s][c][i] BY <1>0
<1>2. box[s][c] \in Seq(Frame) BY DEF Boxes
<1> QED BY <1>1, <1>2, ElementOfSeq

LEMMA FlyingSent ==
  ASSUME NEW box \in Boxes, NEW s \in Sides, NEW held, held \subseteq Carriers, NEW c,
         NEW frames \in Seq(Frame), NEW x \in Sides,
         NEW m \in Flying(Sent(box, s, held, c, frames), x)
  PROVE  m \in Flying(box, x) \/ (x = Peer(s) /\ \E i \in 1..Len(frames) : m = frames[i])
<1>1. CASE ~(c \in held /\ link[c] = "up") BY <1>1 DEF Sent
<1>2. CASE c \in held /\ link[c] = "up"
  <2> DEFINE new == [box EXCEPT ![Peer(s)][c] = @ \o frames]
             old == box[Peer(s)][c]
  <2>1. Sent(box, s, held, c, frames) = new BY <1>2 DEF Sent
  <2>2. Peer(s) \in Sides /\ c \in Carriers BY <1>2, PeerType
  <2>3. old \in Seq(Frame) BY <2>2 DEF Boxes
  <2>4. new[Peer(s)][c] = old \o frames BY <2>2 DEF Boxes
  <2>5. \A y \in Sides, d \in Carriers : ~(y = Peer(s) /\ d = c) => new[y][d] = box[y][d]
    BY <2>2 DEF Boxes
  <2>6. m \in Flying(new, x) BY <2>1
  <2> HIDE DEF new
  <2>e. PICK d \in Carriers : \E i \in 1..Len(new[x][d]) : m = new[x][d][i] BY <2>6, FlyingDef
  <2>7. PICK i \in 1..Len(new[x][d]) : m = new[x][d][i] BY <2>e
  <2>8. CASE ~(x = Peer(s) /\ d = c) BY <2>5, <2>7, <2>8, FlyingDef
  <2>9. CASE x = Peer(s) /\ d = c
    <3>1. i \in 1..(Len(old) + Len(frames)) /\ Len(old) \in Nat /\ Len(frames) \in Nat
      BY <2>3, <2>4, <2>7, <2>9, ConcatProperties, LenProperties
    <3>c. \A k \in 1..(Len(old) + Len(frames)) :
              (old \o frames)[k] = IF k <= Len(old) THEN old[k] ELSE frames[k - Len(old)]
      BY <2>3, ConcatProperties
    <3>m. m = (old \o frames)[i] BY <2>4, <2>7, <2>9
    <3> HIDE DEF old
    <3>2. CASE i <= Len(old)
      <4>1. m = old[i] BY <3>c, <3>m, <3>1, <3>2
      <4>2. i \in 1..Len(old) BY <3>1, <3>2
      <4> QED BY <2>2, <2>9, <4>1, <4>2, FlyingDef DEF old
    <3>3. CASE i > Len(old)
      <4>1. m = frames[i - Len(old)] BY <3>c, <3>m, <3>1, <3>3
      <4>2. i - Len(old) \in 1..Len(frames) BY <3>1, <3>3
      <4> QED BY <2>9, <4>1, <4>2
    <3> QED BY <3>1, <3>2, <3>3
  <2> QED BY <2>8, <2>9
<1> QED BY <1>1, <1>2

\* Forgetting the frames of some Carriers.
LEMMA FlyingShrinks ==
  ASSUME NEW box, NEW new, NEW x \in Sides,
         \A d \in Carriers : new[x][d] = box[x][d] \/ new[x][d] = <<>>
  PROVE  Flying(new, x) \subseteq Flying(box, x)
<1>1. \A i \in 1..Len(<<>>) : FALSE OBVIOUS
<1> QED BY <1>1, FlyingDef

LEMMA FlyingConsumed ==
  ASSUME inbox \in Boxes, NEW s \in Sides, NEW c \in Carriers, inbox[s][c] # <<>>
  PROVE  /\ \A x \in Sides : Flying(Consumed(s, c), x) \subseteq InFlight(x)
         /\ Head(inbox[s][c]) \in InFlight(s)
<1> DEFINE q == inbox[s][c]
<1>1. q \in Seq(Frame) /\ q # <<>> BY DEF Boxes
<1>2. /\ Len(Tail(q)) = Len(q) - 1 /\ Len(q) \in Nat /\ Len(q) >= 1
      /\ \A i \in 1..Len(Tail(q)) : Tail(q)[i] = q[i + 1]
      /\ Head(q) = q[1]
  BY <1>1, HeadTailProperties, EmptySeq, LenProperties
<1>3. ASSUME NEW x \in Sides, NEW m \in Flying(Consumed(s, c), x) PROVE m \in InFlight(x)
  <2>e. PICK d \in Carriers : \E i \in 1..Len(Consumed(s, c)[x][d]) : m = Consumed(s, c)[x][d][i]
    BY <1>3, FlyingDef
  <2>1. PICK i \in 1..Len(Consumed(s, c)[x][d]) : m = Consumed(s, c)[x][d][i] BY <2>e
  <2>2. CASE x = s /\ d = c
    <3>1. Consumed(s, c)[x][d] = Tail(q) BY <2>2 DEF Consumed, Boxes
    <3>2. i + 1 \in 1..Len(q) /\ m = q[i + 1] BY <1>2, <2>1, <3>1
    <3> QED BY <2>2, <3>2, FlyingDef DEF InFlight
  <2>3. CASE ~(x = s /\ d = c)
    <3>1. Consumed(s, c)[x][d] = inbox[x][d] BY <2>3 DEF Consumed, Boxes
    <3> QED BY <2>1, <3>1, FlyingDef DEF InFlight
  <2> QED BY <2>2, <2>3
<1>4. Head(q) \in InFlight(s) BY <1>2, FlyingDef DEF InFlight
<1> QED BY <1>3, <1>4

LEMMA FlyingCleared ==
  ASSUME NEW box \in Boxes, NEW s \in Sides, NEW x \in Sides, NEW c \in Carriers,
         NEW new, new = [box EXCEPT ![s][c] = <<>>]
  PROVE  Flying(new, x) \subseteq Flying(box, x)
<1>1. \A d \in Carriers : new[x][d] = box[x][d] \/ new[x][d] = <<>> BY DEF Boxes
<1> QED BY <1>1, FlyingShrinks

LEMMA FlyingDeaf ==
  ASSUME inbox \in Boxes, NEW s \in Sides, NEW x \in Sides
  PROVE  Flying(Deaf(s), x) \subseteq InFlight(x)
<1>1. \A d \in Carriers : Deaf(s)[x][d] = inbox[x][d] \/ Deaf(s)[x][d] = <<>>
  BY DEF Deaf, Boxes
<1> QED BY <1>1, FlyingShrinks DEF InFlight

-----------------------------------------------------------------------------
(* What a step does to the transfer, and what it sends.                     *)

TxStep(s) ==
    \/ tx'[s] = tx[s]
    \/ \E len \in SegLens : /\ ~tx[s].local_eof /\ HasCredit(tx[s], len)
                            /\ tx'[s] = Buffer(tx[s], len)
    \/ tx'[s] = [tx[s] EXCEPT !.local_eof = TRUE]
    \/ \E m \in InFlight(s) :
           /\ m.type = "FinAck" /\ tx[s].local_eof /\ m.final_offset = tx[s].send_offset
           /\ tx'[s] = [tx[s] EXCEPT !.fin_acked = TRUE]
    \/ \E m \in InFlight(s), n \in Nat, j \in 0..Len(tx[s].unacked) :
           /\ \/ m.type \in {"Ack", "Duplicate"} /\ n = m.next_offset
              \/ m.type = "OpenOk" /\ n = m.receive_offset
           /\ InWindow(tx[s], n) /\ Pops(tx[s], n, j) /\ ~Splits(tx[s], n, j)
           /\ tx'[s] = Acknowledge(tx[s], n, j)

\* A local write that fails leaves Travel's offset inside a segment, and the Flow over.
RxStep(s) ==
    \/ rx'[s] = rx[s]
    \/ \E m \in InFlight(s) :
           /\ m.type = "Data" /\ m.offset = rx[s].receive_offset
           /\ rx'[s] = [rx[s] EXCEPT !.receive_offset = End(m)]
    \/ \E m \in InFlight(s) :
           /\ m.type = "Fin" /\ m.final_offset = rx[s].receive_offset
           /\ rx'[s] = [rx[s] EXCEPT !.remote_eof = TRUE]
    \/ s = "travel" /\ travel'.phase = "failed"

\* A frame sent to s in this step: it repeats a segment its sender keeps, and
\* tells the sender's state after the step.
Speaks(s, m) ==
    LET p == Peer(s) IN
    /\ m.type = "Data" => \E i \in 1..Len(tx'[p].unacked) :
           m.offset = tx'[p].unacked[i].offset /\ m.len = tx'[p].unacked[i].len
    /\ m.type \in {"Ack", "Duplicate"} =>
           m.next_offset = rx'[p].receive_offset /\ (p = "home" \/ travel'.phase = "running")
    /\ m.type = "OpenOk" => p = "home" /\ m.receive_offset = rx'["home"].receive_offset
    /\ m.type = "Fin" => tx'[p].local_eof /\ m.final_offset = tx'[p].send_offset
    /\ m.type = "FinAck" => rx'[p].remote_eof /\ m.final_offset = rx'[p].receive_offset
    /\ m.type = "Race" => /\ travel'.racing /\ m.race = travel'.race
                          /\ m.next_offset = tx'["travel"].send_acked
    /\ m.type = "Close" => s = "travel" /\ \E c \in Carriers : HomeObjects(c) /\ link[c] = "up"
    /\ IsAnswer(m) => /\ home.phase # "absent" /\ home'.phase # "absent"
                      /\ [race |-> m.race, winner |-> m.winner] \in Remembered'

FrameStep(s) == \A m \in InFlight(s)' : m \in InFlight(s) \/ Speaks(s, m)

Transfers == \A s \in Sides : TxStep(s) /\ RxStep(s) /\ FrameStep(s)

TravelStep ==
    /\ travel'.phase = "running" => travel.phase = "running"
    /\ travel'.phase = "finished" => travel.phase = "finished" \/ tx["travel"].fin_acked

\* The registry entry stays, ends, or takes note of a winner.
HomeStep ==
    /\ home'.inc = home.inc /\ home'.past = home.past
    /\ \/ /\ home'.race_winners = home.race_winners
          /\ home'.phase = "absent" <=> home.phase = "absent"
       \/ home'.race_winners = <<>> /\ home'.phase = "absent"
       \/ \E m \in InFlight("home"), c \in Carriers :
              /\ m.type = "Race" /\ Winners(m.race) = {}
              /\ home.phase # "absent" /\ home'.phase # "absent"
              /\ home'.race_winners = Remember(home.race_winners, [race |-> m.race, winner |-> c])

Effects == Transfers /\ TravelStep /\ HomeStep

\* The one other step: a Carrier reaches Home where no flow has its key.
NewHome ==
    /\ home.phase = "absent" /\ home'.phase = "connecting"
    /\ home'.inc = home.inc + 1 /\ home'.race_winners = home.race_winners
    /\ home'.past = IF home.inc = 0 THEN {} ELSE home.past \cup {rx["home"]}
    /\ tx' = [tx EXCEPT !["home"] = NewTx] /\ rx' = [rx EXCEPT !["home"] = NewRx]
    /\ inbox' = inbox /\ travel' = travel

LEMMA NothingSent ==
  ASSUME NEW box, inbox' = box, \A x \in Sides : Flying(box, x) \subseteq InFlight(x)
  PROVE  \A x \in Sides : FrameStep(x)
  BY DEF FrameStep, InFlight

\* A step that sends some frames on one Carrier, and forgets others.
LEMMA FramesSent ==
  ASSUME NEW box \in Boxes, \A x \in Sides : Flying(box, x) \subseteq InFlight(x),
         NEW s \in Sides, NEW held, held \subseteq Carriers, NEW c, NEW frames \in Seq(Frame),
         inbox' = Sent(box, s, held, c, frames),
         \A i \in 1..Len(frames) : Speaks(Peer(s), frames[i])
  PROVE  \A x \in Sides : FrameStep(x)
<1> SUFFICES ASSUME NEW x \in Sides, NEW m \in Flying(inbox', x)
             PROVE  m \in InFlight(x) \/ Speaks(x, m)
  BY DEF FrameStep, InFlight
<1>1. m \in Flying(box, x) \/ (x = Peer(s) /\ \E i \in 1..Len(frames) : m = frames[i])
  BY FlyingSent
<1> QED BY <1>1

LEMMA OneFrameSent ==
  ASSUME NEW box \in Boxes, \A x \in Sides : Flying(box, x) \subseteq InFlight(x),
         NEW s \in Sides, NEW held, held \subseteq Carriers, NEW c, NEW f \in Frame,
         inbox' = Sent(box, s, held, c, <<f>>), Speaks(Peer(s), f)
  PROVE  \A x \in Sides : FrameStep(x)
<1>1. <<f>> \in Seq(Frame) /\ \A i \in 1..Len(<<f>>) : <<f>>[i] = f OBVIOUS
<1> QED BY <1>1, FramesSent

\* An answer on the Carrier whose frame is taken.
LEMMA Replied ==
  ASSUME TypeOK, NEW s \in Sides, NEW c \in Carriers, inbox[s][c] # <<>>, NEW f \in Frame,
         inbox' = Reply(s, c, f), Speaks(Peer(s), f)
  PROVE  \A x \in Sides : FrameStep(x)
<1>1. Consumed(s, c) \in Boxes /\ \A x \in Sides : Flying(Consumed(s, c), x) \subseteq InFlight(x)
  BY ConsumedType, FlyingConsumed DEF TypeOK, Boxes
<1> QED BY <1>1, OneFrameSent, HoldsType, ReplyIsSent

LEMMA Untouched ==
  ASSUME tx' = tx, rx' = rx
  PROVE  \A x \in Sides : TxStep(x) /\ RxStep(x)
  BY DEF TxStep, RxStep

\* A retransmission speaks for the sender.
LEMMA RetransmissionSpeaks ==
  ASSUME TypeOK, NEW s \in Sides, NEW k \in Nat, tx' = tx,
         NEW i \in 1..Len(Retransmission(tx[s], k))
  PROVE  Speaks(Peer(s), Retransmission(tx[s], k)[i])
<1> DEFINE t == tx[s]
           D == [n \in 1..Len(t.unacked) |-> Data(t.unacked[n], k)]
           F == IF t.local_eof THEN <<Fin(t.send_offset)>> ELSE <<>>
<1>1. t.unacked \in Seq(Segment) /\ Len(t.unacked) \in Nat /\ Peer(Peer(s)) = s BY Fields
<1>2. \A n \in 1..Len(t.unacked) : Data(t.unacked[n], k) \in Frame
  BY <1>1, FrameTypes, ElementOfSeq
<1>3. D \in Seq(Frame) /\ Len(D) = Len(t.unacked) BY <1>1, <1>2, IsASeq
<1>4. Fin(t.send_offset) \in Frame BY Fields, FrameTypes
<1>5. F \in Seq(Frame) BY <1>4
<1>6. \A n \in 1..Len(D) : Speaks(Peer(s), D[n])
  BY <1>1, <1>3 DEF Speaks, Data, IsAnswer
<1>7. \A n \in 1..Len(F) : Speaks(Peer(s), F[n])
  BY <1>1 DEF Speaks, Fin, IsAnswer
<1>8. Retransmission(t, k) = D \o F BY DEF Retransmission
<1> HIDE DEF D, F, t
<1>9. Len(D) \in Nat /\ Len(F) \in Nat /\ Len(D \o F) = Len(D) + Len(F)
  BY <1>3, <1>5, LenProperties, ConcatProperties
<1>10. i \in 1..(Len(D) + Len(F)) BY <1>8, <1>9 DEF t
<1>11. CASE i <= Len(D)
  <2>1. (D \o F)[i] = D[i] /\ i \in 1..Len(D)
    BY <1>3, <1>5, <1>9, <1>10, <1>11, ConcatProperties
  <2> QED BY <1>6, <1>8, <2>1 DEF t
<1>12. CASE i > Len(D)
  <2>1. (D \o F)[i] = F[i - Len(D)] BY <1>3, <1>5, <1>9, <1>10, <1>12, ConcatProperties
  <2>2. i - Len(D) \in 1..Len(F) BY <1>9, <1>10, <1>12
  <2> QED BY <1>7, <1>8, <2>1, <2>2 DEF t
<1> QED BY <1>9, <1>10, <1>11, <1>12

\* The steps both event loops share.
LEMMA SharedEffects ==
  ASSUME TypeOK, NEW s \in Sides
  PROVE  /\ \A len \in SegLens : ReadData(s, len) => Transfers
         /\ ReadEof(s) => Transfers
         /\ \A c \in Carriers :
              (\/ DataDuplicate(s, c) \/ AckInWindow(s, c) \/ FinInOrder(s, c)
               \/ FinAckInOrder(s, c)) => Transfers
<1>t. /\ tx \in [Sides -> TxState] /\ rx \in [Sides -> RxState] /\ inbox \in Boxes
      /\ Peer(s) \in Sides /\ Peer(Peer(s)) = s
  BY Fields DEF TypeOK, Boxes
<1>f. \A x \in Sides : Flying(inbox, x) \subseteq InFlight(x) BY DEF InFlight
<1>1. ASSUME NEW len \in SegLens, ReadData(s, len) PROVE Transfers
  <2> DEFINE seg == [offset |-> tx[s].send_offset, len |-> len]
             t == tx[s]
  <2>1. len \in Nat BY FlowConstants
  <2>2. seg \in Segment /\ t.unacked \in Seq(Segment) /\ Len(t.unacked) \in Nat
    BY <2>1, Fields DEF Segment
  <2>3. Data(seg, Src(s)) \in Frame BY <2>2, FrameTypes, FlowConstants DEF Src, TypeOK, HomeState
  <2>4. tx'[s] = Buffer(t, len) /\ \A x \in Sides : x # s => tx'[x] = tx[x]
    BY <1>1, <1>t DEF ReadData
  <2>5. tx'[s].unacked = Append(t.unacked, seg) BY <1>t, <2>4 DEF Buffer, TxState
  <2>6. Len(t.unacked) + 1 \in 1..Len(tx'[s].unacked) /\ tx'[s].unacked[Len(t.unacked) + 1] = seg
    BY <2>2, <2>5, AppendProperties
  <2>7. Speaks(Peer(s), Data(seg, Src(s)))
    BY <1>t, <2>6 DEF Speaks, Data, IsAnswer
  <2>8. inbox' = Sent(inbox, s, Holds(s), Active(s), <<Data(seg, Src(s))>>) BY <1>1 DEF ReadData
  <2>9. \A x \in Sides : FrameStep(x) BY <1>t, <1>f, <2>3, <2>7, <2>8, HoldsType, OneFrameSent
  <2>10. \A x \in Sides : TxStep(x) BY <1>1, <2>4 DEF TxStep, ReadData
  <2>11. \A x \in Sides : RxStep(x) BY <1>1 DEF RxStep, ReadData
  <2> QED BY <2>9, <2>10, <2>11 DEF Transfers
<1>2. ASSUME ReadEof(s) PROVE Transfers
  <2> DEFINE f == Fin(tx[s].send_offset)
  <2>1. f \in Frame BY FrameTypes, Fields
  <2>2. /\ tx'[s] = [tx[s] EXCEPT !.local_eof = TRUE]
        /\ \A x \in Sides : x # s => tx'[x] = tx[x]
    BY <1>2, <1>t DEF ReadEof
  <2>3. tx'[s].local_eof /\ tx'[s].send_offset = tx[s].send_offset BY <1>t, <2>2 DEF TxState
  <2>4. Speaks(Peer(s), f) BY <1>t, <2>3 DEF Speaks, Fin, IsAnswer
  <2>5. inbox' = Sent(inbox, s, Holds(s), Active(s), <<f>>) BY <1>2 DEF ReadEof
  <2>6. \A x \in Sides : FrameStep(x) BY <1>t, <1>f, <2>1, <2>4, <2>5, HoldsType, OneFrameSent
  <2>7. \A x \in Sides : TxStep(x) BY <2>2 DEF TxStep
  <2>8. \A x \in Sides : RxStep(x) BY <1>2 DEF RxStep, ReadEof
  <2> QED BY <2>6, <2>7, <2>8 DEF Transfers
<1>3. ASSUME NEW c \in Carriers, DataDuplicate(s, c) PROVE Transfers
  <2> DEFINE f == Duplicate(rx[s].receive_offset)
  <2>1. f \in Frame /\ inbox[s][c] # <<>>
    BY <1>3, FrameTypes, Fields DEF DataDuplicate, Arrives
  <2>2. rx' = rx /\ tx' = tx /\ travel' = travel BY <1>3 DEF DataDuplicate
  <2>3. s = "home" \/ travel'.phase = "running"
    BY <1>3, <2>2 DEF DataDuplicate, Arrives, Polls, Sides
  <2>4. Speaks(Peer(s), f) BY <1>t, <2>2, <2>3 DEF Speaks, Duplicate, IsAnswer
  <2>5. inbox' = Reply(s, c, f) BY <1>3 DEF DataDuplicate
  <2> QED BY <2>1, <2>2, <2>4, <2>5, Replied, Untouched DEF Transfers
<1>c. ASSUME NEW c \in Carriers, inbox[s][c] # <<>>, inbox' = Consumed(s, c)
      PROVE  \A x \in Sides : FrameStep(x)
  BY <1>c, <1>t, FlyingConsumed, NothingSent
<1>h. ASSUME NEW c \in Carriers, inbox[s][c] # <<>>
      PROVE  Head(inbox[s][c]) \in InFlight(s) /\ Head(inbox[s][c]) \in Frame
  BY <1>h, <1>t, FlyingConsumed, ConsumedType
<1>4. ASSUME NEW c \in Carriers, AckInWindow(s, c) PROVE Transfers
  <2> DEFINE m == Head(inbox[s][c])
  <2>1. inbox[s][c] # <<>> /\ m.type \in {"Ack", "Duplicate"} /\ InWindow(tx[s], m.next_offset)
    BY <1>4 DEF AckInWindow, Arrives
  <2>2. m \in InFlight(s) /\ m.next_offset \in Nat BY <2>1, <1>h, FrameFields
  <2>3. PICK j \in 0..Len(tx[s].unacked) :
            /\ Pops(tx[s], m.next_offset, j) /\ ~Splits(tx[s], m.next_offset, j)
            /\ tx' = [tx EXCEPT ![s] = Acknowledge(@, m.next_offset, j)]
    BY <1>4 DEF AckInWindow
  <2>4. inbox' = Consumed(s, c) /\ rx' = rx BY <1>4 DEF AckInWindow
  <2> HIDE DEF m
  <2>5. tx'[s] = Acknowledge(tx[s], m.next_offset, j) /\ \A x \in Sides : x # s => tx'[x] = tx[x]
    BY <1>t, <2>3
  <2>6. \A x \in Sides : TxStep(x) BY <2>1, <2>2, <2>3, <2>5 DEF TxStep
  <2>7. \A x \in Sides : RxStep(x) BY <2>4 DEF RxStep
  <2> QED BY <1>c, <2>1, <2>4, <2>6, <2>7 DEF Transfers
<1>5. ASSUME NEW c \in Carriers, FinInOrder(s, c) PROVE Transfers
  <2> DEFINE f == FinAck(rx[s].receive_offset)
             m == Head(inbox[s][c])
  <2>1. f \in Frame /\ inbox[s][c] # <<>> BY <1>5, FrameTypes, Fields DEF FinInOrder, Arrives
  <2>2. tx' = tx /\ rx'[s] = [rx[s] EXCEPT !.remote_eof = TRUE]
        /\ \A x \in Sides : x # s => rx'[x] = rx[x]
    BY <1>5, <1>t DEF FinInOrder
  <2>3. rx'[s].remote_eof /\ rx'[s].receive_offset = rx[s].receive_offset
    BY <1>t, <2>2 DEF RxState
  <2>4. Speaks(Peer(s), f) BY <1>t, <2>3 DEF Speaks, FinAck, IsAnswer
  <2>5. inbox' = Reply(s, c, f) BY <1>5 DEF FinInOrder
  <2>6. m \in InFlight(s) /\ m.type = "Fin" /\ m.final_offset = rx[s].receive_offset
    BY <1>5, <1>h, <2>1 DEF FinInOrder, Arrives
  <2> HIDE DEF m
  <2>7. \A x \in Sides : RxStep(x) BY <2>2, <2>6 DEF RxStep
  <2>8. \A x \in Sides : TxStep(x) BY <2>2 DEF TxStep
  <2> QED BY <2>1, <2>4, <2>5, <2>7, <2>8, Replied DEF Transfers
<1>6. ASSUME NEW c \in Carriers, FinAckInOrder(s, c) PROVE Transfers
  <2> DEFINE m == Head(inbox[s][c])
  <2>1. /\ inbox[s][c] # <<>> /\ m.type = "FinAck" /\ tx[s].local_eof
        /\ m.final_offset = tx[s].send_offset
    BY <1>6 DEF FinAckInOrder, Arrives
  <2>2. m \in InFlight(s) BY <1>h, <2>1
  <2>3. tx'[s] = [tx[s] EXCEPT !.fin_acked = TRUE] /\ \A x \in Sides : x # s => tx'[x] = tx[x]
    BY <1>6, <1>t DEF FinAckInOrder
  <2>4. inbox' = Consumed(s, c) /\ rx' = rx BY <1>6 DEF FinAckInOrder
  <2> HIDE DEF m
  <2>5. \A x \in Sides : TxStep(x) BY <2>1, <2>2, <2>3 DEF TxStep
  <2>6. \A x \in Sides : RxStep(x) BY <2>4 DEF RxStep
  <2> QED BY <1>c, <2>1, <2>4, <2>5, <2>6 DEF Transfers
<1> QED BY <1>1, <1>2, <1>3, <1>4, <1>5, <1>6

LEMMA Deafened ==
  ASSUME TypeOK, NEW s \in Sides, inbox' = Deaf(s)
  PROVE  \A x \in Sides : FrameStep(x)
  BY FlyingDeaf, NothingSent DEF TypeOK, Boxes

LEMMA SameHome ==
  ASSUME TypeOK, home' = home
  PROVE  HomeStep
  BY DEF HomeStep

LEMMA SameTravel ==
  ASSUME travel'.phase = travel.phase
  PROVE  TravelStep
  BY DEF TravelStep

LEMMA TravelEffects ==
  ASSUME TypeOK, TravelNext
  PROVE  Effects
<1>t. /\ tx \in [Sides -> TxState] /\ rx \in [Sides -> RxState] /\ inbox \in Boxes
      /\ travel \in TravelState
      /\ "travel" \in Sides /\ "home" \in Sides
      /\ Peer("travel") = "home" /\ Peer("home") = "travel"
      /\ travel.carriers \subseteq Carriers
  BY DEF TypeOK, Boxes, Sides, Peer, TravelState
<1>f. \A x \in Sides : Flying(inbox, x) \subseteq InFlight(x) BY DEF InFlight
<1>h. ASSUME NEW c \in Carriers, inbox["travel"][c] # <<>>
      PROVE  /\ Head(inbox["travel"][c]) \in InFlight("travel")
             /\ Head(inbox["travel"][c]) \in Frame
             /\ Consumed("travel", c) \in Boxes
             /\ \A x \in Sides : Flying(Consumed("travel", c), x) \subseteq InFlight(x)
  BY <1>h, <1>t, FlyingConsumed, ConsumedType
<1>q. ASSUME tx' = tx, rx' = rx, home' = home, travel'.phase = travel.phase,
             \A x \in Sides : FrameStep(x)
      PROVE  Effects
  BY <1>q, Untouched, SameHome, SameTravel DEF Effects, Transfers
<1>e. ASSUME NEW reason, TravelFails(reason), \A x \in Sides : RxStep(x)
      PROVE  Effects
  <2>1. inbox' = Deaf("travel") /\ tx' = tx /\ home' = home /\ travel'.phase = "failed"
    BY <1>e, <1>t DEF TravelFails, TravelState
  <2>2. TravelStep /\ HomeStep BY <2>1, SameHome DEF TravelStep
  <2>3. \A x \in Sides : TxStep(x) BY <2>1 DEF TxStep
  <2> QED BY <1>e, <1>t, <2>1, <2>2, <2>3, Deafened DEF Effects, Transfers
<1>1. CASE TravelCompletes
  <2>1. /\ inbox' = Deaf("travel") /\ tx' = tx /\ rx' = rx /\ home' = home
        /\ tx["travel"].fin_acked
    BY <1>1 DEF TravelCompletes, Complete
  <2>2. travel'.phase = "finished" BY <1>1, <1>t DEF TravelCompletes, TravelState
  <2> QED BY <1>t, <2>1, <2>2, Deafened, Untouched, SameHome DEF Effects, Transfers, TravelStep
<1>2. CASE TravelDrainTimesOut \/ RecoveryExpires \/ TravelStops
  <2>1. \E reason : TravelFails(reason) /\ rx' = rx
    BY <1>2 DEF TravelDrainTimesOut, RecoveryExpires, TravelStops
  <2>2. \A x \in Sides : RxStep(x) BY <2>1 DEF RxStep
  <2> QED BY <1>e, <2>1, <2>2
<1>3. ASSUME NEW S \in SUBSET Relays, StartRace(S) PROVE Effects
  <2> DEFINE f == Race(travel.race + 1, tx["travel"].send_acked)
  <2>1. travel.race + 1 \in Nat BY <1>t, FlowConstants DEF TravelState
  <2>2. f \in Frame BY <1>t, <2>1, FrameTypes, Fields
  <2>3. travel'.racing /\ travel'.race = travel.race + 1 /\ travel'.phase = travel.phase
    BY <1>3, <1>t DEF StartRace, TravelState
  <2>4. tx' = tx /\ rx' = rx /\ home' = home BY <1>3 DEF StartRace
  <2>5. Speaks("home", f) BY <1>t, <2>3, <2>4 DEF Speaks, Race, IsAnswer
  <2>6. inbox' = Sent(inbox, "travel", travel.carriers, travel.active, <<f>>)
    BY <1>3 DEF StartRace
  <2>7. \A x \in Sides : FrameStep(x) BY <1>t, <1>f, <2>2, <2>5, <2>6, OneFrameSent
  <2> QED BY <1>q, <2>3, <2>4, <2>7
<1>4. CASE RaceTimesOut
  <2>1. inbox' = [inbox EXCEPT !["travel"] =
            [x \in Carriers |-> IF x \in travel.opening THEN <<>> ELSE @[x]]]
    BY <1>4 DEF RaceTimesOut
  <2>c. \A x \in Sides, d \in Carriers : inbox'[x][d] = inbox[x][d] \/ inbox'[x][d] = <<>>
    BY <1>t, <2>1 DEF Boxes
  <2>2. \A x \in Sides : Flying(inbox', x) \subseteq InFlight(x)
    BY <2>c, FlyingShrinks DEF InFlight
  <2>3. \A x \in Sides : FrameStep(x) BY <2>2 DEF FrameStep, InFlight
  <2>4. tx' = tx /\ rx' = rx /\ home' = home /\ travel'.phase = travel.phase
    BY <1>4, <1>t DEF RaceTimesOut, TravelState
  <2> QED BY <1>q, <2>3, <2>4
<1>5. ASSUME NEW c \in Carriers, Opened(c) PROVE Effects
  <2> DEFINE m == Head(inbox["travel"][c])
             n == m.receive_offset
             f == Race(travel.race, n)
  <2>1. /\ inbox["travel"][c] # <<>> /\ m.type = "OpenOk" /\ travel.racing
        /\ InWindow(tx["travel"], n)
    BY <1>5 DEF Opened, Arrives
  <2>2. m \in InFlight("travel") /\ n \in Nat BY <1>h, <2>1, FrameFields
  <2>3. PICK j \in 0..Len(tx["travel"].unacked) :
            /\ Pops(tx["travel"], n, j) /\ ~Splits(tx["travel"], n, j)
            /\ tx' = [tx EXCEPT !["travel"] = Acknowledge(@, n, j)]
    BY <1>5 DEF Opened
  <2>4. rx' = rx /\ home' = home BY <1>5 DEF Opened
  <2>5. travel'.phase = travel.phase /\ travel'.racing = travel.racing /\ travel'.race = travel.race
    BY <1>5, <1>t DEF Opened, TravelState
  <2>6. inbox' = Sent(Consumed("travel", c), "travel", {c}, c, <<f>>) BY <1>5 DEF Opened
  <2> HIDE DEF m
  <2>7. tx'["travel"] = Acknowledge(tx["travel"], n, j) /\ tx'["home"] = tx["home"]
    BY <1>t, <2>3
  <2>8. \A x \in Sides : TxStep(x)
    <3>1. TxStep("travel") BY <2>1, <2>2, <2>3, <2>7 DEF TxStep
    <3>2. TxStep("home") BY <2>7 DEF TxStep
    <3> QED BY <3>1, <3>2 DEF Sides
  <2>9. \A x \in Sides : RxStep(x) BY <2>4 DEF RxStep
  <2>10. f \in Frame
    <3>1. travel.race \in Nat BY <1>t, FlowConstants DEF TravelState
    <3> QED BY <2>2, <3>1, FrameTypes
  <2>a. tx'["travel"].send_acked = n BY <1>t, <2>7 DEF Acknowledge, TxState
  <2>11. Speaks("home", f) BY <1>t, <2>1, <2>5, <2>a DEF Speaks, Race, IsAnswer
  <2>12. \A x \in Sides : FrameStep(x)
    <3>1. {c} \subseteq Carriers OBVIOUS
    <3> QED BY <1>h, <1>t, <2>1, <2>6, <2>10, <2>11, <3>1, OneFrameSent
  <2> QED BY <2>4, <2>5, <2>8, <2>9, <2>12, SameHome, SameTravel DEF Effects, Transfers
<1>6. ASSUME NEW c \in Carriers, OpenedInconsistent(c) \/ TravelBails(c) PROVE Effects
  <2>1. \E reason : TravelFails(reason) /\ rx' = rx
    BY <1>6 DEF OpenedInconsistent, TravelBails
  <2>2. \A x \in Sides : RxStep(x) BY <2>1 DEF RxStep
  <2> QED BY <1>e, <2>1, <2>2
<1>7. ASSUME NEW c \in Carriers, OpenFailed(c) \/ TravelCarrierClosed(c) PROVE Effects
  <2>1. inbox' = [inbox EXCEPT !["travel"][c] = <<>>] BY <1>7 DEF OpenFailed, TravelCarrierClosed
  <2>2. \A x \in Sides : Flying(inbox', x) \subseteq InFlight(x)
    BY <1>t, <2>1, FlyingCleared DEF InFlight
  <2>3. \A x \in Sides : FrameStep(x) BY <2>2 DEF FrameStep, InFlight
  <2>4. tx' = tx /\ rx' = rx /\ home' = home /\ travel'.phase = travel.phase
    BY <1>7, <1>t DEF OpenFailed, TravelCarrierClosed, TravelState
  <2> QED BY <1>q, <2>3, <2>4
<1>8. ASSUME NEW c \in Carriers, RaceAnswered(c) PROVE Effects
  <2> DEFINE m == Head(inbox["travel"][c])
             kept == travel.carriers \cap {m.winner}
             cut == [Consumed("travel", c) EXCEPT !["travel"] =
                        [x \in Carriers |-> IF x \in travel.opening THEN <<>> ELSE @[x]]]
             fs == Retransmission(tx["travel"], 0)
  <2>1. inbox["travel"][c] # <<>> BY <1>8 DEF RaceAnswered, Arrives
  <2>2. tx' = tx /\ rx' = rx /\ home' = home /\ travel'.phase = travel.phase
    BY <1>8, <1>t DEF RaceAnswered, TravelState
  <2>3. inbox' = Sent(cut, "travel", kept, m.winner, fs) BY <1>8 DEF RaceAnswered
  <2>4. cut \in Boxes BY <1>h, <1>t, <2>1, ClearedType
  <2>5. \A x \in Sides : Flying(cut, x) \subseteq InFlight(x)
    <3> DEFINE box == Consumed("travel", c)
    <3>c. \A x \in Sides, d \in Carriers : cut[x][d] = box[x][d] \/ cut[x][d] = <<>>
      BY <1>h, <2>1 DEF Boxes
    <3> HIDE DEF cut, box
    <3>1. \A x \in Sides : Flying(cut, x) \subseteq Flying(box, x) BY <3>c, FlyingShrinks
    <3> USE DEF box
    <3> QED BY <1>h, <2>1, <3>1
  <2>6. fs \in Seq(Frame) BY <1>t, Fields, RetransmissionType
  <2>7. \A i \in 1..Len(fs) : Speaks("home", fs[i]) BY <1>t, <2>2, RetransmissionSpeaks
  <2>8. kept \subseteq Carriers BY <1>t
  <2> HIDE DEF m, kept, cut, fs
  <2>9. \A x \in Sides : FrameStep(x)
    BY <1>t, <2>3, <2>4, <2>5, <2>6, <2>7, <2>8, FramesSent
  <2> QED BY <1>q, <2>2, <2>9
<1>9. ASSUME NEW c \in Carriers, RaceAnswerIgnored(c) PROVE Effects
  <2>1. inbox["travel"][c] # <<>> /\ inbox' = Consumed("travel", c)
    BY <1>9 DEF RaceAnswerIgnored, Arrives
  <2>2. \A x \in Sides : FrameStep(x) BY <1>h, <2>1, NothingSent
  <2> QED BY <1>9, <1>q, <2>2 DEF RaceAnswerIgnored
<1>10. ASSUME NEW c \in Carriers, TravelData(c) PROVE Effects
  <2> DEFINE m == Head(inbox["travel"][c])
             f == Ack(End(m))
  <2>1. /\ inbox["travel"][c] # <<>> /\ m.type = "Data"
        /\ m.offset = rx["travel"].receive_offset /\ travel.phase = "running"
    BY <1>10 DEF TravelData, Arrives, Polls
  <2>2. m \in InFlight("travel") /\ m \in Frame BY <1>h, <2>1
  <2>3. End(m) \in Nat BY <2>1, <2>2, FrameFields DEF End
  <2>4. rx' = [rx EXCEPT !["travel"].receive_offset = End(m)] /\ tx' = tx /\ home' = home
    BY <1>10 DEF TravelData
  <2>5. travel'.phase = travel.phase BY <1>10, <1>t DEF TravelData, TravelState
  <2>6. inbox' = Reply("travel", c, f) BY <1>10 DEF TravelData
  <2> HIDE DEF m
  <2>7. /\ rx'["travel"] = [rx["travel"] EXCEPT !.receive_offset = End(m)]
        /\ rx'["home"] = rx["home"]
    BY <1>t, <2>4
  <2>8. rx'["travel"].receive_offset = End(m) BY <1>t, <2>7 DEF RxState
  <2>9. Speaks("home", f) BY <1>t, <2>1, <2>5, <2>8 DEF Speaks, Ack, IsAnswer
  <2>10. f \in Frame BY <2>3, FrameTypes
  <2>11. \A x \in Sides : FrameStep(x) BY <1>t, <2>1, <2>6, <2>9, <2>10, Replied
  <2>12. \A x \in Sides : RxStep(x)
    <3>1. RxStep("travel") BY <2>1, <2>2, <2>7 DEF RxStep
    <3>2. RxStep("home") BY <2>7 DEF RxStep
    <3> QED BY <3>1, <3>2 DEF Sides
  <2>13. \A x \in Sides : TxStep(x) BY <2>4 DEF TxStep
  <2> QED BY <2>4, <2>5, <2>11, <2>12, <2>13, SameHome, SameTravel DEF Effects, Transfers
<1>11. ASSUME NEW c \in Carriers, LocalWriteFails(c) PROVE Effects
  <2>1. \E reason, n : TravelFails(reason) /\ rx' = [rx EXCEPT !["travel"].receive_offset = n]
    BY <1>11 DEF LocalWriteFails
  <2>2. rx'["home"] = rx["home"] BY <1>t, <2>1
  <2>3. travel'.phase = "failed" BY <1>t, <2>1 DEF TravelFails, TravelState
  <2>4. \A x \in Sides : RxStep(x) BY <2>2, <2>3 DEF RxStep, Sides
  <2> QED BY <1>e, <2>1, <2>4
<1>s. ASSUME Transfers, travel' = travel, home' = home PROVE Effects
  BY <1>s, SameHome, SameTravel DEF Effects
<1>12. ASSUME NEW c \in Carriers,
              TravelDuplicate(c) \/ TravelAck(c) \/ TravelFin(c) \/ TravelFinAck(c)
       PROVE  Effects
  <2>1. Transfers
    BY <1>12, <1>t, SharedEffects DEF TravelDuplicate, TravelAck, TravelFin, TravelFinAck
  <2>2. travel' = travel /\ home' = home
    BY <1>12 DEF TravelDuplicate, TravelAck, TravelFin, TravelFinAck,
       DataDuplicate, AckInWindow, FinInOrder, FinAckInOrder
  <2> QED BY <1>s, <2>1, <2>2
<1>13. ASSUME NEW len \in SegLens, LocalData(len) PROVE Effects
  <2>1. Transfers BY <1>13, <1>t, SharedEffects DEF LocalData
  <2> QED BY <1>13, <1>s, <2>1 DEF LocalData, ReadData
<1>14. CASE LocalEof
  <2>1. Transfers BY <1>14, <1>t, SharedEffects DEF LocalEof
  <2> QED BY <1>14, <1>s, <2>1 DEF LocalEof, ReadEof
<1>15. CASE RecoveryTimePasses
  <2>1. inbox' = inbox /\ tx' = tx /\ rx' = rx /\ home' = home /\ travel'.phase = travel.phase
    BY <1>15, <1>t DEF RecoveryTimePasses, TravelState
  <2>2. \A x \in Sides : FrameStep(x) BY <2>1, <1>f, NothingSent
  <2> QED BY <1>q, <2>1, <2>2
<1> QED
  BY <1>1, <1>2, <1>3, <1>4, <1>5, <1>6, <1>7, <1>8, <1>9, <1>10, <1>11, <1>12, <1>13, <1>14, <1>15
  DEF TravelNext

LEMMA HomeEndsEffects ==
  ASSUME TypeOK, NEW outcome, NEW links, HomeEnds(outcome, links)
  PROVE  Effects
<1>1. /\ tx' = tx /\ rx' = rx /\ travel' = travel /\ inbox' = Deaf("home")
      /\ home'.inc = home.inc /\ home'.past = home.past
      /\ home'.race_winners = <<>> /\ home'.phase = "absent"
  BY DEF HomeEnds, TypeOK, HomeState
<1>2. HomeStep BY <1>1 DEF HomeStep
<1>3. "home" \in Sides BY DEF Sides
<1> QED BY <1>1, <1>2, <1>3, Deafened, Untouched, SameTravel DEF Effects, Transfers

\* A Carrier reaches Home: its flow is there, or a new one is made.
LEMMA AttachEffects ==
  ASSUME TypeOK, NEW queued, Attaches(queued), inbox' = inbox, travel' = travel
  PROVE  NewHome \/ Effects
<1>t. home \in HomeState BY DEF TypeOK
<1>1. CASE home.phase # "absent"
  <2>1. tx' = tx /\ rx' = rx /\ home' = [home EXCEPT !.incoming = @ \cup queued]
    BY <1>1 DEF Attaches
  <2>2. /\ home'.phase = home.phase /\ home'.inc = home.inc /\ home'.past = home.past
        /\ home'.race_winners = home.race_winners
    BY <1>t, <2>1 DEF HomeState
  <2>3. HomeStep BY <2>2 DEF HomeStep
  <2>4. \A x \in Sides : FrameStep(x) BY NothingSent DEF InFlight
  <2> QED BY <2>1, <2>3, <2>4, Untouched, SameTravel DEF Effects, Transfers
<1>2. CASE home.phase = "absent"
  <2>1. /\ home' = [home EXCEPT !.phase = "connecting", !.inc = @ + 1, !.outcome = "none",
                                !.incoming = queued,
                                !.past = IF home.inc = 0 THEN {} ELSE @ \cup {rx["home"]}]
        /\ tx' = [tx EXCEPT !["home"] = NewTx] /\ rx' = [rx EXCEPT !["home"] = NewRx]
    BY <1>2 DEF Attaches
  <2>2. /\ home'.phase = "connecting" /\ home'.inc = home.inc + 1
        /\ home'.race_winners = home.race_winners
        /\ home'.past = IF home.inc = 0 THEN {} ELSE home.past \cup {rx["home"]}
    BY <1>t, <2>1 DEF HomeState
  <2> QED BY <1>2, <2>1, <2>2 DEF NewHome
<1> QED BY <1>1, <1>2

\* A winner that is known already is remembered.
LEMMA WinnersRemembered ==
  ASSUME NEW r, NEW w \in Winners(r)
  PROVE  w \in Carriers /\ [race |-> r, winner |-> w] \in Remembered
  BY DEF Winners, Remembered

\* The race that c wins is remembered, whatever falls out of the history.
LEMMA RememberLast ==
  ASSUME TypeOK, NEW e, e \in [race : Nat, winner : Carriers]
  PROVE  \E i \in 1..Len(Remember(home.race_winners, e)) :
             Remember(home.race_winners, e)[i] = e
<1> DEFINE E == [race : Nat, winner : Carriers]
           q == home.race_winners
<1>1. q \in Seq(E) /\ Len(q) \in Nat BY LenProperties DEF TypeOK, HomeState
<1>2. CASE Len(q) < RaceHistory
  <2>1. Remember(q, e) = Append(q, e) BY <1>2 DEF Remember
  <2>2. Append(q, e)[Len(q) + 1] = e /\ Len(Append(q, e)) = Len(q) + 1
    BY <1>1, AppendProperties
  <2>3. Len(q) + 1 \in 1..Len(Append(q, e)) BY <1>1, <2>2
  <2> QED BY <2>1, <2>2, <2>3
<1>3. CASE ~(Len(q) < RaceHistory)
  <2> DEFINE p == Tail(q)
  <2>1. Remember(q, e) = Append(p, e) BY <1>3 DEF Remember
  <2>2. q # <<>> BY <1>1, <1>3, FlowConstants, EmptySeq
  <2>3. p \in Seq(E) /\ Len(p) \in Nat BY <1>1, <2>2, HeadTailProperties, LenProperties
  <2> HIDE DEF p
  <2>4. Append(p, e)[Len(p) + 1] = e /\ Len(Append(p, e)) = Len(p) + 1
    BY <2>3, AppendProperties
  <2>5. Len(p) + 1 \in 1..Len(Append(p, e)) BY <2>3, <2>4
  <2> QED BY <2>1, <2>4, <2>5
<1> QED BY <1>2, <1>3

LEMMA HomeEffects ==
  ASSUME TypeOK, HomeNext
  PROVE  NewHome \/ Effects
<1>t. /\ tx \in [Sides -> TxState] /\ rx \in [Sides -> RxState] /\ inbox \in Boxes
      /\ home \in HomeState
      /\ "travel" \in Sides /\ "home" \in Sides
      /\ Peer("travel") = "home" /\ Peer("home") = "travel"
      /\ home.carriers \subseteq Carriers /\ home.inc \in Nat
  BY FlowConstants DEF TypeOK, Boxes, Sides, Peer, HomeState
<1>f. \A x \in Sides : Flying(inbox, x) \subseteq InFlight(x) BY DEF InFlight
<1>h. ASSUME NEW c \in Carriers, inbox["home"][c] # <<>>
      PROVE  /\ Head(inbox["home"][c]) \in InFlight("home")
             /\ Head(inbox["home"][c]) \in Frame
             /\ Consumed("home", c) \in Boxes
             /\ \A x \in Sides : Flying(Consumed("home", c), x) \subseteq InFlight(x)
  BY <1>h, <1>t, FlyingConsumed, ConsumedType
<1>k. ASSUME home'.inc = home.inc, home'.past = home.past, home'.phase # "absent",
             home.phase # "absent", home'.race_winners = home.race_winners
      PROVE  HomeStep
  BY <1>k DEF HomeStep
<1>q. ASSUME tx' = tx, rx' = rx, travel' = travel, HomeStep, \A x \in Sides : FrameStep(x)
      PROVE  Effects
  BY <1>q, Untouched, SameTravel DEF Effects, Transfers
<1>1. ASSUME NEW c \in Carriers, Attach(c) \/ AttachNoSlot(c) PROVE NewHome \/ Effects
  BY <1>1, AttachEffects DEF Attach, AttachNoSlot
<1>2. ASSUME NEW c \in Carriers, AttachRejected(c) PROVE Effects
  <2>1. \A x \in Sides : FrameStep(x) BY <1>2, <1>f, NothingSent DEF AttachRejected
  <2> QED BY <1>2, <1>q, <2>1, SameHome DEF AttachRejected
<1>3. ASSUME NEW c \in Carriers, Admit(c) PROVE Effects
  <2> DEFINE f == OpenOk(rx["home"].receive_offset, tx["home"].send_acked)
             new == [inbox EXCEPT !["travel"][c] = <<f>>]
  <2>1. rx' = rx /\ tx' = tx /\ travel' = travel BY <1>3 DEF Admit
  <2>2. home.phase = "running" BY <1>3 DEF Admit, Polls
  <2>3. /\ home'.phase = home.phase /\ home'.inc = home.inc /\ home'.past = home.past
        /\ home'.race_winners = home.race_winners
    BY <1>3, <1>t DEF Admit, HomeState
  <2>4. inbox' = new \/ inbox' = inbox BY <1>3 DEF Admit
  <2>5. Speaks("travel", f) BY <1>t, <2>1 DEF Speaks, OpenOk, IsAnswer
  <2>6. ASSUME NEW x \in Sides, NEW m \in Flying(new, x) PROVE m \in InFlight(x) \/ Speaks(x, m)
    <3> HIDE DEF f, new
    <3>1. PICK d \in Carriers : \E i \in 1..Len(new[x][d]) : m = new[x][d][i] BY <2>6, FlyingDef
    <3> DEFINE q == new[x][d]
    <3>2. PICK i \in 1..Len(q) : m = q[i] BY <3>1
    <3> USE DEF new
    <3>3. CASE x = "travel" /\ d = c
      <4>1. q = <<f>> BY <1>t, <3>3 DEF Boxes
      <4> HIDE DEF q
      <4>2. m = f BY <3>2, <4>1
      <4> QED BY <2>5, <3>3, <4>2
    <3>4. CASE ~(x = "travel" /\ d = c)
      <4>1. q = inbox[x][d] BY <1>t, <3>4 DEF Boxes
      <4> QED BY <3>2, <4>1, FlyingDef DEF InFlight
    <3> QED BY <3>3, <3>4
  <2> HIDE DEF new
  <2>7. \A x \in Sides : FrameStep(x) BY <1>f, <2>4, <2>6 DEF FrameStep, InFlight
  <2> QED BY <1>k, <1>q, <2>1, <2>2, <2>3, <2>7
<1>4. ASSUME NEW c \in Carriers, HomeRaceWon(c) PROVE Effects
  <2> DEFINE m == Head(inbox["home"][c])
             e == [race |-> m.race, winner |-> c]
             a == <<RaceAck(m.race, c)>>
             b == Retransmission(tx["home"], home.inc)
             fs == a \o b
  <2>1. /\ inbox["home"][c] # <<>> /\ m.type = "Race" /\ Winners(m.race) = {}
        /\ home.phase = "running"
    BY <1>4 DEF HomeRaceWon, Arrives, Polls
  <2>2. m \in InFlight("home") /\ m.race \in Nat BY <1>h, <2>1, FrameFields
  <2>3. tx' = tx /\ rx' = rx /\ travel' = travel BY <1>4 DEF HomeRaceWon
  <2>4. /\ home'.phase = home.phase /\ home'.inc = home.inc /\ home'.past = home.past
        /\ home'.race_winners = Remember(home.race_winners, e)
    BY <1>4, <1>t DEF HomeRaceWon, HomeState
  <2>5. inbox' = Sent(Consumed("home", c), "home", home.carriers, c, fs)
    BY <1>4 DEF HomeRaceWon
  <2>6. b \in Seq(Frame) BY <1>t, Fields, RetransmissionType
  <2>7. \A i \in 1..Len(b) : Speaks("travel", b[i]) BY <1>t, <2>3, RetransmissionSpeaks
  <2> HIDE DEF m, b
  <2>8. e \in [race : Nat, winner : Carriers] BY <2>2
  <2>9. e \in Remembered' BY <2>4, <2>8, RememberLast DEF Remembered
  <2>10. Speaks("travel", a[1])
    BY <1>t, <2>1, <2>4, <2>9 DEF Speaks, RaceAck, IsAnswer
  <2>11. a \in Seq(Frame) /\ Len(a) = 1 BY <2>2, FrameTypes
  <2> HIDE DEF a
  <2>12. fs \in Seq(Frame) BY <2>6, <2>11, ConcatProperties
  <2>13. \A i \in 1..Len(fs) : Speaks("travel", fs[i])
    <3>1. Len(b) \in Nat /\ Len(fs) = 1 + Len(b) BY <2>6, <2>11, LenProperties, ConcatProperties
    <3>2. \A k \in 1..(1 + Len(b)) : fs[k] = IF k <= 1 THEN a[k] ELSE b[k - 1]
      BY <2>6, <2>11, ConcatProperties
    <3> HIDE DEF fs
    <3>3. ASSUME NEW i \in 1..Len(fs), i = 1 PROVE Speaks("travel", fs[i])
      <4>1. fs[i] = a[1] BY <3>1, <3>2, <3>3
      <4> QED BY <2>10, <4>1
    <3>4. ASSUME NEW i \in 1..Len(fs), i # 1 PROVE Speaks("travel", fs[i])
      <4>1. fs[i] = b[i - 1] /\ i - 1 \in 1..Len(b) BY <3>1, <3>2, <3>4
      <4> QED BY <2>7, <4>1
    <3> QED BY <3>3, <3>4
  <2> HIDE DEF fs
  <2>14. \A x \in Sides : FrameStep(x) BY <1>h, <1>t, <2>1, <2>5, <2>12, <2>13, FramesSent DEF m
  <2>15. HomeStep BY <2>1, <2>2, <2>4 DEF HomeStep
  <2> QED BY <1>q, <2>3, <2>14, <2>15
<1>5. ASSUME NEW c \in Carriers, HomeRaceLost(c) PROVE Effects
  <2> DEFINE m == Head(inbox["home"][c])
  <2>1. inbox["home"][c] # <<>> /\ m.type = "Race" /\ home.phase = "running"
    BY <1>5 DEF HomeRaceLost, Arrives, Polls
  <2>2. m.race \in Nat BY <1>h, <2>1, FrameFields
  <2>3. PICK w \in Winners(m.race) : inbox' = Reply("home", c, RaceDuplicate(m.race, w))
    BY <1>5 DEF HomeRaceLost
  <2> HIDE DEF m
  <2> DEFINE f == RaceDuplicate(m.race, w)
  <2>4. w \in Carriers /\ [race |-> m.race, winner |-> w] \in Remembered BY WinnersRemembered
  <2>5. home' = home /\ tx' = tx /\ rx' = rx /\ travel' = travel BY <1>5 DEF HomeRaceLost
  <2>6. [race |-> m.race, winner |-> w] \in Remembered' BY <2>4, <2>5 DEF Remembered
  <2>7. Speaks("travel", f) BY <2>1, <2>5, <2>6 DEF Speaks, RaceDuplicate, IsAnswer
  <2>8. f \in Frame BY <2>2, <2>4, FrameTypes
  <2>9. \A x \in Sides : FrameStep(x) BY <1>t, <2>1, <2>3, <2>7, <2>8, Replied
  <2> QED BY <1>q, <2>5, <2>9, SameHome
<1>6. ASSUME NEW c \in Carriers, HomeData(c) PROVE Effects
  <2> DEFINE m == Head(inbox["home"][c])
             f == Ack(End(m))
  <2>1. /\ inbox["home"][c] # <<>> /\ m.type = "Data"
        /\ m.offset = rx["home"].receive_offset
    BY <1>6 DEF HomeData, Arrives
  <2>2. m \in InFlight("home") /\ m \in Frame BY <1>h, <2>1
  <2>3. End(m) \in Nat BY <2>1, <2>2, FrameFields DEF End
  <2>4. /\ rx' = [rx EXCEPT !["home"].receive_offset = End(m)]
        /\ tx' = tx /\ home' = home /\ travel' = travel
    BY <1>6 DEF HomeData
  <2>5. inbox' = Reply("home", c, f) BY <1>6 DEF HomeData
  <2> HIDE DEF m
  <2>6. /\ rx'["home"] = [rx["home"] EXCEPT !.receive_offset = End(m)]
        /\ rx'["travel"] = rx["travel"]
    BY <1>t, <2>4
  <2>7. rx'["home"].receive_offset = End(m) BY <1>t, <2>6 DEF RxState
  <2>8. Speaks("travel", f) BY <1>t, <2>1, <2>7 DEF Speaks, Ack, IsAnswer
  <2>9. f \in Frame BY <2>3, FrameTypes
  <2>10. \A x \in Sides : FrameStep(x) BY <1>t, <2>1, <2>5, <2>8, <2>9, Replied
  <2>11. \A x \in Sides : RxStep(x)
    <3>1. RxStep("home") BY <2>1, <2>2, <2>6 DEF RxStep
    <3>2. RxStep("travel") BY <2>6 DEF RxStep
    <3> QED BY <3>1, <3>2 DEF Sides
  <2>12. \A x \in Sides : TxStep(x) BY <2>4 DEF TxStep
  <2> QED BY <2>4, <2>10, <2>11, <2>12, SameHome, SameTravel DEF Effects, Transfers
<1>s. ASSUME Transfers, travel' = travel, home' = home PROVE Effects
  BY <1>s, SameHome, SameTravel DEF Effects
<1>7. ASSUME NEW c \in Carriers, HomeDuplicate(c) \/ HomeFin(c) \/ HomeFinAck(c) PROVE Effects
  <2>1. Transfers BY <1>7, <1>t, SharedEffects DEF HomeDuplicate, HomeFin, HomeFinAck
  <2>2. travel' = travel /\ home' = home
    BY <1>7 DEF HomeDuplicate, HomeFin, HomeFinAck, DataDuplicate, FinInOrder, FinAckInOrder
  <2> QED BY <1>s, <2>1, <2>2
<1>8. ASSUME NEW c \in Carriers, HomeAck(c) PROVE Effects
  <2>1. CASE AckSplits("home", c) BY <1>8, <2>1, HomeEndsEffects DEF HomeAck, HomeFails
  <2>2. CASE ~AckSplits("home", c)
    <3>1. AckInWindow("home", c) BY <1>8, <2>2 DEF HomeAck
    <3>2. Transfers BY <1>t, <3>1, SharedEffects
    <3> QED BY <1>s, <3>1, <3>2 DEF AckInWindow
  <2> QED BY <2>1, <2>2
<1>9. ASSUME NEW c \in Carriers, HomeObjects(c) PROVE Effects
  <2>1. inbox["home"][c] # <<>> BY <1>9 DEF HomeObjects, Arrives, OutOfOrder
  <2>2. /\ inbox' = Reply("home", c, Close)
        /\ tx' = tx /\ rx' = rx /\ travel' = travel /\ home' = home
    BY <1>9 DEF HomeObjects
  <2>3. \A x \in Sides : FrameStep(x)
    <3>1. CASE link[c] = "up"
      <4>1. Close \in Frame /\ Speaks("travel", Close)
        BY <1>9, <3>1, FrameTypes DEF Speaks, Close, IsAnswer
      <4> QED BY <1>t, <2>1, <2>2, <4>1, Replied
    <3>2. CASE link[c] # "up"
      <4>1. inbox' = Consumed("home", c) BY <2>2, <3>2 DEF Reply, Sent, Consumed
      <4> QED BY <1>h, <2>1, <4>1, NothingSent
    <3> QED BY <3>1, <3>2
  <2> QED BY <1>q, <2>2, <2>3, SameHome
<1>10. ASSUME NEW c \in Carriers, HomeCarrierClosed(c) PROVE Effects
  <2>1. inbox' = [inbox EXCEPT !["home"][c] = <<>>]
        /\ tx' = tx /\ rx' = rx /\ travel' = travel
    BY <1>10 DEF HomeCarrierClosed
  <2>2. \A x \in Sides : Flying(inbox', x) \subseteq InFlight(x)
    BY <1>t, <2>1, FlyingCleared DEF InFlight
  <2>3. \A x \in Sides : FrameStep(x) BY <2>2 DEF FrameStep, InFlight
  <2>4. /\ home.phase = "running" /\ home'.phase = home.phase /\ home'.inc = home.inc
        /\ home'.past = home.past /\ home'.race_winners = home.race_winners
    BY <1>10, <1>t DEF HomeCarrierClosed, Polls, HomeState
  <2> QED BY <1>k, <1>q, <2>1, <2>3, <2>4
<1>11. CASE TargetConnects
  <2>1. inbox' = inbox /\ tx' = tx /\ rx' = rx /\ travel' = travel
    BY <1>11 DEF TargetConnects
  <2>2. /\ home.phase = "connecting" /\ home'.phase = "running" /\ home'.inc = home.inc
        /\ home'.past = home.past /\ home'.race_winners = home.race_winners
    BY <1>11, <1>t DEF TargetConnects, HomeState
  <2>3. \A x \in Sides : FrameStep(x) BY <1>f, <2>1, NothingSent
  <2> QED BY <1>k, <1>q, <2>1, <2>2, <2>3
<1>12. ASSUME NEW len \in SegLens, TargetData(len) PROVE Effects
  <2>1. Transfers BY <1>12, <1>t, SharedEffects DEF TargetData
  <2> QED BY <1>12, <1>s, <2>1 DEF TargetData, ReadData
<1>13. CASE TargetEof
  <2>1. Transfers BY <1>13, <1>t, SharedEffects DEF TargetEof
  <2> QED BY <1>13, <1>s, <2>1 DEF TargetEof, ReadEof
<1>14. ASSUME NEW c \in Carriers, AdmitFails(c) PROVE Effects
  BY <1>14, HomeEndsEffects DEF AdmitFails, HomeFails
<1>15. CASE DetachExpires \/ HomeStops \/ HomeDrainTimesOut \/ HomeCompletes
  BY <1>15, HomeEndsEffects
  DEF DetachExpires, HomeStops, HomeDrainTimesOut, HomeCompletes, HomeFails
<1> QED
  BY <1>1, <1>2, <1>3, <1>4, <1>5, <1>6, <1>7, <1>8, <1>9, <1>10, <1>11, <1>12, <1>13, <1>14, <1>15
  DEF HomeNext

LEMMA NextEffects ==
  ASSUME TypeOK, [Next]_vars
  PROVE  NewHome \/ Effects
<1>f. \A x \in Sides : Flying(inbox, x) \subseteq InFlight(x) BY DEF InFlight
<1>1. CASE UNCHANGED <<tx, rx, inbox, travel, home>>
  <2>1. \A x \in Sides : FrameStep(x) BY <1>1, <1>f, NothingSent
  <2> QED BY <1>1, <2>1, Untouched, SameHome, SameTravel DEF Effects, Transfers
<1>2. ASSUME NEW c \in Carriers, Break(c) PROVE UNCHANGED <<tx, rx, inbox, travel, home>>
  BY <1>2 DEF Break
<1> QED BY <1>1, <1>2, TravelEffects, HomeEffects DEF Next, vars

-----------------------------------------------------------------------------
(* The queue of a sender.                                                   *)

\* QueueIsTheWindow for one sender.
WindowOK(t) ==
    LET q == t.unacked IN
    /\ t.send_acked <= t.send_offset
    /\ q = <<>> => t.send_acked = t.send_offset
    /\ q # <<>> => q[1].offset = t.send_acked /\ End(q[Len(q)]) = t.send_offset
    /\ \A i \in 1..(Len(q) - 1) : End(q[i]) = q[i + 1].offset
    /\ t.send_offset - t.send_acked <= MaxUnacked

Windows == \A s \in Sides : WindowOK(tx[s])

\* The segments of a queue.
LEMMA QueueFields ==
  ASSUME NEW t \in TxState
  PROVE  /\ t.unacked \in Seq(Segment) /\ Len(t.unacked) \in Nat
         /\ t.send_offset \in Nat /\ t.send_acked \in Nat
         /\ t.unacked = <<>> <=> Len(t.unacked) = 0
         /\ \A i \in 1..Len(t.unacked) :
                t.unacked[i].offset \in Nat /\ t.unacked[i].len \in Nat
                /\ End(t.unacked[i]) \in Nat
<1>1. /\ t.unacked \in Seq(Segment) /\ Len(t.unacked) \in Nat
      /\ t.send_offset \in Nat /\ t.send_acked \in Nat
  BY LenProperties DEF TxState
<1>2. t.unacked = <<>> <=> Len(t.unacked) = 0 BY <1>1, EmptySeq
<1>3. \A i \in 1..Len(t.unacked) : t.unacked[i] \in Segment BY <1>1, ElementOfSeq
<1> QED BY <1>1, <1>2, <1>3 DEF Segment, End

LEMMA WindowBuffer ==
  ASSUME NEW t \in TxState, WindowOK(t), NEW len \in Nat, HasCredit(t, len)
  PROVE  WindowOK(Buffer(t, len))
<1> DEFINE seg == [offset |-> t.send_offset, len |-> len]
           q == t.unacked
           p == Append(q, seg)
           u == Buffer(t, len)
<1>1. /\ q \in Seq(Segment) /\ Len(q) \in Nat /\ t.send_offset \in Nat /\ t.send_acked \in Nat
      /\ (q = <<>> <=> Len(q) = 0)
  BY QueueFields
<1>2. u.unacked = p /\ u.send_acked = t.send_acked /\ u.send_offset = t.send_offset + len
  BY DEF Buffer, TxState
<1>3. seg \in Segment BY <1>1 DEF Segment
<1>4. /\ Len(p) = Len(q) + 1 /\ p[Len(q) + 1] = seg
      /\ \A i \in 1..Len(q) : p[i] = q[i]
  BY <1>1, <1>3, AppendProperties
<1>5. seg.offset = t.send_offset /\ End(seg) = t.send_offset + len BY DEF End
<1> HIDE DEF seg, p, u
<1>6. /\ q # <<>> => q[1].offset = t.send_acked /\ End(q[Len(q)]) = t.send_offset
      /\ q = <<>> => t.send_acked = t.send_offset
      /\ \A i \in 1..(Len(q) - 1) : End(q[i]) = q[i + 1].offset
      /\ t.send_acked <= t.send_offset
  BY DEF WindowOK
<1>7. (t.send_offset - t.send_acked) + len <= MaxUnacked BY DEF HasCredit
<1> HIDE DEF q
<1>8. p # <<>> /\ p[1].offset = t.send_acked /\ End(p[Len(p)]) = u.send_offset
  <2>e. Len(<<>>) = 0 OBVIOUS
  <2>1. CASE q = <<>>
    <3>1. Len(q) = 0 BY <1>1, <2>1
    <3>2. Len(p) = 1 /\ p[1] = seg BY <1>4, <3>1
    <3>3. t.send_acked = t.send_offset BY <1>6, <2>1
    <3>4. p # <<>> BY <2>e, <3>2
    <3> QED BY <1>2, <1>5, <3>2, <3>3, <3>4
  <2>2. CASE q # <<>> BY <1>1, <1>2, <1>4, <1>5, <1>6, <2>2, <2>e
  <2> QED BY <2>1, <2>2
<1>9. ASSUME NEW i \in 1..(Len(p) - 1) PROVE End(p[i]) = p[i + 1].offset
  <2>1. CASE i = Len(q) BY <1>1, <1>4, <1>5, <1>6, <2>1
  <2>2. CASE i # Len(q)
    <3>1. i \in 1..(Len(q) - 1) /\ i \in 1..Len(q) /\ i + 1 \in 1..Len(q)
      BY <1>1, <1>4, <1>9, <2>2
    <3> QED BY <1>4, <1>6, <3>1
  <2> QED BY <2>1, <2>2
<1>10. u.send_acked <= u.send_offset /\ u.send_offset - u.send_acked <= MaxUnacked
  BY <1>1, <1>2, <1>6, <1>7, FlowConstants
<1> QED BY <1>2, <1>8, <1>9, <1>10 DEF WindowOK, u

LEMMA WindowAck ==
  ASSUME NEW t \in TxState, WindowOK(t), NEW n \in Nat, NEW j \in 0..Len(t.unacked),
         InWindow(t, n), Pops(t, n, j), ~Splits(t, n, j)
  PROVE  WindowOK(Acknowledge(t, n, j))
<1> DEFINE q == t.unacked
           p == SubSeq(q, j + 1, Len(q))
           u == Acknowledge(t, n, j)
<1>1. /\ q \in Seq(Segment) /\ Len(q) \in Nat /\ t.send_offset \in Nat /\ t.send_acked \in Nat
      /\ (q = <<>> <=> Len(q) = 0)
      /\ \A i \in 1..Len(q) : q[i].offset \in Nat /\ End(q[i]) \in Nat
  BY QueueFields
<1>2. u.unacked = p /\ u.send_acked = n /\ u.send_offset = t.send_offset
  BY DEF Acknowledge, TxState
<1>3. /\ n >= t.send_acked /\ n <= t.send_offset
      /\ \A i \in 1..j : End(q[i]) <= n
      /\ j < Len(q) => q[j + 1].offset >= n
  <2>1. j < Len(q) => ~(q[j + 1].offset < n) BY DEF Splits
  <2>2. j < Len(q) => j + 1 \in 1..Len(q) BY <1>1
  <2> HIDE DEF q
  <2>3. j < Len(q) => q[j + 1].offset >= n BY <1>1, <2>1, <2>2
  <2> QED BY <2>3 DEF InWindow, Pops, q
<1>4. /\ q # <<>> => q[1].offset = t.send_acked /\ End(q[Len(q)]) = t.send_offset
      /\ q = <<>> => t.send_acked = t.send_offset
      /\ \A i \in 1..(Len(q) - 1) : End(q[i]) = q[i + 1].offset
      /\ t.send_offset - t.send_acked <= MaxUnacked
  BY DEF WindowOK
<1>5. p \in Seq(Segment) /\ Len(p) = Len(q) - j /\ \A i \in 1..Len(p) : p[i] = q[i + j]
  <2>1. j + 1 \in 1..(Len(q) + 1) BY <1>1
  <2>2. \A i \in (j + 1)..Len(q) : q[i] \in Segment BY <1>1, ElementOfSeq
  <2> HIDE DEF q
  <2>3. /\ p \in Seq(Segment)
        /\ Len(p) = IF j + 1 <= Len(q) THEN Len(q) - (j + 1) + 1 ELSE 0
        /\ \A i \in 1..(Len(q) - (j + 1) + 1) : p[i] = q[j + 1 + i - 1]
    BY <1>1, SubSeqProperties
  <2> HIDE DEF p
  <2>4. Len(p) = Len(q) - j BY <1>1, <2>1, <2>3
  <2>5. ASSUME NEW i \in 1..Len(p) PROVE p[i] = q[i + j]
    <3>1. i \in 1..(Len(q) - (j + 1) + 1) /\ j + 1 + i - 1 = i + j BY <1>1, <2>4, <2>5
    <3> QED BY <2>3, <3>1
  <2> QED BY <2>3, <2>4, <2>5
<1>e. p = <<>> <=> Len(p) = 0 BY <1>5, EmptySeq
<1>j. j \in Nat /\ j <= Len(q) BY <1>1
<1> HIDE DEF q, p, u
<1>6. CASE j = Len(q)
  <2>1. p = <<>> BY <1>1, <1>5, <1>6, <1>e
  <2>2. n = t.send_offset
    <3>1. CASE q = <<>> BY <1>1, <1>3, <1>4, <3>1
    <3>2. CASE q # <<>>
      <4>1. Len(q) \in 1..j BY <1>1, <1>6, <3>2
      <4>2. t.send_offset <= n BY <1>3, <1>4, <3>2, <4>1
      <4> QED BY <1>1, <1>3, <4>2
    <3> QED BY <3>1, <3>2
  <2>3. Len(p) = 0 BY <2>1, <1>e
  <2> QED BY <1>1, <1>2, <2>1, <2>2, <2>3, FlowConstants DEF WindowOK, u
<1>7. CASE j # Len(q)
  <2>1. p # <<>> /\ q # <<>> /\ Len(p) \in Nat /\ Len(p) >= 1 BY <1>1, <1>j, <1>5, <1>7, <1>e
  <2>2. p[1] = q[j + 1] /\ p[Len(p)] = q[Len(q)]
    <3>1. 1 \in 1..Len(p) /\ Len(p) \in 1..Len(p) /\ Len(p) + j = Len(q) BY <1>1, <1>j, <1>5, <2>1
    <3>2. p[1] = q[1 + j] /\ p[Len(p)] = q[Len(p) + j] BY <1>5, <3>1
    <3>3. 1 + j = j + 1 BY <1>j
    <3> QED BY <3>1, <3>2, <3>3
  <2>3. q[j + 1].offset <= n
    <3>1. CASE j = 0 BY <1>3, <1>4, <2>1, <3>1
    <3>2. CASE j # 0
      <4>1. j \in 1..(Len(q) - 1) /\ j \in 1..j BY <1>1, <1>j, <1>7, <3>2
      <4> QED BY <1>3, <1>4, <4>1
    <3> QED BY <3>1, <3>2
  <2>4. q[j + 1].offset = n
    <3>1. j + 1 \in 1..Len(q) /\ j < Len(q) BY <1>1, <1>j, <1>7
    <3> QED BY <1>1, <1>3, <2>3, <3>1
  <2>5. ASSUME NEW i \in 1..(Len(p) - 1) PROVE End(p[i]) = p[i + 1].offset
    <3>l. Len(p) = Len(q) - j BY <1>5
    <3>1. i \in 1..Len(p) /\ i + 1 \in 1..Len(p) /\ i + j \in 1..(Len(q) - 1)
          /\ (i + 1) + j = (i + j) + 1
      BY <1>j, <2>1, <2>5, <3>l, <1>1
    <3> QED BY <1>4, <1>5, <3>1
  <2>6. n <= t.send_offset /\ t.send_offset - n <= MaxUnacked
    BY <1>1, <1>3, <1>4, FlowConstants
  <2> QED BY <1>2, <1>4, <2>1, <2>2, <2>4, <2>5, <2>6 DEF WindowOK, u
<1> QED BY <1>6, <1>7

LEMMA WindowNew == WindowOK(NewTx)
<1>1. Len(<<>>) = 0 OBVIOUS
<1> QED BY <1>1, FlowConstants DEF WindowOK, NewTx

LEMMA WindowsNext == TypeOK /\ Windows /\ [Next]_vars => Windows'
<1> SUFFICES ASSUME TypeOK, Windows, [Next]_vars, NEW s \in Sides PROVE WindowOK(tx'[s])
  BY DEF Windows
<1>t. tx[s] \in TxState /\ WindowOK(tx[s]) BY DEF TypeOK, Windows
<1>1. CASE NewHome
  <2>1. tx'[s] = NewTx \/ tx'[s] = tx[s] BY <1>1 DEF NewHome, TypeOK
  <2> QED BY <1>t, <2>1, WindowNew
<1>2. CASE Effects
  <2>1. CASE tx'[s] = tx[s] BY <1>t, <2>1
  <2>2. ASSUME NEW len \in SegLens, HasCredit(tx[s], len), tx'[s] = Buffer(tx[s], len)
        PROVE  WindowOK(tx'[s])
    BY <1>t, <2>2, WindowBuffer, FlowConstants
  <2>3. CASE \/ tx'[s] = [tx[s] EXCEPT !.local_eof = TRUE]
             \/ tx'[s] = [tx[s] EXCEPT !.fin_acked = TRUE]
    <3>1. /\ tx'[s].unacked = tx[s].unacked /\ tx'[s].send_acked = tx[s].send_acked
          /\ tx'[s].send_offset = tx[s].send_offset
      BY <1>t, <2>3 DEF TxState
    <3> QED BY <1>t, <3>1 DEF WindowOK
  <2>4. ASSUME NEW n \in Nat, NEW j \in 0..Len(tx[s].unacked), InWindow(tx[s], n),
               Pops(tx[s], n, j), ~Splits(tx[s], n, j), tx'[s] = Acknowledge(tx[s], n, j)
        PROVE  WindowOK(tx'[s])
    BY <1>t, <2>4, WindowAck
  <2>5. TxStep(s) BY <1>2 DEF Effects, Transfers
  <2> QED BY <2>1, <2>2, <2>3, <2>4, <2>5 DEF TxStep
<1> QED BY <1>1, <1>2, NextEffects

\* The unacknowledged queue is the window of sent and not acknowledged bytes,
\* within the credit, whatever acknowledgements arrive in what order.
THEOREM WindowsInvariant == Spec => []Windows
<1>1. Init => Windows BY WindowNew DEF Init, Windows
<1> QED BY <1>1, TypeCorrect, WindowsNext, PTL DEF Spec

LEMMA WindowsMean == Windows => QueueIsTheWindow
  BY DEF Windows, WindowOK, QueueIsTheWindow

-----------------------------------------------------------------------------
(* The upload, whatever becomes of Home.                                    *)

\* One target got the whole upload, which ends at n.
Taken(n) == \E r \in home.past \cup {rx["home"]} : r.remote_eof /\ r.receive_offset = n

\* Travel's queue and what of it travels stay within what the application wrote;
\* a FIN says where that ends, and an acknowledgement of it where one target was
\* shut down.
UploadInv ==
    /\ home.inc = 0 => home.past = {}
    /\ rx["home"].receive_offset <= tx["travel"].send_offset
    /\ rx["home"].remote_eof => /\ tx["travel"].local_eof
                                /\ rx["home"].receive_offset = tx["travel"].send_offset
    /\ \A i \in 1..Len(tx["travel"].unacked) :
           End(tx["travel"].unacked[i]) <= tx["travel"].send_offset
    /\ \A m \in InFlight("home") :
           /\ m.type = "Data" => End(m) <= tx["travel"].send_offset
           /\ m.type = "Fin" => tx["travel"].local_eof /\ m.final_offset = tx["travel"].send_offset
    /\ \A m \in InFlight("travel") : m.type = "FinAck" => Taken(m.final_offset)
    /\ tx["travel"].fin_acked => tx["travel"].local_eof /\ Taken(tx["travel"].send_offset)
    /\ travel.phase = "finished" => tx["travel"].fin_acked

\* A step of a sender: its queue holds old segments and the one just read.
LEMMA SenderGrows ==
  ASSUME TypeOK, NEW s \in Sides, TxStep(s)
  PROVE  /\ tx[s].send_offset <= tx'[s].send_offset
         /\ tx[s].local_eof => tx'[s].local_eof /\ tx'[s].send_offset = tx[s].send_offset
         /\ \A i \in 1..Len(tx'[s].unacked) :
              \/ \E k \in 1..Len(tx[s].unacked) : tx'[s].unacked[i] = tx[s].unacked[k]
              \/ /\ tx'[s].unacked[i].offset = tx[s].send_offset
                 /\ End(tx'[s].unacked[i]) = tx'[s].send_offset
<1> DEFINE t == tx[s]
           u == tx'[s]
           Old(i) == \E k \in 1..Len(t.unacked) : u.unacked[i] = t.unacked[k]
           New(i) == u.unacked[i].offset = t.send_offset /\ End(u.unacked[i]) = u.send_offset
           Goal == /\ t.send_offset <= u.send_offset
                   /\ t.local_eof => u.local_eof /\ u.send_offset = t.send_offset
                   /\ \A i \in 1..Len(u.unacked) : Old(i) \/ New(i)
<1>t. /\ t \in TxState /\ t.unacked \in Seq(Segment) /\ Len(t.unacked) \in Nat
      /\ t.send_offset \in Nat
  BY QueueFields DEF TypeOK
<1>g. ASSUME u.send_offset = t.send_offset, t.local_eof => u.local_eof, u.unacked = t.unacked
      PROVE  Goal
  BY <1>g, <1>t
<1>1. CASE tx'[s] = tx[s] BY <1>1, <1>g
<1>2. ASSUME NEW len \in SegLens, ~t.local_eof, u = Buffer(t, len) PROVE Goal
  <2> DEFINE seg == [offset |-> t.send_offset, len |-> len]
  <2>1. /\ u.unacked = Append(t.unacked, seg) /\ u.send_offset = t.send_offset + len
        /\ len \in Nat
    BY <1>2, <1>t, FlowConstants DEF Buffer, TxState
  <2>2. /\ seg \in Segment /\ End(seg) = t.send_offset + len /\ seg.offset = t.send_offset
    BY <1>t, <2>1 DEF Segment, End
  <2> HIDE DEF seg
  <2>3. /\ Len(u.unacked) = Len(t.unacked) + 1 /\ u.unacked[Len(t.unacked) + 1] = seg
        /\ \A i \in 1..Len(t.unacked) : u.unacked[i] = t.unacked[i]
    BY <1>t, <2>1, <2>2, AppendProperties
  <2> HIDE DEF t, u
  <2>4. ASSUME NEW i \in 1..Len(u.unacked) PROVE Old(i) \/ New(i)
    <3>1. CASE i = Len(t.unacked) + 1 BY <2>1, <2>2, <2>3, <3>1
    <3>2. CASE i # Len(t.unacked) + 1
      <4>1. i \in 1..Len(t.unacked) BY <1>t, <2>3, <3>2
      <4> QED BY <2>3, <4>1
    <3> QED BY <3>1, <3>2
  <2> HIDE DEF Old, New
  <2> QED BY <1>2, <1>t, <2>1, <2>4
<1>3. CASE u = [t EXCEPT !.local_eof = TRUE] \/ u = [t EXCEPT !.fin_acked = TRUE]
  <2>1. u.send_offset = t.send_offset /\ u.unacked = t.unacked /\ (t.local_eof => u.local_eof)
    BY <1>3, <1>t DEF TxState
  <2> QED BY <1>g, <2>1
<1>4. ASSUME NEW n \in Nat, NEW j \in 0..Len(t.unacked), u = Acknowledge(t, n, j) PROVE Goal
  <2> DEFINE q == t.unacked
  <2>1. u.unacked = SubSeq(q, j + 1, Len(q)) /\ u.send_offset = t.send_offset
        /\ u.local_eof = t.local_eof
    BY <1>4, <1>t DEF Acknowledge, TxState
  <2>2. /\ Len(u.unacked) = IF j + 1 <= Len(q) THEN Len(q) - (j + 1) + 1 ELSE 0
        /\ \A i \in 1..(Len(q) - (j + 1) + 1) : u.unacked[i] = q[j + 1 + i - 1]
    <3>1. j + 1 \in 1..(Len(q) + 1) BY <1>t
    <3>2. \A i \in (j + 1)..Len(q) : q[i] \in Segment BY <1>t, ElementOfSeq
    <3> HIDE DEF q, u
    <3> QED BY <1>t, <2>1, <3>1, <3>2, SubSeqProperties DEF q
  <2> HIDE DEF u
  <2>3. ASSUME NEW i \in 1..Len(u.unacked) PROVE Old(i)
    <3>0. j \in Nat /\ j <= Len(q) BY <1>t
    <3>1. i \in 1..(Len(q) - (j + 1) + 1) /\ j + 1 + i - 1 \in 1..Len(q)
      BY <1>t, <2>2, <2>3, <3>0
    <3> QED BY <2>2, <3>1
  <2> HIDE DEF Old, New
  <2> QED BY <1>t, <2>1, <2>3
<1> QED BY <1>1, <1>2, <1>3, <1>4 DEF TxStep

LEMMA UploadNext ==
  ASSUME DeliveryInv, DeliveryInv', UploadInv, [Next]_vars
  PROVE  UploadInv'
<1> DEFINE t == tx["travel"]
           u == tx'["travel"]
           r == rx["home"]
           v == rx'["home"]
<1>t. /\ TypeOK /\ TypeOK' /\ "travel" \in Sides /\ "home" \in Sides /\ inbox \in Boxes
      /\ Peer("travel") = "home" /\ Peer("home") = "travel" /\ home.inc \in Nat
  BY FlowConstants DEF DeliveryInv, TypeOK, Sides, Peer, Boxes, HomeState
<1>n. /\ t.send_offset \in Nat /\ u.send_offset \in Nat
      /\ r.receive_offset \in Nat /\ v.receive_offset \in Nat
  BY <1>t DEF TypeOK, TxState, RxState
<1>i. \A i \in 1..Len(t.unacked) : End(t.unacked[i]) <= t.send_offset BY DEF UploadInv
<1>1. CASE NewHome
  <2>1. u = t /\ v = NewRx /\ InFlight("home")' = InFlight("home")
        /\ InFlight("travel")' = InFlight("travel") /\ travel' = travel
    BY <1>1, <1>t DEF NewHome, TypeOK, InFlight
  <2>2. home'.inc # 0 BY <1>1, <1>t DEF NewHome
  <2>3. ASSUME NEW n, Taken(n) PROVE Taken(n)'
    <3>1. CASE home.inc = 0
      <4>1. home.past = {} /\ r = NewRx BY <3>1 DEF UploadInv, DeliveryInv, NoHomeYet
      <4> QED BY <2>3, <4>1 DEF Taken, NewRx
    <3>2. CASE home.inc # 0
      <4>1. home'.past = home.past \cup {r} BY <1>1, <3>2 DEF NewHome
      <4> QED BY <2>3, <4>1 DEF Taken
    <3> QED BY <3>1, <3>2
  <2>4. v.receive_offset <= u.send_offset /\ ~v.remote_eof BY <1>n, <2>1 DEF NewRx
  <2> QED BY <2>1, <2>2, <2>3, <2>4 DEF UploadInv
<1>2. CASE Effects
  <2>0. /\ TxStep("travel") /\ RxStep("home") /\ FrameStep("travel") /\ FrameStep("home")
        /\ TravelStep /\ HomeStep
    BY <1>2, <1>t DEF Effects, Transfers
  <2>1. /\ t.send_offset <= u.send_offset
        /\ t.local_eof => u.local_eof /\ u.send_offset = t.send_offset
    BY <1>t, <2>0, SenderGrows
  <2>i. ASSUME NEW i \in 1..Len(u.unacked) PROVE End(u.unacked[i]) <= u.send_offset
    <3>1. \/ \E k \in 1..Len(t.unacked) : u.unacked[i] = t.unacked[k]
          \/ End(u.unacked[i]) = u.send_offset
      BY <1>t, <2>0, SenderGrows
    <3>2. ASSUME NEW k \in 1..Len(t.unacked), u.unacked[i] = t.unacked[k]
          PROVE  End(u.unacked[i]) <= u.send_offset
      <4>1. t \in TxState BY <1>t DEF TypeOK
      <4>2. End(t.unacked[k]) \in Nat BY <4>1, QueueFields
      <4>3. End(t.unacked[k]) <= t.send_offset BY <1>i
      <4> HIDE DEF t, u
      <4> QED BY <1>n, <2>1, <3>2, <4>2, <4>3
    <3> QED BY <1>n, <3>1, <3>2
  <2>2. ASSUME NEW m \in InFlight("home"), m.type = "Data", m.offset = r.receive_offset
        PROVE  /\ End(m) \in Nat /\ r.receive_offset <= End(m) /\ End(m) <= t.send_offset
               /\ r.remote_eof => End(m) = r.receive_offset
    <3>1. m.offset \in Nat /\ m.len \in Nat
      BY <1>t, <2>2, FlyingFrames, FrameFields DEF InFlight
    <3>2. End(m) <= t.send_offset /\ (r.remote_eof => r.receive_offset = t.send_offset)
      BY <2>2 DEF UploadInv
    <3>3. End(m) = r.receive_offset + m.len BY <2>2 DEF End
    <3> QED BY <1>n, <3>1, <3>2, <3>3
  <2>3. /\ v.receive_offset <= u.send_offset
        /\ v.remote_eof => u.local_eof /\ v.receive_offset = u.send_offset
        /\ r.remote_eof => v.remote_eof /\ v.receive_offset = r.receive_offset
    <3>0. /\ r.receive_offset <= t.send_offset
          /\ r.remote_eof => t.local_eof /\ r.receive_offset = t.send_offset
      BY DEF UploadInv
    <3>1. CASE v = r BY <1>n, <2>1, <3>0, <3>1
    <3>2. ASSUME NEW m \in InFlight("home"), m.type = "Data", m.offset = r.receive_offset,
                 v = [r EXCEPT !.receive_offset = End(m)]
          PROVE  /\ v.receive_offset <= u.send_offset
                 /\ v.remote_eof => u.local_eof /\ v.receive_offset = u.send_offset
                 /\ r.remote_eof => v.remote_eof /\ v.receive_offset = r.receive_offset
      <4>1. v.receive_offset = End(m) /\ v.remote_eof = r.remote_eof
        BY <1>t, <3>2 DEF TypeOK, RxState
      <4> QED BY <1>n, <2>1, <2>2, <3>0, <3>2, <4>1
    <3>3. ASSUME NEW m \in InFlight("home"), m.type = "Fin", m.final_offset = r.receive_offset,
                 v = [r EXCEPT !.remote_eof = TRUE]
          PROVE  /\ v.receive_offset <= u.send_offset
                 /\ v.remote_eof => u.local_eof /\ v.receive_offset = u.send_offset
                 /\ r.remote_eof => v.remote_eof /\ v.receive_offset = r.receive_offset
      <4>1. v.receive_offset = r.receive_offset /\ v.remote_eof
        BY <1>t, <3>3 DEF TypeOK, RxState
      <4>2. t.local_eof /\ r.receive_offset = t.send_offset BY <3>3 DEF UploadInv
      <4> QED BY <1>n, <2>1, <4>1, <4>2
    <3> QED BY <2>0, <3>1, <3>2, <3>3 DEF RxStep
  <2>4. ASSUME NEW n, Taken(n) PROVE Taken(n)'
    <3>1. PICK w \in home.past \cup {r} : w.remote_eof /\ w.receive_offset = n
      BY <2>4 DEF Taken
    <3>2. home'.past = home.past BY <2>0 DEF HomeStep
    <3>3. CASE w \in home.past BY <3>1, <3>2, <3>3 DEF Taken
    <3>4. CASE w = r
      <4>1. v.remote_eof /\ v.receive_offset = n BY <2>3, <3>1, <3>4
      <4> QED BY <4>1 DEF Taken
    <3> QED BY <3>1, <3>3, <3>4
  <2>5. ASSUME NEW m \in InFlight("home")'
        PROVE  /\ m.type = "Data" => End(m) <= u.send_offset
               /\ m.type = "Fin" => u.local_eof /\ m.final_offset = u.send_offset
    <3>1. CASE m \in InFlight("home")
      <4>1. /\ m.type = "Data" => End(m) <= t.send_offset
            /\ m.type = "Fin" => t.local_eof /\ m.final_offset = t.send_offset
        BY <3>1 DEF UploadInv
      <4>2. m.type = "Data" => End(m) \in Nat
        BY <1>t, <3>1, FlyingFrames, FrameFields DEF InFlight, End
      <4> QED BY <1>n, <2>1, <4>1, <4>2
    <3>2. CASE Speaks("home", m)
      <4>1. m.type = "Data" => \E i \in 1..Len(u.unacked) :
                m.offset = u.unacked[i].offset /\ m.len = u.unacked[i].len
        BY <1>t, <3>2 DEF Speaks
      <4>2. m.type = "Fin" => u.local_eof /\ m.final_offset = u.send_offset
        BY <1>t, <3>2 DEF Speaks
      <4>3. m.type = "Data" => \E i \in 1..Len(u.unacked) : End(m) = End(u.unacked[i])
        BY <4>1 DEF End
      <4> QED BY <2>i, <4>2, <4>3
    <3> QED BY <2>0, <3>1, <3>2 DEF FrameStep
  <2>6. ASSUME NEW m \in InFlight("travel")', m.type = "FinAck" PROVE Taken(m.final_offset)'
    <3>1. CASE m \in InFlight("travel") BY <2>4, <2>6, <3>1 DEF UploadInv
    <3>2. CASE Speaks("travel", m)
      <4>1. v.remote_eof /\ m.final_offset = v.receive_offset
        BY <1>t, <2>6, <3>2 DEF Speaks
      <4> QED BY <4>1 DEF Taken
    <3> QED BY <2>0, <3>1, <3>2 DEF FrameStep
  <2>7. u.fin_acked => u.local_eof /\ Taken(t.send_offset) /\ u.send_offset = t.send_offset
    <3>1. t.fin_acked => t.local_eof /\ Taken(t.send_offset) BY DEF UploadInv
    <3>2. ASSUME u.fin_acked PROVE t.fin_acked \/ (t.local_eof /\ Taken(t.send_offset))
      <4>1. t \in TxState BY <1>t DEF TypeOK
      <4>2. CASE u = t BY <3>2, <4>2
      <4>3. ASSUME NEW len \in SegLens, u = Buffer(t, len) PROVE t.fin_acked
        BY <3>2, <4>1, <4>3 DEF Buffer, TxState
      <4>4. CASE u = [t EXCEPT !.local_eof = TRUE] BY <3>2, <4>1, <4>4 DEF TxState
      <4>5. ASSUME NEW m \in InFlight("travel"), m.type = "FinAck", t.local_eof,
                   m.final_offset = t.send_offset
            PROVE  t.local_eof /\ Taken(t.send_offset)
        BY <4>5 DEF UploadInv
      <4>6. ASSUME NEW n, NEW j, u = Acknowledge(t, n, j) PROVE t.fin_acked
        BY <3>2, <4>1, <4>6 DEF Acknowledge, TxState
      <4> QED BY <2>0, <4>2, <4>3, <4>4, <4>5, <4>6 DEF TxStep
    <3> QED BY <2>1, <3>1, <3>2
  <2>8. u.fin_acked =>
            u.local_eof /\ \E w \in home'.past \cup {v} :
                               w.remote_eof /\ w.receive_offset = u.send_offset
    <3>1. ASSUME u.fin_acked
          PROVE  \E w \in home'.past \cup {v} : w.remote_eof /\ w.receive_offset = u.send_offset
      <4>1. Taken(t.send_offset) /\ u.send_offset = t.send_offset BY <2>7, <3>1
      <4>2. PICK n : n = t.send_offset OBVIOUS
      <4>3. Taken(n)' BY <2>4, <4>1, <4>2
      <4> QED BY <4>1, <4>2, <4>3 DEF Taken
    <3> QED BY <2>7, <3>1
  <2>9. t.fin_acked => u.fin_acked
    <3>1. t \in TxState BY <1>t DEF TypeOK
    <3> QED BY <2>0, <3>1 DEF TxStep, TxState, Buffer, Acknowledge
  <2>10. travel'.phase = "finished" => u.fin_acked
    BY <2>0, <2>9 DEF TravelStep, UploadInv
  <2>11. home'.inc = 0 => home'.past = {} BY <2>0 DEF HomeStep, UploadInv
  <2> QED BY <2>1, <2>i, <2>3, <2>5, <2>6, <2>8, <2>10, <2>11 DEF UploadInv, Taken
<1> QED BY <1>t, <1>1, <1>2, NextEffects

\* When Travel reports a completed Flow, one target connection of Home, the
\* present one or one of an earlier flow of this key, got every byte of the upload
\* and then the EOF: a Home that restarts never splits it between two.
THEOREM UploadReachesOneTargetThm == Spec => []UploadReachesOneTarget
<1>1. Init => UploadInv
  <2> SUFFICES ASSUME Init PROVE UploadInv OBVIOUS
  <2>1. Flying(inbox, "home") = {} /\ Flying(inbox, "travel") = {}
    BY DEF Init, Flying, Sides
  <2>2. /\ tx["travel"] = NewTx /\ rx["home"] = NewRx /\ travel.phase = "running"
        /\ home.past = {}
    BY DEF Init, Sides
  <2> QED BY <2>1, <2>2 DEF UploadInv, InFlight, NewTx, NewRx
<1>2. DeliveryInv /\ DeliveryInv' /\ UploadInv /\ [Next]_vars => UploadInv' BY UploadNext
<1>3. UploadInv => UploadReachesOneTarget BY DEF UploadInv, UploadReachesOneTarget, Taken
<1> QED BY <1>1, <1>2, <1>3, DeliveryInvariant, PTL DEF Spec

-----------------------------------------------------------------------------
(* Segment boundaries.                                                      *)

\* A segment between two neighbouring marks.
Whole(marks, seg) ==
    /\ seg.offset \in marks /\ End(seg) \in marks
    /\ \A k \in marks : k <= seg.offset \/ End(seg) <= k

\* A frame that travels to s names only marks.
MarkedFrame(B, s, m) ==
    /\ m.type = "Data" => Whole(B[Peer(s)], m)
    /\ m.type \in {"Ack", "Duplicate"} => m.next_offset \in B[s]
    /\ m.type = "OpenOk" => m.receive_offset \in B[s]

\* B[s] are the offsets at which s has begun or ended a read of its socket.
Marked(B) ==
    \A s \in Sides :
        /\ tx[s].send_offset \in B[s]
        /\ \A k \in B[s] : k <= tx[s].send_offset
        /\ \A i \in 1..Len(tx[s].unacked) : Whole(B[s], tx[s].unacked[i])
        /\ \A m \in InFlight(s) : MarkedFrame(B, s, m)
        /\ s = "home" \/ travel.phase = "running" => rx[s].receive_offset \in B[Peer(s)]

MarksOK == SoleHome => \E B \in [Sides -> SUBSET Nat] : Marked(B)

\* A new mark at the end of the stream cuts nothing.
LEMMA WholeStays ==
  ASSUME NEW marks \in SUBSET Nat, NEW seg, Whole(marks, seg), NEW a \in Nat, NEW b \in Nat,
         \A k \in marks : k <= a, a <= b
  PROVE  Whole(marks \cup {b}, seg)
<1>1. End(seg) \in Nat /\ End(seg) <= a BY DEF Whole
<1>2. End(seg) <= b BY <1>1
<1> QED BY <1>2 DEF Whole

LEMMA MarkedNext ==
  ASSUME TypeOK, TypeOK', Effects, NEW B \in [Sides -> SUBSET Nat], Marked(B)
  PROVE  (\E C \in [Sides -> SUBSET Nat] : Marked(C))'
<1>t. /\ \A s \in Sides : /\ tx[s].send_offset \in Nat /\ tx'[s].send_offset \in Nat
                          /\ Peer(s) \in Sides /\ Peer(Peer(s)) = s
                          /\ rx[s] \in RxState
      /\ inbox \in Boxes
      /\ \A s \in Sides : TxStep(s) /\ RxStep(s) /\ FrameStep(s)
      /\ TravelStep
  BY Fields DEF TypeOK, TxState, Effects, Transfers, Boxes
<1>c. PICK C : C = [s \in Sides |-> B[s] \cup {tx'[s].send_offset}] OBVIOUS
<1>d. C \in [Sides -> SUBSET Nat] /\ \A s \in Sides : C[s] = B[s] \cup {tx'[s].send_offset}
  BY <1>c, <1>t
<1>g. \A s \in Sides : tx[s].send_offset <= tx'[s].send_offset BY <1>t, SenderGrows
<1>w. ASSUME NEW s \in Sides, NEW seg, Whole(B[s], seg) PROVE Whole(C[s], seg)
  <2>1. \A k \in B[s] : k <= tx[s].send_offset BY DEF Marked
  <2>2. B[s] \in SUBSET Nat OBVIOUS
  <2>3. PICK a \in Nat : a = tx[s].send_offset BY <1>t
  <2>4. PICK b \in Nat : b = tx'[s].send_offset BY <1>t
  <2>5. a <= b /\ C[s] = B[s] \cup {b} /\ \A k \in B[s] : k <= a
    BY <1>d, <1>g, <2>1, <2>3, <2>4
  <2>6. Whole(B[s] \cup {b}, seg) BY <1>w, <2>2, <2>5, WholeStays
  <2> QED BY <2>5, <2>6
<1>u. ASSUME NEW s \in Sides, NEW i \in 1..Len(tx'[s].unacked)
      PROVE  Whole(C[s], tx'[s].unacked[i])
  <2>1. CASE \E k \in 1..Len(tx[s].unacked) : tx'[s].unacked[i] = tx[s].unacked[k]
    BY <1>w, <2>1 DEF Marked
  <2>2. CASE /\ tx'[s].unacked[i].offset = tx[s].send_offset
             /\ End(tx'[s].unacked[i]) = tx'[s].send_offset
    <3>1. tx[s].send_offset \in C[s] /\ tx'[s].send_offset \in C[s] BY <1>d DEF Marked
    <3>2. \A k \in C[s] : k <= tx[s].send_offset \/ tx'[s].send_offset <= k
      BY <1>d, <1>t DEF Marked
    <3> QED BY <2>2, <3>1, <3>2 DEF Whole
  <2> QED BY <1>t, <2>1, <2>2, SenderGrows
<1>r. ASSUME NEW s \in Sides, s = "home" \/ travel'.phase = "running"
      PROVE  rx'[s].receive_offset \in C[Peer(s)]
  <2>1. s = "home" \/ travel.phase = "running" BY <1>r, <1>t DEF TravelStep
  <2>2. rx[s].receive_offset \in B[Peer(s)] BY <2>1 DEF Marked
  <2>3. CASE rx'[s] = rx[s] BY <1>d, <1>t, <2>2, <2>3
  <2>4. ASSUME NEW m \in InFlight(s), m.type = "Data",
               rx'[s] = [rx[s] EXCEPT !.receive_offset = End(m)]
        PROVE  rx'[s].receive_offset \in C[Peer(s)]
    <3>1. Whole(B[Peer(s)], m) BY <2>4 DEF Marked, MarkedFrame
    <3>2. rx'[s].receive_offset = End(m) BY <1>t, <2>4 DEF RxState
    <3> QED BY <1>d, <1>t, <3>1, <3>2 DEF Whole
  <2>5. CASE rx'[s] = [rx[s] EXCEPT !.remote_eof = TRUE]
    <3>1. rx'[s].receive_offset = rx[s].receive_offset BY <1>t, <2>5 DEF RxState
    <3> QED BY <1>d, <1>t, <2>2, <3>1
  <2>6. ~(s = "travel" /\ travel'.phase = "failed") BY <1>r
  <2>7. RxStep(s) BY <1>t
  <2> QED BY <2>3, <2>4, <2>5, <2>6, <2>7 DEF RxStep
<1>m. ASSUME NEW s \in Sides, NEW m \in InFlight(s)' PROVE MarkedFrame(C, s, m)
  <2>1. CASE m \in InFlight(s)
    <3>1. MarkedFrame(B, s, m) BY <2>1 DEF Marked
    <3>2. m.type = "Data" => Whole(C[Peer(s)], m) BY <1>t, <1>w, <3>1 DEF MarkedFrame
    <3> QED BY <1>d, <3>1, <3>2 DEF MarkedFrame
  <2>2. CASE Speaks(s, m)
    <3> DEFINE p == Peer(s)
    <3>0. p \in Sides /\ Peer(p) = s /\ (s = "travel" => p = "home") BY <1>t DEF Peer
    <3>1. ASSUME m.type = "Data" PROVE Whole(C[p], m)
      <4>1. PICK i \in 1..Len(tx'[p].unacked) :
                m.offset = tx'[p].unacked[i].offset /\ m.len = tx'[p].unacked[i].len
        BY <2>2, <3>1 DEF Speaks
      <4>2. Whole(C[p], tx'[p].unacked[i]) BY <1>u, <3>0
      <4> QED BY <4>1, <4>2 DEF Whole, End
    <3>2. ASSUME m.type \in {"Ack", "Duplicate"} PROVE m.next_offset \in C[s]
      <4>1. m.next_offset = rx'[p].receive_offset /\ (p = "home" \/ travel'.phase = "running")
        BY <2>2, <3>2 DEF Speaks
      <4> QED BY <1>r, <3>0, <4>1
    <3>3. ASSUME m.type = "OpenOk" PROVE m.receive_offset \in C[s]
      <4>1. p = "home" /\ m.receive_offset = rx'["home"].receive_offset
        BY <2>2, <3>3 DEF Speaks
      <4> QED BY <1>r, <3>0, <4>1
    <3> QED BY <3>1, <3>2, <3>3 DEF MarkedFrame
  <2> QED BY <1>t, <2>1, <2>2 DEF FrameStep
<1>k. \A s \in Sides : /\ tx'[s].send_offset \in C[s]
                       /\ \A k \in C[s] : k <= tx'[s].send_offset
  <2> SUFFICES ASSUME NEW s \in Sides, NEW k \in C[s] PROVE k <= tx'[s].send_offset
    BY <1>d
  <2>1. B[s] \in SUBSET Nat OBVIOUS
  <2>2. k \in B[s] => k \in Nat /\ k <= tx[s].send_offset BY <2>1 DEF Marked
  <2> QED BY <1>d, <1>g, <1>t, <2>2
<1>q. Marked(C)' BY <1>k, <1>m, <1>r, <1>u DEF Marked
<1> QED BY <1>d, <1>q

LEMMA MarksNext ==
  ASSUME DeliveryInv, DeliveryInv', MarksOK, [Next]_vars
  PROVE  MarksOK'
<1>t. TypeOK /\ TypeOK' BY DEF DeliveryInv
<1> SUFFICES ASSUME SoleHome' PROVE (\E B \in [Sides -> SUBSET Nat] : Marked(B))' BY DEF MarksOK
<1>i. home.inc \in Nat BY <1>t, FlowConstants DEF TypeOK, HomeState
<1>1. CASE NewHome
  <2>1. home.inc = 0 BY <1>1, <1>i DEF NewHome, SoleHome
  <2>2. tx["home"] = NewTx /\ rx["home"] = NewRx BY <2>1 DEF DeliveryInv, NoHomeYet
  <2>3. tx' = tx /\ rx' = rx BY <1>1, <1>t, <2>2 DEF NewHome, TypeOK
  <2>4. PICK B \in [Sides -> SUBSET Nat] : Marked(B) BY <2>1 DEF MarksOK, SoleHome
  <2>5. inbox' = inbox /\ travel' = travel BY <1>1 DEF NewHome
  <2>6. Marked(B)' BY <2>3, <2>4, <2>5 DEF Marked, InFlight
  <2> QED BY <2>6
<1>2. CASE Effects
  <2>1. home'.inc = home.inc BY <1>2 DEF Effects, HomeStep
  <2>2. PICK B \in [Sides -> SUBSET Nat] : Marked(B) BY <2>1 DEF MarksOK, SoleHome
  <2> QED BY <1>2, <1>t, <2>2, MarkedNext
<1> QED BY <1>t, <1>1, <1>2, NextEffects

\* Both endpoints agree on where segments begin and end, though neither is told.
THEOREM MarksInvariant == Spec => []MarksOK
<1>1. Init => MarksOK
  <2> SUFFICES ASSUME Init PROVE \E B \in [Sides -> SUBSET Nat] : Marked(B) BY DEF MarksOK
  <2>1. PICK B : B = [s \in Sides |-> {0}] OBVIOUS
  <2>2. B \in [Sides -> SUBSET Nat] /\ \A s \in Sides : B[s] = {0} BY <2>1
  <2>3. \A s \in Sides : InFlight(s) = {} BY DEF Init, InFlight, Flying
  <2>4. \A s \in Sides : tx[s] = NewTx /\ rx[s] = NewRx /\ Peer(s) \in Sides
    BY PeerType DEF Init
  <2>5. Marked(B) BY <2>2, <2>3, <2>4 DEF Marked, NewTx, NewRx
  <2> QED BY <2>2, <2>5
<1> QED BY <1>1, MarksNext, DeliveryInvariant, PTL DEF Spec

-----------------------------------------------------------------------------
(* Carriers.                                                                *)

\* Nothing travels on a Carrier before Home has answered its opening.
Idle(box, links) ==
    \A c \in Carriers : links[c] \in {"idle", "opening"} =>
        box["travel"][c] = <<>> /\ box["home"][c] = <<>>

\* Travel drops what it does not keep, and names a Carrier by the race it opens it for.
TravelLinks(t, links) ==
    /\ ~t.racing => t.opening = {}
    /\ t.racing => t.race >= 1
    /\ t.carriers \cap t.opening = {}
    /\ \A c \in Carriers :
        /\ c \in t.carriers \cup t.opening => c[1] <= t.race
        /\ c[1] > t.race => links[c] = "idle"
        /\ links[c] = "opening" => c \in t.opening
        /\ links[c] = "up" => c \in t.carriers \cup t.opening
        /\ c \in t.carriers => links[c] \notin {"idle", "opening"}

HomeLinks(h, links) ==
    \A c \in Carriers :
        /\ c \in h.incoming => links[c] \in {"opening", "down"}
        /\ links[c] \in {"idle", "opening"} => h.active # c /\ c \notin h.carriers

LinksOK == TravelLinks(travel, link) /\ HomeLinks(home, link) /\ Idle(inbox, link)

\* A step that opens no Carrier: some that were opened go down or close.
Loosened(links) ==
    \A c \in Carriers :
        \/ links[c] = link[c]
        \/ link[c] # "idle" /\ links[c] = "down"
        \/ link[c] = "up" /\ links[c] = "closing"

LEMMA LinksLoosened ==
  ASSUME LinksOK, NEW links, Loosened(links)
  PROVE  /\ TravelLinks(travel, links) /\ HomeLinks(home, links)
         /\ \A box : Idle(box, link) => Idle(box, links)
  BY DEF LinksOK, TravelLinks, HomeLinks, Idle, Loosened

LEMMA DroppedLoosens ==
  ASSUME NEW S, \A c \in Carriers : c \in S => link[c] # "idle"
  PROVE  Loosened(Dropped(S))
  BY DEF Dropped, Loosened

LEMMA DrainedLoosens ==
  ASSUME NEW S
  PROVE  Loosened(Drained(S))
  BY DEF Drained, Loosened

LEMMA IdleSent ==
  ASSUME NEW box \in Boxes, Idle(box, link), NEW s \in Sides, NEW held, held \subseteq Carriers,
         NEW c, NEW frames
  PROVE  Idle(Sent(box, s, held, c, frames), link)
<1>1. CASE ~(c \in held /\ link[c] = "up") BY <1>1 DEF Sent
<1>2. CASE c \in held /\ link[c] = "up"
  <2> DEFINE new == [box EXCEPT ![Peer(s)][c] = @ \o frames]
  <2>1. Sent(box, s, held, c, frames) = new BY <1>2 DEF Sent
  <2>2. \A d \in Carriers : d # c => new["travel"][d] = box["travel"][d]
                                     /\ new["home"][d] = box["home"][d]
    BY <1>2 DEF Boxes, Sides
  <2> HIDE DEF new
  <2> QED BY <1>2, <2>1, <2>2 DEF Idle
<1> QED BY <1>1, <1>2

LEMMA IdleShrinks ==
  ASSUME NEW box, Idle(box, link), NEW new,
         \A s \in Sides, d \in Carriers : new[s][d] = box[s][d] \/ new[s][d] = <<>>
  PROVE  Idle(new, link)
  BY DEF Idle, Sides

LEMMA IdleConsumed ==
  ASSUME inbox \in Boxes, Idle(inbox, link), NEW s \in Sides, NEW c \in Carriers,
         inbox[s][c] # <<>>
  PROVE  Idle(Consumed(s, c), link) /\ link[c] \notin {"idle", "opening"}
<1>1. link[c] \notin {"idle", "opening"} BY DEF Idle, Sides
<1>2. \A d \in Carriers : d # c => Consumed(s, c)["travel"][d] = inbox["travel"][d]
                                   /\ Consumed(s, c)["home"][d] = inbox["home"][d]
  BY DEF Consumed, Boxes, Sides
<1> QED BY <1>1, <1>2 DEF Idle

LEMMA IdleReplied ==
  ASSUME TypeOK, Idle(inbox, link), NEW s \in Sides, NEW c \in Carriers,
         inbox[s][c] # <<>>, NEW f
  PROVE  Idle(Reply(s, c, f), link)
<1>1. inbox \in Boxes BY DEF TypeOK, Boxes
<1>2. Consumed(s, c) \in Boxes /\ Idle(Consumed(s, c), link) BY <1>1, ConsumedType, IdleConsumed
<1> QED BY <1>2, HoldsType, ReplyIsSent, IdleSent

LEMMA IdleDeaf ==
  ASSUME inbox \in Boxes, Idle(inbox, link), NEW s \in Sides
  PROVE  Idle(Deaf(s), link)
<1>1. \A x \in Sides, d \in Carriers : Deaf(s)[x][d] = inbox[x][d] \/ Deaf(s)[x][d] = <<>>
  BY DEF Deaf, Boxes
<1> QED BY <1>1, IdleShrinks

\* The shared steps leave links and Carrier bookkeeping alone.
LEMMA SharedIdle ==
  ASSUME TypeOK, Idle(inbox, link), NEW s \in Sides
  PROVE  /\ \A len \in SegLens : ReadData(s, len) => Idle(inbox', link)
         /\ ReadEof(s) => Idle(inbox', link)
         /\ \A c \in Carriers :
              (\/ DataDuplicate(s, c) \/ AckInWindow(s, c) \/ FinInOrder(s, c)
               \/ FinAckInOrder(s, c)) => Idle(inbox', link)
<1>t. inbox \in Boxes BY DEF TypeOK, Boxes
<1>1. ASSUME NEW len \in SegLens, ReadData(s, len) PROVE Idle(inbox', link)
  BY <1>1, <1>t, IdleSent, HoldsType DEF ReadData
<1>2. ASSUME ReadEof(s) PROVE Idle(inbox', link)
  BY <1>2, <1>t, IdleSent, HoldsType DEF ReadEof
<1>3. ASSUME NEW c \in Carriers, DataDuplicate(s, c) \/ FinInOrder(s, c)
      PROVE  Idle(inbox', link)
  <2>1. inbox[s][c] # <<>> /\ \E f : inbox' = Reply(s, c, f)
    BY <1>3 DEF DataDuplicate, FinInOrder, Arrives
  <2> QED BY <2>1, IdleReplied
<1>4. ASSUME NEW c \in Carriers, AckInWindow(s, c) \/ FinAckInOrder(s, c)
      PROVE  Idle(inbox', link)
  <2>1. inbox[s][c] # <<>> /\ inbox' = Consumed(s, c)
    BY <1>4 DEF AckInWindow, FinAckInOrder, Arrives
  <2> QED BY <1>t, <2>1, IdleConsumed
<1> QED BY <1>1, <1>2, <1>3, <1>4

\* Travel drops Carriers and forgets them.
LEMMA TravelDrops ==
  ASSUME TypeOK, TravelLinks(travel, link), NEW t, NEW S,
         S \subseteq travel.carriers \cup travel.opening,
         t.race = travel.race, t.racing => travel.racing, ~t.racing => t.opening = {},
         t.carriers = travel.carriers \ S, t.opening = travel.opening \ S
  PROVE  TravelLinks(t, Dropped(S))
<1> DEFINE links == Dropped(S)
<1>1. \A c \in Carriers : links[c] = IF c \in S THEN "down" ELSE link[c] BY DEF Dropped
<1>2. \A c \in Carriers : c[1] \in Nat BY DEF Carriers
<1>3. travel.race \in Nat BY DEF TypeOK, TravelState
<1> HIDE DEF links
<1>4. t.racing => t.race >= 1 BY DEF TravelLinks
<1>5. t.carriers \cap t.opening = {} BY DEF TravelLinks
<1>6. ASSUME NEW c \in Carriers
      PROVE  /\ c \in t.carriers \cup t.opening => c[1] <= t.race
             /\ c[1] > t.race => links[c] = "idle"
             /\ links[c] = "opening" => c \in t.opening
             /\ links[c] = "up" => c \in t.carriers \cup t.opening
             /\ c \in t.carriers => links[c] \notin {"idle", "opening"}
  <2>1. /\ c \in travel.carriers \cup travel.opening => c[1] <= travel.race
        /\ c[1] > travel.race => link[c] = "idle"
        /\ link[c] = "opening" => c \in travel.opening
        /\ link[c] = "up" => c \in travel.carriers \cup travel.opening
        /\ c \in travel.carriers => link[c] \notin {"idle", "opening"}
    BY DEF TravelLinks
  <2>2. CASE c \in S
    <3>1. c[1] <= travel.race BY <2>1, <2>2
    <3>2. ~(c[1] > travel.race) BY <3>1, <1>2, <1>3
    <3> QED BY <1>1, <2>2, <3>2
  <2>3. CASE c \notin S
    <3>1. links[c] = link[c] BY <1>1, <2>3
    <3> QED BY <2>1, <2>3, <3>1
  <2> QED BY <2>2, <2>3
<1>7. TravelLinks(t, links) BY <1>4, <1>5, <1>6 DEF TravelLinks
<1> QED BY <1>7 DEF links

LEMMA TravelLinksNext ==
  ASSUME TypeOK, LinksOK, TravelNext
  PROVE  LinksOK'
<1>t. /\ travel \in TravelState /\ inbox \in Boxes
      /\ link \in [Carriers -> {"idle", "opening", "up", "closing", "down"}]
      /\ "travel" \in Sides /\ "home" \in Sides
      /\ travel.carriers \subseteq Carriers /\ travel.opening \subseteq Carriers
      /\ travel.race \in Nat
      /\ TravelLinks(travel, link) /\ HomeLinks(home, link) /\ Idle(inbox, link)
  BY FlowConstants DEF TypeOK, Boxes, Sides, TravelState, LinksOK
<1>k. ASSUME link' = link, home' = home, Idle(inbox', link), travel'.racing = travel.racing,
             travel'.race = travel.race, travel'.carriers = travel.carriers,
             travel'.opening = travel.opening
      PROVE  LinksOK'
  <2>1. TravelLinks(travel', link) BY <1>k, <1>t DEF TravelLinks
  <2> QED BY <1>k, <1>t, <2>1 DEF LinksOK
<1>i. \A c \in Carriers : c \in travel.carriers \cup travel.opening => c[1] <= travel.race
  BY <1>t DEF TravelLinks
<1>e. ASSUME NEW reason, TravelFails(reason) PROVE LinksOK'
  <2>1. /\ travel'.racing = FALSE /\ travel'.race = travel.race
        /\ travel'.carriers = {} /\ travel'.opening = {}
        /\ link' = Dropped(travel.carriers \cup travel.opening)
        /\ inbox' = Deaf("travel") /\ home' = home
    BY <1>e, <1>t DEF TravelFails, TravelState
  <2>2. \A c \in Carriers :
           /\ c \in travel.carriers \cup travel.opening => link'[c] = "down"
           /\ c \notin travel.carriers \cup travel.opening => link'[c] = link[c]
    BY <2>1 DEF Dropped
  <2>3. TravelLinks(travel', link')
    <3>1. travel.carriers \ (travel.carriers \cup travel.opening) = {}
          /\ travel.opening \ (travel.carriers \cup travel.opening) = {} OBVIOUS
    <3> QED BY <1>t, <2>1, <3>1, TravelDrops
  <2>4. HomeLinks(home, link') BY <1>t, <2>2 DEF TravelLinks, HomeLinks
  <2>5. Idle(inbox', link)
    BY <1>t, <2>1, IdleDeaf
  <2>6. Idle(inbox', link') BY <2>2, <2>5 DEF Idle
  <2> QED BY <2>1, <2>3, <2>4, <2>6 DEF LinksOK
<1>1. CASE TravelCompletes
  <2>1. /\ travel.racing = FALSE /\ travel'.racing = FALSE /\ travel'.race = travel.race
        /\ travel'.carriers = {} /\ travel'.opening = travel.opening
        /\ link' = Drained(travel.carriers) /\ inbox' = Deaf("travel") /\ home' = home
    BY <1>1, <1>t DEF TravelCompletes, TravelState
  <2>2. travel.opening = {} BY <1>t, <2>1 DEF TravelLinks
  <2>3. /\ HomeLinks(home, link') /\ (Idle(inbox', link) => Idle(inbox', link'))
    BY <2>1, DrainedLoosens, LinksLoosened
  <2>4. \A c \in Carriers :
          link'[c] = IF c \in travel.carriers /\ link[c] = "up" THEN "closing" ELSE link[c]
    BY <2>1 DEF Drained
  <2>5. TravelLinks(travel', link') BY <1>t, <2>1, <2>2, <2>4 DEF TravelLinks
  <2>6. Idle(inbox', link) BY <1>t, <2>1, IdleDeaf
  <2> QED BY <2>1, <2>3, <2>5, <2>6 DEF LinksOK
<1>2. CASE TravelDrainTimesOut \/ RecoveryExpires \/ TravelStops
  <2>1. \E reason : TravelFails(reason) /\ rx' = rx
    BY <1>2 DEF TravelDrainTimesOut, RecoveryExpires, TravelStops
  <2> QED BY <1>e, <2>1
<1>3. ASSUME NEW S \in SUBSET Relays, StartRace(S) PROVE LinksOK'
  <2> DEFINE race == travel.race + 1
             opened == {<<race, r>> : r \in S}
  <2>1. /\ travel'.racing = TRUE /\ travel'.race = race /\ travel.racing = FALSE
        /\ travel'.carriers = travel.carriers /\ travel'.opening = opened
        /\ race <= MaxRaces /\ home' = home
        /\ link' = [c \in Carriers |-> IF c \in opened THEN "opening" ELSE link[c]]
    BY <1>3, <1>t DEF StartRace, TravelState
  <2>2. Idle(inbox', link) BY <1>3, <1>t, IdleSent DEF StartRace
  <2>3. \A c \in Carriers : c \in opened => c[1] = race /\ link[c] = "idle"
    <3> SUFFICES ASSUME NEW c \in Carriers, c \in opened PROVE c[1] = race /\ link[c] = "idle"
      OBVIOUS
    <3>1. c[1] = race BY <2>1
    <3>2. c[1] > travel.race BY <1>t, <3>1
    <3> QED BY <1>t, <3>1, <3>2 DEF TravelLinks
  <2>4. \A c \in Carriers : c[1] \in Nat BY DEF Carriers
  <2> HIDE DEF opened
  <2>5. \A c \in Carriers : c \in opened => c \notin travel.carriers
    BY <1>t, <2>3 DEF TravelLinks
  <2>6. travel.opening = {} BY <1>t, <2>1 DEF TravelLinks
  <2>7. TravelLinks(travel', link')
    <3>1. travel'.carriers \cap travel'.opening = {} BY <1>t, <2>1, <2>5
    <3>2. travel'.race >= 1 /\ travel'.racing BY <1>t, <2>1
    <3>3. ASSUME NEW c \in Carriers
          PROVE  /\ c \in travel'.carriers \cup travel'.opening => c[1] <= travel'.race
                 /\ c[1] > travel'.race => link'[c] = "idle"
                 /\ link'[c] = "opening" => c \in travel'.opening
                 /\ link'[c] = "up" => c \in travel'.carriers \cup travel'.opening
                 /\ c \in travel'.carriers => link'[c] \notin {"idle", "opening"}
      <4>0. /\ c \in travel.carriers => c[1] <= travel.race
            /\ c[1] > travel.race => link[c] = "idle"
            /\ link[c] # "opening"
            /\ link[c] = "up" => c \in travel.carriers
            /\ c \in travel.carriers => link[c] \notin {"idle", "opening"}
        BY <1>t, <2>6 DEF TravelLinks
      <4>1. c[1] \in Nat BY <2>4
      <4>2. CASE c \in opened
        <5>1. link'[c] = "opening" /\ c[1] = race BY <2>1, <2>3, <4>2
        <5> QED BY <1>t, <2>1, <2>5, <4>2, <5>1
      <4>3. CASE c \notin opened
        <5>1. link'[c] = link[c] BY <2>1, <4>3
        <5>2. c \in travel'.carriers \cup travel'.opening => c \in travel.carriers BY <2>1, <4>3
        <5> QED BY <1>t, <2>1, <4>0, <4>1, <5>1, <5>2
      <4> QED BY <4>2, <4>3
    <3> QED BY <3>1, <3>2, <3>3 DEF TravelLinks
  <2>8. HomeLinks(home, link')
    BY <1>t, <2>1, <2>3 DEF HomeLinks
  <2>9. Idle(inbox', link') BY <2>1, <2>2, <2>3 DEF Idle
  <2> QED BY <2>1, <2>7, <2>8, <2>9 DEF LinksOK
<1>4. CASE RaceTimesOut
  <2> DEFINE kept == travel.carriers \cap {travel.active}
             S == (travel.carriers \cup travel.opening) \ kept
  <2>1. /\ travel'.racing = FALSE /\ travel'.race = travel.race
        /\ travel'.carriers = kept /\ travel'.opening = {}
        /\ link' = Dropped(S) /\ home' = home
    BY <1>4, <1>t DEF RaceTimesOut, TravelState
  <2>2. \A c \in Carriers : link'[c] = IF c \in S THEN "down" ELSE link[c] BY <2>1 DEF Dropped
  <2>3. TravelLinks(travel', link')
    <3>1. travel.carriers \cap travel.opening = {} BY <1>t DEF TravelLinks
    <3>2. travel.carriers \ S = kept /\ travel.opening \ S = {} BY <3>1
    <3>3. S \subseteq travel.carriers \cup travel.opening OBVIOUS
    <3> HIDE DEF S, kept
    <3> QED BY <1>t, <2>1, <3>2, <3>3, TravelDrops
  <2>4. HomeLinks(home, link') BY <1>t, <2>2 DEF TravelLinks, HomeLinks
  <2>5. \A x \in Sides, d \in Carriers : inbox'[x][d] = inbox[x][d] \/ inbox'[x][d] = <<>>
    BY <1>4, <1>t DEF Boxes, RaceTimesOut
  <2>6. Idle(inbox', link) BY <1>t, <2>5, IdleShrinks
  <2>7. Idle(inbox', link') BY <2>2, <2>6 DEF Idle
  <2> QED BY <2>1, <2>3, <2>4, <2>7 DEF LinksOK
<1>5. ASSUME NEW c \in Carriers, Opened(c) PROVE LinksOK'
  <2>1. inbox["travel"][c] # <<>> /\ c \in travel.opening BY <1>5 DEF Opened, Arrives
  <2>2. /\ travel'.racing = travel.racing /\ travel'.race = travel.race
        /\ travel'.carriers = travel.carriers \cup {c} /\ travel'.opening = travel.opening \ {c}
        /\ link' = link /\ home' = home
    BY <1>5, <1>t DEF Opened, TravelState
  <2>3. link[c] \notin {"idle", "opening"} /\ Consumed("travel", c) \in Boxes
        /\ Idle(Consumed("travel", c), link)
    BY <1>t, <2>1, IdleConsumed, ConsumedType
  <2>4. {c} \subseteq Carriers
        /\ \E fs : inbox' = Sent(Consumed("travel", c), "travel", {c}, c, fs)
    BY <1>5 DEF Opened
  <2>5. Idle(inbox', link) BY <1>t, <2>3, <2>4, IdleSent
  <2>6. TravelLinks(travel', link) BY <1>t, <2>1, <2>2, <2>3 DEF TravelLinks
  <2> QED BY <1>t, <2>2, <2>5, <2>6 DEF LinksOK
<1>6. ASSUME NEW c \in Carriers, OpenedInconsistent(c) \/ TravelBails(c) PROVE LinksOK'
  <2>1. \E reason : TravelFails(reason) /\ rx' = rx BY <1>6 DEF OpenedInconsistent, TravelBails
  <2> QED BY <1>e, <2>1
<1>7. ASSUME NEW c \in Carriers, OpenFailed(c) PROVE LinksOK'
  <2>1. /\ c \in travel.opening /\ travel'.race = travel.race
        /\ travel'.racing \in {travel.racing, FALSE} /\ travel.racing
        /\ (travel'.racing = FALSE => travel.opening \ {c} = {})
        /\ travel'.carriers = travel.carriers /\ travel'.opening = travel.opening \ {c}
        /\ link' = Dropped({c}) /\ home' = home
    BY <1>7, <1>t DEF OpenFailed, StillRacing, TravelState
  <2>2. \A d \in Carriers : link'[d] = IF d = c THEN "down" ELSE link[d] BY <2>1 DEF Dropped
  <2>3. TravelLinks(travel', link')
    <3>1. travel.carriers \cap travel.opening = {} BY <1>t DEF TravelLinks
    <3>2. travel.carriers \ {c} = travel.carriers BY <2>1, <3>1
    <3>3. {c} \subseteq travel.carriers \cup travel.opening BY <2>1
    <3> QED BY <1>t, <2>1, <3>2, <3>3, TravelDrops
  <2>4. HomeLinks(home, link') BY <1>t, <2>2 DEF HomeLinks
  <2>5. \A x \in Sides, d \in Carriers : inbox'[x][d] = inbox[x][d] \/ inbox'[x][d] = <<>>
    BY <1>7, <1>t DEF Boxes, OpenFailed
  <2>6. Idle(inbox', link) BY <1>t, <2>5, IdleShrinks
  <2>7. Idle(inbox', link') BY <2>2, <2>6 DEF Idle
  <2> QED BY <2>1, <2>3, <2>4, <2>7 DEF LinksOK
<1>8. ASSUME NEW c \in Carriers, TravelCarrierClosed(c) PROVE LinksOK'
  <2>1. /\ travel'.race = travel.race /\ travel'.racing \in {travel.racing, FALSE}
        /\ (travel'.racing = FALSE /\ travel.racing => travel.opening = {})
        /\ travel'.carriers = travel.carriers \ {c} /\ travel'.opening = travel.opening
        /\ link' = link /\ home' = home /\ link[c] # "up"
    BY <1>8, <1>t DEF TravelCarrierClosed, StillRacing, TravelState, SeesClosed
  <2>2. TravelLinks(travel', link) BY <1>t, <2>1 DEF TravelLinks
  <2>3. \A x \in Sides, d \in Carriers : inbox'[x][d] = inbox[x][d] \/ inbox'[x][d] = <<>>
    BY <1>8, <1>t DEF Boxes, TravelCarrierClosed
  <2>4. Idle(inbox', link) BY <1>t, <2>3, IdleShrinks
  <2> QED BY <1>t, <2>1, <2>2, <2>4 DEF LinksOK
<1>9. ASSUME NEW c \in Carriers, RaceAnswered(c) PROVE LinksOK'
  <2> DEFINE m == Head(inbox["travel"][c])
             kept == travel.carriers \cap {m.winner}
             S == (travel.carriers \cup travel.opening) \ kept
             cut == [Consumed("travel", c) EXCEPT !["travel"] =
                        [x \in Carriers |-> IF x \in travel.opening THEN <<>> ELSE @[x]]]
  <2>1. /\ travel'.racing = FALSE /\ travel'.race = travel.race
        /\ travel'.carriers = kept /\ travel'.opening = {}
        /\ link' = Dropped(S) /\ home' = home /\ inbox["travel"][c] # <<>>
    BY <1>9, <1>t DEF RaceAnswered, Arrives, TravelState
  <2>2. \E fs : inbox' = Sent(cut, "travel", kept, m.winner, fs) BY <1>9 DEF RaceAnswered
  <2>3. Consumed("travel", c) \in Boxes /\ Idle(Consumed("travel", c), link)
    BY <1>t, <2>1, ConsumedType, IdleConsumed
  <2>4. cut \in Boxes /\ Idle(cut, link)
    <3> DEFINE box == Consumed("travel", c)
    <3>1. \A x \in Sides, d \in Carriers : cut[x][d] = box[x][d] \/ cut[x][d] = <<>>
      BY <2>3 DEF Boxes
    <3>2. cut \in Boxes BY <1>t, <2>3, ClearedType
    <3> HIDE DEF cut
    <3> QED BY <2>3, <3>1, <3>2, IdleShrinks
  <2> HIDE DEF m, cut
  <2>5. kept \subseteq Carriers BY <1>t
  <2>6. Idle(inbox', link) BY <1>t, <2>2, <2>4, <2>5, IdleSent
  <2>7. \A d \in Carriers : link'[d] = IF d \in S THEN "down" ELSE link[d] BY <2>1 DEF Dropped
  <2>8. TravelLinks(travel', link')
    <3>1. travel.carriers \cap travel.opening = {} BY <1>t DEF TravelLinks
    <3>2. travel.carriers \ S = kept /\ travel.opening \ S = {} BY <3>1
    <3>3. S \subseteq travel.carriers \cup travel.opening OBVIOUS
    <3> HIDE DEF S, kept
    <3> QED BY <1>t, <2>1, <3>2, <3>3, TravelDrops
  <2>9. HomeLinks(home, link') BY <1>t, <2>7 DEF TravelLinks, HomeLinks
  <2>10. Idle(inbox', link') BY <2>6, <2>7 DEF Idle
  <2> QED BY <2>1, <2>8, <2>9, <2>10 DEF LinksOK
<1>10. ASSUME NEW c \in Carriers, RaceAnswerIgnored(c) PROVE LinksOK'
  <2>1. inbox["travel"][c] # <<>> /\ inbox' = Consumed("travel", c)
    BY <1>10 DEF RaceAnswerIgnored, Arrives
  <2> QED BY <1>10, <1>k, <1>t, <2>1, IdleConsumed DEF RaceAnswerIgnored
<1>11. ASSUME NEW c \in Carriers, TravelData(c) PROVE LinksOK'
  <2>1. inbox["travel"][c] # <<>> /\ \E f : inbox' = Reply("travel", c, f)
    BY <1>11 DEF TravelData, Arrives
  <2>2. Idle(inbox', link) BY <1>t, <2>1, IdleReplied
  <2>3. /\ travel'.racing = travel.racing /\ travel'.race = travel.race
        /\ travel'.carriers = travel.carriers /\ travel'.opening = travel.opening
    BY <1>11, <1>t DEF TravelData, TravelState
  <2> QED BY <1>11, <1>k, <2>2, <2>3 DEF TravelData
<1>12. ASSUME NEW c \in Carriers, LocalWriteFails(c) PROVE LinksOK'
  BY <1>12, <1>e DEF LocalWriteFails
<1>13. ASSUME NEW c \in Carriers,
              TravelDuplicate(c) \/ TravelAck(c) \/ TravelFin(c) \/ TravelFinAck(c)
       PROVE  LinksOK'
  <2>1. Idle(inbox', link)
    BY <1>13, <1>t, SharedIdle DEF TravelDuplicate, TravelAck, TravelFin, TravelFinAck
  <2>2. travel' = travel /\ home' = home /\ link' = link
    BY <1>13 DEF TravelDuplicate, TravelAck, TravelFin, TravelFinAck,
       DataDuplicate, AckInWindow, FinInOrder, FinAckInOrder
  <2> QED BY <1>k, <2>1, <2>2
<1>14. ASSUME NEW len \in SegLens, LocalData(len) PROVE LinksOK'
  <2>1. Idle(inbox', link) BY <1>14, <1>t, SharedIdle DEF LocalData
  <2> QED BY <1>14, <1>k, <2>1 DEF LocalData, ReadData
<1>15. CASE LocalEof
  <2>1. Idle(inbox', link) BY <1>15, <1>t, SharedIdle DEF LocalEof
  <2> QED BY <1>15, <1>k, <2>1 DEF LocalEof, ReadEof
<1>16. CASE RecoveryTimePasses
  BY <1>16, <1>k, <1>t DEF RecoveryTimePasses, TravelState
<1> QED
  BY <1>1, <1>2, <1>3, <1>4, <1>5, <1>6, <1>7, <1>8, <1>9, <1>10, <1>11, <1>12, <1>13, <1>14, <1>15,
     <1>16
  DEF TravelNext

LEMMA HomeEndsLinks ==
  ASSUME TypeOK, LinksOK, NEW outcome, NEW links, HomeEnds(outcome, links), Loosened(links)
  PROVE  LinksOK'
<1>1. /\ home'.incoming = {} /\ home'.carriers = {} /\ home'.active = NoCarrier
      /\ link' = links /\ travel' = travel /\ inbox' = Deaf("home")
  BY DEF HomeEnds, TypeOK, HomeState
<1>2. \A c \in Carriers : c # NoCarrier BY FlowConstants DEF Carriers
<1>3. TravelLinks(travel, links) BY LinksLoosened
<1>4. HomeLinks(home', links) BY <1>1, <1>2 DEF HomeLinks
<1>5. inbox \in Boxes /\ "home" \in Sides BY DEF TypeOK, Boxes, Sides
<1>6. Idle(inbox', link) BY <1>1, <1>5, IdleDeaf DEF LinksOK
<1>7. Idle(inbox', links) BY <1>6, LinksLoosened
<1> QED BY <1>1, <1>3, <1>4, <1>7 DEF LinksOK

\* Home drops Carriers it was given.
LEMMA HomeDropsLoosens ==
  ASSUME LinksOK
  PROVE  Loosened(Dropped(home.carriers \cup home.incoming))
<1>1. \A c \in Carriers : c \in home.carriers \cup home.incoming => link[c] # "idle"
  BY DEF LinksOK, HomeLinks
<1> QED BY <1>1, DroppedLoosens

LEMMA HomeFailsLinks ==
  ASSUME TypeOK, LinksOK, NEW outcome, HomeFails(outcome)
  PROVE  LinksOK'
  BY HomeDropsLoosens, HomeEndsLinks DEF HomeFails

LEMMA AttachesLinks ==
  ASSUME TypeOK, LinksOK, NEW queued, queued \subseteq Carriers, Attaches(queued),
         \A c \in queued : link[c] = "opening"
  PROVE  HomeLinks(home', link)
<1>t. home \in HomeState BY DEF TypeOK
<1>h. HomeLinks(home, link) BY DEF LinksOK
<1>1. CASE home.phase # "absent"
  <2>1. /\ home'.incoming = home.incoming \cup queued
        /\ home'.carriers = home.carriers /\ home'.active = home.active
    BY <1>1, <1>t DEF Attaches, HomeState
  <2> QED BY <1>h, <2>1 DEF HomeLinks
<1>2. CASE home.phase = "absent"
  <2>1. /\ home'.incoming = queued
        /\ home'.carriers = home.carriers /\ home'.active = home.active
    BY <1>2, <1>t DEF Attaches, HomeState
  <2> QED BY <1>h, <2>1 DEF HomeLinks
<1> QED BY <1>1, <1>2

LEMMA HomeLinksNext ==
  ASSUME TypeOK, LinksOK, HomeNext
  PROVE  LinksOK'
<1>t. /\ home \in HomeState /\ inbox \in Boxes
      /\ link \in [Carriers -> {"idle", "opening", "up", "closing", "down"}]
      /\ "travel" \in Sides /\ "home" \in Sides
      /\ home.carriers \subseteq Carriers /\ home.incoming \subseteq Carriers
      /\ TravelLinks(travel, link) /\ HomeLinks(home, link) /\ Idle(inbox, link)
  BY DEF TypeOK, Boxes, Sides, HomeState, LinksOK
<1>n. \A c \in Carriers : c # NoCarrier BY FlowConstants DEF Carriers
<1>k. ASSUME link' = link, travel' = travel, Idle(inbox', link), home'.incoming = home.incoming,
             home'.carriers = home.carriers, home'.active = home.active
      PROVE  LinksOK'
  <2>1. HomeLinks(home', link) BY <1>k, <1>t DEF HomeLinks
  <2> QED BY <1>k, <1>t, <2>1 DEF LinksOK
<1>1. ASSUME NEW c \in Carriers, Attach(c) PROVE LinksOK'
  <2>1. HomeLinks(home', link) BY <1>1, AttachesLinks DEF Attach, Unattached
  <2> QED BY <1>1, <1>t, <2>1 DEF Attach, LinksOK
<1>2. ASSUME NEW c \in Carriers, AttachNoSlot(c) \/ AttachRejected(c) PROVE LinksOK'
  <2>1. /\ link' = Dropped({c}) /\ inbox' = inbox /\ travel' = travel /\ link[c] = "opening"
    BY <1>2 DEF AttachNoSlot, AttachRejected, Unattached
  <2>2. HomeLinks(home', link)
    <3>1. CASE AttachRejected(c) BY <1>t, <3>1 DEF AttachRejected
    <3>2. CASE AttachNoSlot(c)
      <4>1. Attaches({}) /\ {} \subseteq Carriers BY <3>2 DEF AttachNoSlot
      <4> QED BY <4>1, AttachesLinks
    <3> QED BY <1>2, <3>1, <3>2
  <2>3. Loosened(Dropped({c})) BY <2>1, DroppedLoosens
  <2>4. TravelLinks(travel, link') /\ Idle(inbox', link') BY <1>t, <2>1, <2>3, LinksLoosened
  <2>5. \A d \in Carriers : link'[d] = IF d = c THEN "down" ELSE link[d] BY <2>1 DEF Dropped
  <2>6. HomeLinks(home', link') BY <2>2, <2>5 DEF HomeLinks
  <2> QED BY <2>1, <2>4, <2>6 DEF LinksOK
<1>3. ASSUME NEW c \in Carriers, Admit(c) PROVE LinksOK'
  <2>1. /\ c \in home.incoming /\ travel' = travel
        /\ home'.incoming = home.incoming \ {c} /\ home'.carriers = home.carriers \cup {c}
        /\ home'.active = home.active
    BY <1>3, <1>t DEF Admit, HomeState
  <2>2. link[c] \in {"opening", "down"} BY <1>t, <2>1 DEF HomeLinks
  <2>3. /\ link'[c] \in {"up", "down"} /\ (link'[c] = "up" => link[c] = "opening")
        /\ \A d \in Carriers : d # c => link'[d] = link[d]
    BY <1>3, <1>t, <2>2 DEF Admit
  <2>4. c \notin travel.carriers \/ link[c] # "opening" BY <1>t DEF TravelLinks
  <2>5. TravelLinks(travel, link')
    <3>1. /\ ~travel.racing => travel.opening = {}
          /\ travel.racing => travel.race >= 1
          /\ travel.carriers \cap travel.opening = {}
      BY <1>t DEF TravelLinks
    <3>2. ASSUME NEW d \in Carriers
          PROVE  /\ d \in travel.carriers \cup travel.opening => d[1] <= travel.race
                 /\ d[1] > travel.race => link'[d] = "idle"
                 /\ link'[d] = "opening" => d \in travel.opening
                 /\ link'[d] = "up" => d \in travel.carriers \cup travel.opening
                 /\ d \in travel.carriers => link'[d] \notin {"idle", "opening"}
      <4>1. /\ d \in travel.carriers \cup travel.opening => d[1] <= travel.race
            /\ d[1] > travel.race => link[d] = "idle"
            /\ link[d] = "opening" => d \in travel.opening
            /\ link[d] = "up" => d \in travel.carriers \cup travel.opening
            /\ d \in travel.carriers => link[d] \notin {"idle", "opening"}
        BY <1>t DEF TravelLinks
      <4>2. CASE d # c
        <5>1. link'[d] = link[d] BY <2>3, <4>2
        <5> QED BY <4>1, <5>1
      <4>3. CASE d = c
        <5>1. ~(d[1] > travel.race) BY <2>2, <4>1, <4>3
        <5>2. link'[d] = "up" => d \in travel.opening BY <2>3, <4>1, <4>3
        <5>3. link'[d] \in {"up", "down"} BY <2>3, <4>3
        <5> QED BY <4>1, <5>1, <5>2, <5>3
      <4> QED BY <4>2, <4>3
    <3> QED BY <3>1, <3>2 DEF TravelLinks
  <2>6. HomeLinks(home', link') BY <1>t, <2>1, <2>3 DEF HomeLinks
  <2>7. \A d \in Carriers : d # c => inbox'["travel"][d] = inbox["travel"][d]
                                     /\ inbox'["home"][d] = inbox["home"][d]
    BY <1>3, <1>t DEF Admit, Boxes
  <2>8. Idle(inbox', link') BY <1>t, <2>3, <2>7 DEF Idle
  <2> QED BY <2>1, <2>5, <2>6, <2>8 DEF LinksOK
<1>4. ASSUME NEW c \in Carriers, HomeRaceWon(c) PROVE LinksOK'
  <2> DEFINE f == <<RaceAck(Head(inbox["home"][c]).race, c)>> \o Retransmission(tx["home"], home.inc)
  <2>1. /\ inbox["home"][c] # <<>> /\ link' = link /\ travel' = travel
        /\ inbox' = Sent(Consumed("home", c), "home", home.carriers, c, f)
        /\ home'.active = c /\ home'.incoming = home.incoming /\ home'.carriers = home.carriers
    BY <1>4, <1>t DEF HomeRaceWon, Arrives, HomeState
  <2> HIDE DEF f
  <2>2. /\ link[c] \notin {"idle", "opening"} /\ Consumed("home", c) \in Boxes
        /\ Idle(Consumed("home", c), link)
    BY <1>t, <2>1, IdleConsumed, ConsumedType
  <2>3. Idle(inbox', link) BY <1>t, <2>1, <2>2, IdleSent
  <2>4. HomeLinks(home', link) BY <1>t, <2>1, <2>2 DEF HomeLinks
  <2> QED BY <1>t, <2>1, <2>3, <2>4 DEF LinksOK
<1>5. ASSUME NEW c \in Carriers, HomeRaceLost(c) \/ HomeData(c) \/ HomeObjects(c) PROVE LinksOK'
  <2>1. inbox["home"][c] # <<>> /\ \E f : inbox' = Reply("home", c, f)
    <3>1. CASE HomeRaceLost(c) BY <3>1 DEF HomeRaceLost, Arrives
    <3>2. CASE HomeData(c) BY <3>2 DEF HomeData, Arrives
    <3>3. CASE HomeObjects(c) BY <3>3 DEF HomeObjects, Arrives, OutOfOrder
    <3> QED BY <1>5, <3>1, <3>2, <3>3
  <2>2. Idle(inbox', link) BY <1>t, <2>1, IdleReplied
  <2>3. home' = home /\ travel' = travel /\ link' = link
    BY <1>5 DEF HomeRaceLost, HomeData, HomeObjects
  <2> QED BY <1>k, <2>2, <2>3
<1>6. ASSUME NEW c \in Carriers, HomeDuplicate(c) \/ HomeFin(c) \/ HomeFinAck(c) PROVE LinksOK'
  <2>1. Idle(inbox', link) BY <1>6, <1>t, SharedIdle DEF HomeDuplicate, HomeFin, HomeFinAck
  <2>2. home' = home /\ travel' = travel /\ link' = link
    BY <1>6 DEF HomeDuplicate, HomeFin, HomeFinAck, DataDuplicate, FinInOrder, FinAckInOrder
  <2> QED BY <1>k, <2>1, <2>2
<1>7. ASSUME NEW c \in Carriers, HomeAck(c) PROVE LinksOK'
  <2>1. CASE AckSplits("home", c) BY <1>7, <2>1, HomeFailsLinks DEF HomeAck
  <2>2. CASE ~AckSplits("home", c)
    <3>1. AckInWindow("home", c) BY <1>7, <2>2 DEF HomeAck
    <3>2. Idle(inbox', link) BY <1>t, <3>1, SharedIdle
    <3> QED BY <1>k, <3>1, <3>2 DEF AckInWindow
  <2> QED BY <2>1, <2>2
<1>8. ASSUME NEW c \in Carriers, HomeCarrierClosed(c) PROVE LinksOK'
  <2>1. /\ link' = link /\ travel' = travel /\ home'.incoming = home.incoming
        /\ home'.carriers = home.carriers \ {c} /\ home'.active \in {home.active, NoCarrier}
    BY <1>8, <1>t DEF HomeCarrierClosed, Detached, HomeState
  <2>2. \A x \in Sides, d \in Carriers : inbox'[x][d] = inbox[x][d] \/ inbox'[x][d] = <<>>
    BY <1>8, <1>t DEF Boxes, HomeCarrierClosed
  <2>3. Idle(inbox', link) BY <1>t, <2>2, IdleShrinks
  <2>4. HomeLinks(home', link) BY <1>n, <1>t, <2>1 DEF HomeLinks
  <2> QED BY <1>t, <2>1, <2>3, <2>4 DEF LinksOK
<1>9. CASE TargetConnects
  BY <1>9, <1>k, <1>t DEF TargetConnects, HomeState
<1>10. ASSUME NEW len \in SegLens, TargetData(len) PROVE LinksOK'
  <2>1. Idle(inbox', link) BY <1>10, <1>t, SharedIdle DEF TargetData
  <2> QED BY <1>10, <1>k, <2>1 DEF TargetData, ReadData
<1>11. CASE TargetEof
  <2>1. Idle(inbox', link) BY <1>11, <1>t, SharedIdle DEF TargetEof
  <2> QED BY <1>11, <1>k, <2>1 DEF TargetEof, ReadEof
<1>12. ASSUME NEW c \in Carriers, AdmitFails(c) PROVE LinksOK'
  BY <1>12, HomeFailsLinks DEF AdmitFails
<1>13. CASE DetachExpires \/ HomeStops \/ HomeDrainTimesOut
  BY <1>13, HomeFailsLinks DEF DetachExpires, HomeStops, HomeDrainTimesOut
<1>14. CASE HomeCompletes
  <2> DEFINE links == [c \in Carriers |->
                 IF c \in home.incoming THEN "down" ELSE Drained(home.carriers)[c]]
  <2>1. HomeEnds("finished", links) BY <1>14 DEF HomeCompletes
  <2>2. Loosened(links) BY <1>t DEF Loosened, Drained, HomeLinks
  <2> HIDE DEF links
  <2> QED BY <2>1, <2>2, HomeEndsLinks
<1> QED
  BY <1>1, <1>2, <1>3, <1>4, <1>5, <1>6, <1>7, <1>8, <1>9, <1>10, <1>11, <1>12, <1>13, <1>14
  DEF HomeNext

LEMMA LinksNext == TypeOK /\ LinksOK /\ [Next]_vars => LinksOK'
<1> SUFFICES ASSUME TypeOK, LinksOK, [Next]_vars PROVE LinksOK'
  OBVIOUS
<1>1. ASSUME NEW c \in Carriers, Break(c) PROVE LinksOK'
  <2>1. /\ link[c] # "idle" /\ link' = Dropped({c})
        /\ inbox' = inbox /\ travel' = travel /\ home' = home
    BY <1>1 DEF Break
  <2>2. Loosened(link') BY <2>1, DroppedLoosens
  <2> QED BY <2>1, <2>2, LinksLoosened DEF LinksOK
<1>2. CASE UNCHANGED vars BY <1>2 DEF LinksOK, vars
<1> QED BY <1>1, <1>2, TravelLinksNext, HomeLinksNext DEF Next

\* What the two endpoints note about a Carrier agrees with the stream between
\* them: an open one belongs to Travel, one that Home has not answered carries
\* nothing, and a stale Carrier is never opened a second time.
THEOREM LinksInvariant == Spec => []LinksOK
<1>1. Init => LinksOK
  <2> SUFFICES ASSUME Init PROVE LinksOK OBVIOUS
  <2>1. \A c \in Carriers : c[1] \in Nat /\ c[1] >= 1 /\ c # NoCarrier
    BY FlowConstants DEF Carriers
  <2>2. /\ travel.racing = FALSE /\ travel.race = 0
        /\ travel.carriers = {} /\ travel.opening = {}
        /\ home.incoming = {} /\ home.carriers = {} /\ home.active = NoCarrier
        /\ \A c \in Carriers : link[c] = "idle"
    BY DEF Init
  <2>3. TravelLinks(travel, link) BY <2>1, <2>2 DEF TravelLinks
  <2>4. HomeLinks(home, link) BY <2>1, <2>2 DEF HomeLinks
  <2>5. Idle(inbox, link) BY DEF Init, Idle, Sides
  <2> QED BY <2>3, <2>4, <2>5 DEF LinksOK
<1> QED BY <1>1, TypeCorrect, LinksNext, PTL DEF Spec

-----------------------------------------------------------------------------
(* Contiguous data.                                                         *)

\* Where a frame expects its reader to be.
Needs(m) == IF m.type = "Data" THEN m.offset ELSE m.final_offset

\* Offset n is delivered, or one of the first k frames of q brings it to a
\* reader that has x.
ReachedBy(q, k, x, n) ==
    \/ n <= x
    \/ \E i \in 1..k : q[i].type = "Data" /\ n <= End(q[i])

\* Whoever reads q in order from x meets no gap.
GapFree(q, x) ==
    \A i \in 1..Len(q) : q[i].type \in {"Data", "Fin"} => ReachedBy(q, i - 1, x, Needs(q[i]))

\* The frames under way to Travel on c; on the Carrier Home sends on they are all
\* that Home has read and Travel does not have.
Listening(c) == home.active = c /\ c \in home.carriers /\ link[c] = "up"
NoGapOn(c) ==
    LET q == inbox["travel"][c] IN
    /\ GapFree(q, rx["travel"].receive_offset)
    /\ Listening(c) =>
           ReachedBy(q, Len(q), rx["travel"].receive_offset, tx["home"].send_offset)

NoGap == SoleHome => \A c \in Carriers : NoGapOn(c)

LEMMA NeedsType ==
  ASSUME NEW q \in Seq(Frame), NEW i \in 1..Len(q)
  PROVE  /\ q[i].type \in {"Data", "Fin"} => Needs(q[i]) \in Nat
         /\ q[i].type = "Data" => End(q[i]) \in Nat
<1>1. q[i] \in Frame BY ElementOfSeq
<1> QED BY <1>1, FrameFields DEF Needs, End

\* What arrives only helps.
LEMMA ReachedMore ==
  ASSUME NEW q, NEW k \in Nat, NEW l \in Nat, k <= l, NEW x \in Nat, NEW y \in Nat, x <= y,
         NEW n \in Nat, ReachedBy(q, k, x, n)
  PROVE  ReachedBy(q, l, y, n)
  BY DEF ReachedBy

LEMMA GapFreeMore ==
  ASSUME NEW q \in Seq(Frame), NEW x \in Nat, NEW y \in Nat, x <= y, GapFree(q, x)
  PROVE  GapFree(q, y)
<1> SUFFICES ASSUME NEW i \in 1..Len(q), q[i].type \in {"Data", "Fin"}
             PROVE  ReachedBy(q, i - 1, y, Needs(q[i]))
  BY DEF GapFree
<1>1. Needs(q[i]) \in Nat BY NeedsType
<1>2. ReachedBy(q, i - 1, x, Needs(q[i])) BY DEF GapFree
<1>3. i - 1 \in Nat /\ Len(q) \in Nat BY LenProperties
<1> HIDE DEF GapFree
<1> QED BY <1>1, <1>2, <1>3, ReachedMore

\* The first frame is taken.
LEMMA GapFreeTail ==
  ASSUME NEW q \in Seq(Frame), q # <<>>, NEW x \in Nat, NEW y \in Nat, x <= y, GapFree(q, x),
         Head(q).type = "Data" => End(Head(q)) <= y
  PROVE  /\ GapFree(Tail(q), y)
         /\ \A n \in Nat : ReachedBy(q, Len(q), x, n) => ReachedBy(Tail(q), Len(Tail(q)), y, n)
<1> DEFINE p == Tail(q)
<1>1. /\ Len(p) = Len(q) - 1 /\ Len(q) \in Nat /\ Len(q) >= 1
      /\ \A i \in 1..Len(p) : p[i] = q[i + 1]
      /\ Head(q) = q[1]
  BY HeadTailProperties, EmptySeq, LenProperties
<1>2. q[1].type = "Data" => End(q[1]) <= y /\ End(q[1]) \in Nat BY <1>1, NeedsType
<1> HIDE DEF p
<1>3. ASSUME NEW k \in Nat, k <= Len(p), NEW n \in Nat, ReachedBy(q, k + 1, x, n)
      PROVE  ReachedBy(p, k, y, n)
  <2>1. CASE n <= x BY <2>1 DEF ReachedBy
  <2>2. ASSUME NEW i \in 1..(k + 1), q[i].type = "Data", n <= End(q[i])
        PROVE  ReachedBy(p, k, y, n)
    <3>1. CASE i = 1 BY <1>2, <2>2, <3>1 DEF ReachedBy
    <3>2. CASE i # 1
      <4>1. i - 1 \in 1..k /\ i - 1 \in 1..Len(p) /\ (i - 1) + 1 = i BY <1>1, <1>3, <3>2
      <4>2. p[i - 1] = q[i] BY <1>1, <4>1
      <4> QED BY <2>2, <4>1, <4>2 DEF ReachedBy
    <3> QED BY <3>1, <3>2
  <2> QED BY <1>3, <2>1, <2>2 DEF ReachedBy
<1>4. ASSUME NEW i \in 1..Len(p), p[i].type \in {"Data", "Fin"}
      PROVE  ReachedBy(p, i - 1, y, Needs(p[i]))
  <2>1. i + 1 \in 1..Len(q) /\ p[i] = q[i + 1] /\ (i + 1) - 1 = (i - 1) + 1
        /\ i - 1 \in Nat /\ i - 1 <= Len(p)
    BY <1>1
  <2>2. ReachedBy(q, (i + 1) - 1, x, Needs(q[i + 1])) BY <1>4, <2>1 DEF GapFree
  <2>3. Needs(q[i + 1]) \in Nat BY <1>4, <2>1, NeedsType
  <2> QED BY <1>3, <2>1, <2>2, <2>3
<1>5. GapFree(p, y) BY <1>4 DEF GapFree
<1>6. ASSUME NEW n \in Nat, ReachedBy(q, Len(q), x, n) PROVE ReachedBy(p, Len(p), y, n)
  <2>1. Len(p) \in Nat /\ Len(q) = Len(p) + 1 BY <1>1
  <2> QED BY <1>3, <1>6, <2>1
<1> QED BY <1>5, <1>6 DEF p

\* Frames that expect no more than what comes before them are added.
LEMMA GapFreeAppend ==
  ASSUME NEW q \in Seq(Frame), NEW f \in Seq(Frame), NEW x \in Nat, GapFree(q, x),
         \A i \in 1..Len(f) : f[i].type \in {"Data", "Fin"} =>
             \/ ReachedBy(q, Len(q), x, Needs(f[i]))
             \/ ReachedBy(f, i - 1, x, Needs(f[i]))
  PROVE  /\ GapFree(q \o f, x)
         /\ \A n \in Nat : ReachedBy(q, Len(q), x, n) \/ ReachedBy(f, Len(f), x, n) =>
                ReachedBy(q \o f, Len(q \o f), x, n)
<1> DEFINE p == q \o f
<1>1. /\ Len(q) \in Nat /\ Len(f) \in Nat /\ Len(p) = Len(q) + Len(f)
      /\ \A i \in 1..(Len(q) + Len(f)) : p[i] = IF i <= Len(q) THEN q[i] ELSE f[i - Len(q)]
  BY ConcatProperties, LenProperties
<1> HIDE DEF p
<1>2. /\ \A i \in 1..Len(q) : i \in 1..Len(p) /\ p[i] = q[i]
      /\ \A i \in 1..Len(f) : i + Len(q) \in 1..Len(p) /\ p[i + Len(q)] = f[i]
  BY <1>1
<1>3. ASSUME NEW k \in Nat, k <= Len(q), NEW n \in Nat, ReachedBy(q, k, x, n)
      PROVE  ReachedBy(p, k, x, n)
  <2>1. \A i \in 1..k : i \in 1..Len(q) BY <1>1, <1>3
  <2> QED BY <1>2, <1>3, <2>1 DEF ReachedBy
<1>4. ASSUME NEW k \in Nat, k <= Len(f), NEW n \in Nat, ReachedBy(f, k, x, n)
      PROVE  ReachedBy(p, Len(q) + k, x, n)
  <2>1. CASE n <= x BY <2>1 DEF ReachedBy
  <2>2. ASSUME NEW i \in 1..k, f[i].type = "Data", n <= End(f[i])
        PROVE  ReachedBy(p, Len(q) + k, x, n)
    <3>1. i \in 1..Len(f) /\ i + Len(q) \in 1..(Len(q) + k) BY <1>1, <1>4
    <3>2. p[i + Len(q)] = f[i] BY <1>2, <3>1
    <3> QED BY <2>2, <3>1, <3>2 DEF ReachedBy
  <2> QED BY <1>4, <2>1, <2>2 DEF ReachedBy
<1>5. ASSUME NEW i \in 1..Len(p), p[i].type \in {"Data", "Fin"}
      PROVE  ReachedBy(p, i - 1, x, Needs(p[i]))
  <2>0. i - 1 \in Nat BY <1>1
  <2>1. CASE i <= Len(q)
    <3>1. i \in 1..Len(q) /\ p[i] = q[i] BY <1>1, <2>1
    <3>2. ReachedBy(q, i - 1, x, Needs(q[i])) BY <1>5, <3>1 DEF GapFree
    <3>3. Needs(q[i]) \in Nat /\ i - 1 <= Len(q) BY <1>1, <1>5, <3>1, NeedsType
    <3> QED BY <1>3, <2>0, <3>1, <3>2, <3>3
  <2>2. CASE ~(i <= Len(q))
    <3>1. PICK j \in 1..Len(f) : j = i - Len(q) BY <1>1, <2>2
    <3>2. p[i] = f[j] BY <1>1, <2>2, <3>1
    <3>3. Needs(f[j]) \in Nat BY <1>5, <3>2, NeedsType
    <3>4. CASE ReachedBy(q, Len(q), x, Needs(f[j]))
      <4>1. ReachedBy(p, Len(q), x, Needs(f[j])) BY <1>1, <1>3, <3>3, <3>4
      <4>2. Len(q) <= i - 1 BY <1>1, <2>2
      <4> QED BY <1>1, <2>0, <3>2, <3>3, <4>1, <4>2, ReachedMore
    <3>5. CASE ReachedBy(f, j - 1, x, Needs(f[j]))
      <4>1. j - 1 \in Nat /\ j - 1 <= Len(f) /\ Len(q) + (j - 1) = i - 1 BY <1>1, <3>1
      <4> QED BY <1>4, <3>2, <3>3, <3>5, <4>1
    <3> QED BY <1>5, <3>2, <3>4, <3>5
  <2> QED BY <2>1, <2>2
<1>6. GapFree(p, x) BY <1>5 DEF GapFree
<1>7. ASSUME NEW n \in Nat, ReachedBy(q, Len(q), x, n) \/ ReachedBy(f, Len(f), x, n)
      PROVE  ReachedBy(p, Len(p), x, n)
  <2>1. CASE ReachedBy(q, Len(q), x, n)
    <3>1. ReachedBy(p, Len(q), x, n) BY <1>1, <1>3, <2>1
    <3>2. Len(p) \in Nat /\ Len(q) <= Len(p) BY <1>1
    <3> QED BY <1>1, <3>1, <3>2, ReachedMore
  <2>2. CASE ReachedBy(f, Len(f), x, n) BY <1>1, <1>4, <2>2
  <2> QED BY <1>7, <2>1, <2>2
<1> QED BY <1>6, <1>7 DEF p

\* A retransmission starts where the reader is, or before, and repeats
\* everything from there.
LEMMA RetransmissionGapFree ==
  ASSUME NEW t \in TxState, WindowOK(t), NEW k \in Nat, NEW x \in Nat, t.send_acked <= x
  PROVE  /\ GapFree(Retransmission(t, k), x)
         /\ ReachedBy(Retransmission(t, k), Len(Retransmission(t, k)), x, t.send_offset)
<1> DEFINE q == t.unacked
           D == [n \in 1..Len(q) |-> Data(q[n], k)]
           F == IF t.local_eof THEN <<Fin(t.send_offset)>> ELSE <<>>
<1>1. /\ q \in Seq(Segment) /\ Len(q) \in Nat /\ t.send_offset \in Nat /\ t.send_acked \in Nat
      /\ (q = <<>> <=> Len(q) = 0)
  BY QueueFields
<1>2. /\ q = <<>> => t.send_acked = t.send_offset
      /\ q # <<>> => q[1].offset = t.send_acked /\ End(q[Len(q)]) = t.send_offset
      /\ \A i \in 1..(Len(q) - 1) : End(q[i]) = q[i + 1].offset
  BY DEF WindowOK
<1>3. \A n \in 1..Len(q) : Data(q[n], k) \in Frame BY <1>1, FrameTypes, ElementOfSeq
<1>4. D \in Seq(Frame) /\ Len(D) = Len(q) BY <1>1, <1>3, IsASeq
<1>5. \A n \in 1..Len(q) : D[n].type = "Data" /\ D[n].offset = q[n].offset /\ End(D[n]) = End(q[n])
  BY DEF Data, End
<1>6. Fin(t.send_offset) \in Frame BY <1>1, FrameTypes
<1>7. F \in Seq(Frame) BY <1>6
<1>8. \A i \in 1..Len(F) : Needs(F[i]) = t.send_offset BY DEF Needs, Fin
<1>9. Retransmission(t, k) = D \o F BY DEF Retransmission
<1> HIDE DEF q, D, F
<1>10. ASSUME NEW i \in 1..Len(D) PROVE ReachedBy(D, i - 1, x, Needs(D[i]))
  <2>1. i \in 1..Len(q) /\ Needs(D[i]) = q[i].offset BY <1>4, <1>5 DEF Needs
  <2>2. CASE i = 1
    <3>1. q # <<>> BY <1>1, <2>1
    <3> QED BY <1>2, <2>1, <2>2, <3>1 DEF ReachedBy
  <2>3. CASE i # 1
    <3>1. i - 1 \in 1..(Len(q) - 1) /\ i - 1 \in 1..Len(q) /\ (i - 1) + 1 = i /\ i - 1 \in 1..(i - 1)
      BY <1>1, <2>1, <2>3
    <3>2. End(q[i - 1]) = q[i].offset BY <1>2, <3>1
    <3>3. D[i - 1].type = "Data" /\ End(D[i - 1]) = q[i].offset BY <1>5, <3>1, <3>2
    <3>4. D[i] \in Frame /\ D[i].type = "Data" BY <1>4, <1>5, <2>1, ElementOfSeq
    <3>5. q[i].offset \in Nat BY <1>5, <2>1, <3>4, FrameFields
    <3> QED BY <2>1, <3>1, <3>3, <3>5 DEF ReachedBy
  <2> QED BY <2>2, <2>3
<1>11. GapFree(D, x) BY <1>10 DEF GapFree
<1>12. ReachedBy(D, Len(D), x, t.send_offset)
  <2>1. CASE q = <<>> BY <1>2, <2>1 DEF ReachedBy
  <2>2. CASE q # <<>>
    <3>1. Len(q) \in 1..Len(D) /\ Len(q) \in 1..Len(q) BY <1>1, <1>4, <2>2
    <3>2. D[Len(q)].type = "Data" /\ End(D[Len(q)]) = t.send_offset BY <1>2, <1>5, <2>2, <3>1
    <3> QED BY <1>1, <3>1, <3>2 DEF ReachedBy
  <2> QED BY <2>1, <2>2
<1>13. \A i \in 1..Len(F) : ReachedBy(D, Len(D), x, Needs(F[i])) BY <1>8, <1>12
<1> QED BY <1>1, <1>4, <1>7, <1>9, <1>11, <1>12, <1>13, GapFreeAppend

\* What a step needs to do to one Carrier: less for Travel to read ...
LEMMA GapKept ==
  ASSUME TypeOK, TypeOK', NEW c \in Carriers, NoGapOn(c),
         rx["travel"].receive_offset <= rx'["travel"].receive_offset,
         Listening(c)' => Listening(c) /\ tx'["home"].send_offset = tx["home"].send_offset,
         \/ inbox'["travel"][c] = inbox["travel"][c]
         \/ /\ inbox["travel"][c] # <<>> /\ inbox'["travel"][c] = Tail(inbox["travel"][c])
            /\ LET m == Head(inbox["travel"][c]) IN
                   m.type = "Data" => End(m) <= rx'["travel"].receive_offset
  PROVE  NoGapOn(c)'
<1> DEFINE q == inbox["travel"][c]
           p == inbox'["travel"][c]
           x == rx["travel"].receive_offset
           y == rx'["travel"].receive_offset
           n == tx["home"].send_offset
           l == tx'["home"].send_offset
<1>1. q \in Seq(Frame) /\ x \in Nat /\ y \in Nat /\ n \in Nat /\ l \in Nat
  BY DEF TypeOK, TxState, RxState, Sides
<1>2. GapFree(q, x) /\ (Listening(c) => ReachedBy(q, Len(q), x, n)) BY DEF NoGapOn
<1>3. x <= y /\ (Listening(c)' => Listening(c) /\ l = n) OBVIOUS
<1>4. p = q \/ (q # <<>> /\ p = Tail(q) /\ (Head(q).type = "Data" => End(Head(q)) <= y))
  OBVIOUS
<1>5. SUFFICES GapFree(p, y) /\ (Listening(c)' => ReachedBy(p, Len(p), y, l)) BY DEF NoGapOn
<1> HIDE DEF q, p, x, y, n, l
<1>6. CASE p = q
  <2>1. Len(q) \in Nat BY <1>1, LenProperties
  <2> QED BY <1>1, <1>2, <1>3, <1>6, <2>1, GapFreeMore, ReachedMore
<1>7. CASE q # <<>> /\ p = Tail(q) /\ (Head(q).type = "Data" => End(Head(q)) <= y)
  BY <1>1, <1>2, <1>3, <1>7, GapFreeTail
<1> QED BY <1>4, <1>6, <1>7

\* ... or nothing at all, on a Carrier that is no longer open ...
LEMMA GapCleared ==
  ASSUME NEW c \in Carriers, inbox'["travel"][c] = <<>>, link'[c] # "up"
  PROVE  NoGapOn(c)'
<1>1. \A i \in 1..Len(<<>>) : FALSE OBVIOUS
<1> QED BY <1>1 DEF NoGapOn, GapFree, Listening

\* ... or more, from Home.
LEMMA GapAppended ==
  ASSUME TypeOK, NEW c \in Carriers, NoGapOn(c), NEW f \in Seq(Frame),
         rx'["travel"] = rx["travel"], tx'["home"].send_offset \in Nat,
         inbox'["travel"][c] = inbox["travel"][c] \o f,
         \A i \in 1..Len(f) : f[i].type \in {"Data", "Fin"} =>
             \/ ReachedBy(inbox["travel"][c], Len(inbox["travel"][c]),
                          rx["travel"].receive_offset, Needs(f[i]))
             \/ ReachedBy(f, i - 1, rx["travel"].receive_offset, Needs(f[i])),
         Listening(c)' =>
             \/ Listening(c) /\ tx'["home"].send_offset = tx["home"].send_offset
             \/ ReachedBy(f, Len(f), rx["travel"].receive_offset, tx'["home"].send_offset)
  PROVE  NoGapOn(c)'
<1> DEFINE q == inbox["travel"][c]
           p == inbox'["travel"][c]
           x == rx["travel"].receive_offset
           n == tx["home"].send_offset
           l == tx'["home"].send_offset
<1>1. q \in Seq(Frame) /\ x \in Nat /\ l \in Nat
  BY DEF TypeOK, TxState, RxState, Sides
<1>2. GapFree(q, x) /\ (Listening(c) => ReachedBy(q, Len(q), x, n)) BY DEF NoGapOn
<1>3. /\ p = q \o f
      /\ \A i \in 1..Len(f) : f[i].type \in {"Data", "Fin"} =>
             ReachedBy(q, Len(q), x, Needs(f[i])) \/ ReachedBy(f, i - 1, x, Needs(f[i]))
      /\ Listening(c)' => (Listening(c) /\ l = n) \/ ReachedBy(f, Len(f), x, l)
  OBVIOUS
<1>4. SUFFICES GapFree(p, x) /\ (Listening(c)' => ReachedBy(p, Len(p), x, l)) BY DEF NoGapOn
<1> HIDE DEF q, p, x, n, l
<1> QED BY <1>1, <1>2, <1>3, GapFreeAppend

\* The part of a box that Travel reads.
LEMMA TravelSends ==
  ASSUME NEW box \in Boxes, NEW held, held \subseteq Carriers, NEW c, NEW f,
         inbox' = Sent(box, "travel", held, c, f)
  PROVE  inbox'["travel"] = box["travel"]
<1>1. "travel" \in Sides /\ Peer("travel") = "home" BY DEF Sides, Peer
<1>2. CASE c \in held /\ link[c] = "up" BY <1>1, <1>2 DEF Sent, Boxes
<1>3. CASE ~(c \in held /\ link[c] = "up") BY <1>3 DEF Sent
<1> QED BY <1>2, <1>3

LEMMA HomeSends ==
  ASSUME NEW box \in Boxes, NEW held, held \subseteq Carriers, NEW c, NEW f,
         inbox' = Sent(box, "home", held, c, f), NEW d \in Carriers
  PROVE  inbox'["travel"][d] =
             IF d = c /\ c \in held /\ link[c] = "up" THEN box["travel"][d] \o f
             ELSE box["travel"][d]
<1>1. "travel" \in Sides /\ "home" \in Sides /\ Peer("home") = "travel" BY DEF Sides, Peer
<1>2. CASE c \in held /\ link[c] = "up" BY <1>1, <1>2 DEF Sent, Boxes
<1>3. CASE ~(c \in held /\ link[c] = "up") BY <1>3 DEF Sent
<1> QED BY <1>2, <1>3

LEMMA TravelConsumed ==
  ASSUME inbox \in Boxes, NEW c \in Carriers
  PROVE  /\ Consumed("home", c)["travel"] = inbox["travel"]
         /\ \A d \in Carriers : Consumed("travel", c)["travel"][d] =
                IF d = c THEN Tail(inbox["travel"][d]) ELSE inbox["travel"][d]
         /\ Deaf("home")["travel"] = inbox["travel"]
         /\ \A d \in Carriers : Deaf("travel")["travel"][d] = <<>>
  BY DEF Consumed, Deaf, Boxes, Sides

LEMMA TravelGap ==
  ASSUME TypeOK, TypeOK', LinksOK, TravelNext, NEW d \in Carriers, NoGapOn(d)
  PROVE  NoGapOn(d)'
<1>t. /\ travel \in TravelState /\ inbox \in Boxes /\ rx \in [Sides -> RxState]
      /\ tx \in [Sides -> TxState]
      /\ "travel" \in Sides /\ "home" \in Sides
      /\ travel.carriers \subseteq Carriers /\ travel.opening \subseteq Carriers
      /\ rx["travel"].receive_offset \in Nat
      /\ TravelLinks(travel, link)
  BY DEF TypeOK, Boxes, Sides, TravelState, LinksOK, RxState
<1>u. link[d] = "up" => d \in travel.carriers \cup travel.opening BY <1>t DEF TravelLinks
<1>l. ASSUME home' = home, link'[d] = "up" => link[d] = "up"
      PROVE  Listening(d)' => Listening(d)
  BY <1>l DEF Listening
\* A step that takes the frame m of c, or none, and sends on other inboxes only.
<1>k. ASSUME home' = home, link'[d] = "up" => link[d] = "up", tx'["home"] = tx["home"],
             rx["travel"].receive_offset <= rx'["travel"].receive_offset,
             \/ inbox'["travel"][d] = inbox["travel"][d]
             \/ /\ inbox["travel"][d] # <<>> /\ inbox'["travel"][d] = Tail(inbox["travel"][d])
                /\ LET m == Head(inbox["travel"][d]) IN
                       m.type = "Data" => End(m) <= rx'["travel"].receive_offset
      PROVE  NoGapOn(d)'
  BY <1>k, <1>l, GapKept
<1>e. ASSUME NEW reason, TravelFails(reason) PROVE NoGapOn(d)'
  <2>1. link' = Dropped(travel.carriers \cup travel.opening) /\ inbox' = Deaf("travel")
    BY <1>e DEF TravelFails
  <2>2. link'[d] # "up" BY <1>u, <2>1 DEF Dropped
  <2>3. inbox'["travel"][d] = <<>> BY <1>t, <2>1, TravelConsumed
  <2> QED BY <2>2, <2>3, GapCleared
<1>1. CASE TravelCompletes
  <2>1. link' = Drained(travel.carriers) /\ inbox' = Deaf("travel") /\ ~travel.racing
    BY <1>1 DEF TravelCompletes
  <2>2. travel.opening = {} BY <1>t, <2>1 DEF TravelLinks
  <2>3. link'[d] # "up" BY <1>u, <2>1, <2>2 DEF Drained
  <2>4. inbox'["travel"][d] = <<>> BY <1>t, <2>1, TravelConsumed
  <2> QED BY <2>3, <2>4, GapCleared
<1>2. CASE TravelDrainTimesOut \/ RecoveryExpires \/ TravelStops
  <2>1. \E reason : TravelFails(reason) /\ rx' = rx
    BY <1>2 DEF TravelDrainTimesOut, RecoveryExpires, TravelStops
  <2> QED BY <1>e, <2>1
<1>3. ASSUME NEW S \in SUBSET Relays, StartRace(S) PROVE NoGapOn(d)'
  <2>1. /\ home' = home /\ tx' = tx /\ rx' = rx /\ link'[d] \in {"opening", link[d]}
        /\ \E f : inbox' = Sent(inbox, "travel", travel.carriers, travel.active, f)
    BY <1>3 DEF StartRace
  <2>2. inbox'["travel"] = inbox["travel"] BY <1>t, <2>1, TravelSends
  <2> QED BY <1>k, <1>t, <2>1, <2>2
<1>4. CASE RaceTimesOut
  <2> DEFINE kept == travel.carriers \cap {travel.active}
             S == (travel.carriers \cup travel.opening) \ kept
  <2>1. /\ home' = home /\ tx' = tx /\ rx' = rx /\ link' = Dropped(S)
        /\ inbox'["travel"][d] = IF d \in travel.opening THEN <<>> ELSE inbox["travel"][d]
    BY <1>4, <1>t DEF RaceTimesOut, Boxes
  <2>2. travel.carriers \cap travel.opening = {} BY <1>t DEF TravelLinks
  <2>3. d \in travel.opening => d \in S BY <2>2
  <2>4. link'[d] = IF d \in S THEN "down" ELSE link[d] BY <2>1 DEF Dropped
  <2> HIDE DEF S
  <2>5. CASE d \in travel.opening
    <3>1. inbox'["travel"][d] = <<>> /\ link'[d] # "up" BY <2>1, <2>3, <2>4, <2>5
    <3> QED BY <3>1, GapCleared
  <2>6. CASE d \notin travel.opening BY <1>k, <1>t, <2>1, <2>4, <2>6
  <2> QED BY <2>5, <2>6
<1>5. ASSUME NEW c \in Carriers, Opened(c) PROVE NoGapOn(d)'
  <2>1. /\ home' = home /\ rx' = rx /\ link' = link
        /\ inbox["travel"][c] # <<>> /\ Head(inbox["travel"][c]).type = "OpenOk"
        /\ {c} \subseteq Carriers
        /\ \E f : inbox' = Sent(Consumed("travel", c), "travel", {c}, c, f)
    BY <1>5 DEF Opened, Arrives
  <2>2. tx'["home"] = tx["home"] BY <1>5, <1>t DEF Opened
  <2>3. Consumed("travel", c) \in Boxes BY <1>t, <2>1, ConsumedType
  <2>4. inbox'["travel"] = Consumed("travel", c)["travel"] BY <2>1, <2>3, TravelSends
  <2>5. inbox'["travel"][d] = IF d = c THEN Tail(inbox["travel"][d]) ELSE inbox["travel"][d]
    BY <1>t, <2>4, TravelConsumed
  <2> QED BY <1>k, <1>t, <2>1, <2>2, <2>5
<1>6. ASSUME NEW c \in Carriers, OpenedInconsistent(c) \/ TravelBails(c) PROVE NoGapOn(d)'
  <2>1. \E reason : TravelFails(reason) /\ rx' = rx BY <1>6 DEF OpenedInconsistent, TravelBails
  <2> QED BY <1>e, <2>1
<1>7. ASSUME NEW c \in Carriers, OpenFailed(c) PROVE NoGapOn(d)'
  <2>1. /\ home' = home /\ tx' = tx /\ rx' = rx /\ link' = Dropped({c})
        /\ inbox'["travel"][d] = IF d = c THEN <<>> ELSE inbox["travel"][d]
    BY <1>7, <1>t DEF OpenFailed, Boxes
  <2>2. link'[d] = IF d = c THEN "down" ELSE link[d] BY <2>1 DEF Dropped
  <2>3. CASE d = c
    <3>1. inbox'["travel"][d] = <<>> /\ link'[d] # "up" BY <2>1, <2>2, <2>3
    <3> QED BY <3>1, GapCleared
  <2>4. CASE d # c BY <1>k, <1>t, <2>1, <2>2, <2>4
  <2> QED BY <2>3, <2>4
<1>8. ASSUME NEW c \in Carriers, TravelCarrierClosed(c) PROVE NoGapOn(d)'
  <2>1. /\ home' = home /\ tx' = tx /\ rx' = rx /\ link' = link /\ link[c] # "up"
        /\ inbox'["travel"][d] = IF d = c THEN <<>> ELSE inbox["travel"][d]
    BY <1>8, <1>t DEF TravelCarrierClosed, SeesClosed, Boxes
  <2>3. CASE d = c
    <3>1. inbox'["travel"][d] = <<>> /\ link'[d] # "up" BY <2>1, <2>3
    <3> QED BY <3>1, GapCleared
  <2>4. CASE d # c BY <1>k, <1>t, <2>1, <2>4
  <2> QED BY <2>3, <2>4
<1>9. ASSUME NEW c \in Carriers, RaceAnswered(c) PROVE NoGapOn(d)'
  <2> DEFINE m == Head(inbox["travel"][c])
             kept == travel.carriers \cap {m.winner}
             S == (travel.carriers \cup travel.opening) \ kept
             cut == [Consumed("travel", c) EXCEPT !["travel"] =
                        [x \in Carriers |-> IF x \in travel.opening THEN <<>> ELSE @[x]]]
  <2>1. /\ home' = home /\ tx' = tx /\ rx' = rx /\ link' = Dropped(S)
        /\ inbox["travel"][c] # <<>> /\ m.type \in {"RaceAck", "RaceDuplicate"}
        /\ \E f : inbox' = Sent(cut, "travel", kept, m.winner, f)
    BY <1>9 DEF RaceAnswered, Arrives
  <2>2. Consumed("travel", c) \in Boxes BY <1>t, <2>1, ConsumedType
  <2>3. cut \in Boxes
    <3> DEFINE box == Consumed("travel", c)
    <3> QED BY <1>t, <2>2, ClearedType
  <2>4. cut["travel"][d] = IF d \in travel.opening THEN <<>>
                           ELSE Consumed("travel", c)["travel"][d]
    BY <1>t, <2>2 DEF Boxes
  <2> HIDE DEF cut
  <2>5. kept \subseteq Carriers BY <1>t
  <2>6. inbox'["travel"] = cut["travel"] BY <2>1, <2>3, <2>5, TravelSends
  <2>7. travel.carriers \cap travel.opening = {} BY <1>t DEF TravelLinks
  <2>8. d \in travel.opening => d \in S BY <2>7
  <2>9. link'[d] = IF d \in S THEN "down" ELSE link[d] BY <2>1 DEF Dropped
  <2> HIDE DEF S, kept
  <2>10. CASE d \in travel.opening
    <3>1. inbox'["travel"][d] = <<>> /\ link'[d] # "up" BY <2>4, <2>6, <2>8, <2>9, <2>10
    <3> QED BY <3>1, GapCleared
  <2>11. CASE d \notin travel.opening
    <3>1. inbox'["travel"][d] = IF d = c THEN Tail(inbox["travel"][d]) ELSE inbox["travel"][d]
      BY <1>t, <2>4, <2>6, <2>11, TravelConsumed
    <3>2. m.type # "Data" BY <2>1
    <3> QED BY <1>k, <1>t, <2>1, <2>9, <3>1, <3>2
  <2> QED BY <2>10, <2>11
<1>10. ASSUME NEW c \in Carriers, RaceAnswerIgnored(c) PROVE NoGapOn(d)'
  <2>1. /\ home' = home /\ tx' = tx /\ rx' = rx /\ link' = link /\ inbox["travel"][c] # <<>>
        /\ Head(inbox["travel"][c]).type \in {"RaceAck", "RaceDuplicate"}
        /\ inbox' = Consumed("travel", c)
    BY <1>10 DEF RaceAnswerIgnored, Arrives
  <2>2. inbox'["travel"][d] = IF d = c THEN Tail(inbox["travel"][d]) ELSE inbox["travel"][d]
    BY <1>t, <2>1, TravelConsumed
  <2> QED BY <1>k, <1>t, <2>1, <2>2
<1>r. ASSUME NEW c \in Carriers, inbox["travel"][c] # <<>>, NEW f, inbox' = Reply("travel", c, f)
      PROVE  inbox'["travel"][d] = IF d = c THEN Tail(inbox["travel"][d]) ELSE inbox["travel"][d]
  <2>1. Consumed("travel", c) \in Boxes BY <1>r, <1>t, ConsumedType
  <2>2. Reply("travel", c, f) = Sent(Consumed("travel", c), "travel", Holds("travel"), c, <<f>>)
    BY ReplyIsSent
  <2>3. inbox'["travel"] = Consumed("travel", c)["travel"]
    BY <1>r, <2>1, <2>2, HoldsType, TravelSends
  <2> QED BY <1>t, <2>3, TravelConsumed
<1>11. ASSUME NEW c \in Carriers, TravelData(c) PROVE NoGapOn(d)'
  <2> DEFINE m == Head(inbox["travel"][c])
  <2>1. /\ home' = home /\ tx' = tx /\ link' = link /\ inbox["travel"][c] # <<>>
        /\ m.type = "Data" /\ m.offset = rx["travel"].receive_offset
        /\ rx' = [rx EXCEPT !["travel"].receive_offset = End(m)]
        /\ \E f : inbox' = Reply("travel", c, f)
    BY <1>11 DEF TravelData, Arrives
  <2>2. rx'["travel"].receive_offset = End(m) BY <1>t, <2>1 DEF RxState
  <2>3. m \in Frame BY <1>t, <2>1, ConsumedType
  <2>4. inbox'["travel"][d] = IF d = c THEN Tail(inbox["travel"][d]) ELSE inbox["travel"][d]
    BY <1>r, <2>1
  <2>5. d = c => Head(inbox["travel"][d]) = m OBVIOUS
  <2> HIDE DEF m
  <2>6. m.offset \in Nat /\ m.len \in Nat BY <2>1, <2>3, FrameFields
  <2>7. End(m) \in Nat /\ rx["travel"].receive_offset <= End(m) BY <2>1, <2>6 DEF End
  <2> QED BY <1>k, <2>1, <2>2, <2>4, <2>5, <2>7
<1>12. ASSUME NEW c \in Carriers, LocalWriteFails(c) PROVE NoGapOn(d)'
  BY <1>12, <1>e DEF LocalWriteFails
<1>13. ASSUME NEW c \in Carriers, TravelDuplicate(c) PROVE NoGapOn(d)'
  <2>1. /\ home' = home /\ tx' = tx /\ link' = link /\ rx' = rx /\ inbox["travel"][c] # <<>>
        /\ End(Head(inbox["travel"][c])) <= rx["travel"].receive_offset
        /\ \E f : inbox' = Reply("travel", c, f)
    BY <1>13 DEF TravelDuplicate, DataDuplicate, Arrives
  <2>2. inbox'["travel"][d] = IF d = c THEN Tail(inbox["travel"][d]) ELSE inbox["travel"][d]
    BY <1>r, <2>1
  <2> QED BY <1>k, <1>t, <2>1, <2>2
<1>14. ASSUME NEW c \in Carriers, TravelFin(c) PROVE NoGapOn(d)'
  <2>1. /\ home' = home /\ tx' = tx /\ link' = link /\ inbox["travel"][c] # <<>>
        /\ Head(inbox["travel"][c]).type = "Fin"
        /\ \E f : inbox' = Reply("travel", c, f)
    BY <1>14 DEF TravelFin, FinInOrder, Arrives
  <2>2. rx'["travel"].receive_offset = rx["travel"].receive_offset
    BY <1>14, <1>t DEF TravelFin, FinInOrder, RxState
  <2>3. inbox'["travel"][d] = IF d = c THEN Tail(inbox["travel"][d]) ELSE inbox["travel"][d]
    BY <1>r, <2>1
  <2> QED BY <1>k, <1>t, <2>1, <2>2, <2>3
<1>15. ASSUME NEW c \in Carriers, TravelAck(c) \/ TravelFinAck(c) PROVE NoGapOn(d)'
  <2>1. /\ home' = home /\ rx' = rx /\ link' = link /\ inbox["travel"][c] # <<>>
        /\ Head(inbox["travel"][c]).type \in {"Ack", "Duplicate", "FinAck"}
        /\ inbox' = Consumed("travel", c)
    BY <1>15 DEF TravelAck, TravelFinAck, AckInWindow, FinAckInOrder, Arrives
  <2>2. tx'["home"] = tx["home"]
    BY <1>15, <1>t DEF TravelAck, TravelFinAck, AckInWindow, FinAckInOrder
  <2>3. inbox'["travel"][d] = IF d = c THEN Tail(inbox["travel"][d]) ELSE inbox["travel"][d]
    BY <1>t, <2>1, TravelConsumed
  <2> QED BY <1>k, <1>t, <2>1, <2>2, <2>3
<1>16. ASSUME NEW len \in SegLens, LocalData(len) PROVE NoGapOn(d)'
  <2>1. /\ home' = home /\ rx' = rx /\ link' = link
        /\ \E f : inbox' = Sent(inbox, "travel", Holds("travel"), Active("travel"), f)
    BY <1>16 DEF LocalData, ReadData
  <2>2. tx'["home"] = tx["home"] BY <1>16, <1>t DEF LocalData, ReadData
  <2>3. inbox'["travel"] = inbox["travel"] BY <1>t, <2>1, TravelSends, HoldsType
  <2> QED BY <1>k, <1>t, <2>1, <2>2, <2>3
<1>17. CASE LocalEof
  <2>1. /\ home' = home /\ rx' = rx /\ link' = link
        /\ \E f : inbox' = Sent(inbox, "travel", Holds("travel"), Active("travel"), f)
    BY <1>17 DEF LocalEof, ReadEof
  <2>2. tx'["home"] = tx["home"] BY <1>17, <1>t DEF LocalEof, ReadEof
  <2>3. inbox'["travel"] = inbox["travel"] BY <1>t, <2>1, TravelSends, HoldsType
  <2> QED BY <1>k, <1>t, <2>1, <2>2, <2>3
<1>18. CASE RecoveryTimePasses
  <2>1. home' = home /\ rx' = rx /\ tx' = tx /\ link' = link /\ inbox' = inbox
    BY <1>18 DEF RecoveryTimePasses
  <2> QED BY <1>k, <1>t, <2>1
<1> QED
  BY <1>1, <1>2, <1>3, <1>4, <1>5, <1>6, <1>7, <1>8, <1>9, <1>10, <1>11, <1>12, <1>13, <1>14, <1>15,
     <1>16, <1>17, <1>18
  DEF TravelNext

LEMMA HomeGap ==
  ASSUME DeliveryInv, DeliveryInv', Windows, LinksOK, SoleHome, SoleHome', HomeNext,
         NEW d \in Carriers, NoGapOn(d)
  PROVE  NoGapOn(d)'
<1>0. d # NoCarrier BY FlowConstants DEF Carriers
<1>i. home.inc \in Nat BY FlowConstants DEF DeliveryInv, TypeOK, HomeState
<1>o. TypeOK /\ TypeOK' BY DEF DeliveryInv
<1>p. /\ home \in HomeState /\ inbox \in Boxes /\ rx \in [Sides -> RxState]
      /\ tx \in [Sides -> TxState] /\ tx' \in [Sides -> TxState]
      /\ "travel" \in Sides /\ "home" \in Sides /\ Peer("home") = "travel"
  BY <1>o DEF TypeOK, Boxes, Sides, Peer
<1>t. /\ TypeOK /\ TypeOK'
      /\ home \in HomeState /\ inbox \in Boxes /\ rx \in [Sides -> RxState]
      /\ tx \in [Sides -> TxState] /\ tx' \in [Sides -> TxState]
      /\ "travel" \in Sides /\ "home" \in Sides /\ Peer("home") = "travel"
      /\ home.carriers \subseteq Carriers
      /\ rx["travel"].receive_offset \in Nat
      /\ tx["home"].send_offset \in Nat /\ tx'["home"].send_offset \in Nat
      /\ HomeLinks(home, link) /\ d # NoCarrier /\ home.inc \in Nat
  BY <1>0, <1>i, <1>o, <1>p DEF HomeState, LinksOK, RxState, TxState
\* Home keeps to itself what it sends on c.
<1>k. ASSUME Listening(d)' => Listening(d) /\ tx'["home"].send_offset = tx["home"].send_offset,
             rx'["travel"] = rx["travel"], inbox'["travel"][d] = inbox["travel"][d]
      PROVE  NoGapOn(d)'
  BY <1>k, <1>t, GapKept
<1>a. ASSUME NEW queued, Attaches(queued)
      PROVE  /\ rx'["travel"] = rx["travel"]
             /\ tx'["home"].send_offset = tx["home"].send_offset
             /\ home'.active = home.active /\ home'.carriers = home.carriers
  <2>1. CASE home.phase # "absent" BY <1>a, <1>t, <2>1 DEF Attaches, HomeState
  <2>2. CASE home.phase = "absent"
    <3>1. /\ home'.active = home.active /\ home'.carriers = home.carriers
          /\ home'.inc = home.inc + 1
          /\ tx' = [tx EXCEPT !["home"] = NewTx] /\ rx' = [rx EXCEPT !["home"] = NewRx]
      BY <1>a, <1>t, <2>2 DEF Attaches, HomeState
    <3>2. home.inc = 0 BY <1>t, <3>1 DEF SoleHome
    <3>3. tx["home"] = NewTx BY <3>2 DEF DeliveryInv, NoHomeYet
    <3> QED BY <1>t, <3>1, <3>3 DEF Sides
  <2> QED BY <2>1, <2>2
<1>e. ASSUME NEW outcome, NEW links, HomeEnds(outcome, links) PROVE NoGapOn(d)'
  <2>1. /\ home'.active = NoCarrier /\ rx' = rx /\ inbox' = Deaf("home")
    BY <1>e, <1>t DEF HomeEnds, HomeState
  <2>2. inbox'["travel"] = inbox["travel"] BY <1>t, <2>1, TravelConsumed
  <2>3. ~Listening(d)' BY <1>t, <2>1 DEF Listening
  <2> QED BY <1>k, <2>1, <2>2, <2>3
<1>f. ASSUME NEW outcome, HomeFails(outcome) PROVE NoGapOn(d)'
  BY <1>e, <1>f DEF HomeFails
\* An answer that is neither data nor its end.
<1>r. ASSUME NEW c \in Carriers, inbox["home"][c] # <<>>, NEW f \in Frame,
             f.type \notin {"Data", "Fin"}, inbox' = Reply("home", c, f),
             rx'["travel"] = rx["travel"], Listening(d)' => Listening(d),
             tx'["home"].send_offset = tx["home"].send_offset
      PROVE  NoGapOn(d)'
  <2>1. Consumed("home", c) \in Boxes BY <1>r, <1>t, ConsumedType
  <2>2. inbox' = Sent(Consumed("home", c), "home", Holds("home"), c, <<f>>) BY <1>r, ReplyIsSent
  <2>3. Consumed("home", c)["travel"] = inbox["travel"] BY <1>t, TravelConsumed
  <2>4. inbox'["travel"][d] = IF d = c /\ c \in Holds("home") /\ link[c] = "up"
                              THEN inbox["travel"][d] \o <<f>> ELSE inbox["travel"][d]
    BY <1>t, <2>1, <2>2, <2>3, HoldsType, HomeSends
  <2>5. CASE inbox'["travel"][d] = inbox["travel"][d] BY <1>k, <1>r, <2>5
  <2>6. CASE inbox'["travel"][d] = inbox["travel"][d] \o <<f>>
    <3>1. PICK fs : fs = <<f>> OBVIOUS
    <3>2. fs \in Seq(Frame) /\ \A i \in 1..Len(fs) : fs[i] = f BY <1>r, <3>1
    <3>3. \A i \in 1..Len(fs) : fs[i].type \notin {"Data", "Fin"} BY <1>r, <3>2
    <3> QED BY <1>r, <1>t, <2>6, <3>1, <3>2, <3>3, GapAppended
  <2> QED BY <2>4, <2>5, <2>6
<1>1. ASSUME NEW c \in Carriers, Attach(c) \/ AttachNoSlot(c) \/ AttachRejected(c)
      PROVE  NoGapOn(d)'
  <2>1. inbox' = inbox /\ (link'[d] = "up" => link[d] = "up")
    BY <1>1 DEF Attach, AttachNoSlot, AttachRejected, Dropped
  <2>2. /\ rx'["travel"] = rx["travel"] /\ tx'["home"].send_offset = tx["home"].send_offset
        /\ home'.active = home.active /\ home'.carriers = home.carriers
    <3>1. CASE Attach(c) BY <1>a, <3>1 DEF Attach
    <3>2. CASE AttachNoSlot(c) BY <1>a, <3>2 DEF AttachNoSlot
    <3>3. CASE AttachRejected(c) BY <3>3 DEF AttachRejected
    <3> QED BY <1>1, <3>1, <3>2, <3>3
  <2>3. Listening(d)' => Listening(d) BY <2>1, <2>2 DEF Listening
  <2> QED BY <1>k, <2>1, <2>2, <2>3
<1>2. ASSUME NEW c \in Carriers, Admit(c) PROVE NoGapOn(d)'
  <2>1. /\ c \in home.incoming /\ rx' = rx /\ tx' = tx
        /\ home'.carriers = home.carriers \cup {c} /\ home'.active = home.active
    BY <1>2, <1>t DEF Admit, HomeState
  <2>2. link[c] \in {"opening", "down"} BY <1>t, <2>1 DEF HomeLinks
  <2>3. CASE d # c
    <3>1. link'[d] = link[d] /\ inbox'["travel"][d] = inbox["travel"][d]
      BY <1>2, <1>t, <2>3 DEF Admit, TypeOK, Boxes
    <3>2. Listening(d)' => Listening(d) BY <2>1, <2>3, <3>1 DEF Listening
    <3> QED BY <1>k, <2>1, <3>1, <3>2
  <2>4. CASE d = c /\ link[c] = "down"
    <3>1. link'[d] = "down" /\ inbox' = inbox BY <1>2, <1>t, <2>4 DEF Admit, TypeOK
    <3>2. ~Listening(d)' BY <3>1 DEF Listening
    <3> QED BY <1>k, <2>1, <3>1, <3>2
  <2>5. CASE d = c /\ link[c] = "opening"
    <3>1. home.active # c BY <1>t, <2>5 DEF HomeLinks
    <3>2. ~Listening(d)' BY <2>1, <2>5, <3>1 DEF Listening
    <3>3. PICK f : /\ f = OpenOk(rx["home"].receive_offset, tx["home"].send_acked)
                   /\ inbox' = [inbox EXCEPT !["travel"][c] = <<f>>]
      BY <1>2, <2>5 DEF Admit
    <3>4. inbox'["travel"][d] = <<f>> /\ f.type = "OpenOk"
      BY <1>t, <2>5, <3>3 DEF Boxes, OpenOk
    <3>5. GapFree(<<f>>, rx'["travel"].receive_offset) BY <3>4 DEF GapFree
    <3> QED BY <3>2, <3>4, <3>5 DEF NoGapOn
  <2> QED BY <2>2, <2>3, <2>4, <2>5
<1>3. ASSUME NEW c \in Carriers, HomeRaceWon(c) PROVE NoGapOn(d)'
  <2> DEFINE m == Head(inbox["home"][c])
             R == Retransmission(tx["home"], home.inc)
             a == RaceAck(m.race, c)
             x == rx["travel"].receive_offset
  <2>1. /\ inbox["home"][c] # <<>> /\ m.type = "Race" /\ link' = link /\ rx' = rx /\ tx' = tx
        /\ inbox' = Sent(Consumed("home", c), "home", home.carriers, c, <<a>> \o R)
        /\ home'.active = c /\ home'.carriers = home.carriers
    BY <1>3, <1>t DEF HomeRaceWon, Arrives, HomeState
  <2>2. m \in Frame /\ Consumed("home", c) \in Boxes BY <1>t, <2>1, ConsumedType
  <2>3. a \in Frame /\ a.type = "RaceAck" BY <2>1, <2>2, FrameFields, FrameTypes DEF RaceAck
  <2>4. R \in Seq(Frame) BY <1>t, RetransmissionType
  <2>5. GapFree(R, x) /\ ReachedBy(R, Len(R), x, tx["home"].send_offset)
    <3>1. tx["home"].send_acked <= x BY <1>t DEF DeliveryInv, TransferOK
    <3>2. WindowOK(tx["home"]) /\ tx["home"] \in TxState BY <1>t DEF Windows
    <3> QED BY <1>t, <3>1, <3>2, RetransmissionGapFree
  <2>6. Consumed("home", c)["travel"] = inbox["travel"] BY <1>t, TravelConsumed
  <2>7. inbox'["travel"][d] = IF d = c /\ c \in home.carriers /\ link[c] = "up"
                              THEN inbox["travel"][d] \o (<<a>> \o R) ELSE inbox["travel"][d]
    BY <1>t, <2>1, <2>2, <2>6, HomeSends
  <2> HIDE DEF m, R, a, x
  <2>8. PICK g : g = <<a>> \o R OBVIOUS
  <2>9. /\ g \in Seq(Frame) /\ GapFree(g, x)
        /\ ReachedBy(g, Len(g), x, tx["home"].send_offset)
    <3>1. PICK as : as = <<a>> OBVIOUS
    <3>2. as \in Seq(Frame) /\ GapFree(as, x) BY <2>3, <3>1 DEF GapFree
    <3>3. x \in Nat BY <1>t DEF x
    <3>4. \A i \in 1..Len(R) : R[i].type \in {"Data", "Fin"} => ReachedBy(R, i - 1, x, Needs(R[i]))
      BY <2>5 DEF GapFree
    <3>5. g = as \o R BY <2>8, <3>1
    <3>6. g \in Seq(Frame) BY <2>4, <3>2, <3>5, ConcatProperties
    <3> QED BY <1>t, <2>4, <2>5, <3>2, <3>3, <3>4, <3>5, <3>6, GapFreeAppend
  <2>10. CASE d = c /\ c \in home.carriers /\ link[c] = "up"
    <3>1. inbox'["travel"][d] = inbox["travel"][d] \o g BY <2>7, <2>8, <2>10
    <3>2. \A i \in 1..Len(g) : g[i].type \in {"Data", "Fin"} => ReachedBy(g, i - 1, x, Needs(g[i]))
      BY <2>9 DEF GapFree
    <3> QED BY <1>t, <2>1, <2>9, <3>1, <3>2, GapAppended DEF x
  <2>11. CASE ~(d = c /\ c \in home.carriers /\ link[c] = "up")
    <3>1. inbox'["travel"][d] = inbox["travel"][d] BY <2>7, <2>11
    <3>2. ~Listening(d)' BY <2>1, <2>11 DEF Listening
    <3> QED BY <1>k, <2>1, <3>1, <3>2
  <2> QED BY <2>10, <2>11
<1>4. ASSUME NEW c \in Carriers, HomeRaceLost(c) PROVE NoGapOn(d)'
  <2>1. /\ inbox["home"][c] # <<>> /\ Head(inbox["home"][c]).type = "Race"
        /\ rx' = rx /\ tx' = tx /\ home' = home /\ link' = link
    BY <1>4 DEF HomeRaceLost, Arrives
  <2>2. PICK w \in Winners(Head(inbox["home"][c]).race) :
            inbox' = Reply("home", c, RaceDuplicate(Head(inbox["home"][c]).race, w))
    BY <1>4 DEF HomeRaceLost
  <2>3. PICK r : r = Head(inbox["home"][c]).race OBVIOUS
  <2>4. r \in Nat /\ w \in Carriers
    BY <1>t, <2>1, <2>2, <2>3, ConsumedType, FrameFields, WinnersRemembered
  <2>5. RaceDuplicate(r, w) \in Frame /\ RaceDuplicate(r, w).type = "RaceDuplicate"
    BY <2>4, FrameTypes DEF RaceDuplicate
  <2>6. Listening(d)' => Listening(d) BY <2>1 DEF Listening
  <2> QED BY <1>r, <2>1, <2>2, <2>3, <2>5, <2>6
<1>5. ASSUME NEW c \in Carriers, HomeData(c) PROVE NoGapOn(d)'
  <2> DEFINE m == Head(inbox["home"][c])
  <2>1. /\ inbox["home"][c] # <<>> /\ m.type = "Data" /\ tx' = tx /\ home' = home /\ link' = link
        /\ rx' = [rx EXCEPT !["home"].receive_offset = End(m)]
        /\ inbox' = Reply("home", c, Ack(End(m)))
    BY <1>5 DEF HomeData, Arrives
  <2>2. m \in Frame BY <1>t, <2>1, ConsumedType
  <2> HIDE DEF m
  <2>3. End(m) \in Nat BY <2>1, <2>2, FrameFields DEF End
  <2>4. Ack(End(m)) \in Frame /\ Ack(End(m)).type = "Ack" BY <2>3, FrameTypes DEF Ack
  <2>5. rx'["travel"] = rx["travel"] BY <1>t, <2>1
  <2>6. Listening(d)' => Listening(d) BY <2>1 DEF Listening
  <2> QED BY <1>r, <2>1, <2>4, <2>5, <2>6
<1>6. ASSUME NEW c \in Carriers, HomeDuplicate(c) PROVE NoGapOn(d)'
  <2>1. /\ inbox["home"][c] # <<>> /\ tx' = tx /\ rx' = rx /\ home' = home /\ link' = link
        /\ inbox' = Reply("home", c, Duplicate(rx["home"].receive_offset))
    BY <1>6 DEF HomeDuplicate, DataDuplicate, Arrives
  <2>2. rx["home"].receive_offset \in Nat BY <1>t DEF RxState
  <2>3. PICK f : f = Duplicate(rx["home"].receive_offset) OBVIOUS
  <2>4. f \in Frame /\ f.type = "Duplicate" BY <2>2, <2>3, FrameTypes DEF Duplicate
  <2>5. Listening(d)' => Listening(d) BY <2>1 DEF Listening
  <2> QED BY <1>r, <2>1, <2>3, <2>4, <2>5
<1>7. ASSUME NEW c \in Carriers, HomeFin(c) PROVE NoGapOn(d)'
  <2>1. /\ inbox["home"][c] # <<>> /\ tx' = tx /\ home' = home /\ link' = link
        /\ rx' = [rx EXCEPT !["home"].remote_eof = TRUE]
        /\ inbox' = Reply("home", c, FinAck(rx["home"].receive_offset))
    BY <1>7 DEF HomeFin, FinInOrder, Arrives
  <2>2. rx["home"].receive_offset \in Nat BY <1>t DEF RxState
  <2>3. PICK f : f = FinAck(rx["home"].receive_offset) OBVIOUS
  <2>4. f \in Frame /\ f.type = "FinAck" BY <2>2, <2>3, FrameTypes DEF FinAck
  <2>5. Listening(d)' => Listening(d) BY <2>1 DEF Listening
  <2>6. rx'["travel"] = rx["travel"] BY <1>t, <2>1
  <2> QED BY <1>r, <2>1, <2>3, <2>4, <2>5, <2>6
<1>c. ASSUME NEW c \in Carriers, AckInWindow("home", c) \/ FinAckInOrder("home", c)
      PROVE  NoGapOn(d)'
  <2>1. /\ rx' = rx /\ home' = home /\ link' = link /\ inbox' = Consumed("home", c)
    BY <1>c DEF AckInWindow, FinAckInOrder
  <2>2. tx'["home"].send_offset = tx["home"].send_offset
    BY <1>c, <1>t DEF AckInWindow, FinAckInOrder, Acknowledge, TxState
  <2>3. inbox'["travel"] = inbox["travel"] BY <1>t, <2>1, TravelConsumed
  <2>4. Listening(d)' => Listening(d) BY <2>1 DEF Listening
  <2> QED BY <1>k, <2>1, <2>2, <2>3, <2>4
<1>8. ASSUME NEW c \in Carriers, HomeAck(c) \/ HomeFinAck(c) PROVE NoGapOn(d)'
  BY <1>8, <1>c, <1>f DEF HomeAck, HomeFinAck
<1>9. ASSUME NEW c \in Carriers, HomeObjects(c) PROVE NoGapOn(d)'
  <2>1. inbox["home"][c] # <<>> BY <1>9 DEF HomeObjects, Arrives, OutOfOrder
  <2>2. /\ inbox' = Reply("home", c, Close)
        /\ tx' = tx /\ rx' = rx /\ home' = home /\ link' = link
    BY <1>9 DEF HomeObjects
  <2>3. Close \in Frame /\ Close.type = "Close" BY FrameTypes DEF Close
  <2>4. Listening(d)' => Listening(d) BY <2>2 DEF Listening
  <2> QED BY <1>r, <2>1, <2>2, <2>3, <2>4
<1>10. ASSUME NEW c \in Carriers, HomeCarrierClosed(c) PROVE NoGapOn(d)'
  <2>1. /\ rx' = rx /\ tx' = tx /\ link' = link /\ inbox'["travel"] = inbox["travel"]
        /\ home'.carriers = home.carriers \ {c} /\ home'.active \in {home.active, NoCarrier}
    BY <1>10, <1>t DEF HomeCarrierClosed, Detached, HomeState, Boxes, Sides
  <2>2. Listening(d)' => Listening(d) BY <1>t, <2>1 DEF Listening
  <2> QED BY <1>k, <2>1, <2>2
<1>11. CASE TargetConnects
  <2>1. /\ rx' = rx /\ tx' = tx /\ link' = link /\ inbox' = inbox
        /\ home'.carriers = home.carriers /\ home'.active = home.active
    BY <1>11, <1>t DEF TargetConnects, HomeState
  <2>2. Listening(d)' => Listening(d) BY <2>1 DEF Listening
  <2> QED BY <1>k, <2>1, <2>2
<1>12. ASSUME NEW len \in SegLens, TargetData(len) PROVE NoGapOn(d)'
  <2> DEFINE seg == [offset |-> tx["home"].send_offset, len |-> len]
             x == rx["travel"].receive_offset
  <2>1. /\ rx' = rx /\ home' = home /\ link' = link
        /\ tx' = [tx EXCEPT !["home"] = Buffer(@, len)]
        /\ inbox' = Sent(inbox, "home", Holds("home"), Active("home"), <<Data(seg, Src("home"))>>)
    BY <1>12 DEF TargetData, ReadData
  <2>2. len \in Nat BY FlowConstants
  <2>3. tx'["home"].send_offset = tx["home"].send_offset + len
    BY <1>t, <2>1 DEF Buffer, TxState
  <2>4. PICK f : f = Data(seg, Src("home")) OBVIOUS
  <2>5. /\ f \in Frame /\ f.type = "Data" /\ Needs(f) = tx["home"].send_offset
        /\ End(f) = tx'["home"].send_offset
    <3>1. seg \in Segment BY <1>t, <2>2 DEF Segment
    <3>2. Src("home") \in Nat BY <1>t DEF Src
    <3> QED BY <2>3, <2>4, <3>1, <3>2, FrameTypes DEF Data, Needs, End
  <2>6. inbox'["travel"][d] = IF d = home.active /\ home.active \in home.carriers
                                 /\ link[home.active] = "up"
                              THEN inbox["travel"][d] \o <<f>> ELSE inbox["travel"][d]
    BY <1>t, <2>1, <2>4, HomeSends DEF Holds, Active
  <2>7. CASE Listening(d)
    <3>1. PICK fs : fs = <<f>> OBVIOUS
    <3>2. fs \in Seq(Frame) /\ Len(fs) = 1 /\ fs[1] = f BY <2>5, <3>1
    <3>3. inbox'["travel"][d] = inbox["travel"][d] \o fs BY <2>6, <2>7, <3>1 DEF Listening
    <3>4. ReachedBy(inbox["travel"][d], Len(inbox["travel"][d]), x, tx["home"].send_offset)
      BY <2>7 DEF NoGapOn
    <3>5. ReachedBy(fs, Len(fs), x, tx'["home"].send_offset)
      BY <1>t, <2>5, <3>2 DEF ReachedBy
    <3>6. \A i \in 1..Len(fs) : fs[i] = f BY <3>2
    <3> QED BY <1>t, <2>1, <2>5, <3>2, <3>3, <3>4, <3>5, <3>6, GapAppended
  <2>8. CASE ~Listening(d)
    <3>1. inbox'["travel"][d] = inbox["travel"][d] BY <2>6, <2>8 DEF Listening
    <3>2. ~Listening(d)' BY <2>1, <2>8 DEF Listening
    <3> QED BY <1>k, <2>1, <3>1, <3>2
  <2> QED BY <2>7, <2>8
<1>13. CASE TargetEof
  <2>1. /\ rx' = rx /\ home' = home /\ link' = link
        /\ tx' = [tx EXCEPT !["home"].local_eof = TRUE]
        /\ inbox' = Sent(inbox, "home", Holds("home"), Active("home"),
                         <<Fin(tx["home"].send_offset)>>)
    BY <1>13 DEF TargetEof, ReadEof
  <2>2. tx'["home"].send_offset = tx["home"].send_offset BY <1>t, <2>1 DEF TxState
  <2>3. PICK f : f = Fin(tx["home"].send_offset) OBVIOUS
  <2>4. f \in Frame /\ f.type = "Fin" /\ Needs(f) = tx["home"].send_offset
    BY <1>t, <2>3, FrameTypes DEF Fin, Needs
  <2>5. inbox'["travel"][d] = IF d = home.active /\ home.active \in home.carriers
                                 /\ link[home.active] = "up"
                              THEN inbox["travel"][d] \o <<f>> ELSE inbox["travel"][d]
    BY <1>t, <2>1, <2>3, HomeSends DEF Holds, Active
  <2>6. Listening(d)' => Listening(d) BY <2>1 DEF Listening
  <2>7. CASE Listening(d)
    <3>1. PICK fs : fs = <<f>> OBVIOUS
    <3>2. fs \in Seq(Frame) /\ \A i \in 1..Len(fs) : fs[i] = f BY <2>4, <3>1
    <3>3. inbox'["travel"][d] = inbox["travel"][d] \o fs BY <2>5, <2>7, <3>1 DEF Listening
    <3>4. ReachedBy(inbox["travel"][d], Len(inbox["travel"][d]), rx["travel"].receive_offset,
                    tx["home"].send_offset)
      BY <2>7 DEF NoGapOn
    <3> QED BY <1>t, <2>1, <2>2, <2>4, <2>6, <2>7, <3>2, <3>3, <3>4, GapAppended
  <2>8. CASE ~Listening(d)
    <3>1. inbox'["travel"][d] = inbox["travel"][d] BY <2>5, <2>8 DEF Listening
    <3> QED BY <1>k, <2>1, <2>2, <2>6, <3>1
  <2> QED BY <2>7, <2>8
<1>14. ASSUME NEW c \in Carriers, AdmitFails(c) PROVE NoGapOn(d)'
  BY <1>14, <1>f DEF AdmitFails
<1>15. CASE DetachExpires \/ HomeStops \/ HomeDrainTimesOut
  BY <1>15, <1>f DEF DetachExpires, HomeStops, HomeDrainTimesOut
<1>16. CASE HomeCompletes
  BY <1>16, <1>e DEF HomeCompletes
<1> QED
  BY <1>1, <1>2, <1>3, <1>4, <1>5, <1>6, <1>7, <1>8, <1>9, <1>10, <1>11, <1>12, <1>13, <1>14, <1>15,
     <1>16
  DEF HomeNext

LEMMA NoGapNext ==
  ASSUME DeliveryInv, DeliveryInv', Windows, LinksOK, NoGap, [Next]_vars
  PROVE  NoGap'
<1>t. TypeOK /\ TypeOK' /\ home.inc \in Nat /\ home'.inc \in Nat
  BY FlowConstants DEF DeliveryInv, TypeOK, HomeState
<1> SUFFICES ASSUME SoleHome', NEW d \in Carriers PROVE NoGapOn(d)' BY DEF NoGap
<1>s. SoleHome
  <2>1. home'.inc = home.inc \/ home'.inc = home.inc + 1
    BY <1>t, NextEffects DEF NewHome, Effects, HomeStep
  <2> QED BY <1>t, <2>1 DEF SoleHome
<1>d. NoGapOn(d) BY <1>s DEF NoGap
<1>1. ASSUME NEW c \in Carriers, Break(c) PROVE NoGapOn(d)'
  <2>1. rx' = rx /\ tx' = tx /\ home' = home /\ inbox' = inbox /\ link' = Dropped({c})
    BY <1>1 DEF Break
  <2>2. link'[d] = "up" => link[d] = "up" BY <2>1 DEF Dropped
  <2> QED BY <1>d, <2>1, <2>2 DEF NoGapOn, Listening
<1>2. CASE UNCHANGED vars BY <1>2, <1>d DEF NoGapOn, Listening, vars
<1>3. CASE TravelNext BY <1>3, <1>d, <1>t, TravelGap
<1>4. CASE HomeNext BY <1>4, <1>d, <1>s, HomeGap
<1> QED BY <1>1, <1>2, <1>3, <1>4 DEF Next

\* On whatever Carrier Travel reads, data comes without a gap: a retransmission
\* starts at or before what Travel has, and what Home reads later follows it on
\* the same Carrier.
THEOREM NoGapInvariant == Spec => []NoGap
<1>1. Init => NoGap
  <2> SUFFICES ASSUME Init, NEW c \in Carriers PROVE NoGapOn(c) BY DEF NoGap
  <2>1. inbox["travel"][c] = <<>> /\ link[c] = "idle" BY DEF Init, Sides
  <2> QED BY <2>1 DEF NoGapOn, GapFree, Listening
<1> QED BY <1>1, DeliveryInvariant, WindowsInvariant, LinksInvariant, NoGapNext, PTL DEF Spec

-----------------------------------------------------------------------------
(* No transfer error.                                                       *)

\* What acknowledges s names the end of a segment, never its middle.
LEMMA NoSplit ==
  ASSUME TypeOK, MarksOK, SoleHome, NEW s \in Sides, NEW m \in InFlight(s), NEW n \in Nat,
         \/ m.type \in {"Ack", "Duplicate"} /\ n = m.next_offset
         \/ m.type = "OpenOk" /\ n = m.receive_offset,
         NEW j \in 0..Len(tx[s].unacked), Pops(tx[s], n, j)
  PROVE  ~Splits(tx[s], n, j)
<1> SUFFICES ASSUME Splits(tx[s], n, j) PROVE FALSE OBVIOUS
<1> DEFINE q == tx[s].unacked
<1>1. PICK B \in [Sides -> SUBSET Nat] : Marked(B) BY DEF MarksOK
<1>2. n \in B[s] BY <1>1 DEF Marked, MarkedFrame
<1>3. tx[s] \in TxState BY DEF TypeOK
<1>4. Len(q) \in Nat /\ \A i \in 1..Len(q) : q[i].offset \in Nat /\ End(q[i]) \in Nat
  BY <1>3, QueueFields
<1>5. /\ j < Len(q) /\ q[j + 1].offset < n /\ End(q[j + 1]) > n BY DEF Splits, Pops
<1>6. \A i \in 1..Len(q) : Whole(B[s], q[i]) BY <1>1 DEF Marked
<1> HIDE DEF q
<1>7. j + 1 \in 1..Len(q) BY <1>4, <1>5
<1>8. n <= q[j + 1].offset \/ End(q[j + 1]) <= n BY <1>2, <1>6, <1>7 DEF Whole
<1> QED BY <1>4, <1>5, <1>7, <1>8

\* What arrives at Travel and was not delivered begins where Travel is.
LEMMA Contiguous ==
  ASSUME TypeOK, MarksOK, NoGap, SoleHome, NEW c \in Carriers, Arrives("travel", c, {"Data"}),
         Head(inbox["travel"][c]).offset # rx["travel"].receive_offset
  PROVE  ~(End(Head(inbox["travel"][c])) > rx["travel"].receive_offset)
<1> DEFINE q == inbox["travel"][c]
           m == Head(q)
           x == rx["travel"].receive_offset
<1>1. q # <<>> /\ m.type = "Data" /\ travel.phase = "running" BY DEF Arrives, Polls
<1>2. /\ "travel" \in Sides /\ Peer("travel") = "home" /\ inbox \in Boxes /\ x \in Nat
      /\ q \in Seq(Frame)
  BY DEF Sides, Peer, TypeOK, Boxes, RxState
<1>3. m \in InFlight("travel") /\ m \in Frame BY <1>1, <1>2, FlyingConsumed, ConsumedType
<1>4. m = q[1] /\ 1 \in 1..Len(q) BY <1>1, <1>2, HeadTailProperties, EmptySeq, LenProperties
<1>5. GapFree(q, x) BY DEF NoGap, NoGapOn
<1>6. PICK B \in [Sides -> SUBSET Nat] : Marked(B) BY DEF MarksOK
<1>7. Whole(B["home"], m) BY <1>1, <1>2, <1>3, <1>6 DEF Marked, MarkedFrame
<1>8. x \in B["home"] BY <1>1, <1>2, <1>6 DEF Marked
<1>o. m.offset # x OBVIOUS
<1>g. SUFFICES ASSUME End(m) > x PROVE FALSE OBVIOUS
<1> HIDE DEF q, x
<1>9. m.offset <= x
  <2>1. ReachedBy(q, 1 - 1, x, m.offset) BY <1>1, <1>4, <1>5 DEF GapFree, Needs
  <2> QED BY <2>1 DEF ReachedBy
<1> HIDE DEF m
<1>10. m.offset \in Nat /\ End(m) \in Nat BY <1>1, <1>3, FrameFields DEF End
<1>11. x <= m.offset \/ End(m) <= x BY <1>7, <1>8 DEF Whole
<1> QED BY <1>2, <1>9, <1>10, <1>11, <1>o, <1>g

\* The reasons that would mean a transfer error, and the others.
Errors == {"acknowledged unsent data", "ACK split a frame", "non-contiguous data"}
Harmless ==
    {"drain timed out", "recovery deadline expired", "stopped", "local TCP failed",
     "Home closed flow", "invalid frame", "acknowledgement moved backwards"}

LEMMA HarmlessIsNoError == \A reason \in Harmless : reason \notin Errors
  BY DEF Harmless, Errors

LEMMA HomeHarmless ==
  \A outcome \in {"finished", "OpenOk write failed", "detached-flow timeout expired",
                  "drain timed out", "stopped"} : outcome # "ACK split a frame"
  OBVIOUS

LEMMA TravelNoError ==
  ASSUME DeliveryInv, MarksOK, NoGap, SoleHome, TravelNext, travel.reason \notin Errors
  PROVE  travel'.reason \notin Errors
<1>t. /\ TypeOK /\ travel \in TravelState /\ inbox \in Boxes
      /\ "travel" \in Sides /\ "home" \in Sides
      /\ Peer("travel") = "home" /\ Peer("home") = "travel"
      /\ tx["travel"].send_offset \in Nat /\ rx["home"].receive_offset \in Nat
  BY DEF DeliveryInv, TypeOK, Boxes, Sides, Peer, TxState, RxState
<1>k. ASSUME travel'.reason = travel.reason PROVE travel'.reason \notin Errors BY <1>k
<1>e. ASSUME NEW reason \in Harmless, TravelFails(reason)
      PROVE  travel'.reason \notin Errors
  BY <1>e, <1>t, HarmlessIsNoError DEF TravelFails, TravelState
<1>h. ASSUME NEW c \in Carriers, inbox["travel"][c] # <<>>
      PROVE  /\ Head(inbox["travel"][c]) \in InFlight("travel")
             /\ Head(inbox["travel"][c]) \in Frame
  BY <1>h, <1>t, FlyingConsumed, ConsumedType
<1>1. CASE TravelCompletes BY <1>1, <1>t, <1>k DEF TravelCompletes, TravelState
<1>2. CASE TravelDrainTimesOut \/ RecoveryExpires \/ TravelStops
  <2>1. \E reason \in Harmless : TravelFails(reason)
    BY <1>2 DEF TravelDrainTimesOut, RecoveryExpires, TravelStops, Harmless
  <2> QED BY <1>e, <2>1
<1>3. ASSUME NEW S \in SUBSET Relays, StartRace(S) PROVE travel'.reason \notin Errors
  BY <1>3, <1>t, <1>k DEF StartRace, TravelState
<1>4. CASE RaceTimesOut BY <1>4, <1>t, <1>k DEF RaceTimesOut, TravelState
<1>5. ASSUME NEW c \in Carriers,
             \/ Opened(c) \/ OpenFailed(c) \/ TravelCarrierClosed(c) \/ RaceAnswered(c)
             \/ RaceAnswerIgnored(c)
      PROVE  travel'.reason \notin Errors
  BY <1>5, <1>t, <1>k
  DEF Opened, OpenFailed, TravelCarrierClosed, RaceAnswered, RaceAnswerIgnored, TravelState
<1>6. ASSUME NEW c \in Carriers, OpenedInconsistent(c) PROVE travel'.reason \notin Errors
  <2> DEFINE ok == Head(inbox["travel"][c])
             n == ok.receive_offset
  <2>1. inbox["travel"][c] # <<>> /\ ok.type = "OpenOk" BY <1>6 DEF OpenedInconsistent, Arrives
  <2>2. ok \in InFlight("travel") /\ ok \in Frame BY <1>h, <2>1
  <2>3. n \in Nat BY <2>1, <2>2, FrameFields
  <2>4. n <= tx["travel"].send_offset
    <3>1. FrameOK(tx["home"], rx["home"], ok)
      BY <1>t, <2>1, ChannelConsumed DEF DeliveryInv
    <3>2. n <= rx["home"].receive_offset BY <2>1, <3>1 DEF FrameOK
    <3>3. rx["home"].receive_offset <= tx["travel"].send_offset
      BY <1>t DEF DeliveryInv, TransferOK
    <3> QED BY <1>t, <2>3, <3>2, <3>3
  <2>5. ~(n > tx["travel"].send_offset) BY <1>t, <2>3, <2>4
  <2>6. \A j \in 0..Len(tx["travel"].unacked) :
            ~(Pops(tx["travel"], n, j) /\ Splits(tx["travel"], n, j))
    BY <1>t, <2>1, <2>2, <2>3, NoSplit
  <2>7. TravelFails("acknowledgement moved backwards") BY <1>6, <2>5, <2>6 DEF OpenedInconsistent
  <2>8. "acknowledgement moved backwards" \in Harmless BY DEF Harmless
  <2> QED BY <1>e, <2>7, <2>8
<1>7. ASSUME NEW c \in Carriers, TravelBails(c) PROVE travel'.reason \notin Errors
  <2>1. ~AckSplits("travel", c)
    <3> SUFFICES ASSUME AckSplits("travel", c) PROVE FALSE OBVIOUS
    <3> DEFINE m == Head(inbox["travel"][c])
    <3>1. inbox["travel"][c] # <<>> /\ m.type \in {"Ack", "Duplicate"} BY DEF AckSplits, Arrives
    <3>2. m \in InFlight("travel") /\ m.next_offset \in Nat BY <1>h, <3>1, FrameFields
    <3>3. \E j \in 0..Len(tx["travel"].unacked) :
              Pops(tx["travel"], m.next_offset, j) /\ Splits(tx["travel"], m.next_offset, j)
      BY DEF AckSplits
    <3> HIDE DEF m
    <3> QED BY <1>t, <3>1, <3>2, <3>3, NoSplit
  <2>2. ~(/\ Arrives("travel", c, {"Data"})
          /\ Head(inbox["travel"][c]).offset # rx["travel"].receive_offset
          /\ End(Head(inbox["travel"][c])) > rx["travel"].receive_offset)
    BY <1>t, Contiguous
  <2>3. \E reason \in Harmless : TravelFails(reason)
    BY <1>7, <2>1, <2>2 DEF TravelBails, Harmless
  <2> QED BY <1>e, <2>3
<1>8. ASSUME NEW c \in Carriers, LocalWriteFails(c) PROVE travel'.reason \notin Errors
  <2>1. \E reason \in Harmless : TravelFails(reason)
    BY <1>8 DEF LocalWriteFails, Harmless
  <2> QED BY <1>e, <2>1
<1>9. ASSUME NEW c \in Carriers, TravelData(c) PROVE travel'.reason \notin Errors
  BY <1>9, <1>t, <1>k DEF TravelData, TravelState
<1>10. ASSUME NEW c \in Carriers,
              TravelDuplicate(c) \/ TravelAck(c) \/ TravelFin(c) \/ TravelFinAck(c)
       PROVE  travel'.reason \notin Errors
  BY <1>10, <1>k DEF TravelDuplicate, TravelAck, TravelFin, TravelFinAck,
     DataDuplicate, AckInWindow, FinInOrder, FinAckInOrder
<1>11. ASSUME NEW len \in SegLens, LocalData(len) PROVE travel'.reason \notin Errors
  BY <1>11, <1>k DEF LocalData, ReadData
<1>12. CASE LocalEof BY <1>12, <1>k DEF LocalEof, ReadEof
<1>13. CASE RecoveryTimePasses BY <1>13, <1>t, <1>k DEF RecoveryTimePasses, TravelState
<1> QED
  BY <1>1, <1>2, <1>3, <1>4, <1>5, <1>6, <1>7, <1>8, <1>9, <1>10, <1>11, <1>12, <1>13
  DEF TravelNext

LEMMA HomeNoError ==
  ASSUME TypeOK, MarksOK, SoleHome, HomeNext, home.outcome # "ACK split a frame"
  PROVE  home'.outcome # "ACK split a frame"
<1>t. home \in HomeState /\ inbox \in Boxes /\ "home" \in Sides
  BY DEF TypeOK, Boxes, Sides
<1>k. ASSUME home'.outcome = home.outcome PROVE home'.outcome # "ACK split a frame" BY <1>k
<1>e. ASSUME NEW outcome, NEW links, HomeEnds(outcome, links), outcome # "ACK split a frame"
      PROVE  home'.outcome # "ACK split a frame"
  BY <1>e, <1>t DEF HomeEnds, HomeState
<1>a. ASSUME NEW queued, Attaches(queued) PROVE home'.outcome # "ACK split a frame"
  <2>1. home'.outcome = home.outcome \/ home'.outcome = "none" BY <1>a, <1>t DEF Attaches, HomeState
  <2> QED BY <2>1
<1>1. ASSUME NEW c \in Carriers, Attach(c) \/ AttachNoSlot(c) \/ AttachRejected(c)
      PROVE  home'.outcome # "ACK split a frame"
  BY <1>1, <1>a, <1>k DEF Attach, AttachNoSlot, AttachRejected
<1>2. ASSUME NEW c \in Carriers, Admit(c) \/ HomeRaceWon(c) \/ HomeCarrierClosed(c)
      PROVE  home'.outcome # "ACK split a frame"
  BY <1>2, <1>t, <1>k DEF Admit, HomeRaceWon, HomeCarrierClosed, HomeState
<1>3. ASSUME NEW c \in Carriers,
             \/ HomeRaceLost(c) \/ HomeData(c) \/ HomeDuplicate(c) \/ HomeFin(c) \/ HomeFinAck(c)
             \/ HomeObjects(c)
      PROVE  home'.outcome # "ACK split a frame"
  BY <1>3, <1>k DEF HomeRaceLost, HomeData, HomeDuplicate, HomeFin, HomeFinAck, HomeObjects,
     DataDuplicate, FinInOrder, FinAckInOrder
<1>4. ASSUME NEW c \in Carriers, HomeAck(c) PROVE home'.outcome # "ACK split a frame"
  <2>1. ~AckSplits("home", c)
    <3> SUFFICES ASSUME AckSplits("home", c) PROVE FALSE OBVIOUS
    <3> DEFINE m == Head(inbox["home"][c])
    <3>1. inbox["home"][c] # <<>> /\ m.type \in {"Ack", "Duplicate"} BY DEF AckSplits, Arrives
    <3>2. m \in InFlight("home") /\ m.next_offset \in Nat
      BY <1>t, <3>1, FlyingConsumed, ConsumedType, FrameFields
    <3>3. \E j \in 0..Len(tx["home"].unacked) :
              Pops(tx["home"], m.next_offset, j) /\ Splits(tx["home"], m.next_offset, j)
      BY DEF AckSplits
    <3> HIDE DEF m
    <3> QED BY <1>t, <3>1, <3>2, <3>3, NoSplit
  <2> QED BY <1>4, <1>k, <2>1 DEF HomeAck, AckInWindow
<1>5. ASSUME NEW c \in Carriers, AdmitFails(c) PROVE home'.outcome # "ACK split a frame"
  <2>1. \E links : HomeEnds("OpenOk write failed", links) BY <1>5 DEF AdmitFails, HomeFails
  <2> QED BY <1>e, <2>1, HomeHarmless
<1>6. CASE DetachExpires \/ HomeStops \/ HomeDrainTimesOut \/ HomeCompletes
  <2>1. \E outcome \in {"finished", "OpenOk write failed", "detached-flow timeout expired",
                        "drain timed out", "stopped"} : \E links : HomeEnds(outcome, links)
    BY <1>6 DEF DetachExpires, HomeStops, HomeDrainTimesOut, HomeCompletes, HomeFails
  <2> QED BY <1>e, <2>1, HomeHarmless
<1>7. CASE TargetConnects BY <1>7, <1>t, <1>k DEF TargetConnects, HomeState
<1>8. ASSUME NEW len \in SegLens, TargetData(len) PROVE home'.outcome # "ACK split a frame"
  BY <1>8, <1>k DEF TargetData, ReadData
<1>9. CASE TargetEof BY <1>9, <1>k DEF TargetEof, ReadEof
<1> QED BY <1>1, <1>2, <1>3, <1>4, <1>5, <1>6, <1>7, <1>8, <1>9 DEF HomeNext

LEMMA NoTransferErrorNext ==
  ASSUME DeliveryInv, MarksOK, NoGap, NoTransferError, [Next]_vars
  PROVE  NoTransferError'
<1>t. TypeOK /\ home.inc \in Nat BY FlowConstants DEF DeliveryInv, TypeOK, HomeState
<1> SUFFICES ASSUME SoleHome'
             PROVE  travel'.reason \notin Errors /\ home'.outcome # "ACK split a frame"
  BY DEF NoTransferError, Errors
<1>s. SoleHome
  <2>1. home'.inc = home.inc \/ home'.inc = home.inc + 1
    BY <1>t, NextEffects DEF NewHome, Effects, HomeStep
  <2> QED BY <1>t, <2>1 DEF SoleHome
<1>i. travel.reason \notin Errors /\ home.outcome # "ACK split a frame"
  BY <1>s DEF NoTransferError, Errors
<1>1. CASE TravelNext
  <2>1. home' = home
    <3>1. \A reason : TravelFails(reason) => home' = home BY DEF TravelFails
    <3> QED BY <1>1, <3>1
    DEF TravelNext, TravelCompletes, TravelDrainTimesOut, StartRace, RecoveryExpires, RaceTimesOut,
        Opened, OpenedInconsistent, OpenFailed, RaceAnswered, RaceAnswerIgnored, TravelData,
        LocalWriteFails, TravelDuplicate, TravelAck, TravelFin, TravelFinAck, TravelBails,
        TravelCarrierClosed, LocalData, LocalEof, TravelStops, RecoveryTimePasses,
        DataDuplicate, AckInWindow, FinInOrder, FinAckInOrder, ReadData, ReadEof
  <2> QED BY <1>1, <1>i, <1>s, <2>1, TravelNoError
<1>2. CASE HomeNext
  <2>1. travel' = travel
    <3>1. \A outcome, links : HomeEnds(outcome, links) => travel' = travel BY DEF HomeEnds
    <3> QED BY <1>2, <3>1
    DEF HomeNext, Attach, AttachNoSlot, AttachRejected, Admit, AdmitFails, HomeRaceWon,
        HomeRaceLost, HomeData, HomeDuplicate, HomeAck, HomeFin, HomeFinAck, HomeObjects,
        HomeCarrierClosed, TargetConnects, TargetData, TargetEof, DetachExpires, HomeStops,
        HomeCompletes, HomeDrainTimesOut, HomeFails,
        DataDuplicate, AckInWindow, FinInOrder, FinAckInOrder, ReadData, ReadEof
  <2> QED BY <1>2, <1>i, <1>s, <1>t, <2>1, HomeNoError
<1>3. ASSUME NEW c \in Carriers, Break(c) PROVE travel' = travel /\ home' = home
  BY <1>3 DEF Break
<1>4. CASE UNCHANGED vars BY <1>4, <1>i DEF vars
<1> QED BY <1>1, <1>2, <1>3, <1>4, <1>i DEF Next

\* However Carriers break, race and are handed over, and acknowledgements and
\* retransmissions cross: what a side keeps is what may have to be repeated, and
\* repeating it meets no gap, no split segment, no acknowledgement of unsent data.
THEOREM TransferIsExactThm == Spec => []TransferIsExact
<1>1. Init => NoTransferError BY DEF Init, NoTransferError
<1>2. Spec => []NoTransferError
  BY <1>1, DeliveryInvariant, MarksInvariant, NoGapInvariant, NoTransferErrorNext, PTL DEF Spec
<1>3. NoTransferError /\ Windows => TransferIsExact BY WindowsMean DEF TransferIsExact
<1> QED BY <1>2, <1>3, WindowsInvariant, PTL

-----------------------------------------------------------------------------
(* Races.                                                                   *)

\* Home answers a race only with a winner it remembers, and remembers one winner
\* of a race.  A flow that is gone answers nothing; a new one starts to remember.
RacesOK ==
    /\ \A m \in InFlight("home") : m.type = "Race" => m.race \in 1..MaxRaces
    /\ \A e \in Remembered : e.race \in 1..MaxRaces
    /\ \A d, e \in Remembered : d.race = e.race => d = e
    /\ Len(home.race_winners) = Cardinality(Remembered)
    /\ SoleHome =>
        /\ home.inc = 0 => \A m \in InFlight("travel") : ~IsAnswer(m)
        /\ home.phase # "absent" =>
             \A m \in InFlight("travel") : IsAnswer(m) =>
                 [race |-> m.race, winner |-> m.winner] \in Remembered
        /\ \A m, n \in InFlight("travel") :
               IsAnswer(m) /\ IsAnswer(n) /\ m.race = n.race => m.winner = n.winner

LEMMA RememberedType ==
  ASSUME TypeOK
  PROVE  /\ Len(home.race_winners) \in Nat
         /\ \A e \in Remembered :
                e.race \in Nat /\ e.winner \in Carriers
                /\ e = [race |-> e.race, winner |-> e.winner]
<1>1. home.race_winners \in Seq([race : Nat, winner : Carriers]) BY DEF TypeOK, HomeState
<1>2. \A i \in 1..Len(home.race_winners) :
          home.race_winners[i] \in [race : Nat, winner : Carriers]
  BY <1>1, ElementOfSeq
<1>3. \A e \in Remembered : e \in [race : Nat, winner : Carriers] BY <1>2 DEF Remembered
<1> QED BY <1>1, <1>3, LenProperties

\* While no more races are possible than Home remembers, none is forgotten.
LEMMA RoomToRemember ==
  ASSUME TypeOK, MaxRaces <= RaceHistory, NEW r \in 1..MaxRaces, Winners(r) = {},
         \A e \in Remembered : e.race \in 1..MaxRaces,
         \A d, e \in Remembered : d.race = e.race => d = e,
         Len(home.race_winners) = Cardinality(Remembered)
  PROVE  /\ Len(home.race_winners) < RaceHistory
         /\ IsFiniteSet(Remembered)
         /\ \A e \in Remembered : e.race # r
<1> DEFINE S == Remembered
           T == (1..MaxRaces) \ {r}
           f == [e \in S |-> e.race]
<1>1. \A e \in S : e.race # r
  <2> SUFFICES ASSUME NEW e \in S, e.race = r PROVE FALSE OBVIOUS
  <2>1. e = [race |-> r, winner |-> e.winner] /\ e.winner \in Carriers BY RememberedType
  <2>2. PICK i \in 1..Len(home.race_winners) : e = home.race_winners[i] BY DEF Remembered
  <2>3. e.winner \in Winners(r) BY <2>1, <2>2 DEF Winners
  <2> QED BY <2>3
<1>2. f \in [S -> T] BY <1>1
<1>3. \A d, e \in S : f[d] = f[e] => d = e OBVIOUS
<1>4. f \in Injection(S, T) BY <1>2, <1>3 DEF Injection, IsInjective
<1>n. MaxRaces \in Nat /\ RaceHistory \in Nat /\ MaxRaces >= 1 BY FlowConstants
<1>5. IsFiniteSet(1..MaxRaces) /\ Cardinality(1..MaxRaces) = MaxRaces
  <2>1. /\ IsFiniteSet(1..MaxRaces)
        /\ Cardinality(1..MaxRaces) = IF 1 > MaxRaces THEN 0 ELSE MaxRaces - 1 + 1
    BY <1>n, FS_Interval
  <2> QED BY <1>n, <2>1
<1>6. IsFiniteSet(T) /\ Cardinality(T) = MaxRaces - 1 BY <1>5, FS_RemoveElement
<1> HIDE DEF S, T, f
<1>7. IsFiniteSet(S) /\ Cardinality(S) <= Cardinality(T) BY <1>4, <1>6, FS_Injection
<1>8. Cardinality(S) \in Nat BY <1>7, FS_CardinalityType
<1>9. Cardinality(S) < RaceHistory BY <1>6, <1>7, <1>8, <1>n
<1> QED BY <1>1, <1>7, <1>9 DEF S

LEMMA RemembersOne ==
  ASSUME TypeOK, NEW e \in [race : Nat, winner : Carriers],
         Len(home.race_winners) < RaceHistory, IsFiniteSet(Remembered),
         home'.race_winners = Remember(home.race_winners, e), e \notin Remembered,
         Len(home.race_winners) = Cardinality(Remembered)
  PROVE  /\ Remembered' = Remembered \cup {e}
         /\ Len(home'.race_winners) = Cardinality(Remembered')
<1> DEFINE q == home.race_winners
           p == home'.race_winners
<1>1. q \in Seq([race : Nat, winner : Carriers]) /\ Len(q) \in Nat
  BY LenProperties DEF TypeOK, HomeState
<1>2. p = Append(q, e) BY DEF Remember
<1>3. /\ Len(p) = Len(q) + 1 /\ p[Len(q) + 1] = e
      /\ \A i \in 1..Len(q) : p[i] = q[i]
  BY <1>1, <1>2, AppendProperties
<1>4. Remembered = {q[i] : i \in 1..Len(q)} /\ Remembered' = {p[i] : i \in 1..Len(p)}
  BY DEF Remembered
<1> HIDE DEF q, p
<1>5. Remembered' = Remembered \cup {e}
  <2>1. ASSUME NEW x \in Remembered' PROVE x \in Remembered \cup {e}
    <3>1. PICK i \in 1..Len(p) : x = p[i] BY <1>4, <2>1
    <3>2. i = Len(q) + 1 \/ i \in 1..Len(q) BY <1>1, <1>3, <3>1
    <3> QED BY <1>3, <1>4, <3>1, <3>2
  <2>2. ASSUME NEW x \in Remembered PROVE x \in Remembered'
    <3>1. PICK i \in 1..Len(q) : x = q[i] BY <1>4, <2>2
    <3>2. i \in 1..Len(p) BY <1>1, <1>3
    <3> QED BY <1>3, <1>4, <3>1, <3>2
  <2>3. Len(q) + 1 \in 1..Len(p) BY <1>1, <1>3
  <2>4. e \in Remembered' BY <1>3, <1>4, <2>3
  <2> QED BY <2>1, <2>2, <2>4
<1>6. Cardinality(Remembered \cup {e}) = Cardinality(Remembered) + 1 BY FS_AddElement
<1> QED BY <1>3, <1>5, <1>6 DEF q, p

\* What Home remembers after a step is what it remembered, and one winner of a
\* race that had none; or nothing, and then there is no flow.
LEMMA RememberedNext ==
  ASSUME TypeOK, MaxRaces <= RaceHistory, HomeStep,
         \A m \in InFlight("home") : m.type = "Race" => m.race \in 1..MaxRaces,
         \A e \in Remembered : e.race \in 1..MaxRaces,
         \A d, e \in Remembered : d.race = e.race => d = e,
         Len(home.race_winners) = Cardinality(Remembered)
  PROVE  /\ \A e \in Remembered' : e.race \in 1..MaxRaces
         /\ \A d, e \in Remembered' : d.race = e.race => d = e
         /\ Len(home'.race_winners) = Cardinality(Remembered')
         /\ home'.phase # "absent" => Remembered \subseteq Remembered' /\ home.phase # "absent"
<1>1. CASE /\ home'.race_winners = home.race_winners
           /\ home'.phase = "absent" <=> home.phase = "absent"
  <2>1. Remembered' = Remembered BY <1>1 DEF Remembered
  <2> QED BY <1>1, <2>1
<1>2. CASE home'.race_winners = <<>> /\ home'.phase = "absent"
  <2>1. \A i \in 1..Len(home'.race_winners) : FALSE BY <1>2
  <2>2. Remembered' = {} BY <2>1 DEF Remembered
  <2>3. Len(home'.race_winners) = 0 BY <1>2
  <2> QED BY <1>2, <2>2, <2>3, FS_EmptySet
<1>3. ASSUME NEW m \in InFlight("home"), NEW c \in Carriers, m.type = "Race",
             Winners(m.race) = {}, home.phase # "absent",
             home'.race_winners = Remember(home.race_winners, [race |-> m.race, winner |-> c])
      PROVE  /\ \A e \in Remembered' : e.race \in 1..MaxRaces
             /\ \A d, e \in Remembered' : d.race = e.race => d = e
             /\ Len(home'.race_winners) = Cardinality(Remembered')
             /\ Remembered \subseteq Remembered'
  <2>1. PICK e : e = [race |-> m.race, winner |-> c] OBVIOUS
  <2>2. m.race \in 1..MaxRaces /\ e.race = m.race BY <1>3, <2>1
  <2>3. e \in [race : Nat, winner : Carriers] BY <2>1, <2>2
  <2>4. /\ Len(home.race_winners) < RaceHistory /\ IsFiniteSet(Remembered)
        /\ \A x \in Remembered : x.race # m.race
    BY <1>3, <2>2, RoomToRemember
  <2>5. e \notin Remembered BY <2>2, <2>4
  <2>6. home'.race_winners = Remember(home.race_winners, e) BY <1>3, <2>1
  <2>7. /\ Remembered' = Remembered \cup {e}
        /\ Len(home'.race_winners) = Cardinality(Remembered')
    BY <2>3, <2>4, <2>5, <2>6, RemembersOne
  <2> QED BY <2>2, <2>4, <2>7
<1> QED BY <1>1, <1>2, <1>3 DEF HomeStep

LEMMA RacesNext ==
  ASSUME MaxRaces <= RaceHistory, DeliveryInv, DeliveryInv', LinksOK', RacesOK, [Next]_vars
  PROVE  RacesOK'
<1>t. TypeOK /\ TypeOK' /\ "home" \in Sides /\ "travel" \in Sides
      /\ Peer("home") = "travel" /\ Peer("travel") = "home"
  BY DEF DeliveryInv, Sides, Peer
<1>i. home.inc \in Nat BY <1>t, FlowConstants DEF TypeOK, HomeState
<1>r. travel'.race \in 0..MaxRaces /\ (travel'.racing => travel'.race >= 1)
  <2>1. travel'.race \in 0..MaxRaces BY <1>t DEF TypeOK, TravelState
  <2>2. TravelLinks(travel', link') BY DEF LinksOK
  <2> QED BY <2>1, <2>2 DEF TravelLinks
<1>1. CASE NewHome
  <2>1. /\ home'.race_winners = home.race_winners /\ inbox' = inbox
        /\ home'.inc = home.inc + 1
    BY <1>1 DEF NewHome
  <2>2. Remembered' = Remembered /\ InFlight("home")' = InFlight("home")
        /\ InFlight("travel")' = InFlight("travel")
    BY <2>1 DEF Remembered, InFlight
  <2>3. SoleHome' => home.inc = 0 /\ SoleHome BY <1>i, <2>1 DEF SoleHome
  <2>4. SoleHome' => \A m \in InFlight("travel") : ~IsAnswer(m) BY <2>3 DEF RacesOK
  <2>5. home'.inc # 0 BY <1>i, <2>1
  <2> QED BY <2>1, <2>2, <2>4, <2>5 DEF RacesOK
<1>2. CASE Effects
  <2>1. /\ HomeStep /\ home'.inc = home.inc
        /\ \A s \in Sides : FrameStep(s)
    BY <1>2 DEF Effects, HomeStep, Transfers
  <2>2. /\ \A e \in Remembered' : e.race \in 1..MaxRaces
        /\ \A d, e \in Remembered' : d.race = e.race => d = e
        /\ Len(home'.race_winners) = Cardinality(Remembered')
        /\ home'.phase # "absent" => Remembered \subseteq Remembered' /\ home.phase # "absent"
    BY <1>t, <2>1, RememberedNext DEF RacesOK
  <2>3. ASSUME NEW m \in InFlight("home")', m.type = "Race" PROVE m.race \in 1..MaxRaces
    <3>1. CASE m \in InFlight("home") BY <2>3, <3>1 DEF RacesOK
    <3>2. CASE Speaks("home", m) BY <1>r, <2>3, <3>2 DEF Speaks
    <3> QED BY <1>t, <2>1, <3>1, <3>2 DEF FrameStep
  <2>4. ASSUME NEW m \in InFlight("travel")', IsAnswer(m)
        PROVE  \/ m \in InFlight("travel")
               \/ /\ home.phase # "absent" /\ home'.phase # "absent"
                  /\ [race |-> m.race, winner |-> m.winner] \in Remembered'
    BY <1>t, <2>1, <2>4 DEF FrameStep, Speaks
  <2>5. ASSUME SoleHome'
        PROVE  /\ home'.inc = 0 => \A m \in InFlight("travel")' : ~IsAnswer(m)
               /\ home'.phase # "absent" =>
                    \A m \in InFlight("travel")' : IsAnswer(m) =>
                        [race |-> m.race, winner |-> m.winner] \in Remembered'
               /\ \A m, n \in InFlight("travel")' :
                      IsAnswer(m) /\ IsAnswer(n) /\ m.race = n.race => m.winner = n.winner
    <3>s. SoleHome BY <2>1, <2>5 DEF SoleHome
    <3>1. ASSUME home'.inc = 0, NEW m \in InFlight("travel")' PROVE ~IsAnswer(m)
      <4>1. home.inc = 0 /\ home.phase = "absent"
        BY <2>1, <3>1 DEF DeliveryInv, NoHomeYet
      <4> QED BY <2>4, <3>s, <4>1 DEF RacesOK
    <3>2. ASSUME home'.phase # "absent", NEW m \in InFlight("travel")', IsAnswer(m)
          PROVE  [race |-> m.race, winner |-> m.winner] \in Remembered'
      <4>1. home.phase # "absent" /\ Remembered \subseteq Remembered' BY <2>2, <3>2
      <4>2. m \in InFlight("travel") => [race |-> m.race, winner |-> m.winner] \in Remembered
        BY <3>2, <3>s, <4>1 DEF RacesOK
      <4> QED BY <2>4, <3>2, <4>1, <4>2
    <3>3. ASSUME NEW m \in InFlight("travel")', NEW n \in InFlight("travel")',
                 IsAnswer(m), IsAnswer(n), m.race = n.race
          PROVE  m.winner = n.winner
      <4>1. CASE home'.phase # "absent"
        <5>1. PICK d \in Remembered' : d = [race |-> m.race, winner |-> m.winner]
          BY <3>2, <3>3, <4>1
        <5>2. PICK e \in Remembered' : e = [race |-> n.race, winner |-> n.winner]
          BY <3>2, <3>3, <4>1
        <5>3. d.race = e.race /\ d.winner = m.winner /\ e.winner = n.winner BY <3>3, <5>1, <5>2
        <5>4. d = e BY <2>2, <5>3
        <5> QED BY <5>3, <5>4
      <4>2. CASE home'.phase = "absent"
        <5>1. m \in InFlight("travel") /\ n \in InFlight("travel") BY <2>4, <3>3, <4>2
        <5> QED BY <3>3, <3>s, <5>1 DEF RacesOK
      <4> QED BY <4>1, <4>2
    <3> QED BY <3>1, <3>2, <3>3
  <2> QED BY <2>2, <2>3, <2>5 DEF RacesOK
<1> QED BY <1>t, <1>1, <1>2, NextEffects

\* While Home remembers the winner of every race of the Flow, no two answers name
\* different winners of one race, however Race frames are delayed and Home's
\* flow ends in between.
THEOREM RaceHasOneWinnerThm ==
  ASSUME MaxRaces <= RaceHistory
  PROVE  Spec => []RaceHasOneWinner
<1>1. Init => RacesOK
  <2> SUFFICES ASSUME Init PROVE RacesOK OBVIOUS
  <2>1. \A s \in Sides : InFlight(s) = {} BY DEF Init, InFlight, Flying
  <2>2. home.race_winners = <<>> BY DEF Init
  <2>3. Remembered = {} /\ Len(home.race_winners) = 0 BY <2>2 DEF Remembered
  <2> QED BY <2>1, <2>3, FS_EmptySet DEF RacesOK, Sides
<1>2. DeliveryInv /\ DeliveryInv' /\ LinksOK' /\ RacesOK /\ [Next]_vars => RacesOK'
  BY RacesNext
<1>3. RacesOK => RaceHasOneWinner
  BY DEF RacesOK, RaceHasOneWinner, InFlight, Flying, IsAnswer
<1> QED BY <1>1, <1>2, <1>3, DeliveryInvariant, LinksInvariant, PTL DEF Spec
=============================================================================
