--------------------------- MODULE TcpFlowDelivery ---------------------------
(***************************************************************************)
(* Types and delivery of a Flow for every value of the constants, whatever *)
(* the number of Relays, races, failures and bytes: every state is         *)
(* well-formed, what is acknowledged was delivered, EOF comes last,        *)
(* completion means that both directions arrived.                          *)
(*                                                                         *)
(* None of the last three is inductive: an Ack in flight would acknowledge *)
(* anything, a Fin would end anything.  The strengthening says what every  *)
(* frame that still travels claims about the endpoint that sent it.  The   *)
(* same invariant carries the refinement: what a frame may deliver or end  *)
(* is what the abstract stream allows.                                     *)
(***************************************************************************)
EXTENDS TcpFlow, SequenceTheorems, TLAPS

Boxes == [Sides -> [Carriers -> Seq(Frame)]]

-----------------------------------------------------------------------------
(* Type correctness.                                                        *)

LEMMA PeerType == \A s \in Sides : Peer(s) \in Sides /\ Peer(Peer(s)) = s
  BY DEF Peer, Sides

\* send_to keeps the Carriers' contents sequences of frames.
LEMMA SentType ==
  ASSUME NEW box \in Boxes, NEW s \in Sides, NEW held, held \subseteq Carriers,
         NEW c, NEW frames \in Seq(Frame)
  PROVE  Sent(box, s, held, c, frames) \in Boxes
<1>1. CASE c \in held /\ link[c] = "up"
  <2>1. box[Peer(s)][c] \o frames \in Seq(Frame)
    BY <1>1, PeerType, ConcatProperties DEF Boxes
  <2>2. Sent(box, s, held, c, frames) = [box EXCEPT ![Peer(s)][c] = @ \o frames]
    BY <1>1 DEF Sent
  <2> QED BY <1>1, <2>1, <2>2, PeerType DEF Boxes
<1>2. CASE ~(c \in held /\ link[c] = "up")
  BY <1>2 DEF Sent
<1> QED BY <1>1, <1>2

\* Taking the frame at the head of a Carrier.
LEMMA ConsumedType ==
  ASSUME inbox \in Boxes, NEW s \in Sides, NEW c \in Carriers, inbox[s][c] # <<>>
  PROVE  /\ Consumed(s, c) \in Boxes
         /\ Head(inbox[s][c]) \in Frame
<1>1. inbox[s][c] \in Seq(Frame) BY DEF Boxes
<1>2. Tail(inbox[s][c]) \in Seq(Frame) /\ Head(inbox[s][c]) \in Frame
  BY <1>1, HeadTailProperties
<1> QED BY <1>2 DEF Consumed, Boxes

LEMMA ReplyIsSent ==
  ASSUME NEW s, NEW c, NEW f
  PROVE  Reply(s, c, f) = Sent(Consumed(s, c), s, Holds(s), c, <<f>>)
  BY DEF Reply, Consumed

LEMMA HoldsType ==
  ASSUME TypeOK, NEW s
  PROVE  Holds(s) \subseteq Carriers
  BY DEF TypeOK, TravelState, HomeState, Holds

LEMMA ReplyType ==
  ASSUME TypeOK, NEW s \in Sides, NEW c \in Carriers, inbox[s][c] # <<>>, NEW f \in Frame
  PROVE  Reply(s, c, f) \in Boxes
<1>1. Consumed(s, c) \in Boxes BY ConsumedType DEF TypeOK, Boxes
<1>2. <<f>> \in Seq(Frame) OBVIOUS
<1> QED BY <1>1, <1>2, SentType, HoldsType, ReplyIsSent

LEMMA ClearedType ==
  ASSUME NEW box \in Boxes, NEW s \in Sides
  PROVE  /\ \A c \in Carriers : [box EXCEPT ![s][c] = <<>>] \in Boxes
         /\ \A S : [box EXCEPT ![s] =
                [x \in Carriers |-> IF x \in S THEN <<>> ELSE @[x]]] \in Boxes
<1>1. <<>> \in Seq(Frame) OBVIOUS
<1>2. \A S : [x \in Carriers |-> IF x \in S THEN <<>> ELSE box[s][x]] \in [Carriers -> Seq(Frame)]
  BY <1>1 DEF Boxes
<1> QED BY <1>1, <1>2 DEF Boxes

LEMMA DeafType ==
  ASSUME inbox \in Boxes, NEW s \in Sides
  PROVE  Deaf(s) \in Boxes
<1>1. [x \in Carriers |-> <<>>] \in [Carriers -> Seq(Frame)] OBVIOUS
<1> QED BY <1>1 DEF Deaf, Boxes

\* The constructors build frames.
LEMMA FrameTypes ==
  /\ \A n \in Nat : /\ Ack(n) \in Frame /\ Duplicate(n) \in Frame
                    /\ Fin(n) \in Frame /\ FinAck(n) \in Frame
  /\ \A r, n \in Nat : Race(r, n) \in Frame /\ OpenOk(r, n) \in Frame
  /\ \A r \in Nat, w \in Carriers : RaceAck(r, w) \in Frame /\ RaceDuplicate(r, w) \in Frame
  /\ \A seg \in Segment, i \in Nat : Data(seg, i) \in Frame
  /\ Close \in Frame
  BY DEF Frame, Segment, Ack, Duplicate, Fin, FinAck, Race, OpenOk, RaceAck, RaceDuplicate,
         Data, Close

\* What a frame of each type carries.
LEMMA FrameFields ==
  ASSUME NEW m \in Frame
  PROVE  /\ m.type = "Data" => m.offset \in Nat /\ m.len \in Nat /\ m.src \in Nat
         /\ m.type \in {"Ack", "Duplicate"} => m.next_offset \in Nat
         /\ m.type \in {"Fin", "FinAck"} => m.final_offset \in Nat
         /\ m.type = "Race" => m.race \in Nat /\ m.next_offset \in Nat
         /\ m.type \in {"RaceAck", "RaceDuplicate"} => m.race \in Nat /\ m.winner \in Carriers
         /\ m.type = "OpenOk" => m.receive_offset \in Nat /\ m.send_offset \in Nat
  BY DEF Frame

LEMMA RetransmissionType ==
  ASSUME NEW t \in TxState, NEW i \in Nat
  PROVE  Retransmission(t, i) \in Seq(Frame)
<1> DEFINE D == [k \in 1..Len(t.unacked) |-> Data(t.unacked[k], i)]
<1>1. t.unacked \in Seq(Segment) BY DEF TxState
<1>2. \A k \in 1..Len(t.unacked) : Data(t.unacked[k], i) \in Frame
  BY <1>1, FrameTypes, ElementOfSeq
<1>3. Len(t.unacked) \in Nat BY <1>1, LenProperties
<1>4. D \in Seq(Frame) BY <1>2, <1>3, IsASeq
<1>5. Fin(t.send_offset) \in Frame BY FrameTypes DEF TxState
<1>6. (IF t.local_eof THEN <<Fin(t.send_offset)>> ELSE <<>>) \in Seq(Frame)
  BY <1>5
<1> QED BY <1>4, <1>6, ConcatProperties DEF Retransmission

LEMMA AcknowledgeType ==
  ASSUME NEW t \in TxState, NEW n \in Nat, NEW j \in 0..Len(t.unacked)
  PROVE  Acknowledge(t, n, j) \in TxState
<1>1. t.unacked \in Seq(Segment) /\ Len(t.unacked) \in Nat BY LenProperties DEF TxState
<1>2. SubSeq(t.unacked, j + 1, Len(t.unacked)) \in Seq(Segment)
  BY <1>1, SubSeqProperties
<1> QED BY <1>2 DEF Acknowledge, TxState

\* Dropping or draining Carriers keeps every link in one of its states.
Links == [Carriers -> {"idle", "opening", "up", "closing", "down"}]
LEMMA LinkType ==
  ASSUME link \in Links, NEW S
  PROVE  Dropped(S) \in Links /\ Drained(S) \in Links
  BY DEF Dropped, Drained, Links

LEMMA BufferType ==
  ASSUME NEW t \in TxState, NEW len \in Nat
  PROVE  Buffer(t, len) \in TxState
<1>1. Append(t.unacked, [offset |-> t.send_offset, len |-> len]) \in Seq(Segment)
  BY AppendProperties DEF TxState, Segment
<1>2. t.send_offset + len \in Nat BY DEF TxState
<1> QED BY <1>1, <1>2 DEF Buffer, TxState

\* The two ways an endpoint gives the Flow up.
LEMMA TravelFailsType ==
  ASSUME TypeOK, NEW reason \in TravelReasons, TravelFails(reason), rx' \in [Sides -> RxState]
  PROVE  TypeOK'
<1>1. link' \in Links BY LinkType DEF TravelFails, TypeOK, Links
<1>2. inbox' \in Boxes BY DeafType DEF TravelFails, TypeOK, Boxes, Sides
<1>3. travel' \in TravelState BY DEF TravelFails, TypeOK, TravelState, OptionCarrier
<1> QED BY <1>1, <1>2, <1>3 DEF TravelFails, TypeOK, Links, Boxes

LEMMA HomeEndsType ==
  ASSUME TypeOK, NEW outcome \in HomeOutcomes, NEW links \in Links, HomeEnds(outcome, links)
  PROVE  TypeOK'
<1>2. inbox' \in Boxes BY DeafType DEF HomeEnds, TypeOK, Boxes, Sides
<1>1. <<>> \in Seq([race : Nat, winner : Carriers]) OBVIOUS
<1>3. home' \in HomeState
  BY <1>1 DEF HomeEnds, TypeOK, HomeState, OptionCarrier
<1> QED BY <1>2, <1>3 DEF HomeEnds, TypeOK, Links, Boxes

LEMMA HomeFailsType ==
  ASSUME TypeOK, NEW outcome \in HomeOutcomes, HomeFails(outcome)
  PROVE  TypeOK'
  BY HomeEndsType, LinkType DEF HomeFails, TypeOK, Links

\* The shared steps of the two event loops.
LEMMA SharedType ==
  ASSUME TypeOK, NEW s \in Sides
  PROVE  /\ \A len \in SegLens : ReadData(s, len) => TypeOK'
         /\ ReadEof(s) => TypeOK'
         /\ \A c \in Carriers :
              (\/ DataDuplicate(s, c) \/ AckInWindow(s, c) \/ FinInOrder(s, c)
               \/ FinAckInOrder(s, c)) => TypeOK'
<1> USE DEF Links, Boxes
<1>h. Holds(s) \subseteq Carriers BY HoldsType
<1>n. /\ tx[s] \in TxState /\ tx[s].send_offset \in Nat
      /\ rx[s].receive_offset \in Nat /\ Src(s) \in Nat
  BY DEF TypeOK, TxState, RxState, Src, HomeState
<1>1. ASSUME NEW len \in SegLens, ReadData(s, len) PROVE TypeOK'
  <2>1. len \in Nat BY FlowConstants
  <2>2. [offset |-> tx[s].send_offset, len |-> len] \in Segment BY <2>1, <1>n DEF Segment
  <2>3. <<Data([offset |-> tx[s].send_offset, len |-> len], Src(s))>> \in Seq(Frame)
    BY <2>2, <1>n, FrameTypes
  <2>4. inbox' \in Boxes BY <1>1, <2>3, <1>h, SentType DEF ReadData, TypeOK
  <2>5. tx' \in [Sides -> TxState] BY <1>1, <2>1, <1>n, BufferType DEF ReadData, TypeOK
  <2> QED BY <1>1, <2>4, <2>5 DEF ReadData, TypeOK
<1>2. ASSUME ReadEof(s) PROVE TypeOK'
  <2>3. <<Fin(tx[s].send_offset)>> \in Seq(Frame) BY <1>n, FrameTypes
  <2>4. inbox' \in Boxes BY <1>2, <2>3, <1>h, SentType DEF ReadEof, TypeOK
  <2>5. tx' \in [Sides -> TxState] BY <1>2 DEF ReadEof, TypeOK, TxState
  <2> QED BY <1>2, <2>4, <2>5 DEF ReadEof, TypeOK
<1>3. ASSUME NEW c \in Carriers, DataDuplicate(s, c) PROVE TypeOK'
  <2>1. inbox' \in Boxes
    BY <1>3, <1>n, FrameTypes, ReplyType DEF DataDuplicate, Arrives
  <2> QED BY <1>3, <2>1 DEF DataDuplicate, TypeOK
<1>4. ASSUME NEW c \in Carriers, AckInWindow(s, c) PROVE TypeOK'
  <2>1. inbox' \in Boxes /\ Head(inbox[s][c]) \in Frame
    BY <1>4, ConsumedType DEF AckInWindow, Arrives, TypeOK
  <2>2. Head(inbox[s][c]).next_offset \in Nat
    BY <1>4, <2>1, FrameFields DEF AckInWindow, Arrives
  <2>3. tx' \in [Sides -> TxState]
    BY <1>4, <2>2, <1>n, AcknowledgeType DEF AckInWindow, TypeOK
  <2> QED BY <1>4, <2>1, <2>3 DEF AckInWindow, TypeOK
<1>5. ASSUME NEW c \in Carriers, FinInOrder(s, c) PROVE TypeOK'
  <2>1. inbox' \in Boxes
    BY <1>5, <1>n, FrameTypes, ReplyType DEF FinInOrder, Arrives
  <2>2. rx' \in [Sides -> RxState] BY <1>5 DEF FinInOrder, TypeOK, RxState
  <2> QED BY <1>5, <2>1, <2>2 DEF FinInOrder, TypeOK
<1>6. ASSUME NEW c \in Carriers, FinAckInOrder(s, c) PROVE TypeOK'
  <2>1. inbox' \in Boxes
    BY <1>6, ConsumedType DEF FinAckInOrder, Arrives, TypeOK
  <2>2. tx' \in [Sides -> TxState] BY <1>6 DEF FinAckInOrder, TypeOK, TxState
  <2> QED BY <1>6, <2>1, <2>2 DEF FinAckInOrder, TypeOK
<1> QED BY <1>1, <1>2, <1>3, <1>4, <1>5, <1>6

LEMMA TravelNextType ==
  ASSUME TypeOK, TravelNext
  PROVE  TypeOK'
<1> USE DEF Links, Boxes
<1>t. /\ tx["travel"] \in TxState /\ tx["travel"].send_acked \in Nat
      /\ "travel" \in Sides /\ travel.carriers \subseteq Carriers
      /\ travel.active \in OptionCarrier /\ travel.race \in 0..MaxRaces
  BY DEF TypeOK, TxState, TravelState, Sides
<1>1. CASE TravelCompletes
  <2>1. inbox' \in Boxes BY <1>1, <1>t, DeafType DEF TravelCompletes, TypeOK
  <2>2. link' \in Links BY <1>1, LinkType DEF TravelCompletes, TypeOK
  <2>3. travel' \in TravelState BY <1>1 DEF TravelCompletes, TypeOK, TravelState, OptionCarrier
  <2> QED BY <1>1, <2>1, <2>2, <2>3 DEF TravelCompletes, TypeOK
<1>2. CASE TravelDrainTimesOut \/ RecoveryExpires \/ TravelStops
  <2>1. rx' \in [Sides -> RxState]
    BY <1>2 DEF TravelDrainTimesOut, RecoveryExpires, TravelStops, TypeOK
  <2> QED BY <1>2, <2>1, TravelFailsType DEF TravelDrainTimesOut, RecoveryExpires, TravelStops, TravelReasons
<1>3. ASSUME NEW S \in SUBSET Relays, StartRace(S) PROVE TypeOK'
  <2> DEFINE race == travel.race + 1
             opened == {<<race, r>> : r \in S}
  <2>1. race \in 1..MaxRaces /\ race \in Nat BY <1>3, <1>t, FlowConstants DEF StartRace
  <2>2. opened \subseteq Carriers BY <2>1 DEF Carriers
  <2>3. travel' \in TravelState
    <3>1. travel' = [travel EXCEPT !.racing = TRUE, !.race = race, !.opening = opened]
      BY <1>3 DEF StartRace
    <3>2. race \in 0..MaxRaces BY <2>1
    <3> HIDE DEF race, opened
    <3> QED BY <2>2, <3>1, <3>2 DEF TypeOK, TravelState
  <2>4. link' \in Links BY <1>3 DEF StartRace, TypeOK
  <2>5. <<Race(race, tx["travel"].send_acked)>> \in Seq(Frame) BY <2>1, <1>t, FrameTypes
  <2>6. inbox' \in Boxes BY <1>3, <2>5, <1>t, SentType DEF StartRace, TypeOK
  <2> QED BY <1>3, <2>3, <2>4, <2>6 DEF StartRace, TypeOK
<1>4. CASE RaceTimesOut
  <2>1. inbox' \in Boxes BY <1>4, <1>t, ClearedType DEF RaceTimesOut, TypeOK
  <2>2. link' \in Links BY <1>4, LinkType DEF RaceTimesOut, TypeOK
  <2>3. travel' \in TravelState BY <1>4 DEF RaceTimesOut, TypeOK, TravelState
  <2> QED BY <1>4, <2>1, <2>2, <2>3 DEF RaceTimesOut, TypeOK
<1>5. ASSUME NEW c \in Carriers, Opened(c) PROVE TypeOK'
  <2> DEFINE ok == Head(inbox["travel"][c])
  <2>1. Consumed("travel", c) \in Boxes /\ ok \in Frame
    BY <1>5, <1>t, ConsumedType DEF Opened, Arrives, TypeOK
  <2>2. ok.receive_offset \in Nat BY <1>5, <2>1, FrameFields DEF Opened, Arrives
  <2>3. tx' \in [Sides -> TxState] BY <1>5, <2>2, <1>t, AcknowledgeType DEF Opened, TypeOK
  <2>4. travel.race \in Nat BY <1>t, FlowConstants
  <2>5. <<Race(travel.race, ok.receive_offset)>> \in Seq(Frame) BY <2>2, <2>4, FrameTypes
  <2>6. inbox' = Sent(Consumed("travel", c), "travel", {c}, c,
                      <<Race(travel.race, ok.receive_offset)>>)
    BY <1>5 DEF Opened
  <2>7. inbox' \in Boxes BY <2>6, <2>1, <2>5, <1>t, SentType
  <2>8. travel' \in TravelState BY <1>5 DEF Opened, TypeOK, TravelState
  <2> QED BY <1>5, <2>3, <2>7, <2>8 DEF Opened, TypeOK
<1>6. ASSUME NEW c \in Carriers, OpenedInconsistent(c) PROVE TypeOK'
  <2>1. rx' \in [Sides -> RxState] BY <1>6 DEF OpenedInconsistent, TypeOK
  <2> QED BY <1>6, <2>1, TravelFailsType DEF OpenedInconsistent, TravelReasons
<1>7. ASSUME NEW c \in Carriers, OpenFailed(c) PROVE TypeOK'
  <2>1. inbox' \in Boxes BY <1>7, <1>t, ClearedType DEF OpenFailed, TypeOK
  <2>2. link' \in Links BY <1>7, LinkType DEF OpenFailed, TypeOK
  <2>3. StillRacing(travel.active, travel.carriers, travel.opening \ {c}) \in BOOLEAN
    BY DEF StillRacing, TypeOK, TravelState
  <2>4. travel' \in TravelState BY <1>7, <2>3 DEF OpenFailed, TypeOK, TravelState
  <2> QED BY <1>7, <2>1, <2>2, <2>4 DEF OpenFailed, TypeOK
<1>8. ASSUME NEW c \in Carriers, RaceAnswered(c) PROVE TypeOK'
  <2> DEFINE m == Head(inbox["travel"][c])
             kept == travel.carriers \cap {m.winner}
             box == [Consumed("travel", c) EXCEPT
                         !["travel"] = [x \in Carriers |->
                             IF x \in travel.opening THEN <<>> ELSE @[x]]]
  <2>1. Consumed("travel", c) \in Boxes /\ m \in Frame
    BY <1>8, <1>t, ConsumedType DEF RaceAnswered, Arrives, TypeOK
  <2>2. m.winner \in Carriers BY <1>8, <2>1, FrameFields DEF RaceAnswered, Arrives
  <2>3. box \in Boxes BY <2>1, <1>t, ClearedType
  <2>4. Retransmission(tx["travel"], 0) \in Seq(Frame) BY <1>t, RetransmissionType
  <2>5. kept \subseteq Carriers BY <1>t
  <2>6. inbox' = Sent(box, "travel", kept, m.winner, Retransmission(tx["travel"], 0))
    BY <1>8 DEF RaceAnswered
  <2>7. inbox' \in Boxes BY <2>3, <2>4, <2>5, <2>6, <1>t, SentType
  <2>8. travel' \in TravelState
    BY <1>8, <2>2, <2>5 DEF RaceAnswered, TypeOK, TravelState, OptionCarrier
  <2>9. link' \in Links BY <1>8, LinkType DEF RaceAnswered, TypeOK
  <2> QED BY <1>8, <2>7, <2>8, <2>9 DEF RaceAnswered, TypeOK
<1>9. ASSUME NEW c \in Carriers, RaceAnswerIgnored(c) PROVE TypeOK'
  <2>1. inbox' \in Boxes
    BY <1>9, <1>t, ConsumedType DEF RaceAnswerIgnored, Arrives, TypeOK
  <2> QED BY <1>9, <2>1 DEF RaceAnswerIgnored, TypeOK
<1>10. ASSUME NEW c \in Carriers, TravelData(c) PROVE TypeOK'
  <2> DEFINE m == Head(inbox["travel"][c])
  <2>1. m \in Frame /\ inbox["travel"][c] # <<>>
    BY <1>10, <1>t, ConsumedType DEF TravelData, Arrives, TypeOK
  <2>2. m.offset \in Nat /\ m.len \in Nat /\ m.src \in Nat
    BY <1>10, <2>1, FrameFields DEF TravelData, Arrives
  <2>3. End(m) \in Nat BY <2>2 DEF End
  <2>4. inbox' \in Boxes BY <1>10, <2>1, <2>3, <1>t, FrameTypes, ReplyType DEF TravelData
  <2>5. rx' \in [Sides -> RxState] BY <1>10, <2>3 DEF TravelData, TypeOK, RxState
  <2>6. travel' \in TravelState BY <1>10, <2>2 DEF TravelData, TypeOK, TravelState
  <2> QED BY <1>10, <2>4, <2>5, <2>6 DEF TravelData, TypeOK
<1>11. ASSUME NEW c \in Carriers, LocalWriteFails(c) PROVE TypeOK'
  <2> DEFINE m == Head(inbox["travel"][c])
  <2>1. m \in Frame /\ inbox["travel"][c] # <<>>
    BY <1>11, <1>t, ConsumedType DEF LocalWriteFails, Arrives, TypeOK
  <2>2. m.offset \in Nat /\ m.len \in Nat
    BY <1>11, <2>1, FrameFields DEF LocalWriteFails, Arrives
  <2>3. PICK d \in IF rx["travel"].remote_eof THEN {0} ELSE 0..(m.len - 1) :
             rx' = [rx EXCEPT !["travel"].receive_offset = m.offset + d]
    BY <1>11 DEF LocalWriteFails
  <2>4. m.offset + d \in Nat BY <2>2, <2>3
  <2>5. rx' \in [Sides -> RxState] BY <2>3, <2>4 DEF TypeOK, RxState
  <2> QED BY <1>11, <2>5, TravelFailsType DEF LocalWriteFails, TravelReasons
<1>12. ASSUME NEW c \in Carriers,
              TravelDuplicate(c) \/ TravelAck(c) \/ TravelFin(c) \/ TravelFinAck(c)
       PROVE  TypeOK'
  BY <1>12, <1>t, SharedType DEF TravelDuplicate, TravelAck, TravelFin, TravelFinAck
<1>13. ASSUME NEW c \in Carriers, TravelBails(c) PROVE TypeOK'
  <2>1. rx' \in [Sides -> RxState] BY <1>13 DEF TravelBails, TypeOK
  <2> QED BY <1>13, <2>1, TravelFailsType DEF TravelBails, TravelReasons
<1>14. ASSUME NEW c \in Carriers, TravelCarrierClosed(c) PROVE TypeOK'
  <2> DEFINE active == Detached(travel.active, c)
             carriers == travel.carriers \ {c}
  <2>1. inbox' \in Boxes BY <1>14, <1>t, ClearedType DEF TravelCarrierClosed, TypeOK
  <2>2. StillRacing(active, carriers, travel.opening) \in BOOLEAN
    BY DEF StillRacing, TypeOK, TravelState
  <2>3. active \in OptionCarrier BY <1>t DEF Detached, OptionCarrier
  <2>4. travel' \in TravelState
    BY <1>14, <2>2, <2>3 DEF TravelCarrierClosed, TypeOK, TravelState
  <2> QED BY <1>14, <2>1, <2>4 DEF TravelCarrierClosed, TypeOK
<1>15. ASSUME NEW len \in SegLens, LocalData(len) PROVE TypeOK'
  BY <1>15, <1>t, SharedType DEF LocalData
<1>16. CASE LocalEof BY <1>16, <1>t, SharedType DEF LocalEof
<1>17. CASE RecoveryTimePasses
  <2>1. travel' \in TravelState BY <1>17 DEF RecoveryTimePasses, TypeOK, TravelState
  <2> QED BY <1>17, <2>1 DEF RecoveryTimePasses, TypeOK
<1> QED
  BY <1>1, <1>2, <1>3, <1>4, <1>5, <1>6, <1>7, <1>8, <1>9, <1>10, <1>11, <1>12, <1>13,
     <1>14, <1>15, <1>16, <1>17 DEF TravelNext

\* attach adds the Carrier to a flow, new or not.
LEMMA AttachesType ==
  ASSUME TypeOK, NEW queued, queued \subseteq Carriers, Attaches(queued)
  PROVE  tx' \in [Sides -> TxState] /\ rx' \in [Sides -> RxState] /\ home' \in HomeState
<1>1. <<>> \in Seq(Segment) OBVIOUS
<1>2. NewTx \in TxState /\ NewRx \in RxState BY <1>1 DEF NewTx, TxState, NewRx, RxState
<1>3. CASE home.phase # "absent"
  <2>1. home' = [home EXCEPT !.incoming = @ \cup queued] /\ tx' = tx /\ rx' = rx
    BY <1>3 DEF Attaches
  <2>2. home.incoming \cup queued \in SUBSET Carriers BY DEF TypeOK, HomeState
  <2>3. home' \in HomeState BY <2>1, <2>2 DEF TypeOK, HomeState
  <2> QED BY <2>1, <2>3 DEF TypeOK
<1>4. CASE home.phase = "absent"
  <2>1. home.inc + 1 \in 0..MaxIncarnations
    BY <1>4, FlowConstants DEF Attaches, TypeOK, HomeState
  <2>2. rx["home"] \in RxState BY DEF TypeOK, Sides
  <2> DEFINE past == IF home.inc = 0 THEN {} ELSE home.past \cup {rx["home"]}
  <2>3. past \in SUBSET RxState BY <2>2 DEF TypeOK, HomeState
  <2>4. home' = [home EXCEPT !.phase = "connecting", !.inc = home.inc + 1, !.outcome = "none",
                             !.incoming = queued, !.past = past]
    BY <1>4 DEF Attaches
  <2>5. home' \in HomeState
    <3> HIDE DEF past
    <3> QED BY <2>1, <2>3, <2>4 DEF TypeOK, HomeState, HomeOutcomes
  <2> QED BY <1>2, <1>4, <2>5 DEF Attaches, TypeOK
<1> QED BY <1>3, <1>4

LEMMA RememberType ==
  ASSUME NEW T, NEW q \in Seq(T), NEW e \in T
  PROVE  Remember(q, e) \in Seq(T)
<1>1. CASE Len(q) < RaceHistory BY <1>1, AppendProperties DEF Remember
<1>2. CASE ~(Len(q) < RaceHistory)
  <2>1. q # <<>> BY <1>2, FlowConstants, EmptySeq
  <2>2. Tail(q) \in Seq(T) BY <2>1, HeadTailProperties
  <2> QED BY <1>2, <2>2, AppendProperties DEF Remember
<1> QED BY <1>1, <1>2

LEMMA HomeNextType ==
  ASSUME TypeOK, HomeNext
  PROVE  TypeOK'
<1> USE DEF Links, Boxes
<1>t. /\ tx["home"] \in TxState /\ tx["home"].send_acked \in Nat
      /\ rx["home"].receive_offset \in Nat
      /\ "home" \in Sides /\ "travel" \in Sides /\ home.carriers \subseteq Carriers
      /\ home.active \in OptionCarrier /\ home.inc \in Nat
  BY FlowConstants DEF TypeOK, TxState, RxState, HomeState, Sides
<1>1. ASSUME NEW c \in Carriers, Attach(c) PROVE TypeOK'
  <2>1. tx' \in [Sides -> TxState] /\ rx' \in [Sides -> RxState] /\ home' \in HomeState
    BY <1>1, AttachesType DEF Attach
  <2> QED BY <1>1, <2>1 DEF Attach, TypeOK
<1>2. ASSUME NEW c \in Carriers, AttachNoSlot(c) PROVE TypeOK'
  <2>1. tx' \in [Sides -> TxState] /\ rx' \in [Sides -> RxState] /\ home' \in HomeState
    BY <1>2, AttachesType DEF AttachNoSlot
  <2>2. link' \in Links BY <1>2, LinkType DEF AttachNoSlot, TypeOK
  <2> QED BY <1>2, <2>1, <2>2 DEF AttachNoSlot, TypeOK
<1>3. ASSUME NEW c \in Carriers, AttachRejected(c) PROVE TypeOK'
  <2>1. link' \in Links BY <1>3, LinkType DEF AttachRejected, TypeOK
  <2> QED BY <1>3, <2>1 DEF AttachRejected, TypeOK
<1>4. ASSUME NEW c \in Carriers, Admit(c) PROVE TypeOK'
  <2>1. <<OpenOk(rx["home"].receive_offset, tx["home"].send_acked)>> \in Seq(Frame)
    BY <1>t, FrameTypes
  <2>2. inbox' \in Boxes BY <1>4, <2>1, <1>t DEF Admit, TypeOK
  <2>3. home' \in HomeState BY <1>4 DEF Admit, TypeOK, HomeState
  <2>4. link' \in Links BY <1>4 DEF Admit, TypeOK
  <2> QED BY <1>4, <2>2, <2>3, <2>4 DEF Admit, TypeOK
<1>5. ASSUME NEW c \in Carriers, AdmitFails(c) PROVE TypeOK'
  BY <1>5, HomeFailsType DEF AdmitFails, HomeOutcomes
<1>6. ASSUME NEW c \in Carriers, HomeRaceWon(c) PROVE TypeOK'
  <2> DEFINE m == Head(inbox["home"][c])
             e == [race |-> m.race, winner |-> c]
  <2>1. Consumed("home", c) \in Boxes /\ m \in Frame
    BY <1>6, <1>t, ConsumedType DEF HomeRaceWon, Arrives, TypeOK
  <2>2. m.race \in Nat BY <1>6, <2>1, FrameFields DEF HomeRaceWon, Arrives
  <2>3. Retransmission(tx["home"], home.inc) \in Seq(Frame) BY <1>t, RetransmissionType
  <2>4. <<RaceAck(m.race, c)>> \in Seq(Frame) BY <2>2, FrameTypes
  <2>5. <<RaceAck(m.race, c)>> \o Retransmission(tx["home"], home.inc) \in Seq(Frame)
    BY <2>3, <2>4, ConcatProperties
  <2>6. inbox' = Sent(Consumed("home", c), "home", home.carriers, c,
                      <<RaceAck(m.race, c)>> \o Retransmission(tx["home"], home.inc))
    BY <1>6 DEF HomeRaceWon
  <2>7. inbox' \in Boxes BY <2>1, <2>5, <2>6, <1>t, SentType
  <2>8. e \in [race : Nat, winner : Carriers] BY <2>2
  <2>9. home.race_winners \in Seq([race : Nat, winner : Carriers]) BY DEF TypeOK, HomeState
  <2>10. Remember(home.race_winners, e) \in Seq([race : Nat, winner : Carriers])
    BY <2>8, <2>9, RememberType
  <2>11. home' = [home EXCEPT !.active = c, !.race_winners = Remember(home.race_winners, e)]
    BY <1>6 DEF HomeRaceWon
  <2>12. home' \in HomeState BY <2>10, <2>11 DEF TypeOK, HomeState, OptionCarrier
  <2> QED BY <1>6, <2>7, <2>12 DEF HomeRaceWon, TypeOK
<1>7. ASSUME NEW c \in Carriers, HomeRaceLost(c) PROVE TypeOK'
  <2> DEFINE m == Head(inbox["home"][c])
  <2>1. inbox["home"][c] # <<>> /\ m \in Frame
    BY <1>7, <1>t, ConsumedType DEF HomeRaceLost, Arrives, TypeOK
  <2>2. m.race \in Nat BY <1>7, <2>1, FrameFields DEF HomeRaceLost, Arrives
  <2>3. PICK w \in Carriers : inbox' = Reply("home", c, RaceDuplicate(m.race, w))
    BY <1>7 DEF HomeRaceLost, Winners
  <2>4. inbox' \in Boxes BY <2>1, <2>2, <2>3, <1>t, FrameTypes, ReplyType
  <2> QED BY <1>7, <2>4 DEF HomeRaceLost, TypeOK
<1>8. ASSUME NEW c \in Carriers, HomeData(c) PROVE TypeOK'
  <2> DEFINE m == Head(inbox["home"][c])
  <2>1. inbox["home"][c] # <<>> /\ m \in Frame
    BY <1>8, <1>t, ConsumedType DEF HomeData, Arrives, TypeOK
  <2>2. m.offset \in Nat /\ m.len \in Nat BY <1>8, <2>1, FrameFields DEF HomeData, Arrives
  <2>3. End(m) \in Nat BY <2>2 DEF End
  <2>4. inbox' \in Boxes BY <1>8, <2>1, <2>3, <1>t, FrameTypes, ReplyType DEF HomeData
  <2>5. rx' \in [Sides -> RxState] BY <1>8, <2>3 DEF HomeData, TypeOK, RxState
  <2> QED BY <1>8, <2>4, <2>5 DEF HomeData, TypeOK
<1>9. ASSUME NEW c \in Carriers, HomeDuplicate(c) \/ HomeFin(c) \/ HomeFinAck(c) PROVE TypeOK'
  BY <1>9, <1>t, SharedType DEF HomeDuplicate, HomeFin, HomeFinAck
<1>17. ASSUME NEW c \in Carriers, HomeAck(c) PROVE TypeOK'
  <2>1. CASE AckSplits("home", c) BY <1>17, <2>1, HomeFailsType DEF HomeAck, HomeOutcomes
  <2>2. CASE ~AckSplits("home", c) BY <1>17, <2>2, <1>t, SharedType DEF HomeAck
  <2> QED BY <2>1, <2>2
<1>10. ASSUME NEW c \in Carriers, HomeObjects(c) PROVE TypeOK'
  <2>1. inbox["home"][c] # <<>> BY <1>10 DEF HomeObjects, Arrives, OutOfOrder
  <2>2. inbox' \in Boxes BY <1>10, <2>1, <1>t, FrameTypes, ReplyType DEF HomeObjects
  <2> QED BY <1>10, <2>2 DEF HomeObjects, TypeOK
<1>11. ASSUME NEW c \in Carriers, HomeCarrierClosed(c) PROVE TypeOK'
  <2>1. inbox' \in Boxes BY <1>11, <1>t, ClearedType DEF HomeCarrierClosed, TypeOK
  <2>2. Detached(home.active, c) \in OptionCarrier BY <1>t DEF Detached, OptionCarrier
  <2>3. home' \in HomeState BY <1>11, <2>2 DEF HomeCarrierClosed, TypeOK, HomeState
  <2> QED BY <1>11, <2>1, <2>3 DEF HomeCarrierClosed, TypeOK
<1>12. CASE TargetConnects
  <2>1. home' \in HomeState BY <1>12 DEF TargetConnects, TypeOK, HomeState
  <2> QED BY <1>12, <2>1 DEF TargetConnects, TypeOK
<1>13. ASSUME NEW len \in SegLens, TargetData(len) PROVE TypeOK'
  BY <1>13, <1>t, SharedType DEF TargetData
<1>14. CASE TargetEof BY <1>14, <1>t, SharedType DEF TargetEof
<1>15. CASE DetachExpires \/ HomeStops \/ HomeDrainTimesOut
  BY <1>15, HomeFailsType DEF DetachExpires, HomeStops, HomeDrainTimesOut, HomeOutcomes
<1>16. CASE HomeCompletes
  <2> DEFINE links == [c \in Carriers |->
                    IF c \in home.incoming THEN "down" ELSE Drained(home.carriers)[c]]
  <2>1. links \in Links BY LinkType DEF TypeOK
  <2>2. HomeEnds("finished", links) BY <1>16 DEF HomeCompletes
  <2> QED BY <2>1, <2>2, HomeEndsType DEF HomeOutcomes
<1> QED
  BY <1>1, <1>2, <1>3, <1>4, <1>5, <1>6, <1>7, <1>8, <1>9, <1>10, <1>11, <1>12, <1>13,
     <1>14, <1>15, <1>16, <1>17 DEF HomeNext

LEMMA InitType == Init => TypeOK
<1> SUFFICES ASSUME Init PROVE TypeOK OBVIOUS
<1>1. <<>> \in Seq(Segment) /\ <<>> \in Seq(Frame) /\ <<>> \in Seq([race : Nat, winner : Carriers])
  OBVIOUS
<1>2. tx \in [Sides -> TxState] /\ rx \in [Sides -> RxState]
  BY <1>1 DEF Init, NewTx, NewRx, TxState, RxState
<1>3. inbox \in Boxes BY <1>1 DEF Init, Boxes
<1>4. travel \in TravelState
  BY FlowConstants DEF Init, TravelState, TravelReasons, OptionCarrier
<1>5. home \in HomeState
  BY <1>1, FlowConstants DEF Init, HomeState, HomeOutcomes, OptionCarrier
<1>6. breaks \in 0..MaxBreaks BY FlowConstants DEF Init
<1> QED BY <1>2, <1>3, <1>4, <1>5, <1>6 DEF Init, TypeOK, Boxes

LEMMA NextType == TypeOK /\ [Next]_vars => TypeOK'
<1> SUFFICES ASSUME TypeOK, [Next]_vars PROVE TypeOK' OBVIOUS
<1>1. CASE TravelNext BY <1>1, TravelNextType
<1>2. CASE HomeNext BY <1>2, HomeNextType
<1>3. ASSUME NEW c \in Carriers, Break(c) PROVE TypeOK'
  <2>1. link' \in Links BY <1>3, LinkType DEF Break, TypeOK, Links
  <2>2. breaks' \in 0..MaxBreaks BY <1>3, FlowConstants DEF Break, TypeOK
  <2> QED BY <1>3, <2>1, <2>2 DEF Break, TypeOK, Links
<1>4. CASE UNCHANGED vars BY <1>4 DEF vars, TypeOK
<1> QED BY <1>1, <1>2, <1>3, <1>4 DEF Next

\* Every state of a Flow, in whatever order frames, failures, races and restarts
\* interleave, is well-formed: offsets stay natural numbers, Carriers carry
\* frames, and both endpoints name only Carriers that exist.
THEOREM TypeCorrect == Spec => []TypeOK
<1>1. Init => TypeOK BY InitType
<1>2. TypeOK /\ [Next]_vars => TypeOK' BY NextType
<1> QED BY <1>1, <1>2, PTL DEF Spec

-----------------------------------------------------------------------------
(* What the frames that travel claim.                                       *)

\* A frame claims no more than its sender's state (t sends, r receives).
FrameOK(t, r, m) ==
    /\ m.type = "Data" => End(m) <= t.send_offset
    /\ m.type \in {"Ack", "Duplicate"} => m.next_offset <= r.receive_offset
    /\ m.type = "OpenOk" => m.receive_offset <= r.receive_offset
    /\ m.type = "Fin" => t.local_eof /\ m.final_offset = t.send_offset
    /\ m.type = "FinAck" => r.remote_eof

ChannelOK(box, T, R) ==
    \A s \in Sides, c \in Carriers : \A i \in 1..Len(box[s][c]) :
        FrameOK(T[Peer(s)], R[Peer(s)], box[s][c][i])

TransferOK(T, R) ==
    \A s \in Sides :
        /\ T[s].send_acked <= R[Peer(s)].receive_offset
        /\ R[Peer(s)].receive_offset <= T[s].send_offset
        /\ R[s].remote_eof => /\ T[Peer(s)].local_eof
                              /\ R[s].receive_offset = T[Peer(s)].send_offset
        /\ T[s].fin_acked => R[Peer(s)].remote_eof
        /\ \A i \in 1..Len(T[s].unacked) : End(T[s].unacked[i]) <= T[s].send_offset

\* Until the first Carrier reaches Home there is no flow there.
NoHomeYet ==
    home.inc = 0 => /\ home.phase = "absent" /\ home.outcome = "none"
                    /\ tx["home"] = NewTx /\ rx["home"] = NewRx

FinishedOK ==
    travel.phase = "finished" \/ home.outcome = "finished" =>
        \A s \in Sides : rx[s].remote_eof

DeliveryInv ==
    /\ TypeOK
    /\ NoHomeYet
    /\ SoleHome => ChannelOK(inbox, tx, rx) /\ TransferOK(tx, rx) /\ FinishedOK

-----------------------------------------------------------------------------
(* Channels.                                                                *)

\* What a side sends keeps its channel truthful when every frame of it is.
LEMMA ChannelSent ==
  ASSUME NEW T, NEW R, NEW box \in Boxes, ChannelOK(box, T, R),
         NEW s \in Sides, NEW held, held \subseteq Carriers, NEW c,
         NEW frames \in Seq(Frame),
         \A i \in 1..Len(frames) : FrameOK(T[s], R[s], frames[i])
  PROVE  ChannelOK(Sent(box, s, held, c, frames), T, R)
<1>1. CASE ~(c \in held /\ link[c] = "up") BY <1>1 DEF Sent
<1>2. CASE c \in held /\ link[c] = "up"
  <2> DEFINE new == [box EXCEPT ![Peer(s)][c] = @ \o frames]
             old == box[Peer(s)][c]
  <2>1. Sent(box, s, held, c, frames) = new BY <1>2 DEF Sent
  <2>2. Peer(s) \in Sides /\ Peer(Peer(s)) = s /\ c \in Carriers BY <1>2, PeerType
  <2>3. old \in Seq(Frame) BY <2>2 DEF Boxes
  <2>4. new[Peer(s)][c] = old \o frames BY <2>2 DEF Boxes
  <2>5. ASSUME NEW x \in Sides, NEW d \in Carriers, NEW i \in 1..Len(new[x][d])
        PROVE  FrameOK(T[Peer(x)], R[Peer(x)], new[x][d][i])
    <3>1. CASE x = Peer(s) /\ d = c
      <4>1. i \in 1..(Len(old) + Len(frames)) BY <2>3, <2>4, <2>5, <3>1, ConcatProperties
      <4>2. CASE i <= Len(old)
        <5>1. new[x][d][i] = old[i] BY <2>3, <2>4, <3>1, <4>1, <4>2, ConcatProperties
        <5> QED BY <2>2, <2>3, <3>1, <4>1, <4>2, <5>1 DEF ChannelOK
      <4>3. CASE i > Len(old)
        <5>1. new[x][d][i] = frames[i - Len(old)]
          BY <2>3, <2>4, <3>1, <4>1, <4>3, ConcatProperties
        <5>2. i - Len(old) \in 1..Len(frames) BY <2>3, <4>1, <4>3, LenProperties
        <5> QED BY <2>2, <3>1, <5>1, <5>2
      <4> QED BY <2>3, <4>1, <4>2, <4>3, LenProperties
    <3>2. CASE ~(x = Peer(s) /\ d = c)
      <4>1. new[x][d] = box[x][d] BY <2>2, <3>2 DEF Boxes
      <4> QED BY <2>5, <4>1 DEF ChannelOK
    <3> QED BY <3>1, <3>2
  <2> HIDE DEF new
  <2> QED BY <2>1, <2>5 DEF ChannelOK
<1> QED BY <1>1, <1>2

\* Taking the head of a Carrier, which was truthful.
LEMMA ChannelConsumed ==
  ASSUME NEW T, NEW R, inbox \in Boxes, ChannelOK(inbox, T, R),
         NEW s \in Sides, NEW c \in Carriers, inbox[s][c] # <<>>
  PROVE  /\ ChannelOK(Consumed(s, c), T, R)
         /\ FrameOK(T[Peer(s)], R[Peer(s)], Head(inbox[s][c]))
<1> DEFINE q == inbox[s][c]
<1>1. q \in Seq(Frame) /\ q # <<>> BY DEF Boxes
<1>2. /\ Len(Tail(q)) = Len(q) - 1 /\ Len(q) \in Nat /\ Len(q) >= 1
      /\ \A i \in 1..Len(Tail(q)) : Tail(q)[i] = q[i + 1]
      /\ Head(q) = q[1]
  BY <1>1, HeadTailProperties, EmptySeq, LenProperties
<1>3. \A i \in 1..Len(q) : FrameOK(T[Peer(s)], R[Peer(s)], q[i]) BY DEF ChannelOK
<1>4. ASSUME NEW x \in Sides, NEW d \in Carriers, NEW i \in 1..Len(Consumed(s, c)[x][d])
      PROVE  FrameOK(T[Peer(x)], R[Peer(x)], Consumed(s, c)[x][d][i])
  <2>1. CASE x = s /\ d = c
    <3>1. Consumed(s, c)[x][d] = Tail(q) BY <2>1 DEF Consumed, Boxes
    <3>2. i + 1 \in 1..Len(q) BY <1>2, <1>4, <3>1
    <3> QED BY <1>2, <1>3, <1>4, <2>1, <3>1, <3>2
  <2>2. CASE ~(x = s /\ d = c)
    <3>1. Consumed(s, c)[x][d] = inbox[x][d] BY <2>2 DEF Consumed, Boxes
    <3> QED BY <1>4, <3>1 DEF ChannelOK
  <2> QED BY <2>1, <2>2
<1> QED BY <1>2, <1>3, <1>4 DEF ChannelOK

\* Forgetting frames.
LEMMA ChannelShrinks ==
  ASSUME NEW T, NEW R, NEW box, ChannelOK(box, T, R), NEW new,
         \A x \in Sides, d \in Carriers : new[x][d] = box[x][d] \/ new[x][d] = <<>>
  PROVE  ChannelOK(new, T, R)
<1>1. \A i \in 1..Len(<<>>) : FALSE OBVIOUS
<1> QED BY <1>1 DEF ChannelOK

LEMMA ChannelCleared ==
  ASSUME NEW T, NEW R, NEW box \in Boxes, ChannelOK(box, T, R), NEW s \in Sides,
         NEW c \in Carriers, NEW new, new = [box EXCEPT ![s][c] = <<>>]
  PROVE  ChannelOK(new, T, R)
<1>1. \A x \in Sides, d \in Carriers : new[x][d] = box[x][d] \/ new[x][d] = <<>> BY DEF Boxes
<1> QED BY <1>1, ChannelShrinks

LEMMA ChannelCut ==
  ASSUME NEW T, NEW R, NEW box \in Boxes, ChannelOK(box, T, R), NEW s \in Sides, NEW S,
         NEW new,
         new = [box EXCEPT ![s] = [x \in Carriers |-> IF x \in S THEN <<>> ELSE @[x]]]
  PROVE  ChannelOK(new, T, R)
<1>1. ASSUME NEW x \in Sides, NEW d \in Carriers, NEW i \in 1..Len(new[x][d])
      PROVE  FrameOK(T[Peer(x)], R[Peer(x)], new[x][d][i])
  <2>1. new[x][d] = box[x][d] \/ new[x][d] = <<>> BY DEF Boxes
  <2>2. new[x][d] = box[x][d] BY <1>1, <2>1
  <2> QED BY <1>1, <2>2 DEF ChannelOK
<1> QED BY <1>1 DEF ChannelOK

LEMMA ChannelDeaf ==
  ASSUME NEW T, NEW R, inbox \in Boxes, ChannelOK(inbox, T, R), NEW s \in Sides
  PROVE  ChannelOK(Deaf(s), T, R)
<1>1. \A x \in Sides, d \in Carriers : Deaf(s)[x][d] = inbox[x][d] \/ Deaf(s)[x][d] = <<>>
  BY DEF Deaf, Boxes
<1> QED BY <1>1, ChannelShrinks

\* An endpoint's state only grows while its flow lives.
Grows(t, r, t2, r2) ==
    /\ t.send_offset <= t2.send_offset
    /\ t.local_eof => t2.local_eof /\ t2.send_offset = t.send_offset
    /\ r.receive_offset <= r2.receive_offset
    /\ r.remote_eof => r2.remote_eof

\* What a frame said stays true of a sender whose state grew.
LEMMA ChannelGrows ==
  ASSUME NEW T \in [Sides -> TxState], NEW R \in [Sides -> RxState],
         NEW T2 \in [Sides -> TxState], NEW R2 \in [Sides -> RxState],
         NEW box \in Boxes, ChannelOK(box, T, R),
         \A s \in Sides : Grows(T[s], R[s], T2[s], R2[s])
  PROVE  ChannelOK(box, T2, R2)
<1>1. ASSUME NEW s \in Sides, NEW c \in Carriers, NEW i \in 1..Len(box[s][c])
      PROVE  FrameOK(T2[Peer(s)], R2[Peer(s)], box[s][c][i])
  <2> DEFINE m == box[s][c][i]
             p == Peer(s)
  <2>1. m \in Frame BY ElementOfSeq DEF Boxes
  <2>2. FrameOK(T[p], R[p], m) BY DEF ChannelOK
  <2>3. p \in Sides BY PeerType
  <2>4. Grows(T[p], R[p], T2[p], R2[p]) BY <2>3
  <2>5. /\ T[p].send_offset \in Nat /\ T2[p].send_offset \in Nat
        /\ R[p].receive_offset \in Nat /\ R2[p].receive_offset \in Nat
    BY <2>3 DEF TxState, RxState
  <2>6. m.type = "Data" => End(m) \in Nat BY <2>1, FrameFields DEF End
  <2> HIDE DEF m, p
  <2>7. FrameOK(T2[p], R2[p], m)
    BY <2>1, <2>2, <2>4, <2>5, <2>6, FrameFields DEF FrameOK, Grows
  <2> QED BY <2>7 DEF m, p
<1> QED BY <1>1 DEF ChannelOK

\* A retransmission repeats what was sent.
LEMMA RetransmissionOK ==
  ASSUME NEW t \in TxState, NEW r, NEW k \in Nat,
         \A i \in 1..Len(t.unacked) : End(t.unacked[i]) <= t.send_offset
  PROVE  \A i \in 1..Len(Retransmission(t, k)) : FrameOK(t, r, Retransmission(t, k)[i])
<1> DEFINE D == [i \in 1..Len(t.unacked) |-> Data(t.unacked[i], k)]
           F == IF t.local_eof THEN <<Fin(t.send_offset)>> ELSE <<>>
<1>1. t.unacked \in Seq(Segment) BY DEF TxState
<1>2. Len(t.unacked) \in Nat BY <1>1, LenProperties
<1>3. \A i \in 1..Len(t.unacked) : Data(t.unacked[i], k) \in Frame
  BY <1>1, FrameTypes, ElementOfSeq
<1>4. D \in Seq(Frame) /\ Len(D) = Len(t.unacked) BY <1>2, <1>3, IsASeq
<1>5. Fin(t.send_offset) \in Frame BY FrameTypes DEF TxState
<1>6. F \in Seq(Frame) BY <1>5
<1>7. \A i \in 1..Len(D) : FrameOK(t, r, D[i])
  BY <1>1, <1>4, ElementOfSeq DEF FrameOK, Data, End
<1>8. \A i \in 1..Len(F) : FrameOK(t, r, F[i])
  BY DEF FrameOK, Fin
<1>9. Retransmission(t, k) = D \o F BY DEF Retransmission
<1> HIDE DEF D, F
<1>10. ASSUME NEW i \in 1..Len(D \o F) PROVE FrameOK(t, r, (D \o F)[i])
  <2>a. Len(D) \in Nat /\ Len(F) \in Nat BY <1>4, <1>6, LenProperties
  <2>b. Len(D \o F) = Len(D) + Len(F) BY <1>4, <1>6, ConcatProperties
  <2>1. i \in 1..(Len(D) + Len(F)) /\ Len(D) \in Nat /\ Len(F) \in Nat BY <2>a, <2>b
  <2>2. CASE i <= Len(D) BY <1>4, <1>6, <1>7, <2>1, <2>2, ConcatProperties
  <2>3. CASE i > Len(D)
    <3>1. (D \o F)[i] = F[i - Len(D)] BY <1>4, <1>6, <2>1, <2>3, ConcatProperties
    <3>2. i - Len(D) \in 1..Len(F) BY <2>1, <2>3
    <3> QED BY <1>8, <3>1, <3>2
  <2> QED BY <2>1, <2>2, <2>3
<1> QED BY <1>9, <1>10

-----------------------------------------------------------------------------
(* Transfers.                                                               *)

AllGrow(T, R, T2, R2) == \A s \in Sides : Grows(T[s], R[s], T2[s], R2[s])

LEMMA GrowsRefl ==
  ASSUME TypeOK
  PROVE  AllGrow(tx, rx, tx, rx)
  BY DEF AllGrow, Grows, TypeOK, TxState, RxState

\* The numbers and flags of both endpoints, as the arithmetic below needs them.
LEMMA Fields ==
  ASSUME TypeOK, NEW s \in Sides
  PROVE  /\ tx[s] \in TxState /\ rx[s] \in RxState
         /\ tx[s].send_offset \in Nat /\ tx[s].send_acked \in Nat
         /\ tx[s].unacked \in Seq(Segment) /\ Len(tx[s].unacked) \in Nat
         /\ tx[s].local_eof \in BOOLEAN /\ tx[s].fin_acked \in BOOLEAN
         /\ rx[s].receive_offset \in Nat /\ rx[s].remote_eof \in BOOLEAN
         /\ Peer(s) \in Sides /\ Peer(s) # s /\ Peer(Peer(s)) = s
<1>1. tx[s] \in TxState /\ rx[s] \in RxState BY DEF TypeOK
<1>2. Peer(s) \in Sides /\ Peer(s) # s /\ Peer(Peer(s)) = s BY DEF Peer, Sides
<1>3. tx[s].unacked \in Seq(Segment) BY <1>1 DEF TxState
<1> QED BY <1>1, <1>2, <1>3, LenProperties DEF TxState, RxState

\* An acknowledgement of what was delivered.
LEMMA TransferAck ==
  ASSUME TypeOK, TransferOK(tx, rx), NEW s \in Sides, NEW n \in Nat,
         n <= rx[Peer(s)].receive_offset, NEW j \in 0..Len(tx[s].unacked),
         NEW T, T = [tx EXCEPT ![s] = Acknowledge(tx[s], n, j)]
  PROVE  TransferOK(T, rx) /\ AllGrow(tx, rx, T, rx)
<1> DEFINE q == tx[s].unacked
           p == SubSeq(q, j + 1, Len(q))
<1>1. q \in Seq(Segment) /\ Len(q) \in Nat BY Fields
<1>2. /\ Len(p) = Len(q) - j
      /\ \A i \in 1..Len(p) : p[i] = q[j + i] /\ j + i \in 1..Len(q)
  BY <1>1, SubSeqProperties
<1>3. \A i \in 1..Len(p) : End(p[i]) <= tx[s].send_offset
  BY <1>2 DEF TransferOK
<1>4. tx[s] \in TxState BY Fields
<1> HIDE DEF p
<1>5. T[s] = [tx[s] EXCEPT !.send_acked = n, !.unacked = p]
  BY DEF Acknowledge, TypeOK, p
<1>6. /\ T[s].send_offset = tx[s].send_offset /\ T[s].send_acked = n /\ T[s].unacked = p
      /\ T[s].local_eof = tx[s].local_eof /\ T[s].fin_acked = tx[s].fin_acked
  BY <1>4, <1>5 DEF TxState
<1>7. \A x \in Sides : x # s => T[x] = tx[x] BY DEF TypeOK
<1>8. ASSUME NEW x \in Sides
      PROVE  /\ T[x].send_offset = tx[x].send_offset
             /\ T[x].local_eof = tx[x].local_eof /\ T[x].fin_acked = tx[x].fin_acked
             /\ T[x].send_acked <= rx[Peer(x)].receive_offset
             /\ \A i \in 1..Len(T[x].unacked) : End(T[x].unacked[i]) <= T[x].send_offset
  <2>1. CASE x = s BY <1>3, <1>6, <2>1
  <2>2. CASE x # s BY <1>7, <2>2 DEF TransferOK
  <2> QED BY <2>1, <2>2
<1>9. TransferOK(T, rx) BY <1>8, PeerType DEF TransferOK
<1>10. AllGrow(tx, rx, T, rx) BY <1>8, Fields DEF AllGrow, Grows
<1> QED BY <1>9, <1>10

\* Bytes are delivered up to n, which was sent.
LEMMA TransferDeliver ==
  ASSUME TypeOK, TransferOK(tx, rx), NEW s \in Sides, NEW n \in Nat,
         rx[s].receive_offset <= n, n <= tx[Peer(s)].send_offset,
         NEW R, R = [rx EXCEPT ![s].receive_offset = n]
  PROVE  TransferOK(tx, R) /\ AllGrow(tx, rx, tx, R)
<1>1. /\ R[s].receive_offset = n /\ R[s].remote_eof = rx[s].remote_eof
      /\ \A x \in Sides : x # s => R[x] = rx[x]
  BY DEF TypeOK, RxState
<1>2. Sides = {s, Peer(s)} /\ Peer(s) # s /\ Peer(Peer(s)) = s BY DEF Sides, Peer
<1>3. rx[s].remote_eof => n = rx[s].receive_offset
  BY Fields, <1>2 DEF TransferOK
<1>4. tx[Peer(s)].send_acked <= n
  BY Fields, <1>2 DEF TransferOK
<1>5. TransferOK(tx, R) BY <1>1, <1>2, <1>3, <1>4, Fields DEF TransferOK
<1>6. AllGrow(tx, rx, tx, R) BY <1>1, <1>2, Fields DEF AllGrow, Grows
<1> QED BY <1>5, <1>6

\* More bytes are read from the application of s.
LEMMA TransferBuffer ==
  ASSUME TypeOK, TransferOK(tx, rx), NEW s \in Sides, NEW len \in Nat, ~tx[s].local_eof,
         NEW T, T = [tx EXCEPT ![s] = Buffer(tx[s], len)]
  PROVE  TransferOK(T, rx) /\ AllGrow(tx, rx, T, rx)
<1> DEFINE q == tx[s].unacked
           e == [offset |-> tx[s].send_offset, len |-> len]
           p == Append(q, e)
           o == tx[s].send_offset + len
<1>1. q \in Seq(Segment) /\ Len(q) \in Nat /\ tx[s].send_offset \in Nat BY Fields
<1>2. /\ Len(p) = Len(q) + 1 /\ p[Len(q) + 1] = e
      /\ \A i \in 1..Len(q) : p[i] = q[i] /\ q[i] \in Segment
  <2>1. e \in Segment BY <1>1 DEF Segment
  <2>2. \A i \in 1..Len(q) : q[i] \in Segment BY <1>1, ElementOfSeq
  <2> HIDE DEF e
  <2>3. Len(p) = Len(q) + 1 /\ p[Len(q) + 1] = e /\ \A i \in 1..Len(q) : p[i] = q[i]
    BY <1>1, <2>1, AppendProperties
  <2> QED BY <2>2, <2>3
<1>3. \A i \in 1..Len(p) : End(p[i]) <= o
  <2> TAKE i \in 1..Len(p)
  <2>1. CASE i = Len(q) + 1 BY <1>1, <1>2, <2>1 DEF End
  <2>2. CASE i # Len(q) + 1
    <3>1. i \in 1..Len(q) BY <1>1, <1>2, <2>2
    <3>2. End(q[i]) <= tx[s].send_offset /\ End(q[i]) \in Nat
      BY <1>2, <3>1 DEF TransferOK, Segment, End
    <3> QED BY <1>1, <1>2, <3>1, <3>2
  <2> QED BY <2>1, <2>2
<1>4. tx[s] \in TxState BY Fields
<1> HIDE DEF p, o
<1>5. T[s] = [tx[s] EXCEPT !.send_offset = o, !.unacked = p]
  BY DEF Buffer, TypeOK, p, o
<1>6. /\ T[s].send_offset = o /\ T[s].send_acked = tx[s].send_acked /\ T[s].unacked = p
      /\ T[s].local_eof = tx[s].local_eof /\ T[s].fin_acked = tx[s].fin_acked
  BY <1>4, <1>5 DEF TxState
<1>7. \A x \in Sides : x # s => T[x] = tx[x] BY DEF TypeOK
<1>8. Sides = {s, Peer(s)} /\ Peer(s) # s /\ Peer(Peer(s)) = s BY DEF Sides, Peer
<1>9. o \in Nat /\ tx[s].send_offset <= o BY <1>1 DEF o
<1>10. ~rx[Peer(s)].remote_eof BY <1>8 DEF TransferOK
<1>11. TransferOK(T, rx)
  <2>1. T[s].send_acked <= rx[Peer(s)].receive_offset /\ (T[s].fin_acked => rx[Peer(s)].remote_eof)
    BY <1>6 DEF TransferOK
  <2>2. rx[Peer(s)].receive_offset <= T[s].send_offset
    <3>1. rx[Peer(s)].receive_offset <= tx[s].send_offset BY DEF TransferOK
    <3> QED BY <1>1, <1>6, <1>8, <1>9, <3>1, Fields
  <2>3. \A i \in 1..Len(T[s].unacked) : End(T[s].unacked[i]) <= T[s].send_offset BY <1>3, <1>6
  <2>4. rx[s].remote_eof => /\ T[Peer(s)].local_eof
                            /\ rx[s].receive_offset = T[Peer(s)].send_offset
    BY <1>7, <1>8 DEF TransferOK
  <2> QED BY <2>1, <2>2, <2>3, <2>4, <1>7, <1>8, <1>10 DEF TransferOK
<1>12. AllGrow(tx, rx, T, rx)
  BY <1>6, <1>7, <1>8, <1>9, Fields DEF AllGrow, Grows
<1> QED BY <1>11, <1>12

\* A flag is raised: the application closed, the peer's FIN or FinAck came.
LEMMA TransferFlags ==
  ASSUME TypeOK, TransferOK(tx, rx), NEW s \in Sides
  PROVE  /\ \A T : (T = [tx EXCEPT ![s].local_eof = TRUE]) =>
                TransferOK(T, rx) /\ AllGrow(tx, rx, T, rx)
         /\ \A T : (T = [tx EXCEPT ![s].fin_acked = TRUE] /\ rx[Peer(s)].remote_eof) =>
                TransferOK(T, rx) /\ AllGrow(tx, rx, T, rx)
         /\ \A R : (/\ R = [rx EXCEPT ![s].remote_eof = TRUE]
                    /\ tx[Peer(s)].local_eof
                    /\ rx[s].receive_offset = tx[Peer(s)].send_offset) =>
                TransferOK(tx, R) /\ AllGrow(tx, rx, tx, R)
<1>8. Sides = {s, Peer(s)} /\ Peer(s) # s /\ Peer(Peer(s)) = s BY DEF Sides, Peer
<1>1. ASSUME NEW T, T = [tx EXCEPT ![s].local_eof = TRUE]
      PROVE  TransferOK(T, rx) /\ AllGrow(tx, rx, T, rx)
  <2>1. /\ T[s].send_offset = tx[s].send_offset /\ T[s].send_acked = tx[s].send_acked
        /\ T[s].unacked = tx[s].unacked /\ T[s].local_eof /\ T[s].fin_acked = tx[s].fin_acked
        /\ \A x \in Sides : x # s => T[x] = tx[x]
    BY <1>1 DEF TypeOK, TxState
  <2>2. TransferOK(T, rx) BY <2>1, <1>8 DEF TransferOK
  <2>3. AllGrow(tx, rx, T, rx) BY <2>1, <1>8, Fields DEF AllGrow, Grows
  <2> QED BY <2>2, <2>3
<1>2. ASSUME NEW T, T = [tx EXCEPT ![s].fin_acked = TRUE], rx[Peer(s)].remote_eof
      PROVE  TransferOK(T, rx) /\ AllGrow(tx, rx, T, rx)
  <2>1. /\ T[s].send_offset = tx[s].send_offset /\ T[s].send_acked = tx[s].send_acked
        /\ T[s].unacked = tx[s].unacked /\ T[s].local_eof = tx[s].local_eof
        /\ \A x \in Sides : x # s => T[x] = tx[x]
    BY <1>2 DEF TypeOK, TxState
  <2>2. TransferOK(T, rx) BY <2>1, <1>2, <1>8 DEF TransferOK
  <2>3. AllGrow(tx, rx, T, rx) BY <2>1, <1>8, Fields DEF AllGrow, Grows
  <2> QED BY <2>2, <2>3
<1>3. ASSUME NEW R, R = [rx EXCEPT ![s].remote_eof = TRUE], tx[Peer(s)].local_eof,
             rx[s].receive_offset = tx[Peer(s)].send_offset
      PROVE  TransferOK(tx, R) /\ AllGrow(tx, rx, tx, R)
  <2>1. /\ R[s].receive_offset = rx[s].receive_offset /\ R[s].remote_eof
        /\ \A x \in Sides : x # s => R[x] = rx[x]
    BY <1>3 DEF TypeOK, RxState
  <2>2. TransferOK(tx, R) BY <2>1, <1>3, <1>8 DEF TransferOK
  <2>3. AllGrow(tx, rx, tx, R) BY <2>1, <1>8, Fields DEF AllGrow, Grows
  <2> QED BY <2>2, <2>3
<1> QED BY <1>1, <1>2, <1>3

-----------------------------------------------------------------------------
(* Steps.                                                                   *)

LiveOK == ChannelOK(inbox, tx, rx) /\ TransferOK(tx, rx)
Growing == AllGrow(tx, rx, tx', rx')

\* A side takes a frame, its state grows, and it answers on the same Carrier.
LEMMA ReplyOK ==
  ASSUME TypeOK, TypeOK', LiveOK, Growing, NEW s \in Sides, NEW c \in Carriers,
         inbox[s][c] # <<>>, NEW f \in Frame, FrameOK(tx'[s], rx'[s], f)
  PROVE  ChannelOK(Reply(s, c, f), tx', rx')
<1>1. Consumed(s, c) \in Boxes BY ConsumedType DEF TypeOK, Boxes
<1>2. ChannelOK(Consumed(s, c), tx, rx) BY ChannelConsumed DEF LiveOK, TypeOK, Boxes
<1>3. ChannelOK(Consumed(s, c), tx', rx')
  BY <1>1, <1>2, ChannelGrows DEF TypeOK, Growing, AllGrow
<1>4. <<f>> \in Seq(Frame) /\ \A i \in 1..Len(<<f>>) : FrameOK(tx'[s], rx'[s], <<f>>[i])
  OBVIOUS
<1> QED BY <1>1, <1>3, <1>4, ChannelSent, HoldsType, ReplyIsSent

LEMMA ConsumeOK ==
  ASSUME TypeOK, TypeOK', LiveOK, Growing, NEW s \in Sides, NEW c \in Carriers,
         inbox[s][c] # <<>>
  PROVE  ChannelOK(Consumed(s, c), tx', rx')
<1>1. Consumed(s, c) \in Boxes BY ConsumedType DEF TypeOK, Boxes
<1>2. ChannelOK(Consumed(s, c), tx, rx) BY ChannelConsumed DEF LiveOK, TypeOK, Boxes
<1> QED BY <1>1, <1>2, ChannelGrows DEF TypeOK, Growing, AllGrow

\* The head of a Carrier, its fields and what it claims.
LEMMA HeadOK ==
  ASSUME TypeOK, LiveOK, NEW s \in Sides, NEW c \in Carriers, inbox[s][c] # <<>>
  PROVE  /\ Head(inbox[s][c]) \in Frame
         /\ FrameOK(tx[Peer(s)], rx[Peer(s)], Head(inbox[s][c]))
  BY ConsumedType, ChannelConsumed DEF LiveOK, TypeOK, Boxes

LEMMA SharedOK ==
  ASSUME TypeOK, TypeOK', LiveOK, NEW s \in Sides
  PROVE  /\ \A len \in SegLens : ReadData(s, len) => LiveOK' /\ Growing
         /\ ReadEof(s) => LiveOK' /\ Growing
         /\ \A c \in Carriers :
              (\/ DataDuplicate(s, c) \/ AckInWindow(s, c) \/ FinInOrder(s, c)
               \/ FinAckInOrder(s, c)) => LiveOK' /\ Growing
<1>h. Holds(s) \subseteq Carriers BY HoldsType
<1>n. Src(s) \in Nat BY FlowConstants DEF TypeOK, Src, HomeState
<1>b. inbox \in Boxes BY DEF TypeOK, Boxes
<1>1. ASSUME NEW len \in SegLens, ReadData(s, len) PROVE LiveOK' /\ Growing
  <2> DEFINE f == Data([offset |-> tx[s].send_offset, len |-> len], Src(s))
  <2>1. len \in Nat BY FlowConstants
  <2>2. TransferOK(tx', rx') /\ Growing
    BY <1>1, <2>1, TransferBuffer DEF ReadData, LiveOK, Growing
  <2>3. ChannelOK(inbox, tx', rx')
    BY <2>2, <1>b, ChannelGrows DEF TypeOK, LiveOK, Growing, AllGrow
  <2>4. f \in Frame
    <3>1. [offset |-> tx[s].send_offset, len |-> len] \in Segment BY <2>1, Fields DEF Segment
    <3> QED BY <3>1, <1>n, FrameTypes
  <2>5. tx'[s].send_offset = tx[s].send_offset + len
    BY <1>1 DEF ReadData, Buffer, TypeOK, TxState
  <2>6. FrameOK(tx'[s], rx'[s], f)
    BY <2>5, <2>1, Fields DEF FrameOK, Data, End
  <2>7. inbox' = Sent(inbox, s, Holds(s), Active(s), <<f>>) BY <1>1 DEF ReadData
  <2> HIDE DEF f
  <2>8. <<f>> \in Seq(Frame) /\ \A i \in 1..Len(<<f>>) : FrameOK(tx'[s], rx'[s], <<f>>[i])
    BY <2>4, <2>6
  <2>9. ChannelOK(inbox', tx', rx') BY <2>3, <2>7, <2>8, <1>b, <1>h, ChannelSent
  <2> QED BY <2>2, <2>9 DEF LiveOK
<1>2. ASSUME ReadEof(s) PROVE LiveOK' /\ Growing
  <2> DEFINE f == Fin(tx[s].send_offset)
  <2>2. TransferOK(tx', rx') /\ Growing
    BY <1>2, TransferFlags DEF ReadEof, LiveOK, Growing
  <2>3. ChannelOK(inbox, tx', rx')
    BY <2>2, <1>b, ChannelGrows DEF TypeOK, LiveOK, Growing, AllGrow
  <2>4. f \in Frame BY Fields, FrameTypes
  <2>5. tx'[s].send_offset = tx[s].send_offset /\ tx'[s].local_eof
    BY <1>2 DEF ReadEof, TypeOK, TxState
  <2>6. FrameOK(tx'[s], rx'[s], f) BY <2>5 DEF FrameOK, Fin
  <2>7. inbox' = Sent(inbox, s, Holds(s), Active(s), <<f>>) BY <1>2 DEF ReadEof
  <2> HIDE DEF f
  <2>8. <<f>> \in Seq(Frame) /\ \A i \in 1..Len(<<f>>) : FrameOK(tx'[s], rx'[s], <<f>>[i])
    BY <2>4, <2>6
  <2>9. ChannelOK(inbox', tx', rx') BY <2>3, <2>7, <2>8, <1>b, <1>h, ChannelSent
  <2> QED BY <2>2, <2>9 DEF LiveOK
<1>3. ASSUME NEW c \in Carriers, DataDuplicate(s, c) PROVE LiveOK' /\ Growing
  <2>1. Growing /\ TransferOK(tx', rx')
    BY <1>3, GrowsRefl DEF DataDuplicate, Growing, LiveOK
  <2>2. Duplicate(rx[s].receive_offset) \in Frame BY Fields, FrameTypes
  <2>3. FrameOK(tx'[s], rx'[s], Duplicate(rx[s].receive_offset))
    BY <1>3, Fields DEF DataDuplicate, FrameOK, Duplicate
  <2>4. ChannelOK(inbox', tx', rx')
    BY <1>3, <2>1, <2>2, <2>3, ReplyOK DEF DataDuplicate, Arrives
  <2> QED BY <2>1, <2>4 DEF LiveOK
<1>4. ASSUME NEW c \in Carriers, AckInWindow(s, c) PROVE LiveOK' /\ Growing
  <2> DEFINE m == Head(inbox[s][c])
  <2>1. m \in Frame /\ FrameOK(tx[Peer(s)], rx[Peer(s)], m)
    BY <1>4, HeadOK DEF AckInWindow, Arrives
  <2>2. m.next_offset \in Nat /\ m.next_offset <= rx[Peer(s)].receive_offset
    BY <1>4, <2>1, FrameFields DEF AckInWindow, Arrives, FrameOK
  <2>3. PICK j \in 0..Len(tx[s].unacked) :
            tx' = [tx EXCEPT ![s] = Acknowledge(tx[s], m.next_offset, j)]
    BY <1>4 DEF AckInWindow
  <2>4. TransferOK(tx', rx') /\ Growing
    BY <1>4, <2>2, <2>3, TransferAck DEF AckInWindow, LiveOK, Growing
  <2>5. ChannelOK(inbox', tx', rx') BY <1>4, <2>4, ConsumeOK DEF AckInWindow, Arrives
  <2> QED BY <2>4, <2>5 DEF LiveOK
<1>5. ASSUME NEW c \in Carriers, FinInOrder(s, c) PROVE LiveOK' /\ Growing
  <2> DEFINE m == Head(inbox[s][c])
  <2>1. FrameOK(tx[Peer(s)], rx[Peer(s)], m)
    BY <1>5, HeadOK DEF FinInOrder, Arrives
  <2>2. tx[Peer(s)].local_eof /\ rx[s].receive_offset = tx[Peer(s)].send_offset
    BY <1>5, <2>1 DEF FinInOrder, Arrives, FrameOK
  <2>3. TransferOK(tx', rx') /\ Growing
    BY <1>5, <2>2, TransferFlags DEF FinInOrder, LiveOK, Growing
  <2>4. FinAck(rx[s].receive_offset) \in Frame BY Fields, FrameTypes
  <2>5. rx'[s].remote_eof BY <1>5 DEF FinInOrder, TypeOK, RxState
  <2>6. FrameOK(tx'[s], rx'[s], FinAck(rx[s].receive_offset)) BY <2>5 DEF FrameOK, FinAck
  <2>7. ChannelOK(inbox', tx', rx')
    BY <1>5, <2>3, <2>4, <2>6, ReplyOK DEF FinInOrder, Arrives
  <2> QED BY <2>3, <2>7 DEF LiveOK
<1>6. ASSUME NEW c \in Carriers, FinAckInOrder(s, c) PROVE LiveOK' /\ Growing
  <2>1. FrameOK(tx[Peer(s)], rx[Peer(s)], Head(inbox[s][c]))
    BY <1>6, HeadOK DEF FinAckInOrder, Arrives
  <2>2. rx[Peer(s)].remote_eof BY <1>6, <2>1 DEF FinAckInOrder, Arrives, FrameOK
  <2>3. TransferOK(tx', rx') /\ Growing
    BY <1>6, <2>2, TransferFlags DEF FinAckInOrder, LiveOK, Growing
  <2>4. ChannelOK(inbox', tx', rx') BY <1>6, <2>3, ConsumeOK DEF FinAckInOrder, Arrives
  <2> QED BY <2>3, <2>4 DEF LiveOK
<1> QED BY <1>1, <1>2, <1>3, <1>4, <1>5, <1>6

\* Steps that only forget or reroute frames.
LEMMA SameTransfer ==
  ASSUME TypeOK, LiveOK, tx' = tx, rx' = rx, ChannelOK(inbox', tx, rx)
  PROVE  LiveOK' /\ Growing
  BY GrowsRefl DEF LiveOK, Growing

LEMMA TravelFailsOK ==
  ASSUME TypeOK, TypeOK', LiveOK, NEW reason, TravelFails(reason), Growing,
         TransferOK(tx', rx')
  PROVE  LiveOK'
<1>1. inbox \in Boxes /\ inbox' \in Boxes BY DEF TypeOK, Boxes
<1>2. ChannelOK(inbox', tx, rx)
  BY <1>1, ChannelDeaf DEF TravelFails, LiveOK, Sides
<1>3. ChannelOK(inbox', tx', rx')
  BY <1>1, <1>2, ChannelGrows DEF TypeOK, Growing, AllGrow
<1> QED BY <1>3 DEF LiveOK

LEMMA HomeEndsOK ==
  ASSUME TypeOK, LiveOK, NEW outcome, NEW links, HomeEnds(outcome, links)
  PROVE  LiveOK' /\ Growing
<1>1. ChannelOK(inbox', tx, rx)
  BY ChannelDeaf DEF HomeEnds, LiveOK, Sides, TypeOK, Boxes
<1> QED BY <1>1, SameTransfer DEF HomeEnds

\* Frames that claim nothing about their sender.
LEMMA RaceFramesOK ==
  ASSUME NEW t, NEW r, NEW k, NEW n, NEW w
  PROVE  /\ FrameOK(t, r, Race(k, n)) /\ FrameOK(t, r, Close)
         /\ FrameOK(t, r, RaceAck(k, w)) /\ FrameOK(t, r, RaceDuplicate(k, w))
  BY DEF FrameOK, Race, Close, RaceAck, RaceDuplicate

LEMMA TravelNextOK ==
  ASSUME TypeOK, TypeOK', LiveOK, TravelNext
  PROVE  LiveOK' /\ Growing
<1>b. /\ inbox \in Boxes /\ "travel" \in Sides /\ travel.carriers \subseteq Carriers
      /\ Peer("travel") = "home" /\ "home" \in Sides
  BY DEF TypeOK, Boxes, Sides, TravelState, Peer
<1>1. CASE TravelCompletes
  <2>1. ChannelOK(inbox', tx, rx) BY <1>1, <1>b, ChannelDeaf DEF TravelCompletes, LiveOK
  <2> QED BY <1>1, <2>1, SameTransfer DEF TravelCompletes
<1>2. CASE TravelDrainTimesOut \/ RecoveryExpires \/ TravelStops
  <2>1. PICK reason : TravelFails(reason) /\ rx' = rx
    BY <1>2 DEF TravelDrainTimesOut, RecoveryExpires, TravelStops
  <2>2. Growing /\ TransferOK(tx', rx')
    BY <2>1, GrowsRefl DEF TravelFails, Growing, LiveOK
  <2> QED BY <2>1, <2>2, TravelFailsOK
<1>3. ASSUME NEW S \in SUBSET Relays, StartRace(S) PROVE LiveOK' /\ Growing
  <2> DEFINE f == Race(travel.race + 1, tx["travel"].send_acked)
  <2>1. f \in Frame
    <3>1. travel.race + 1 \in Nat BY FlowConstants DEF TypeOK, TravelState
    <3> QED BY <3>1, <1>b, Fields, FrameTypes
  <2>2. FrameOK(tx["travel"], rx["travel"], f) BY RaceFramesOK
  <2>3. inbox' = Sent(inbox, "travel", travel.carriers, travel.active, <<f>>)
    BY <1>3 DEF StartRace
  <2> HIDE DEF f
  <2>4. <<f>> \in Seq(Frame) /\ \A i \in 1..Len(<<f>>) : FrameOK(tx["travel"], rx["travel"], <<f>>[i])
    BY <2>1, <2>2
  <2>5. ChannelOK(inbox', tx, rx) BY <2>3, <2>4, <1>b, ChannelSent DEF LiveOK
  <2> QED BY <1>3, <2>5, SameTransfer DEF StartRace
<1>4. CASE RaceTimesOut
  <2>1. ChannelOK(inbox', tx, rx) BY <1>4, <1>b, ChannelCut DEF RaceTimesOut, LiveOK
  <2> QED BY <1>4, <2>1, SameTransfer DEF RaceTimesOut
<1>5. ASSUME NEW c \in Carriers, Opened(c) PROVE LiveOK' /\ Growing
  <2> DEFINE ok == Head(inbox["travel"][c])
             f == Race(travel.race, ok.receive_offset)
  <2>1. ok \in Frame /\ FrameOK(tx["home"], rx["home"], ok) /\ inbox["travel"][c] # <<>>
    BY <1>5, <1>b, HeadOK DEF Opened, Arrives
  <2>2. ok.receive_offset \in Nat /\ ok.receive_offset <= rx["home"].receive_offset
    BY <1>5, <2>1, FrameFields DEF Opened, Arrives, FrameOK
  <2>3. PICK j \in 0..Len(tx["travel"].unacked) :
            tx' = [tx EXCEPT !["travel"] = Acknowledge(tx["travel"], ok.receive_offset, j)]
    BY <1>5 DEF Opened
  <2>4. TransferOK(tx', rx') /\ Growing
    BY <1>5, <1>b, <2>2, <2>3, TransferAck DEF Opened, LiveOK, Growing
  <2>5. ChannelOK(Consumed("travel", c), tx', rx') BY <1>b, <2>1, <2>4, ConsumeOK
  <2>6. Consumed("travel", c) \in Boxes BY <1>b, <2>1, ConsumedType
  <2>7. f \in Frame
    <3>1. travel.race \in Nat BY FlowConstants DEF TypeOK, TravelState
    <3> QED BY <3>1, <2>2, FrameTypes
  <2>8. FrameOK(tx'["travel"], rx'["travel"], f) BY RaceFramesOK
  <2>9. inbox' = Sent(Consumed("travel", c), "travel", {c}, c, <<f>>) BY <1>5 DEF Opened
  <2> HIDE DEF f
  <2>10. /\ <<f>> \in Seq(Frame)
         /\ \A i \in 1..Len(<<f>>) : FrameOK(tx'["travel"], rx'["travel"], <<f>>[i])
    BY <2>7, <2>8
  <2>11. ChannelOK(inbox', tx', rx') BY <1>b, <2>5, <2>6, <2>9, <2>10, ChannelSent
  <2> QED BY <2>4, <2>11 DEF LiveOK
<1>6. ASSUME NEW c \in Carriers, OpenedInconsistent(c) \/ TravelBails(c) PROVE LiveOK' /\ Growing
  <2>1. PICK reason : TravelFails(reason) /\ rx' = rx
    BY <1>6 DEF OpenedInconsistent, TravelBails
  <2>2. Growing /\ TransferOK(tx', rx')
    BY <2>1, GrowsRefl DEF TravelFails, Growing, LiveOK
  <2> QED BY <2>1, <2>2, TravelFailsOK
<1>7. ASSUME NEW c \in Carriers, OpenFailed(c) PROVE LiveOK' /\ Growing
  <2>1. ChannelOK(inbox', tx, rx) BY <1>7, <1>b, ChannelCleared DEF OpenFailed, LiveOK
  <2> QED BY <1>7, <2>1, SameTransfer DEF OpenFailed
<1>8. ASSUME NEW c \in Carriers, RaceAnswered(c) PROVE LiveOK' /\ Growing
  <2> DEFINE m == Head(inbox["travel"][c])
             kept == travel.carriers \cap {m.winner}
             box == [Consumed("travel", c) EXCEPT
                         !["travel"] = [x \in Carriers |->
                             IF x \in travel.opening THEN <<>> ELSE @[x]]]
             fs == Retransmission(tx["travel"], 0)
  <2>1. inbox["travel"][c] # <<>> BY <1>8 DEF RaceAnswered, Arrives
  <2>2. Consumed("travel", c) \in Boxes /\ ChannelOK(Consumed("travel", c), tx, rx)
    BY <1>b, <2>1, ConsumedType, ChannelConsumed DEF LiveOK
  <2>3. box \in Boxes BY <1>b, <2>2, ClearedType
  <2>8. ChannelOK(box, tx, rx) BY <1>b, <2>2, ChannelCut
  <2>4. /\ fs \in Seq(Frame)
        /\ \A i \in 1..Len(fs) : FrameOK(tx["travel"], rx["travel"], fs[i])
    <3>1. \A i \in 1..Len(tx["travel"].unacked) :
              End(tx["travel"].unacked[i]) <= tx["travel"].send_offset
      BY <1>b DEF LiveOK, TransferOK
    <3> QED BY <1>b, <3>1, Fields, RetransmissionType, RetransmissionOK
  <2>5. inbox' = Sent(box, "travel", kept, m.winner, fs) BY <1>8 DEF RaceAnswered
  <2>6. kept \subseteq Carriers BY <1>b
  <2> HIDE DEF box, fs, kept
  <2>7. ChannelOK(inbox', tx, rx) BY <1>b, <2>3, <2>8, <2>4, <2>5, <2>6, ChannelSent
  <2> QED BY <1>8, <2>7, SameTransfer DEF RaceAnswered
<1>9. ASSUME NEW c \in Carriers, RaceAnswerIgnored(c) PROVE LiveOK' /\ Growing
  <2>1. ChannelOK(inbox', tx, rx)
    BY <1>9, <1>b, ChannelConsumed DEF RaceAnswerIgnored, Arrives, LiveOK
  <2> QED BY <1>9, <2>1, SameTransfer DEF RaceAnswerIgnored
<1>10. ASSUME NEW c \in Carriers, TravelData(c) PROVE LiveOK' /\ Growing
  <2> DEFINE m == Head(inbox["travel"][c])
  <2>1. m \in Frame /\ FrameOK(tx["home"], rx["home"], m) /\ inbox["travel"][c] # <<>>
    BY <1>10, <1>b, HeadOK DEF TravelData, Arrives
  <2>2. m.offset \in Nat /\ m.len \in Nat /\ End(m) <= tx["home"].send_offset
    BY <1>10, <2>1, FrameFields DEF TravelData, Arrives, FrameOK
  <2>3. End(m) \in Nat /\ rx["travel"].receive_offset <= End(m)
    BY <1>10, <2>2 DEF TravelData, End
  <2>4. TransferOK(tx', rx') /\ Growing
    BY <1>10, <1>b, <2>2, <2>3, TransferDeliver DEF TravelData, LiveOK, Growing
  <2>5. rx'["travel"].receive_offset = End(m) BY <1>10, <1>b DEF TravelData, TypeOK, RxState
  <2>6. Ack(End(m)) \in Frame /\ FrameOK(tx'["travel"], rx'["travel"], Ack(End(m)))
    BY <2>3, <2>5, FrameTypes DEF FrameOK, Ack
  <2>7. ChannelOK(inbox', tx', rx')
    BY <1>10, <1>b, <2>1, <2>4, <2>6, ReplyOK DEF TravelData
  <2> QED BY <2>4, <2>7 DEF LiveOK
<1>11. ASSUME NEW c \in Carriers, LocalWriteFails(c) PROVE LiveOK' /\ Growing
  <2> DEFINE m == Head(inbox["travel"][c])
  <2>1. m \in Frame /\ FrameOK(tx["home"], rx["home"], m)
    BY <1>11, <1>b, HeadOK DEF LocalWriteFails, Arrives
  <2>2. m.offset \in Nat /\ m.len \in Nat /\ m.offset + m.len <= tx["home"].send_offset
    BY <1>11, <2>1, FrameFields DEF LocalWriteFails, Arrives, FrameOK, End
  <2>3. PICK d \in IF rx["travel"].remote_eof THEN {0} ELSE 0..(m.len - 1) :
             rx' = [rx EXCEPT !["travel"].receive_offset = m.offset + d]
    BY <1>11 DEF LocalWriteFails
  <2>4. /\ m.offset + d \in Nat /\ rx["travel"].receive_offset <= m.offset + d
        /\ m.offset + d <= tx["home"].send_offset
    <3>1. m.offset = rx["travel"].receive_offset BY <1>11 DEF LocalWriteFails
    <3>2. d \in Nat /\ d <= m.len BY <2>2, <2>3
    <3>3. tx["home"].send_offset \in Nat BY <1>b, Fields
    <3> HIDE DEF m
    <3> QED BY <2>2, <3>1, <3>2, <3>3
  <2>5. TransferOK(tx', rx') /\ Growing
    BY <1>11, <1>b, <2>3, <2>4, TransferDeliver DEF LocalWriteFails, TravelFails, LiveOK, Growing
  <2> QED BY <1>11, <2>5, TravelFailsOK DEF LocalWriteFails
<1>12. ASSUME NEW c \in Carriers,
              TravelDuplicate(c) \/ TravelAck(c) \/ TravelFin(c) \/ TravelFinAck(c)
       PROVE  LiveOK' /\ Growing
  BY <1>12, <1>b, SharedOK DEF TravelDuplicate, TravelAck, TravelFin, TravelFinAck
<1>14. ASSUME NEW c \in Carriers, TravelCarrierClosed(c) PROVE LiveOK' /\ Growing
  <2>1. ChannelOK(inbox', tx, rx) BY <1>14, <1>b, ChannelCleared DEF TravelCarrierClosed, LiveOK
  <2> QED BY <1>14, <2>1, SameTransfer DEF TravelCarrierClosed
<1>15. ASSUME NEW len \in SegLens, LocalData(len) PROVE LiveOK' /\ Growing
  BY <1>15, <1>b, SharedOK DEF LocalData
<1>16. CASE LocalEof BY <1>16, <1>b, SharedOK DEF LocalEof
<1>17. CASE RecoveryTimePasses
  BY <1>17, SameTransfer DEF RecoveryTimePasses, LiveOK
<1> QED
  BY <1>1, <1>2, <1>3, <1>4, <1>5, <1>6, <1>7, <1>8, <1>9, <1>10, <1>11, <1>12,
     <1>14, <1>15, <1>16, <1>17 DEF TravelNext

\* Every step of Home that needs a flow.
HomeFlowNext ==
    \/ \E c \in Carriers :
           \/ Admit(c) \/ AdmitFails(c)
           \/ HomeRaceWon(c) \/ HomeRaceLost(c)
           \/ HomeData(c) \/ HomeDuplicate(c) \/ HomeAck(c)
           \/ HomeFin(c) \/ HomeFinAck(c) \/ HomeObjects(c)
           \/ HomeCarrierClosed(c)
    \/ TargetConnects
    \/ \E len \in SegLens : TargetData(len)
    \/ TargetEof
    \/ DetachExpires \/ HomeStops \/ HomeCompletes \/ HomeDrainTimesOut

LEMMA HomeFlowOK ==
  ASSUME TypeOK, TypeOK', LiveOK, HomeFlowNext
  PROVE  LiveOK' /\ Growing
<1>b. /\ inbox \in Boxes /\ "travel" \in Sides /\ home.carriers \subseteq Carriers
      /\ Peer("home") = "travel" /\ Peer("travel") = "home" /\ "home" \in Sides
      /\ home.inc \in Nat
  BY FlowConstants DEF TypeOK, Boxes, Sides, HomeState, Peer
<1>1. ASSUME NEW c \in Carriers, Admit(c) PROVE LiveOK' /\ Growing
  <2> DEFINE f == OpenOk(rx["home"].receive_offset, tx["home"].send_acked)
  <2>1. FrameOK(tx["home"], rx["home"], f) BY <1>b, Fields DEF FrameOK, OpenOk
  <2>2. ChannelOK(inbox', tx, rx)
    <3>1. CASE link[c] # "opening" BY <1>1, <3>1 DEF Admit, LiveOK
    <3>2. CASE link[c] = "opening"
      <4>1. inbox' = [inbox EXCEPT !["travel"][c] = <<f>>] BY <1>1, <3>2 DEF Admit
      <4> HIDE DEF f
      <4>2. ASSUME NEW x \in Sides, NEW d \in Carriers, NEW i \in 1..Len(inbox'[x][d])
            PROVE  FrameOK(tx[Peer(x)], rx[Peer(x)], inbox'[x][d][i])
        <5>1. CASE x = "travel" /\ d = c
          <6>1. inbox'[x][d] = <<f>> BY <1>b, <4>1, <5>1 DEF Boxes
          <6>2. inbox'[x][d][i] = f BY <4>2, <6>1
          <6> QED BY <1>b, <2>1, <5>1, <6>2
        <5>2. CASE ~(x = "travel" /\ d = c)
          <6>1. inbox'[x][d] = inbox[x][d] BY <1>b, <4>1, <5>2 DEF Boxes
          <6> QED BY <4>2, <6>1 DEF ChannelOK, LiveOK
        <5> QED BY <5>1, <5>2
      <4> QED BY <4>2 DEF ChannelOK
    <3> QED BY <3>1, <3>2
  <2> QED BY <1>1, <2>2, SameTransfer DEF Admit
<1>2. ASSUME NEW c \in Carriers, AdmitFails(c) PROVE LiveOK' /\ Growing
  BY <1>2, HomeEndsOK DEF AdmitFails, HomeFails
<1>3. ASSUME NEW c \in Carriers, HomeRaceWon(c) PROVE LiveOK' /\ Growing
  <2> DEFINE m == Head(inbox["home"][c])
             a == <<RaceAck(m.race, c)>>
             b == Retransmission(tx["home"], home.inc)
             fs == a \o b
  <2>1. inbox["home"][c] # <<>> BY <1>3 DEF HomeRaceWon, Arrives
  <2>2. Consumed("home", c) \in Boxes /\ ChannelOK(Consumed("home", c), tx, rx)
    BY <1>b, <2>1, ConsumedType, ChannelConsumed DEF LiveOK
  <2>3. m \in Frame BY <1>b, <2>1, ConsumedType
  <2>4. m.race \in Nat BY <1>3, <2>3, FrameFields DEF HomeRaceWon, Arrives
  <2>5. a \in Seq(Frame) /\ Len(a) = 1 /\ FrameOK(tx["home"], rx["home"], a[1])
    BY <2>4, FrameTypes, RaceFramesOK
  <2>6. /\ b \in Seq(Frame)
        /\ \A i \in 1..Len(b) : FrameOK(tx["home"], rx["home"], b[i])
    <3>1. \A i \in 1..Len(tx["home"].unacked) :
              End(tx["home"].unacked[i]) <= tx["home"].send_offset
      BY <1>b DEF LiveOK, TransferOK
    <3> QED BY <1>b, <3>1, Fields, RetransmissionType, RetransmissionOK
  <2>7. inbox' = Sent(Consumed("home", c), "home", home.carriers, c, fs) BY <1>3 DEF HomeRaceWon
  <2> HIDE DEF a, b
  <2>8. fs \in Seq(Frame) BY <2>5, <2>6, ConcatProperties
  <2>9. \A i \in 1..Len(fs) : FrameOK(tx["home"], rx["home"], fs[i])
    <3>1. Len(b) \in Nat BY <2>6, LenProperties
    <3>2. Len(fs) = Len(a) + Len(b) BY <2>5, <2>6, ConcatProperties
    <3>3. \A k \in 1..(Len(a) + Len(b)) :
              fs[k] = IF k <= Len(a) THEN a[k] ELSE b[k - Len(a)]
      BY <2>5, <2>6, ConcatProperties
    <3> HIDE DEF fs
    <3>4. ASSUME NEW i \in 1..Len(fs), i = 1 PROVE FrameOK(tx["home"], rx["home"], fs[i])
      <4>1. fs[i] = a[1] BY <2>5, <3>1, <3>2, <3>3, <3>4
      <4> QED BY <2>5, <4>1
    <3>5. ASSUME NEW i \in 1..Len(fs), i # 1 PROVE FrameOK(tx["home"], rx["home"], fs[i])
      <4>1. i \in 1..(1 + Len(b)) BY <2>5, <3>2
      <4>2. fs[i] = b[i - 1] BY <2>5, <3>1, <3>3, <3>5, <4>1
      <4>3. i - 1 \in 1..Len(b) BY <3>1, <3>5, <4>1
      <4> QED BY <2>6, <4>2, <4>3
    <3> QED BY <3>4, <3>5
  <2> HIDE DEF fs
  <2>10. ChannelOK(inbox', tx, rx) BY <1>b, <2>2, <2>7, <2>8, <2>9, ChannelSent
  <2> QED BY <1>3, <2>10, SameTransfer DEF HomeRaceWon
<1>4. ASSUME NEW c \in Carriers, HomeRaceLost(c) PROVE LiveOK' /\ Growing
  <2> DEFINE m == Head(inbox["home"][c])
  <2>1. inbox["home"][c] # <<>> /\ m \in Frame
    BY <1>4, <1>b, ConsumedType DEF HomeRaceLost, Arrives
  <2>2. m.race \in Nat BY <1>4, <2>1, FrameFields DEF HomeRaceLost, Arrives
  <2>3. PICK w \in Carriers : inbox' = Reply("home", c, RaceDuplicate(m.race, w))
    BY <1>4 DEF HomeRaceLost, Winners
  <2>4. Growing /\ TransferOK(tx', rx') BY <1>4, GrowsRefl DEF HomeRaceLost, Growing, LiveOK
  <2>5. /\ RaceDuplicate(m.race, w) \in Frame
        /\ FrameOK(tx'["home"], rx'["home"], RaceDuplicate(m.race, w))
    BY <2>2, FrameTypes, RaceFramesOK
  <2>6. ChannelOK(inbox', tx', rx') BY <1>b, <2>1, <2>3, <2>4, <2>5, ReplyOK
  <2> QED BY <2>4, <2>6 DEF LiveOK
<1>5. ASSUME NEW c \in Carriers, HomeData(c) PROVE LiveOK' /\ Growing
  <2> DEFINE m == Head(inbox["home"][c])
  <2>1. m \in Frame /\ FrameOK(tx["travel"], rx["travel"], m) /\ inbox["home"][c] # <<>>
    BY <1>5, <1>b, HeadOK DEF HomeData, Arrives
  <2>2. m.offset \in Nat /\ m.len \in Nat /\ End(m) <= tx["travel"].send_offset
    BY <1>5, <2>1, FrameFields DEF HomeData, Arrives, FrameOK
  <2>3. End(m) \in Nat /\ rx["home"].receive_offset <= End(m)
    BY <1>5, <2>2 DEF HomeData, End
  <2>4. TransferOK(tx', rx') /\ Growing
    BY <1>5, <1>b, <2>2, <2>3, TransferDeliver DEF HomeData, LiveOK, Growing
  <2>5. rx'["home"].receive_offset = End(m) BY <1>5, <1>b DEF HomeData, TypeOK, RxState
  <2>6. Ack(End(m)) \in Frame /\ FrameOK(tx'["home"], rx'["home"], Ack(End(m)))
    BY <2>3, <2>5, FrameTypes DEF FrameOK, Ack
  <2>7. ChannelOK(inbox', tx', rx')
    BY <1>5, <1>b, <2>1, <2>4, <2>6, ReplyOK DEF HomeData
  <2> QED BY <2>4, <2>7 DEF LiveOK
<1>6. ASSUME NEW c \in Carriers, HomeDuplicate(c) \/ HomeFin(c) \/ HomeFinAck(c)
      PROVE  LiveOK' /\ Growing
  BY <1>6, <1>b, SharedOK DEF HomeDuplicate, HomeFin, HomeFinAck
<1>13. ASSUME NEW c \in Carriers, HomeAck(c) PROVE LiveOK' /\ Growing
  <2>1. CASE AckSplits("home", c) BY <1>13, <2>1, HomeEndsOK DEF HomeAck, HomeFails
  <2>2. CASE ~AckSplits("home", c) BY <1>13, <2>2, <1>b, SharedOK DEF HomeAck
  <2> QED BY <2>1, <2>2
<1>7. ASSUME NEW c \in Carriers, HomeObjects(c) PROVE LiveOK' /\ Growing
  <2>1. inbox["home"][c] # <<>> BY <1>7 DEF HomeObjects, Arrives, OutOfOrder
  <2>2. Growing /\ TransferOK(tx', rx') BY <1>7, GrowsRefl DEF HomeObjects, Growing, LiveOK
  <2>3. Close \in Frame /\ FrameOK(tx'["home"], rx'["home"], Close)
    BY FrameTypes, RaceFramesOK
  <2>4. ChannelOK(inbox', tx', rx') BY <1>7, <1>b, <2>1, <2>2, <2>3, ReplyOK DEF HomeObjects
  <2> QED BY <2>2, <2>4 DEF LiveOK
<1>8. ASSUME NEW c \in Carriers, HomeCarrierClosed(c) PROVE LiveOK' /\ Growing
  <2>1. ChannelOK(inbox', tx, rx) BY <1>8, <1>b, ChannelCleared DEF HomeCarrierClosed, LiveOK
  <2> QED BY <1>8, <2>1, SameTransfer DEF HomeCarrierClosed
<1>9. CASE TargetConnects BY <1>9, SameTransfer DEF TargetConnects, LiveOK
<1>10. ASSUME NEW len \in SegLens, TargetData(len) PROVE LiveOK' /\ Growing
  BY <1>10, <1>b, SharedOK DEF TargetData
<1>11. CASE TargetEof BY <1>11, <1>b, SharedOK DEF TargetEof
<1>12. CASE DetachExpires \/ HomeStops \/ HomeDrainTimesOut \/ HomeCompletes
  BY <1>12, HomeEndsOK DEF DetachExpires, HomeStops, HomeDrainTimesOut, HomeCompletes, HomeFails
<1> QED
  BY <1>1, <1>2, <1>3, <1>4, <1>5, <1>6, <1>7, <1>8, <1>9, <1>10, <1>11, <1>12, <1>13
  DEF HomeFlowNext

\* A completed endpoint has both FINs: its own is acknowledged, the peer's came.
LEMMA CompleteOK ==
  ASSUME TypeOK, LiveOK, NEW s \in Sides, Complete(s)
  PROVE  \A x \in Sides : rx[x].remote_eof
<1>1. rx[s].remote_eof /\ tx[s].fin_acked BY DEF Complete
<1>2. rx[Peer(s)].remote_eof BY <1>1 DEF LiveOK, TransferOK
<1>3. Sides = {s, Peer(s)} BY DEF Sides, Peer
<1> QED BY <1>1, <1>2, <1>3

\* Travel never touches Home's state, and finishes only when complete.
LEMMA TravelLeavesHome ==
  ASSUME TypeOK, TravelNext
  PROVE  /\ home' = home /\ tx'["home"] = tx["home"] /\ rx'["home"] = rx["home"]
         /\ travel'.phase = "finished" => travel.phase = "finished" \/ Complete("travel")
<1> USE DEF Sides
<1>f. ASSUME NEW reason, TravelFails(reason)
      PROVE  home' = home /\ tx' = tx /\ travel'.phase = "failed"
  BY <1>f DEF TravelFails, TypeOK, TravelState
<1>t. tx \in [Sides -> TxState] /\ rx \in [Sides -> RxState] /\ travel \in TravelState
  BY DEF TypeOK
<1>1. CASE TravelCompletes BY <1>1 DEF TravelCompletes
<1>2. CASE TravelDrainTimesOut \/ RecoveryExpires \/ TravelStops
  BY <1>2, <1>f DEF TravelDrainTimesOut, RecoveryExpires, TravelStops
<1>3. ASSUME NEW S \in SUBSET Relays, StartRace(S)
      PROVE  home' = home /\ tx' = tx /\ rx' = rx /\ travel'.phase = travel.phase
  BY <1>3, <1>t DEF StartRace, TravelState
<1>4. CASE RaceTimesOut BY <1>4, <1>t DEF RaceTimesOut, TravelState
<1>5. ASSUME NEW c \in Carriers, Opened(c)
      PROVE  /\ home' = home /\ tx'["home"] = tx["home"] /\ rx' = rx
             /\ travel'.phase = travel.phase
  BY <1>5, <1>t DEF Opened, TravelState
<1>6. ASSUME NEW c \in Carriers, OpenedInconsistent(c) \/ TravelBails(c)
      PROVE  home' = home /\ tx' = tx /\ rx' = rx /\ travel'.phase = "failed"
  BY <1>6, <1>f DEF OpenedInconsistent, TravelBails
<1>7. ASSUME NEW c \in Carriers, \/ OpenFailed(c) \/ RaceAnswered(c) \/ RaceAnswerIgnored(c)
                                 \/ TravelCarrierClosed(c)
      PROVE  home' = home /\ tx' = tx /\ rx' = rx /\ travel'.phase = travel.phase
  BY <1>7, <1>t DEF OpenFailed, RaceAnswered, RaceAnswerIgnored, TravelCarrierClosed, TravelState
<1>8. ASSUME NEW c \in Carriers, TravelData(c)
      PROVE  /\ home' = home /\ tx' = tx /\ rx'["home"] = rx["home"]
             /\ travel'.phase = travel.phase
  BY <1>8, <1>t DEF TravelData, TravelState
<1>9. ASSUME NEW c \in Carriers, LocalWriteFails(c)
      PROVE  home' = home /\ tx' = tx /\ rx'["home"] = rx["home"] /\ travel'.phase = "failed"
  BY <1>9, <1>t, <1>f DEF LocalWriteFails
<1>10. ASSUME NEW c \in Carriers,
              TravelDuplicate(c) \/ TravelAck(c) \/ TravelFin(c) \/ TravelFinAck(c)
       PROVE  /\ home' = home /\ tx'["home"] = tx["home"] /\ rx'["home"] = rx["home"]
              /\ travel'.phase = travel.phase
  BY <1>10, <1>t DEF TravelDuplicate, TravelAck, TravelFin, TravelFinAck, DataDuplicate,
                     AckInWindow, FinInOrder, FinAckInOrder
<1>11. ASSUME NEW len \in SegLens, LocalData(len)
       PROVE  /\ home' = home /\ tx'["home"] = tx["home"] /\ rx' = rx
              /\ travel'.phase = travel.phase
  BY <1>11, <1>t DEF LocalData, ReadData
<1>12. CASE LocalEof BY <1>12, <1>t DEF LocalEof, ReadEof
<1>13. CASE RecoveryTimePasses BY <1>13, <1>t DEF RecoveryTimePasses, TravelState
<1> QED
  BY <1>1, <1>2, <1>3, <1>4, <1>5, <1>6, <1>7, <1>8, <1>9, <1>10, <1>11, <1>12, <1>13
  DEF TravelNext

\* Home never touches Travel's state, keeps its flow's number, and reports
\* completion only when complete.
LEMMA HomeFlowFrame ==
  ASSUME TypeOK, HomeFlowNext
  PROVE  /\ home.phase # "absent" /\ home'.inc = home.inc /\ travel' = travel
         /\ home'.outcome = "finished" => home.outcome = "finished" \/ Complete("home")
<1>t. home \in HomeState BY DEF TypeOK
<1>e. ASSUME NEW outcome, NEW links, HomeEnds(outcome, links)
      PROVE  home'.inc = home.inc /\ travel' = travel /\ home'.outcome = outcome
  BY <1>e, <1>t DEF HomeEnds, HomeState
<1>p. Polls("home") => home.phase = "running" BY DEF Polls
<1>1. ASSUME NEW c \in Carriers, Admit(c) \/ HomeRaceWon(c) \/ HomeCarrierClosed(c)
      PROVE  /\ home.phase # "absent" /\ home'.inc = home.inc /\ travel' = travel
             /\ home'.outcome = home.outcome
  BY <1>1, <1>t, <1>p DEF Admit, HomeRaceWon, HomeCarrierClosed, Arrives, HomeState
<1>2. ASSUME NEW c \in Carriers, AdmitFails(c) \/ (HomeAck(c) /\ AckSplits("home", c))
      PROVE  /\ home.phase # "absent" /\ home'.inc = home.inc /\ travel' = travel
             /\ home'.outcome # "finished"
  <2>1. Polls("home") BY <1>2 DEF AdmitFails, AckSplits, Arrives
  <2>2. HomeFails("OpenOk write failed") \/ HomeFails("ACK split a frame")
    BY <1>2 DEF AdmitFails, HomeAck
  <2>3. \A o : HomeFails(o) => home'.inc = home.inc /\ travel' = travel /\ home'.outcome = o
    BY <1>e DEF HomeFails
  <2>4. "OpenOk write failed" # "finished" /\ "ACK split a frame" # "finished" OBVIOUS
  <2> QED BY <2>1, <2>2, <2>3, <2>4, <1>p
<1>3. ASSUME NEW c \in Carriers,
             \/ HomeRaceLost(c) \/ HomeData(c) \/ HomeDuplicate(c)
             \/ HomeAck(c) /\ ~AckSplits("home", c)
             \/ HomeFin(c) \/ HomeFinAck(c) \/ HomeObjects(c)
      PROVE  home.phase # "absent" /\ home' = home /\ travel' = travel
  BY <1>3, <1>p DEF HomeRaceLost, HomeData, HomeDuplicate, HomeAck, HomeFin, HomeFinAck,
     HomeObjects, OutOfOrder, DataDuplicate, AckInWindow, FinInOrder, FinAckInOrder, Arrives
<1>4. CASE TargetConnects BY <1>4, <1>t DEF TargetConnects, HomeState
<1>5. ASSUME NEW len \in SegLens, TargetData(len)
      PROVE  home.phase # "absent" /\ home' = home /\ travel' = travel
  BY <1>5, <1>p DEF TargetData, ReadData
<1>6. CASE TargetEof BY <1>6, <1>p DEF TargetEof, ReadEof
<1>7. CASE DetachExpires \/ HomeStops \/ HomeDrainTimesOut
  <2>1. home.phase # "absent" BY <1>7, <1>p DEF DetachExpires, HomeStops, HomeDrainTimesOut
  <2>2. \/ HomeFails("detached-flow timeout expired") \/ HomeFails("stopped")
        \/ HomeFails("drain timed out")
    BY <1>7 DEF DetachExpires, HomeStops, HomeDrainTimesOut
  <2>3. \A o : HomeFails(o) => home'.inc = home.inc /\ travel' = travel /\ home'.outcome = o
    BY <1>e DEF HomeFails
  <2>4. /\ "detached-flow timeout expired" # "finished" /\ "stopped" # "finished"
        /\ "drain timed out" # "finished"
    OBVIOUS
  <2> QED BY <2>1, <2>2, <2>3, <2>4
<1>8. CASE HomeCompletes BY <1>8, <1>e DEF HomeCompletes
<1> QED BY <1>1, <1>2, <1>3, <1>4, <1>5, <1>6, <1>7, <1>8 DEF HomeFlowNext

LEMMA DeliveryInit == Init => DeliveryInv
<1> SUFFICES ASSUME Init PROVE DeliveryInv OBVIOUS
<1>1. TypeOK BY InitType
<1>2. NoHomeYet BY DEF Init, NoHomeYet, Sides
<1>3. ChannelOK(inbox, tx, rx)
  <2>1. \A s \in Sides, c \in Carriers : inbox[s][c] = <<>> BY DEF Init
  <2> QED BY <2>1 DEF ChannelOK
<1>4. TransferOK(tx, rx)
  <2>1. \A s \in Sides : tx[s] = NewTx /\ rx[s] = NewRx BY DEF Init
  <2>2. Len(<<>>) = 0 OBVIOUS
  <2> QED BY <2>1, <2>2, PeerType DEF TransferOK, NewTx, NewRx
<1>5. FinishedOK BY DEF Init, FinishedOK
<1> QED BY <1>1, <1>2, <1>3, <1>4, <1>5 DEF DeliveryInv

LEMMA DeliveryNext == DeliveryInv /\ [Next]_vars => DeliveryInv'
<1> SUFFICES ASSUME DeliveryInv, [Next]_vars PROVE DeliveryInv' OBVIOUS
<1>1. TypeOK /\ TypeOK' BY NextType DEF DeliveryInv
<1>2. SoleHome => LiveOK /\ FinishedOK BY DEF DeliveryInv, LiveOK
<1>3. NoHomeYet BY DEF DeliveryInv
<1>4. SUFFICES NoHomeYet' /\ (SoleHome' => LiveOK' /\ FinishedOK')
  BY <1>1 DEF DeliveryInv, LiveOK
<1>g. ASSUME Growing PROVE \A x \in Sides : rx[x].remote_eof => rx'[x].remote_eof
  BY <1>g DEF Growing, AllGrow, Grows
<1>5. CASE TravelNext
  <2>1. /\ home' = home /\ tx'["home"] = tx["home"] /\ rx'["home"] = rx["home"]
        /\ travel'.phase = "finished" => travel.phase = "finished" \/ Complete("travel")
    BY <1>1, <1>5, TravelLeavesHome
  <2>2. NoHomeYet' BY <1>3, <2>1 DEF NoHomeYet
  <2>3. ASSUME SoleHome' PROVE LiveOK' /\ FinishedOK'
    <3>1. SoleHome BY <2>1, <2>3 DEF SoleHome
    <3>2. LiveOK' /\ Growing BY <1>1, <1>2, <1>5, <3>1, TravelNextOK
    <3>3. Complete("travel") => \A x \in Sides : rx[x].remote_eof
      BY <1>1, <1>2, <3>1, CompleteOK DEF Sides
    <3>4. FinishedOK' BY <1>2, <1>g, <2>1, <3>1, <3>2, <3>3 DEF FinishedOK
    <3> QED BY <3>2, <3>4
  <2> QED BY <2>2, <2>3
<1>6. CASE HomeFlowNext
  <2>1. /\ home.phase # "absent" /\ home'.inc = home.inc /\ travel' = travel
        /\ home'.outcome = "finished" => home.outcome = "finished" \/ Complete("home")
    BY <1>1, <1>6, HomeFlowFrame
  <2>2. NoHomeYet' BY <1>3, <2>1 DEF NoHomeYet
  <2>3. ASSUME SoleHome' PROVE LiveOK' /\ FinishedOK'
    <3>1. SoleHome BY <2>1, <2>3 DEF SoleHome
    <3>2. LiveOK' /\ Growing BY <1>1, <1>2, <1>6, <3>1, HomeFlowOK
    <3>3. Complete("home") => \A x \in Sides : rx[x].remote_eof
      BY <1>1, <1>2, <3>1, CompleteOK DEF Sides
    <3>4. FinishedOK' BY <1>2, <1>g, <2>1, <3>1, <3>2, <3>3 DEF FinishedOK
    <3> QED BY <3>2, <3>4
  <2> QED BY <2>2, <2>3
<1>7. ASSUME NEW queued, Attaches(queued), inbox' = inbox, travel' = travel
      PROVE  NoHomeYet' /\ (SoleHome' => LiveOK' /\ FinishedOK')
  <2>0. home \in HomeState /\ home.inc \in Nat BY <1>1, FlowConstants DEF TypeOK, HomeState
  <2>1. CASE home.phase # "absent"
    <3>1. /\ home'.inc = home.inc /\ home'.outcome = home.outcome /\ tx' = tx /\ rx' = rx
          /\ home.inc # 0
      BY <1>3, <1>7, <2>0, <2>1 DEF Attaches, HomeState, NoHomeYet
    <3> QED BY <1>2, <1>7, <3>1 DEF NoHomeYet, SoleHome, LiveOK, FinishedOK
  <2>2. CASE home.phase = "absent" /\ home.inc = 0
    <3>1. /\ home'.inc = 1 /\ home'.outcome = "none"
          /\ tx' = [tx EXCEPT !["home"] = NewTx] /\ rx' = [rx EXCEPT !["home"] = NewRx]
      <4>1. /\ home' = [home EXCEPT !.phase = "connecting", !.inc = home.inc + 1,
                          !.outcome = "none", !.incoming = queued, !.past = {}]
            /\ tx' = [tx EXCEPT !["home"] = NewTx] /\ rx' = [rx EXCEPT !["home"] = NewRx]
        BY <1>7, <2>2 DEF Attaches
      <4>2. home'.inc = home.inc + 1 /\ home'.outcome = "none" BY <2>0, <4>1 DEF HomeState
      <4> QED BY <2>2, <4>1, <4>2
    <3>2. tx["home"] = NewTx /\ rx["home"] = NewRx BY <1>3, <2>2 DEF NoHomeYet
    <3>3. tx' = tx /\ rx' = rx BY <1>1, <3>1, <3>2 DEF TypeOK
    <3> QED BY <1>2, <1>7, <2>2, <3>1, <3>3 DEF NoHomeYet, SoleHome, LiveOK, FinishedOK
  <2>3. CASE home.phase = "absent" /\ home.inc # 0
    <3>1. home'.inc = home.inc + 1 BY <1>7, <2>0, <2>3 DEF Attaches, HomeState
    <3> QED BY <2>0, <2>3, <3>1 DEF NoHomeYet, SoleHome
  <2> QED BY <2>1, <2>2, <2>3
<1>8. ASSUME NEW c \in Carriers, Attach(c) \/ AttachNoSlot(c)
      PROVE  NoHomeYet' /\ (SoleHome' => LiveOK' /\ FinishedOK')
  BY <1>7, <1>8 DEF Attach, AttachNoSlot
<1>9. CASE UNCHANGED <<tx, rx, inbox, travel, home>>
  BY <1>2, <1>3, <1>9 DEF NoHomeYet, SoleHome, LiveOK, FinishedOK, ChannelOK, TransferOK
<1>10. ASSUME NEW c \in Carriers, AttachRejected(c) \/ Break(c)
       PROVE  UNCHANGED <<tx, rx, inbox, travel, home>>
  BY <1>10 DEF AttachRejected, Break
<1>11. CASE HomeNext
  BY <1>6, <1>8, <1>9, <1>10, <1>11 DEF HomeNext, HomeFlowNext
<1> QED BY <1>5, <1>9, <1>10, <1>11 DEF Next, vars

THEOREM DeliveryInvariant == Spec => []DeliveryInv
<1> QED BY DeliveryInit, DeliveryNext, PTL DEF Spec

\* For any number of Relays, races, Carrier failures and bytes: an endpoint
\* treats as acknowledged only what the other one wrote to its socket, and
\* delivers only what the other one read.
THEOREM AckedIsDeliveredThm == Spec => []AckedIsDelivered
<1>1. DeliveryInv => AckedIsDelivered BY DEF DeliveryInv, TransferOK, AckedIsDelivered
<1> QED BY <1>1, DeliveryInvariant, PTL

\* A socket is shut down only behind the last byte.
THEOREM EofIsLastThm == Spec => []EofIsLast
<1>1. DeliveryInv => EofIsLast BY DEF DeliveryInv, TransferOK, EofIsLast
<1> QED BY <1>1, DeliveryInvariant, PTL

\* Completion reported by either endpoint means that both directions arrived in
\* full at both applications, EOF included.
THEOREM CompletionMeansDeliveredThm == Spec => []CompletionMeansDelivered
<1>1. DeliveryInv => CompletionMeansDelivered
  BY DEF DeliveryInv, TransferOK, FinishedOK, CompletionMeansDelivered
<1> QED BY <1>1, DeliveryInvariant, PTL

-----------------------------------------------------------------------------
(* The abstract stream.                                                     *)

Outcome(s) == IF s = "travel" THEN travel.phase ELSE HomeOutcome

\* What a step leaves alone, of what the stream shows.
SameWritten(s) == tx'[s].send_offset = tx[s].send_offset
SameClosed(s) == tx'[s].local_eof = tx[s].local_eof
SameDelivered(s) == rx'[s].receive_offset = rx[s].receive_offset
SameEof(s) == rx'[s].remote_eof = rx[s].remote_eof
SameOutcome(s) == Outcome(s)' = Outcome(s)

LEMMA StreamStutter ==
  ASSUME \A s \in Sides : /\ SameWritten(s) /\ SameClosed(s) /\ SameDelivered(s)
                          /\ SameEof(s) /\ SameOutcome(s)
  PROVE  UNCHANGED Stream!stream
  BY PeerType DEF SameWritten, SameClosed, SameDelivered, SameEof, SameOutcome, Outcome,
     Stream!stream

LEMMA StreamWrite ==
  ASSUME NEW s \in Sides, Outcome(s) = "running", ~tx[s].local_eof,
         tx'[s].send_offset \in Nat, tx'[s].send_offset > tx[s].send_offset,
         \A x \in Sides : /\ x # s => SameWritten(x)
                          /\ SameClosed(x) /\ SameDelivered(x) /\ SameEof(x) /\ SameOutcome(x)
  PROVE  Stream!Next
<1>1. Stream!Write(s)
  BY PeerType DEF SameWritten, SameClosed, SameDelivered, SameEof, SameOutcome, Outcome,
     Stream!Write, Sides
<1> QED BY <1>1 DEF Stream!Next, Stream!Directions, Sides

LEMMA StreamCloseWrite ==
  ASSUME NEW s \in Sides, Outcome(s) = "running", ~tx[s].local_eof, tx'[s].local_eof = TRUE,
         \A x \in Sides : /\ x # s => SameClosed(x)
                          /\ SameWritten(x) /\ SameDelivered(x) /\ SameEof(x) /\ SameOutcome(x)
  PROVE  Stream!Next
<1>1. Stream!CloseWrite(s)
  BY PeerType DEF SameWritten, SameClosed, SameDelivered, SameEof, SameOutcome, Outcome,
     Stream!CloseWrite, Sides
<1> QED BY <1>1 DEF Stream!Next, Stream!Directions, Sides

\* s delivers, and may give the Flow up while it does.
LEMMA StreamDeliver ==
  ASSUME NEW s \in Sides, Outcome(s) = "running", ~rx[s].remote_eof,
         rx[s].receive_offset \in Nat, tx[Peer(s)].send_offset \in Nat,
         rx'[s].receive_offset \in rx[s].receive_offset..tx[Peer(s)].send_offset,
         SameOutcome(s) \/ Outcome(s)' = "failed",
         \A x \in Sides : /\ x # s => SameDelivered(x) /\ SameOutcome(x)
                          /\ SameWritten(x) /\ SameClosed(x) /\ SameEof(x)
  PROVE  Stream!Next
<1>1. Peer(s) \in Sides /\ Stream!Reader(Peer(s)) = s /\ Peer(Peer(s)) = s
  BY DEF Sides, Peer, Stream!Reader
<1>2. Stream!Deliver(Peer(s))
  BY PeerType, <1>1 DEF SameWritten, SameClosed, SameDelivered, SameEof, SameOutcome, Outcome,
     Stream!Deliver, Sides
<1> QED BY <1>1, <1>2 DEF Stream!Next, Stream!Directions, Sides

LEMMA StreamDeliverEof ==
  ASSUME NEW s \in Sides, Outcome(s) = "running",
         tx[Peer(s)].local_eof, rx[s].receive_offset = tx[Peer(s)].send_offset,
         rx'[s].remote_eof = TRUE,
         \A x \in Sides : /\ x # s => SameEof(x)
                          /\ SameWritten(x) /\ SameClosed(x) /\ SameDelivered(x) /\ SameOutcome(x)
  PROVE  Stream!Next
<1>1. Peer(s) \in Sides /\ Stream!Reader(Peer(s)) = s /\ Peer(Peer(s)) = s
  BY DEF Sides, Peer, Stream!Reader
<1>2. \A x \in Sides : Peer(x) \in Sides /\ (x # Peer(s) => Peer(x) # s) BY DEF Sides, Peer
<1>3. [x \in Sides |-> rx'[Peer(x)].remote_eof]
          = [[x \in Sides |-> rx[Peer(x)].remote_eof] EXCEPT ![Peer(s)] = TRUE]
  BY <1>1, <1>2 DEF SameEof
<1>4. Stream!DeliverEof(Peer(s))
  BY <1>1, <1>2, <1>3
  DEF SameWritten, SameClosed, SameDelivered, SameOutcome, Outcome, Stream!DeliverEof
<1> QED BY <1>1, <1>4 DEF Stream!Next, Stream!Directions, Sides

\* s ends its part of the Flow, completed or not.
LEMMA StreamEnds ==
  ASSUME NEW s \in Sides, Outcome(s) = "running",
         \/ Outcome(s)' = "failed"
         \/ Outcome(s)' = "finished" /\ \A x \in Sides : rx[x].remote_eof,
         \A x \in Sides : /\ x # s => SameOutcome(x)
                          /\ SameWritten(x) /\ SameClosed(x) /\ SameDelivered(x) /\ SameEof(x)
  PROVE  Stream!Next
<1>1. Stream!Fail(s) \/ Stream!Finish(s)
  BY PeerType DEF SameWritten, SameClosed, SameDelivered, SameEof, SameOutcome, Outcome,
     Stream!Fail, Stream!Finish, Stream!Directions, Sides
<1> QED BY <1>1 DEF Stream!Next, Stream!Directions, Sides

LEMMA StreamInit == Init => Stream!Init
<1> SUFFICES ASSUME Init PROVE Stream!Init OBVIOUS
<1>1. \A s \in Sides : tx[s] = NewTx /\ rx[s] = NewRx BY DEF Init
<1>2. \A s \in Sides : /\ tx[s].send_offset = 0 /\ tx[s].local_eof = FALSE
                      /\ rx[Peer(s)].receive_offset = 0 /\ rx[Peer(s)].remote_eof = FALSE
  BY <1>1, PeerType DEF NewTx, NewRx
<1>3. travel.phase = "running" /\ HomeOutcome = "running" BY DEF Init, HomeOutcome
<1>4. Stream!Directions = Sides BY DEF Stream!Directions, Sides
<1> QED BY <1>2, <1>3, <1>4 DEF Stream!Init

-----------------------------------------------------------------------------
(* Every step of the two endpoints is a step of the stream, or none.        *)

StreamStep == Stream!Next \/ UNCHANGED Stream!stream

LEMMA SameTransferState ==
  ASSUME tx' = tx, rx' = rx
  PROVE  \A x \in Sides : SameWritten(x) /\ SameClosed(x) /\ SameDelivered(x) /\ SameEof(x)
  BY DEF SameWritten, SameClosed, SameDelivered, SameEof

LEMMA SameOutcomes ==
  ASSUME travel'.phase = travel.phase,
         \/ home' = home
         \/ home.phase # "absent" /\ home'.phase # "absent"
  PROVE  \A x \in Sides : SameOutcome(x)
  BY DEF SameOutcome, Outcome, HomeOutcome

\* An endpoint at its select has not ended its part.
LEMMA PollsRuns ==
  ASSUME NEW s \in Sides, Polls(s)
  PROVE  Outcome(s) = "running"
  BY DEF Polls, Outcome, HomeOutcome, Sides

LEMMA SharedStream ==
  ASSUME TypeOK, LiveOK, NEW s \in Sides
  PROVE  /\ \A len \in SegLens : ReadData(s, len) => StreamStep
         /\ ReadEof(s) => StreamStep
         /\ \A c \in Carriers :
              (\/ DataDuplicate(s, c) \/ AckInWindow(s, c) \/ FinInOrder(s, c)
               \/ FinAckInOrder(s, c)) => StreamStep
<1>t. tx \in [Sides -> TxState] /\ rx \in [Sides -> RxState] BY DEF TypeOK
<1>1. ASSUME NEW len \in SegLens, ReadData(s, len) PROVE StreamStep
  <2>1. len \in Nat /\ len > 0 BY FlowConstants
  <2>2. tx'[s].send_offset = tx[s].send_offset + len /\ tx'[s].local_eof = tx[s].local_eof
    BY <1>1, <1>t DEF ReadData, Buffer, TxState
  <2>3. \A x \in Sides : x # s => tx'[x] = tx[x] BY <1>1, <1>t DEF ReadData
  <2>4. \A x \in Sides : SameOutcome(x) BY <1>1, SameOutcomes DEF ReadData
  <2>5. \A x \in Sides : SameClosed(x) /\ (x # s => SameWritten(x))
    BY <2>2, <2>3 DEF SameClosed, SameWritten
  <2>6. \A x \in Sides : SameDelivered(x) /\ SameEof(x)
    BY <1>1 DEF ReadData, SameDelivered, SameEof
  <2>7. tx'[s].send_offset \in Nat /\ tx'[s].send_offset > tx[s].send_offset
    BY <2>1, <2>2, Fields
  <2>8. Outcome(s) = "running" /\ ~tx[s].local_eof BY <1>1, PollsRuns DEF ReadData
  <2> QED BY <2>4, <2>5, <2>6, <2>7, <2>8, StreamWrite DEF StreamStep
<1>2. ASSUME ReadEof(s) PROVE StreamStep
  <2>1. /\ tx'[s].send_offset = tx[s].send_offset /\ tx'[s].local_eof = TRUE
        /\ \A x \in Sides : x # s => tx'[x] = tx[x]
    BY <1>2, <1>t DEF ReadEof, TxState
  <2>2. \A x \in Sides : SameOutcome(x) BY <1>2, SameOutcomes DEF ReadEof
  <2>3. \A x \in Sides : SameWritten(x) /\ (x # s => SameClosed(x))
    BY <2>1 DEF SameClosed, SameWritten
  <2>4. \A x \in Sides : SameDelivered(x) /\ SameEof(x)
    BY <1>2 DEF ReadEof, SameDelivered, SameEof
  <2>5. Outcome(s) = "running" /\ ~tx[s].local_eof BY <1>2, PollsRuns DEF ReadEof
  <2> QED BY <2>1, <2>2, <2>3, <2>4, <2>5, StreamCloseWrite DEF StreamStep
<1>3. ASSUME NEW c \in Carriers, DataDuplicate(s, c) PROVE StreamStep
  BY <1>3, SameTransferState, SameOutcomes, StreamStutter DEF DataDuplicate, StreamStep
<1>4. ASSUME NEW c \in Carriers, AckInWindow(s, c) PROVE StreamStep
  <2>1. PICK n, j : tx' = [tx EXCEPT ![s] = Acknowledge(tx[s], n, j)]
    BY <1>4 DEF AckInWindow
  <2>2. \A x \in Sides : SameWritten(x) /\ SameClosed(x)
    BY <2>1, <1>t DEF Acknowledge, TxState, SameWritten, SameClosed
  <2>3. \A x \in Sides : SameDelivered(x) /\ SameEof(x)
    BY <1>4 DEF AckInWindow, SameDelivered, SameEof
  <2> QED BY <1>4, <2>2, <2>3, SameOutcomes, StreamStutter DEF AckInWindow, StreamStep
<1>5. ASSUME NEW c \in Carriers, FinInOrder(s, c) PROVE StreamStep
  <2>1. FrameOK(tx[Peer(s)], rx[Peer(s)], Head(inbox[s][c]))
    BY <1>5, HeadOK DEF FinInOrder, Arrives
  <2>2. tx[Peer(s)].local_eof /\ rx[s].receive_offset = tx[Peer(s)].send_offset
    BY <1>5, <2>1 DEF FinInOrder, Arrives, FrameOK
  <2>3. /\ rx'[s].remote_eof = TRUE /\ rx'[s].receive_offset = rx[s].receive_offset
        /\ \A x \in Sides : x # s => rx'[x] = rx[x]
    BY <1>5, <1>t DEF FinInOrder, RxState
  <2>4. \A x \in Sides : SameDelivered(x) /\ (x # s => SameEof(x))
    BY <2>3 DEF SameDelivered, SameEof
  <2>5. \A x \in Sides : SameWritten(x) /\ SameClosed(x)
    BY <1>5 DEF FinInOrder, SameWritten, SameClosed
  <2>6. \A x \in Sides : SameOutcome(x) BY <1>5, SameOutcomes DEF FinInOrder
  <2>7. Outcome(s) = "running" BY <1>5, PollsRuns DEF FinInOrder, Arrives
  <2> QED BY <2>2, <2>3, <2>4, <2>5, <2>6, <2>7, StreamDeliverEof DEF StreamStep
<1>6. ASSUME NEW c \in Carriers, FinAckInOrder(s, c) PROVE StreamStep
  <2>1. \A x \in Sides : SameWritten(x) /\ SameClosed(x)
    BY <1>6, <1>t DEF FinAckInOrder, TxState, SameWritten, SameClosed
  <2>2. \A x \in Sides : SameDelivered(x) /\ SameEof(x)
    BY <1>6 DEF FinAckInOrder, SameDelivered, SameEof
  <2> QED BY <1>6, <2>1, <2>2, SameOutcomes, StreamStutter DEF FinAckInOrder, StreamStep
<1> QED BY <1>1, <1>2, <1>3, <1>4, <1>5, <1>6

\* Travel gives up without delivering anything more.
LEMMA TravelFailsStream ==
  ASSUME TypeOK, NEW reason, TravelFails(reason), rx' = rx, travel.phase = "running"
  PROVE  StreamStep
<1>1. travel'.phase = "failed" /\ tx' = tx /\ home' = home
  BY DEF TravelFails, TypeOK, TravelState
<1>2. \A x \in Sides : x # "travel" => SameOutcome(x)
  BY <1>1 DEF SameOutcome, Outcome, HomeOutcome
<1>3. Outcome("travel") = "running" /\ Outcome("travel")' = "failed" BY <1>1 DEF Outcome
<1> QED BY <1>1, <1>2, <1>3, SameTransferState, StreamEnds DEF StreamStep, Sides

LEMMA TravelStream ==
  ASSUME TypeOK, LiveOK, TravelNext
  PROVE  StreamStep
<1>t. /\ tx \in [Sides -> TxState] /\ rx \in [Sides -> RxState] /\ travel \in TravelState
      /\ inbox \in Boxes /\ "travel" \in Sides /\ "home" \in Sides
      /\ Peer("travel") = "home" /\ Peer("home") = "travel"
  BY DEF TypeOK, Boxes, Sides, Peer
<1>p. Polls("travel") => travel.phase = "running" BY DEF Polls
<1>s. ASSUME tx' = tx, rx' = rx, home' = home, travel'.phase = travel.phase PROVE StreamStep
  BY <1>s, SameTransferState, SameOutcomes, StreamStutter DEF StreamStep
<1>1. CASE TravelCompletes
  <2>1. \A x \in Sides : rx[x].remote_eof BY <1>1, <1>t, CompleteOK DEF TravelCompletes
  <2>2. /\ travel.phase = "running" /\ travel'.phase = "finished"
        /\ tx' = tx /\ rx' = rx /\ home' = home
    BY <1>1, <1>t DEF TravelCompletes, TravelState
  <2>3. \A x \in Sides : x # "travel" => SameOutcome(x)
    BY <2>2 DEF SameOutcome, Outcome, HomeOutcome
  <2>4. Outcome("travel") = "running" /\ Outcome("travel")' = "finished" BY <2>2 DEF Outcome
  <2> QED BY <1>t, <2>1, <2>2, <2>3, <2>4, SameTransferState, StreamEnds DEF StreamStep
<1>2. CASE TravelDrainTimesOut \/ RecoveryExpires \/ TravelStops
  BY <1>2, TravelFailsStream DEF TravelDrainTimesOut, RecoveryExpires, TravelStops
<1>3. ASSUME NEW S \in SUBSET Relays, StartRace(S) PROVE StreamStep
  BY <1>3, <1>s, <1>t DEF StartRace, TravelState
<1>4. CASE RaceTimesOut BY <1>4, <1>s, <1>t DEF RaceTimesOut, TravelState
<1>5. ASSUME NEW c \in Carriers, Opened(c) PROVE StreamStep
  <2>1. PICK n, j : tx' = [tx EXCEPT !["travel"] = Acknowledge(tx["travel"], n, j)]
    BY <1>5 DEF Opened
  <2>2. \A x \in Sides : SameWritten(x) /\ SameClosed(x)
    BY <2>1, <1>t DEF Acknowledge, TxState, SameWritten, SameClosed
  <2>3. rx' = rx /\ home' = home /\ travel'.phase = travel.phase
    BY <1>5, <1>t DEF Opened, TravelState
  <2>4. \A x \in Sides : SameDelivered(x) /\ SameEof(x) BY <2>3 DEF SameDelivered, SameEof
  <2> QED BY <2>2, <2>3, <2>4, SameOutcomes, StreamStutter DEF StreamStep
<1>6. ASSUME NEW c \in Carriers, OpenedInconsistent(c) \/ TravelBails(c) PROVE StreamStep
  <2>1. travel.phase = "running"
    BY <1>6, <1>p DEF OpenedInconsistent, TravelBails, Arrives, AckSplits, OutOfOrder
  <2>2. \E reason : TravelFails(reason) /\ rx' = rx
    BY <1>6 DEF OpenedInconsistent, TravelBails
  <2> QED BY <2>1, <2>2, TravelFailsStream
<1>7. ASSUME NEW c \in Carriers, \/ OpenFailed(c) \/ RaceAnswered(c) \/ RaceAnswerIgnored(c)
                                 \/ TravelCarrierClosed(c)
      PROVE  StreamStep
  BY <1>7, <1>s, <1>t DEF OpenFailed, RaceAnswered, RaceAnswerIgnored, TravelCarrierClosed,
     TravelState
<1>8. ASSUME NEW c \in Carriers, TravelData(c) PROVE StreamStep
  <2> DEFINE m == Head(inbox["travel"][c])
  <2>1. m \in Frame /\ FrameOK(tx["home"], rx["home"], m)
    BY <1>8, <1>t, HeadOK DEF TravelData, Arrives
  <2>2. m.offset \in Nat /\ m.len \in Nat /\ End(m) <= tx["home"].send_offset
    BY <1>8, <2>1, FrameFields DEF TravelData, Arrives, FrameOK
  <2>3. rx' = [rx EXCEPT !["travel"].receive_offset = End(m)] BY <1>8 DEF TravelData
  <2>4. m.offset = rx["travel"].receive_offset /\ ~rx["travel"].remote_eof
    BY <1>8 DEF TravelData
  <2>5. tx' = tx /\ home' = home /\ travel'.phase = travel.phase /\ travel.phase = "running"
    BY <1>8, <1>t, <1>p DEF TravelData, TravelState, Arrives
  <2>6. End(m) \in rx["travel"].receive_offset..tx["home"].send_offset
    BY <1>t, <2>2, <2>4, Fields DEF End
  <2> HIDE DEF m
  <2>7. /\ rx'["travel"].receive_offset = End(m) /\ rx'["home"] = rx["home"]
        /\ rx'["travel"].remote_eof = rx["travel"].remote_eof
    BY <1>t, <2>3 DEF RxState
  <2>8. \A x \in Sides : SameWritten(x) /\ SameClosed(x) /\ SameEof(x)
                         /\ (x # "travel" => SameDelivered(x))
    BY <2>5, <2>7 DEF SameWritten, SameClosed, SameEof, SameDelivered, Sides
  <2>9. Outcome("travel") = "running" /\ \A x \in Sides : SameOutcome(x)
    BY <2>5, SameOutcomes DEF Outcome
  <2> QED BY <1>t, <2>4, <2>6, <2>7, <2>8, <2>9, Fields, StreamDeliver DEF StreamStep
<1>9. ASSUME NEW c \in Carriers, LocalWriteFails(c) PROVE StreamStep
  <2> DEFINE m == Head(inbox["travel"][c])
  <2>1. m \in Frame /\ FrameOK(tx["home"], rx["home"], m)
    BY <1>9, <1>t, HeadOK DEF LocalWriteFails, Arrives
  <2>2. m.offset \in Nat /\ m.len \in Nat /\ m.offset + m.len <= tx["home"].send_offset
    BY <1>9, <2>1, FrameFields DEF LocalWriteFails, Arrives, FrameOK, End
  <2>3. PICK d \in IF rx["travel"].remote_eof THEN {0} ELSE 0..(m.len - 1) :
             rx' = [rx EXCEPT !["travel"].receive_offset = m.offset + d]
    BY <1>9 DEF LocalWriteFails
  <2>4. m.offset = rx["travel"].receive_offset /\ TravelFails("local TCP failed")
    BY <1>9 DEF LocalWriteFails
  <2>5. tx' = tx /\ home' = home /\ travel'.phase = "failed" /\ travel.phase = "running"
    BY <1>9, <1>t, <1>p DEF LocalWriteFails, TravelFails, TravelState, Arrives
  <2>o. m.offset = rx["travel"].receive_offset BY <2>4
  <2>d. d \in Nat /\ d <= m.len /\ (rx["travel"].remote_eof => d = 0) BY <2>2, <2>3
  <2> HIDE DEF m
  <2> DEFINE n == m.offset + d
  <2>6. n \in rx["travel"].receive_offset..tx["home"].send_offset
    <3>1. /\ n \in Nat /\ rx["travel"].receive_offset <= n
          /\ n <= tx["home"].send_offset
      <4>1. tx["home"].send_offset \in Nat BY <1>t, Fields
      <4> QED BY <2>2, <2>o, <2>d, <4>1
    <3> QED BY <1>t, <3>1, Fields
  <2>7. rx["travel"].remote_eof => n = rx["travel"].receive_offset
    BY <2>2, <2>o, <2>d
  <2>8. rx' = [rx EXCEPT !["travel"].receive_offset = n] BY <2>3
  <2> HIDE DEF n
  <2>9. CASE rx["travel"].remote_eof
    <3>1. rx' = rx BY <1>t, <2>7, <2>8, <2>9 DEF RxState
    <3> QED BY <2>4, <2>5, <3>1, TravelFailsStream
  <2>10. CASE ~rx["travel"].remote_eof
    <3>1. /\ rx'["travel"].receive_offset = n /\ rx'["home"] = rx["home"]
          /\ rx'["travel"].remote_eof = rx["travel"].remote_eof
      BY <1>t, <2>8 DEF RxState
    <3>2. \A x \in Sides : SameWritten(x) /\ SameClosed(x) /\ SameEof(x)
                           /\ (x # "travel" => SameDelivered(x))
      BY <2>5, <3>1 DEF SameWritten, SameClosed, SameEof, SameDelivered, Sides
    <3>3. /\ Outcome("travel") = "running" /\ Outcome("travel")' = "failed"
          /\ \A x \in Sides : x # "travel" => SameOutcome(x)
      BY <2>5 DEF Outcome, SameOutcome, HomeOutcome
    <3> QED BY <1>t, <2>6, <2>10, <3>1, <3>2, <3>3, Fields, StreamDeliver DEF StreamStep
  <2> QED BY <2>9, <2>10
<1>10. ASSUME NEW c \in Carriers,
              TravelDuplicate(c) \/ TravelAck(c) \/ TravelFin(c) \/ TravelFinAck(c)
       PROVE  StreamStep
  BY <1>10, <1>t, SharedStream DEF TravelDuplicate, TravelAck, TravelFin, TravelFinAck
<1>11. ASSUME NEW len \in SegLens, LocalData(len) PROVE StreamStep
  BY <1>11, <1>t, SharedStream DEF LocalData
<1>12. CASE LocalEof BY <1>12, <1>t, SharedStream DEF LocalEof
<1>13. CASE RecoveryTimePasses BY <1>13, <1>s, <1>t DEF RecoveryTimePasses, TravelState
<1> QED
  BY <1>1, <1>2, <1>3, <1>4, <1>5, <1>6, <1>7, <1>8, <1>9, <1>10, <1>11, <1>12, <1>13
  DEF TravelNext

\* Home's flow ends, completed or not.
LEMMA HomeEndsStream ==
  ASSUME TypeOK, NoHomeYet, NEW outcome, NEW links, HomeEnds(outcome, links),
         home.phase # "absent", outcome = "finished" => \A x \in Sides : rx[x].remote_eof
  PROVE  StreamStep
<1>1. /\ home'.phase = "absent" /\ home'.outcome = outcome /\ home'.inc = home.inc
      /\ tx' = tx /\ rx' = rx /\ travel' = travel /\ home.inc # 0
  BY DEF HomeEnds, TypeOK, HomeState, NoHomeYet
<1>2. Outcome("home") = "running" BY DEF Outcome, HomeOutcome
<1>3. Outcome("home")' = IF outcome = "finished" THEN "finished" ELSE "failed"
  BY <1>1 DEF Outcome, HomeOutcome
<1>4. \A x \in Sides : x # "home" => SameOutcome(x) BY <1>1 DEF SameOutcome, Outcome, Sides
<1> QED BY <1>1, <1>2, <1>3, <1>4, SameTransferState, StreamEnds DEF StreamStep, Sides

LEMMA HomeFlowStream ==
  ASSUME TypeOK, LiveOK, NoHomeYet, HomeFlowNext
  PROVE  StreamStep
<1>t. /\ tx \in [Sides -> TxState] /\ rx \in [Sides -> RxState] /\ home \in HomeState
      /\ inbox \in Boxes /\ "travel" \in Sides /\ "home" \in Sides
      /\ Peer("travel") = "home" /\ Peer("home") = "travel"
  BY DEF TypeOK, Boxes, Sides, Peer
<1>p. Polls("home") => home.phase = "running" BY DEF Polls
<1>s. ASSUME tx' = tx, rx' = rx, travel' = travel,
             home' = home \/ (home.phase # "absent" /\ home'.phase # "absent")
      PROVE  StreamStep
  BY <1>s, SameTransferState, SameOutcomes, StreamStutter DEF StreamStep
<1>f. ASSUME NEW outcome, HomeFails(outcome), home.phase # "absent", outcome # "finished"
      PROVE  StreamStep
  BY <1>f, HomeEndsStream DEF HomeFails
<1>1. ASSUME NEW c \in Carriers, Admit(c) \/ HomeRaceWon(c) \/ HomeCarrierClosed(c)
      PROVE  StreamStep
  <2>1. home.phase = "running" /\ home'.phase = home.phase
    BY <1>1, <1>t, <1>p DEF Admit, HomeRaceWon, HomeCarrierClosed, Arrives, HomeState
  <2> QED BY <1>1, <1>s, <2>1 DEF Admit, HomeRaceWon, HomeCarrierClosed
<1>2. ASSUME NEW c \in Carriers, AdmitFails(c) PROVE StreamStep
  BY <1>2, <1>f, <1>p DEF AdmitFails
<1>3. ASSUME NEW c \in Carriers, HomeRaceLost(c) \/ HomeObjects(c) PROVE StreamStep
  BY <1>3, <1>s DEF HomeRaceLost, HomeObjects
<1>4. ASSUME NEW c \in Carriers,
             HomeDuplicate(c) \/ HomeFin(c) \/ HomeFinAck(c)
      PROVE  StreamStep
  BY <1>4, <1>t, SharedStream DEF HomeDuplicate, HomeFin, HomeFinAck
<1>5. ASSUME NEW c \in Carriers, HomeData(c) PROVE StreamStep
  <2> DEFINE m == Head(inbox["home"][c])
  <2>1. m \in Frame /\ FrameOK(tx["travel"], rx["travel"], m)
    BY <1>5, <1>t, HeadOK DEF HomeData, Arrives
  <2>2. m.offset \in Nat /\ m.len \in Nat /\ End(m) <= tx["travel"].send_offset
    BY <1>5, <2>1, FrameFields DEF HomeData, Arrives, FrameOK
  <2>3. rx' = [rx EXCEPT !["home"].receive_offset = End(m)] BY <1>5 DEF HomeData
  <2>4. m.offset = rx["home"].receive_offset BY <1>5 DEF HomeData
  <2>5. tx' = tx /\ home' = home /\ travel' = travel /\ home.phase = "running"
    BY <1>5, <1>p DEF HomeData, Arrives
  <2>6. End(m) \in rx["home"].receive_offset..tx["travel"].send_offset
    BY <1>t, <2>2, <2>4, Fields DEF End
  <2> HIDE DEF m
  <2>7. CASE rx["home"].remote_eof
    <3>1. rx["home"].receive_offset = tx["travel"].send_offset
      BY <1>t, <2>7 DEF LiveOK, TransferOK
    <3>2. End(m) = rx["home"].receive_offset BY <1>t, <2>6, <3>1, Fields
    <3>3. rx' = rx BY <1>t, <2>3, <3>2 DEF RxState
    <3> QED BY <1>s, <2>5, <3>3
  <2>8. CASE ~rx["home"].remote_eof
    <3>1. /\ rx'["home"].receive_offset = End(m) /\ rx'["travel"] = rx["travel"]
          /\ rx'["home"].remote_eof = rx["home"].remote_eof
      BY <1>t, <2>3 DEF RxState
    <3>2. \A x \in Sides : SameWritten(x) /\ SameClosed(x) /\ SameEof(x)
                           /\ (x # "home" => SameDelivered(x))
      BY <2>5, <3>1 DEF SameWritten, SameClosed, SameEof, SameDelivered, Sides
    <3>3. Outcome("home") = "running" /\ \A x \in Sides : SameOutcome(x)
      BY <2>5, SameOutcomes DEF Outcome, HomeOutcome
    <3> QED BY <1>t, <2>6, <2>8, <3>1, <3>2, <3>3, Fields, StreamDeliver DEF StreamStep
  <2> QED BY <2>7, <2>8
<1>6. CASE TargetConnects
  <2>1. home.phase # "absent" /\ home'.phase # "absent"
    BY <1>6, <1>t DEF TargetConnects, HomeState
  <2> QED BY <1>6, <1>s, <2>1 DEF TargetConnects
<1>7. ASSUME NEW len \in SegLens, TargetData(len) PROVE StreamStep
  BY <1>7, <1>t, SharedStream DEF TargetData
<1>8. CASE TargetEof BY <1>8, <1>t, SharedStream DEF TargetEof
<1>9. CASE DetachExpires \/ HomeStops \/ HomeDrainTimesOut
  <2>1. home.phase # "absent" BY <1>9, <1>p DEF DetachExpires, HomeStops, HomeDrainTimesOut
  <2>2. \/ HomeFails("detached-flow timeout expired") \/ HomeFails("stopped")
        \/ HomeFails("drain timed out")
    BY <1>9 DEF DetachExpires, HomeStops, HomeDrainTimesOut
  <2> QED BY <1>f, <2>1, <2>2
<1>10. CASE HomeCompletes
  <2>1. \A x \in Sides : rx[x].remote_eof BY <1>10, <1>t, CompleteOK DEF HomeCompletes
  <2>2. home.phase # "absent" BY <1>10 DEF HomeCompletes
  <2> QED BY <1>10, <2>1, <2>2, HomeEndsStream DEF HomeCompletes
<1>11. ASSUME NEW c \in Carriers, HomeAck(c) PROVE StreamStep
  <2>1. CASE AckSplits("home", c)
    <3>1. home.phase # "absent" BY <2>1, <1>p DEF AckSplits, Arrives
    <3> QED BY <1>11, <1>f, <2>1, <3>1 DEF HomeAck
  <2>2. CASE ~AckSplits("home", c) BY <1>11, <1>t, <2>2, SharedStream DEF HomeAck
  <2> QED BY <2>1, <2>2
<1> QED BY <1>1, <1>2, <1>3, <1>4, <1>5, <1>6, <1>7, <1>8, <1>9, <1>10, <1>11 DEF HomeFlowNext

\* The first Carrier of the Flow reaches Home; a later flow would be another one.
LEMMA AttachStream ==
  ASSUME TypeOK, NoHomeYet, SoleHome', NEW queued, Attaches(queued), travel' = travel
  PROVE  StreamStep
<1>1. home \in HomeState /\ home.inc \in Nat BY FlowConstants DEF TypeOK, HomeState
<1>2. CASE home.phase # "absent"
  <2>1. home'.phase = home.phase /\ tx' = tx /\ rx' = rx
    BY <1>1, <1>2 DEF Attaches, HomeState
  <2> QED BY <1>2, <2>1, SameTransferState, SameOutcomes, StreamStutter DEF StreamStep
<1>3. CASE home.phase = "absent"
  <2>1. /\ home' = [home EXCEPT !.phase = "connecting", !.inc = home.inc + 1,
                      !.outcome = "none", !.incoming = queued,
                      !.past = IF home.inc = 0 THEN {} ELSE home.past \cup {rx["home"]}]
        /\ tx' = [tx EXCEPT !["home"] = NewTx] /\ rx' = [rx EXCEPT !["home"] = NewRx]
    BY <1>3 DEF Attaches
  <2>2. home'.inc = home.inc + 1 /\ home'.phase = "connecting" BY <1>1, <2>1 DEF HomeState
  <2>3. home.inc = 0 BY <1>1, <2>2 DEF SoleHome
  <2>4. tx["home"] = NewTx /\ rx["home"] = NewRx BY <2>3 DEF NoHomeYet
  <2>5. tx' = tx /\ rx' = rx BY <2>1, <2>4 DEF TypeOK
  <2>6. \A x \in Sides : SameOutcome(x)
    BY <2>2, <2>3 DEF SameOutcome, Outcome, HomeOutcome
  <2> QED BY <2>5, <2>6, SameTransferState, StreamStutter DEF StreamStep
<1> QED BY <1>2, <1>3

LEMMA NextStream ==
  ASSUME DeliveryInv, SoleHome, SoleHome', [Next]_vars
  PROVE  [Stream!Next]_(Stream!stream)
<1>1. TypeOK /\ LiveOK /\ NoHomeYet BY DEF DeliveryInv, LiveOK
<1>2. CASE TravelNext BY <1>1, <1>2, TravelStream DEF StreamStep
<1>3. CASE HomeFlowNext BY <1>1, <1>3, HomeFlowStream DEF StreamStep
<1>4. ASSUME NEW c \in Carriers, Attach(c) \/ AttachNoSlot(c) PROVE StreamStep
  BY <1>1, <1>4, AttachStream DEF Attach, AttachNoSlot
<1>5. CASE UNCHANGED <<tx, rx, travel, home>>
  BY <1>5, SameTransferState, SameOutcomes, StreamStutter
<1>6. ASSUME NEW c \in Carriers, AttachRejected(c) \/ Break(c)
      PROVE  UNCHANGED <<tx, rx, travel, home>>
  BY <1>6 DEF AttachRejected, Break
<1>7. CASE HomeNext BY <1>3, <1>4, <1>5, <1>6, <1>7 DEF HomeNext, HomeFlowNext, StreamStep
<1> QED BY <1>2, <1>5, <1>6, <1>7 DEF Next, vars

\* While Home does not start over, the two endpoints and everything between them
\* are one full-duplex byte stream: in order, once each, EOF last, completion only
\* when both directions arrived.
THEOREM ImplementsStream == Spec /\ []SoleHome => IsStream
<1>1. DeliveryInv /\ SoleHome /\ SoleHome' /\ [Next]_vars => [Stream!Next]_(Stream!stream)
  BY NextStream
<1> QED BY <1>1, StreamInit, DeliveryInvariant, PTL DEF Spec, IsStream, Stream!Spec
=============================================================================
