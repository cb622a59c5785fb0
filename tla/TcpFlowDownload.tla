--------------------------- MODULE TcpFlowDownload ---------------------------
(***************************************************************************)
(* A Flow that only downloads survives every race and every handover, for  *)
(* every value of the constants.                                           *)
(*                                                                         *)
(* An upload can be lost to an OpenOk or a segment that crosses with a     *)
(* handover (RaceKeepsFlow).  That a download is not needs the order in    *)
(* which each Carrier delivers, in both directions: on a candidate the     *)
(* answer that decides the race comes before any data, so Travel           *)
(* acknowledges on its active Carrier alone (SelectionOK); so no           *)
(* acknowledgement reaches Home after a later one (AcksOK); so Home takes  *)
(* all it reads and closes nothing, and Travel meets no frame that it      *)
(* would give the Flow up for (DownloadOK).                                *)
(***************************************************************************)
EXTENDS TcpFlowHandover

-----------------------------------------------------------------------------
(* The selection of a race.                                                 *)

\* Answers to race r among the first k frames of q; data comes after one.
Answers(m, r) == IsAnswer(m) /\ m.race = r
Answered(q, k, r) == \E i \in 1..k : Answers(q[i], r)
AnswerFirst(q, r) == \A i \in 1..Len(q) : q[i].type = "Data" => Answered(q, i - 1, r)

\* A queue without some types of frames.
Without(q, types) == \A i \in 1..Len(q) : q[i].type \notin types

\* Every Race among the frames of q is of race r.
AskedOnly(q, r) == \A i \in 1..Len(q) : q[i].type = "Race" => q[i].race = r

\* On a candidate Home hears of the current race only, and Travel reads the answer
\* before any data.
CandidateOK(c) ==
    LET q == inbox["travel"][c] IN
    /\ AskedOnly(inbox["home"][c], travel.race)
    /\ AnswerFirst(q, travel.race)
    /\ Listening(c) => Answered(q, Len(q), travel.race)

\* On a Carrier that is still being opened Travel has said nothing.
OpeningOK(c) ==
    /\ inbox["home"][c] = <<>>
    /\ home.active # c
    /\ Without(inbox["travel"][c], {"Data"})

SelectionOn(c) ==
    /\ c \in travel.carriers \ {travel.active} => travel.racing /\ CandidateOK(c)
    /\ c \in travel.opening => OpeningOK(c)
SelectionOK == \A c \in Carriers : SelectionOn(c)

LEMMA TailItems ==
  ASSUME NEW q \in Seq(Frame), q # <<>>
  PROVE  /\ Len(q) \in Nat /\ Len(q) >= 1 /\ Len(Tail(q)) = Len(q) - 1
         /\ Head(q) = q[1] /\ Tail(q) \in Seq(Frame)
         /\ \A i \in 1..Len(Tail(q)) : Tail(q)[i] = q[i + 1] /\ i + 1 \in 1..Len(q)
         /\ \A i \in 1..Len(q) : i # 1 => i - 1 \in 1..Len(Tail(q)) /\ q[i] = Tail(q)[i - 1]
<1> DEFINE p == Tail(q)
<1>1. /\ Len(p) = Len(q) - 1 /\ Len(q) \in Nat /\ Len(q) >= 1 /\ p \in Seq(Frame)
      /\ \A i \in 1..Len(p) : p[i] = q[i + 1]
      /\ Head(q) = q[1]
  BY HeadTailProperties, EmptySeq, LenProperties
<1> HIDE DEF p
<1>2. ASSUME NEW i \in 1..Len(q), i # 1
      PROVE  i - 1 \in 1..Len(p) /\ q[i] = p[i - 1]
  <2>1. i - 1 \in 1..Len(p) /\ (i - 1) + 1 = i BY <1>1, <1>2
  <2> QED BY <1>1, <2>1
<1>3. \A i \in 1..Len(p) : i + 1 \in 1..Len(q) BY <1>1
<1> QED BY <1>1, <1>2, <1>3 DEF p

LEMMA ConcatItems ==
  ASSUME NEW q \in Seq(Frame), NEW f \in Seq(Frame)
  PROVE  /\ Len(q) \in Nat /\ Len(f) \in Nat /\ Len(q \o f) = Len(q) + Len(f)
         /\ q \o f \in Seq(Frame)
         /\ \A i \in 1..Len(q) : i \in 1..Len(q \o f) /\ (q \o f)[i] = q[i]
         /\ \A i \in 1..Len(f) : Len(q) + i \in 1..Len(q \o f) /\ (q \o f)[Len(q) + i] = f[i]
         /\ \A k \in 1..Len(q \o f) :
                \/ k \in 1..Len(q)
                \/ \E i \in 1..Len(f) : k = Len(q) + i
<1> DEFINE p == q \o f
<1>1. /\ Len(q) \in Nat /\ Len(f) \in Nat /\ Len(p) = Len(q) + Len(f) /\ p \in Seq(Frame)
      /\ \A i \in 1..(Len(q) + Len(f)) : p[i] = IF i <= Len(q) THEN q[i] ELSE f[i - Len(q)]
  BY ConcatProperties, LenProperties
<1> HIDE DEF p
<1>2. \A i \in 1..Len(q) : i \in 1..Len(p) /\ p[i] = q[i] BY <1>1
<1>3. ASSUME NEW i \in 1..Len(f) PROVE Len(q) + i \in 1..Len(p) /\ p[Len(q) + i] = f[i]
  <2>1. Len(q) + i \in 1..(Len(q) + Len(f)) /\ ~(Len(q) + i <= Len(q)) /\ Len(q) + i - Len(q) = i
    BY <1>1
  <2> QED BY <1>1, <2>1
<1>4. ASSUME NEW k \in 1..Len(p), k \notin 1..Len(q) PROVE \E i \in 1..Len(f) : k = Len(q) + i
  <2>1. k - Len(q) \in 1..Len(f) /\ k = Len(q) + (k - Len(q)) BY <1>1, <1>4
  <2> QED BY <2>1
<1> QED BY <1>1, <1>2, <1>3, <1>4 DEF p

LEMMA AnswerTail ==
  ASSUME NEW q \in Seq(Frame), q # <<>>, NEW r, AnswerFirst(q, r), ~Answers(Head(q), r)
  PROVE  /\ AnswerFirst(Tail(q), r) /\ Head(q).type # "Data"
         /\ Answered(q, Len(q), r) => Answered(Tail(q), Len(Tail(q)), r)
<1> DEFINE p == Tail(q)
<1>1. /\ Len(q) \in Nat /\ Len(q) >= 1 /\ Len(p) = Len(q) - 1 /\ Head(q) = q[1]
      /\ \A i \in 1..Len(p) : p[i] = q[i + 1] /\ i + 1 \in 1..Len(q)
      /\ \A i \in 1..Len(q) : i # 1 => i - 1 \in 1..Len(p) /\ q[i] = p[i - 1]
  BY TailItems
<1> HIDE DEF p
<1>2. ASSUME NEW k \in Nat, k <= Len(p), Answered(q, k + 1, r) PROVE Answered(p, k, r)
  <2>1. PICK i \in 1..(k + 1) : Answers(q[i], r) BY <1>2 DEF Answered
  <2>2. i \in 1..Len(q) /\ i # 1 BY <1>1, <1>2, <2>1
  <2>3. i - 1 \in 1..k /\ q[i] = p[i - 1] BY <1>1, <2>1, <2>2
  <2> QED BY <2>1, <2>3 DEF Answered
<1>3. ASSUME NEW i \in 1..Len(p), p[i].type = "Data" PROVE Answered(p, i - 1, r)
  <2>1. i + 1 \in 1..Len(q) /\ q[i + 1].type = "Data" BY <1>1, <1>3
  <2>2. Answered(q, (i + 1) - 1, r) BY <2>1 DEF AnswerFirst
  <2>3. (i + 1) - 1 = (i - 1) + 1 /\ i - 1 \in Nat /\ i - 1 <= Len(p) BY <1>1
  <2> QED BY <1>2, <2>2, <2>3
<1>4. q[1].type # "Data"
  <2>1. 1 \in 1..Len(q) /\ ~(\E i \in 1..(1 - 1) : Answers(q[i], r)) BY <1>1
  <2> QED BY <2>1 DEF AnswerFirst, Answered
<1>5. ASSUME Answered(q, Len(q), r) PROVE Answered(p, Len(p), r)
  <2>1. Len(q) = Len(p) + 1 /\ Len(p) \in Nat BY <1>1
  <2> QED BY <1>2, <1>5, <2>1
<1> QED BY <1>1, <1>3, <1>4, <1>5 DEF AnswerFirst, p

LEMMA AnswerAppend ==
  ASSUME NEW q \in Seq(Frame), NEW f \in Seq(Frame), NEW r, AnswerFirst(q, r),
         Answered(q, Len(q), r) \/ AnswerFirst(f, r)
  PROVE  /\ AnswerFirst(q \o f, r)
         /\ Answered(q, Len(q), r) \/ Answered(f, Len(f), r) =>
                Answered(q \o f, Len(q \o f), r)
<1> DEFINE p == q \o f
<1>1. /\ Len(q) \in Nat /\ Len(f) \in Nat /\ Len(p) = Len(q) + Len(f)
      /\ \A i \in 1..Len(q) : i \in 1..Len(p) /\ p[i] = q[i]
      /\ \A i \in 1..Len(f) : Len(q) + i \in 1..Len(p) /\ p[Len(q) + i] = f[i]
      /\ \A k \in 1..Len(p) : k \in 1..Len(q) \/ \E i \in 1..Len(f) : k = Len(q) + i
  BY ConcatItems
<1> HIDE DEF p
<1>2. ASSUME NEW k \in Nat, k <= Len(q), NEW l \in Nat, k <= l, Answered(q, k, r)
      PROVE  Answered(p, l, r)
  <2>1. PICK i \in 1..k : Answers(q[i], r) BY <1>2 DEF Answered
  <2>2. i \in 1..Len(q) /\ i \in 1..l BY <1>1, <1>2
  <2> QED BY <1>1, <2>1, <2>2 DEF Answered
<1>3. ASSUME NEW k \in Nat, k <= Len(f), Answered(f, k, r) PROVE Answered(p, Len(q) + k, r)
  <2>1. PICK i \in 1..k : Answers(f[i], r) BY <1>3 DEF Answered
  <2>2. i \in 1..Len(f) /\ Len(q) + i \in 1..(Len(q) + k) BY <1>1, <1>3
  <2> QED BY <1>1, <2>1, <2>2 DEF Answered
<1>4. ASSUME NEW k \in 1..Len(p), p[k].type = "Data" PROVE Answered(p, k - 1, r)
  <2>1. CASE k \in 1..Len(q)
    <3>1. Answered(q, k - 1, r) BY <1>1, <1>4, <2>1 DEF AnswerFirst
    <3>2. k - 1 \in Nat /\ k - 1 <= Len(q) /\ k - 1 <= k - 1 BY <1>1, <2>1
    <3> QED BY <1>2, <3>1, <3>2
  <2>2. ASSUME NEW i \in 1..Len(f), k = Len(q) + i PROVE Answered(p, k - 1, r)
    <3>0. k - 1 = Len(q) + (i - 1) /\ i - 1 \in Nat /\ i - 1 <= Len(f) /\ k - 1 \in Nat
          /\ Len(q) <= k - 1
      BY <1>1, <2>2
    <3>1. CASE Answered(q, Len(q), r) BY <1>1, <1>2, <3>0, <3>1
    <3>2. CASE AnswerFirst(f, r)
      <4>1. f[i].type = "Data" BY <1>1, <1>4, <2>2
      <4>2. Answered(f, i - 1, r) BY <3>2, <4>1 DEF AnswerFirst
      <4> QED BY <1>3, <3>0, <4>2
    <3> QED BY <3>1, <3>2
  <2> QED BY <1>1, <2>1, <2>2
<1>5. ASSUME Answered(q, Len(q), r) \/ Answered(f, Len(f), r) PROVE Answered(p, Len(p), r)
  <2>1. /\ Len(p) \in Nat /\ Len(q) <= Len(p) /\ Len(p) = Len(q) + Len(f)
        /\ Len(q) \in Nat /\ Len(q) <= Len(q) /\ Len(f) \in Nat /\ Len(f) <= Len(f)
    BY <1>1
  <2>2. CASE Answered(q, Len(q), r) BY <1>2, <2>1, <2>2
  <2>3. CASE Answered(f, Len(f), r) BY <1>3, <2>1, <2>3
  <2> QED BY <1>5, <2>2, <2>3
<1> QED BY <1>4, <1>5 DEF AnswerFirst, p

LEMMA AskedTail ==
  ASSUME NEW q \in Seq(Frame), q # <<>>, NEW r, NEW types
  PROVE  /\ AskedOnly(q, r) => AskedOnly(Tail(q), r)
         /\ Without(q, types) => Without(Tail(q), types)
<1>1. \A i \in 1..Len(Tail(q)) : Tail(q)[i] = q[i + 1] /\ i + 1 \in 1..Len(q) BY TailItems
<1> QED BY <1>1 DEF AskedOnly, Without

LEMMA AskedAppend ==
  ASSUME NEW q \in Seq(Frame), NEW f \in Seq(Frame), NEW r,
         AskedOnly(q, r), AskedOnly(f, r)
  PROVE  AskedOnly(q \o f, r)
<1>1. /\ \A i \in 1..Len(q) : (q \o f)[i] = q[i]
      /\ \A i \in 1..Len(f) : (q \o f)[Len(q) + i] = f[i]
      /\ \A k \in 1..Len(q \o f) : k \in 1..Len(q) \/ \E i \in 1..Len(f) : k = Len(q) + i
  BY ConcatItems
<1> QED BY <1>1 DEF AskedOnly

-----------------------------------------------------------------------------
(* What a step of Travel does to one Carrier.                               *)

IsAck(m) == m.type \in {"Ack", "Duplicate"}

\* Travel repeats segments, asks for its race, and acknowledges data where it comes from.
TravelSays(d) ==
    \/ inbox'["home"][d] = inbox["home"][d]
    \/ \E f \in Seq(Frame) :
           /\ inbox'["home"][d] = inbox["home"][d] \o f
           /\ (link[d] = "up" /\ d \in travel.carriers) \/ Opened(d)
           /\ AskedOnly(f, travel'.race)
           /\ \A i \in 1..Len(f) : IsAck(f[i]) =>
                  /\ f[i].next_offset = rx'["travel"].receive_offset
                  /\ d \in travel.carriers /\ link[d] = "up" /\ Arrives("travel", d, {"Data"})

\* It takes a frame that does not decide its race, or forgets a Carrier that is gone.
TravelHears(d) ==
    LET q == inbox["travel"][d] IN
    \/ inbox'["travel"][d] = q
    \/ /\ q # <<>> /\ inbox'["travel"][d] = Tail(q)
       /\ travel.racing => ~Answers(Head(q), travel.race)
    \/ inbox'["travel"][d] = <<>> /\ link'[d] # "up"

\* It settles a race, starts one, lets d join, or leaves d where it was.
TravelSelects(d) ==
    \/ travel'.carriers \subseteq {travel'.active} /\ travel'.opening = {}
    \/ /\ ~travel.racing
       /\ travel'.carriers = travel.carriers /\ travel'.active = travel.active
       /\ d \in travel'.opening => link[d] = "idle"
       /\ inbox'["travel"][d] = inbox["travel"][d]
    \/ Opened(d) /\ inbox'["travel"][d] = Tail(inbox["travel"][d])
    \/ /\ travel'.race = travel.race
       /\ travel'.opening \subseteq travel.opening
       /\ d \in travel'.carriers \ {travel'.active} =>
              d \in travel.carriers \ {travel.active} /\ (travel.racing => travel'.racing)
       /\ TravelHears(d)

TravelMove(d) ==
    /\ home' = home /\ tx'["home"] = tx["home"]
    /\ link'[d] = "up" => link[d] = "up" /\ (d = travel.active => d = travel'.active)
    /\ TravelSays(d) /\ TravelSelects(d)

\* The part of a box that Home reads.
LEMMA TravelSendsOn ==
  ASSUME NEW box \in Boxes, NEW held, held \subseteq Carriers, NEW c, NEW f,
         inbox' = Sent(box, "travel", held, c, f), NEW d \in Carriers
  PROVE  inbox'["home"][d] =
             IF d = c /\ c \in held /\ link[c] = "up" THEN box["home"][d] \o f
             ELSE box["home"][d]
<1>1. "travel" \in Sides /\ "home" \in Sides /\ Peer("travel") = "home" BY DEF Sides, Peer
<1>2. CASE c \in held /\ link[c] = "up" BY <1>1, <1>2 DEF Sent, Boxes
<1>3. CASE ~(c \in held /\ link[c] = "up") BY <1>3 DEF Sent
<1> QED BY <1>2, <1>3

LEMMA HomeConsumed ==
  ASSUME inbox \in Boxes, NEW c \in Carriers
  PROVE  /\ Consumed("travel", c)["home"] = inbox["home"]
         /\ \A d \in Carriers : Consumed("home", c)["home"][d] =
                IF d = c THEN Tail(inbox["home"][d]) ELSE inbox["home"][d]
         /\ Deaf("travel")["home"] = inbox["home"]
         /\ \A d \in Carriers : Deaf("home")["home"][d] = <<>>
  BY DEF Consumed, Deaf, Boxes, Sides

LEMMA RetransmissionPlain ==
  ASSUME NEW t \in TxState, NEW k \in Nat, NEW i \in 1..Len(Retransmission(t, k))
  PROVE  Retransmission(t, k)[i].type \in {"Data", "Fin"}
<1> DEFINE D == [n \in 1..Len(t.unacked) |-> Data(t.unacked[n], k)]
           F == IF t.local_eof THEN <<Fin(t.send_offset)>> ELSE <<>>
<1>1. Len(t.unacked) \in Nat /\ t.unacked \in Seq(Segment) /\ t.send_offset \in Nat BY QueueFields
<1>2. \A n \in 1..Len(t.unacked) : Data(t.unacked[n], k) \in Frame
  BY <1>1, FrameTypes, ElementOfSeq
<1>3. D \in Seq(Frame) /\ Len(D) = Len(t.unacked) BY <1>1, <1>2, IsASeq
<1>4. F \in Seq(Frame) BY <1>1, FrameTypes
<1>5. \A n \in 1..Len(D) : D[n].type = "Data" BY <1>3 DEF Data
<1>6. \A n \in 1..Len(F) : F[n].type = "Fin" BY DEF Fin
<1>7. Retransmission(t, k) = D \o F BY DEF Retransmission
<1> HIDE DEF D, F
<1>8. i \in 1..Len(D \o F) BY <1>7
<1>9. /\ \A n \in 1..Len(D) : (D \o F)[n] = D[n]
      /\ \A n \in 1..Len(F) : (D \o F)[Len(D) + n] = F[n]
      /\ i \in 1..Len(D) \/ \E n \in 1..Len(F) : i = Len(D) + n
  BY <1>3, <1>4, <1>8, ConcatItems
<1> QED BY <1>5, <1>6, <1>7, <1>9

\* Sending on one of Travel's Carriers.
LEMMA TravelSaysSent ==
  ASSUME NEW box \in Boxes, box["home"] = inbox["home"], travel.carriers \subseteq Carriers,
         NEW held, held \subseteq travel.carriers,
         NEW c, NEW f \in Seq(Frame), inbox' = Sent(box, "travel", held, c, f),
         AskedOnly(f, travel'.race),
         \A i \in 1..Len(f) : IsAck(f[i]) =>
             f[i].next_offset = rx'["travel"].receive_offset /\ Arrives("travel", c, {"Data"}),
         NEW d \in Carriers
  PROVE  inbox'["travel"] = box["travel"] /\ TravelSays(d)
<1>1. held \subseteq Carriers OBVIOUS
<1>2. inbox'["travel"] = box["travel"] BY <1>1, TravelSends
<1>3. inbox'["home"][d] = IF d = c /\ c \in held /\ link[c] = "up" THEN inbox["home"][d] \o f
                          ELSE inbox["home"][d]
  BY <1>1, TravelSendsOn
<1> QED BY <1>2, <1>3 DEF TravelSays

LEMMA TravelSaysOne ==
  ASSUME NEW box \in Boxes, box["home"] = inbox["home"], travel.carriers \subseteq Carriers,
         NEW held, held \subseteq travel.carriers,
         NEW c, NEW f \in Frame, inbox' = Sent(box, "travel", held, c, <<f>>),
         f.type = "Race" => f.race = travel'.race,
         IsAck(f) =>
             f.next_offset = rx'["travel"].receive_offset /\ Arrives("travel", c, {"Data"}),
         NEW d \in Carriers
  PROVE  inbox'["travel"] = box["travel"] /\ TravelSays(d)
<1>1. PICK fs : fs = <<f>> OBVIOUS
<1>2. fs \in Seq(Frame) /\ \A i \in 1..Len(fs) : fs[i] = f BY <1>1
<1>3. AskedOnly(fs, travel'.race) BY <1>2 DEF AskedOnly
<1>4. inbox' = Sent(box, "travel", held, c, fs) BY <1>1
<1>5. \A i \in 1..Len(fs) : IsAck(fs[i]) =>
          fs[i].next_offset = rx'["travel"].receive_offset /\ Arrives("travel", c, {"Data"})
  BY <1>2
<1> QED BY <1>2, <1>3, <1>4, <1>5, TravelSaysSent

\* An answer to a frame that is not an answer itself.
LEMMA TravelReplies ==
  ASSUME TypeOK, NEW c \in Carriers, inbox["travel"][c] # <<>>,
         ~IsAnswer(Head(inbox["travel"][c])),
         NEW f \in Frame, inbox' = Reply("travel", c, f), f.type # "Race",
         IsAck(f) =>
             f.next_offset = rx'["travel"].receive_offset /\ Arrives("travel", c, {"Data"}),
         NEW d \in Carriers
  PROVE  TravelHears(d) /\ TravelSays(d)
<1>1. inbox \in Boxes /\ "travel" \in Sides BY DEF TypeOK, Boxes, Sides
<1>2. /\ Consumed("travel", c) \in Boxes /\ Consumed("travel", c)["home"] = inbox["home"]
      /\ Consumed("travel", c)["travel"][d] =
             IF d = c THEN Tail(inbox["travel"][d]) ELSE inbox["travel"][d]
  BY <1>1, ConsumedType, TravelConsumed, HomeConsumed
<1>3. inbox' = Sent(Consumed("travel", c), "travel", travel.carriers, c, <<f>>)
  BY ReplyIsSent DEF Holds
<1>4. travel.carriers \subseteq Carriers BY DEF TypeOK, TravelState
<1>5. inbox'["travel"] = Consumed("travel", c)["travel"] /\ TravelSays(d)
  BY <1>2, <1>3, <1>4, TravelSaysOne
<1> QED BY <1>2, <1>5 DEF TravelHears, Answers

LEMMA TravelMoves ==
  ASSUME TypeOK, LinksOK, TravelNext, NEW d \in Carriers
  PROVE  TravelMove(d)
<1>t. /\ travel \in TravelState /\ inbox \in Boxes /\ rx \in [Sides -> RxState]
      /\ tx \in [Sides -> TxState]
      /\ "travel" \in Sides /\ "home" \in Sides
      /\ travel.carriers \subseteq Carriers /\ travel.opening \subseteq Carriers
      /\ travel.carriers \cap travel.opening = {}
      /\ ~travel.racing => travel.opening = {}
      /\ travel.race \in Nat /\ tx["travel"].send_acked \in Nat /\ tx["travel"].send_offset \in Nat
      /\ rx["travel"].receive_offset \in Nat
      /\ TravelLinks(travel, link) /\ d # NoCarrier
  BY FlowConstants DEF TypeOK, Boxes, Sides, TravelState, TravelLinks, LinksOK, RxState, TxState,
     Carriers
<1>u. link[d] = "up" => d \in travel.carriers \cup travel.opening BY <1>t DEF TravelLinks
<1>h. ASSUME NEW c \in Carriers, inbox["travel"][c] # <<>>
      PROVE  Head(inbox["travel"][c]) \in Frame
  BY <1>h, <1>t, ConsumedType
\* Most steps leave the race and the links alone.
<1>q. ASSUME home' = home, tx'["home"] = tx["home"], link' = link,
             travel'.race = travel.race, travel'.racing = travel.racing,
             travel'.active = travel.active, travel'.carriers = travel.carriers,
             travel'.opening = travel.opening, TravelHears(d), TravelSays(d)
      PROVE  TravelMove(d)
  BY <1>q DEF TravelMove, TravelSelects
<1>e. ASSUME NEW reason, TravelFails(reason) PROVE TravelMove(d)
  <2>1. /\ link' = Dropped(travel.carriers \cup travel.opening) /\ inbox' = Deaf("travel")
        /\ travel'.carriers = {} /\ travel'.opening = {} /\ home' = home /\ tx' = tx
    BY <1>e, <1>t DEF TravelFails, TravelState
  <2>2. link'[d] # "up" BY <1>u, <2>1 DEF Dropped
  <2>3. inbox'["home"] = inbox["home"] BY <1>t, <2>1, HomeConsumed
  <2> QED BY <2>1, <2>2, <2>3 DEF TravelMove, TravelSelects, TravelSays
<1>1. CASE TravelCompletes
  <2>1. /\ link' = Drained(travel.carriers) /\ inbox' = Deaf("travel") /\ ~travel.racing
        /\ travel'.carriers = {} /\ travel'.opening = travel.opening /\ home' = home /\ tx' = tx
    BY <1>1, <1>t DEF TravelCompletes, TravelState
  <2>2. travel.opening = {} BY <1>t, <2>1
  <2>3. link'[d] # "up" BY <1>u, <2>1, <2>2 DEF Drained
  <2>4. inbox'["home"] = inbox["home"] BY <1>t, <2>1, HomeConsumed
  <2> QED BY <2>1, <2>2, <2>3, <2>4 DEF TravelMove, TravelSelects, TravelSays
<1>2. CASE TravelDrainTimesOut \/ RecoveryExpires \/ TravelStops
  <2>1. \E reason : TravelFails(reason)
    BY <1>2 DEF TravelDrainTimesOut, RecoveryExpires, TravelStops
  <2> QED BY <1>e, <2>1
<1>3. ASSUME NEW S \in SUBSET Relays, StartRace(S) PROVE TravelMove(d)
  <2> DEFINE f == Race(travel.race + 1, tx["travel"].send_acked)
             opened == {<<travel.race + 1, r>> : r \in S}
  <2>1. /\ home' = home /\ tx' = tx /\ link'[d] = IF d \in opened THEN "opening" ELSE link[d]
        /\ ~travel.racing /\ travel'.opening = opened /\ travel'.race = travel.race + 1
        /\ travel'.carriers = travel.carriers /\ travel'.active = travel.active
        /\ inbox' = Sent(inbox, "travel", travel.carriers, travel.active, <<f>>)
    BY <1>3, <1>t DEF StartRace, TravelState
  <2>2. f \in Frame /\ f.type = "Race" /\ f.race = travel.race + 1
    BY <1>t, FrameTypes DEF Race
  <2>3. d \in opened => link[d] = "idle"
    <3>1. d \in opened => d[1] = travel.race + 1 OBVIOUS
    <3>2. d[1] > travel.race => link[d] = "idle" BY <1>t DEF TravelLinks
    <3> QED BY <1>t, <3>1, <3>2
  <2> HIDE DEF f, opened
  <2>4. inbox'["travel"] = inbox["travel"] /\ TravelSays(d)
    BY <1>t, <2>1, <2>2, TravelSaysOne DEF IsAck
  <2> QED BY <2>1, <2>3, <2>4 DEF TravelMove, TravelSelects
<1>4. CASE RaceTimesOut
  <2> DEFINE kept == travel.carriers \cap {travel.active}
             S == (travel.carriers \cup travel.opening) \ kept
  <2>1. /\ home' = home /\ tx' = tx /\ rx' = rx /\ link' = Dropped(S)
        /\ inbox'["home"] = inbox["home"]
        /\ travel'.carriers = kept /\ travel'.opening = {} /\ travel'.active = travel.active
    BY <1>4, <1>t DEF RaceTimesOut, Boxes, TravelState
  <2>2. link'[d] = "up" => link[d] = "up" BY <2>1 DEF Dropped
  <2> QED BY <2>1, <2>2 DEF TravelMove, TravelSelects, TravelSays
<1>5. ASSUME NEW c \in Carriers, Opened(c) PROVE TravelMove(d)
  <2> DEFINE ok == Head(inbox["travel"][c])
             f == Race(travel.race, ok.receive_offset)
  <2>1. /\ home' = home /\ rx' = rx /\ link' = link /\ travel.racing
        /\ inbox["travel"][c] # <<>> /\ ok.type = "OpenOk" /\ c \in travel.opening
        /\ inbox' = Sent(Consumed("travel", c), "travel", {c}, c, <<f>>)
        /\ travel'.race = travel.race /\ travel'.active = travel.active
        /\ travel'.carriers = travel.carriers \cup {c} /\ travel'.opening = travel.opening \ {c}
        /\ travel'.racing = travel.racing
    BY <1>5, <1>t DEF Opened, Arrives, TravelState
  <2>2. tx'["home"] = tx["home"] BY <1>5, <1>t DEF Opened
  <2>3. ok \in Frame /\ ok.receive_offset \in Nat BY <1>h, <2>1, FrameFields
  <2>4. PICK g \in Frame : g = f BY <1>t, <2>3, FrameTypes
  <2>5. g.type = "Race" /\ g.race = travel.race BY <2>4 DEF Race
  <2>6. /\ Consumed("travel", c) \in Boxes /\ Consumed("travel", c)["home"] = inbox["home"]
        /\ Consumed("travel", c)["travel"][d] =
               IF d = c THEN Tail(inbox["travel"][d]) ELSE inbox["travel"][d]
    BY <1>t, <2>1, ConsumedType, TravelConsumed, HomeConsumed
  <2>7. {c} \subseteq Carriers OBVIOUS
  <2>i. inbox' = Sent(Consumed("travel", c), "travel", {c}, c, <<g>>) BY <2>1, <2>4
  <2>8. inbox'["travel"] = Consumed("travel", c)["travel"] BY <2>6, <2>7, <2>i, TravelSends
  <2>9. inbox'["home"][d] = IF d = c /\ c \in {c} /\ link[c] = "up" THEN inbox["home"][d] \o <<g>>
                            ELSE inbox["home"][d]
    BY <2>6, <2>7, <2>i, TravelSendsOn
  <2> HIDE DEF ok, f
  <2>10. TravelSays(d)
    <3>1. CASE d = c /\ link[c] = "up"
      <4>1. PICK fs : fs = <<g>> OBVIOUS
      <4>2. fs \in Seq(Frame) /\ \A i \in 1..Len(fs) : fs[i] = g BY <4>1
      <4>3. AskedOnly(fs, travel'.race) /\ \A i \in 1..Len(fs) : ~IsAck(fs[i])
        BY <2>1, <2>5, <4>2 DEF AskedOnly, IsAck
      <4>4. inbox'["home"][d] = inbox["home"][d] \o fs BY <2>9, <3>1, <4>1
      <4> QED BY <1>5, <3>1, <4>2, <4>3, <4>4 DEF TravelSays
    <3>2. CASE ~(d = c /\ link[c] = "up") BY <2>9, <3>2 DEF TravelSays
    <3> QED BY <3>1, <3>2
  <2>11. CASE d = c
    BY <1>5, <2>1, <2>2, <2>6, <2>8, <2>10, <2>11 DEF TravelMove, TravelSelects
  <2>12. CASE d # c
    <3>1. inbox'["travel"][d] = inbox["travel"][d] BY <2>6, <2>8, <2>12
    <3> QED BY <2>1, <2>2, <2>10, <2>12, <3>1 DEF TravelMove, TravelSelects, TravelHears
  <2> QED BY <2>11, <2>12
<1>6. ASSUME NEW c \in Carriers, OpenedInconsistent(c) \/ TravelBails(c) PROVE TravelMove(d)
  <2>1. \E reason : TravelFails(reason) BY <1>6 DEF OpenedInconsistent, TravelBails
  <2> QED BY <1>e, <2>1
<1>7. ASSUME NEW c \in Carriers, OpenFailed(c) PROVE TravelMove(d)
  <2>1. /\ home' = home /\ tx' = tx /\ rx' = rx /\ link' = Dropped({c})
        /\ inbox'["travel"][d] = IF d = c THEN <<>> ELSE inbox["travel"][d]
        /\ inbox'["home"] = inbox["home"] /\ c \in travel.opening
        /\ travel'.race = travel.race /\ travel'.active = travel.active
        /\ travel'.carriers = travel.carriers /\ travel'.opening = travel.opening \ {c}
        /\ travel'.racing = StillRacing(travel.active, travel.carriers, travel.opening \ {c})
    BY <1>7, <1>t DEF OpenFailed, Boxes, TravelState
  <2>2. link'[d] = IF d = c THEN "down" ELSE link[d] BY <2>1 DEF Dropped
  <2>3. d \in travel.carriers => (travel.racing => travel'.racing)
    BY <2>1 DEF StillRacing
  <2>4. TravelHears(d) BY <2>1, <2>2 DEF TravelHears
  <2> QED BY <2>1, <2>2, <2>3, <2>4 DEF TravelMove, TravelSelects, TravelSays
<1>8. ASSUME NEW c \in Carriers, TravelCarrierClosed(c) PROVE TravelMove(d)
  <2>1. /\ home' = home /\ tx' = tx /\ rx' = rx /\ link' = link /\ link[c] # "up"
        /\ inbox'["travel"][d] = IF d = c THEN <<>> ELSE inbox["travel"][d]
        /\ inbox'["home"] = inbox["home"]
        /\ travel'.race = travel.race /\ travel'.active = Detached(travel.active, c)
        /\ travel'.carriers = travel.carriers \ {c} /\ travel'.opening = travel.opening
        /\ travel'.racing = StillRacing(travel'.active, travel'.carriers, travel.opening)
    BY <1>8, <1>t DEF TravelCarrierClosed, SeesClosed, Boxes, TravelState
  <2>2. d # c => travel'.active = travel.active \/ travel.active # d BY <2>1 DEF Detached
  <2>3. d \in travel'.carriers \ {travel'.active} => d \in travel.carriers \ {travel.active}
    BY <1>t, <2>1 DEF Detached
  <2>4. d \in travel'.carriers => (travel.racing => travel'.racing) BY <2>1 DEF StillRacing
  <2>5. TravelHears(d) BY <2>1 DEF TravelHears
  <2>6. link'[d] = "up" => link[d] = "up" /\ (d = travel.active => d = travel'.active)
    BY <2>1 DEF Detached
  <2> QED BY <2>1, <2>3, <2>4, <2>5, <2>6 DEF TravelMove, TravelSelects, TravelSays
<1>9. ASSUME NEW c \in Carriers, RaceAnswered(c) PROVE TravelMove(d)
  <2> DEFINE m == Head(inbox["travel"][c])
             kept == travel.carriers \cap {m.winner}
             S == (travel.carriers \cup travel.opening) \ kept
             R == Retransmission(tx["travel"], 0)
             cut == [Consumed("travel", c) EXCEPT !["travel"] =
                        [x \in Carriers |-> IF x \in travel.opening THEN <<>> ELSE @[x]]]
  <2>1. /\ home' = home /\ tx' = tx /\ rx' = rx /\ link' = Dropped(S)
        /\ inbox["travel"][c] # <<>>
        /\ inbox' = Sent(cut, "travel", kept, m.winner, R)
        /\ travel'.carriers = kept /\ travel'.opening = {}
        /\ travel'.active = IF m.winner \in travel.carriers THEN m.winner ELSE NoCarrier
    BY <1>9, <1>t DEF RaceAnswered, Arrives, TravelState
  <2>2. Consumed("travel", c) \in Boxes /\ Consumed("travel", c)["home"] = inbox["home"]
    BY <1>t, <2>1, ConsumedType, HomeConsumed
  <2>3. cut \in Boxes
    <3> DEFINE box == Consumed("travel", c)
    <3> QED BY <1>t, <2>2, ClearedType
  <2>4. cut["home"] = inbox["home"] BY <1>t, <2>2 DEF Boxes
  <2>5. R \in Seq(Frame) /\ \A i \in 1..Len(R) : R[i].type \in {"Data", "Fin"}
    BY <1>t, RetransmissionType, RetransmissionPlain
  <2>6. kept \subseteq travel.carriers OBVIOUS
  <2>7. kept \subseteq {travel'.active} BY <2>1
  <2>8. link'[d] = IF d \in S THEN "down" ELSE link[d] BY <2>1 DEF Dropped
  <2>9. link'[d] = "up" => link[d] = "up" /\ d = travel'.active BY <1>u, <2>7, <2>8
  <2> HIDE DEF m, kept, S, R, cut
  <2>10. /\ AskedOnly(R, travel'.race) /\ \A i \in 1..Len(R) : ~IsAck(R[i])
    BY <2>5 DEF AskedOnly, IsAck
  <2>11. TravelSays(d)
    <3>1. PICK w : w = m.winner OBVIOUS
    <3> QED BY <1>t, <2>1, <2>3, <2>4, <2>5, <2>6, <2>10, <3>1, TravelSaysSent
  <2> QED BY <2>1, <2>7, <2>9, <2>11 DEF TravelMove, TravelSelects
<1>c. ASSUME NEW c \in Carriers, inbox["travel"][c] # <<>>, inbox' = Consumed("travel", c),
             travel.racing => ~Answers(Head(inbox["travel"][c]), travel.race)
      PROVE  TravelHears(d) /\ TravelSays(d)
  <2>1. /\ inbox'["home"] = inbox["home"]
        /\ inbox'["travel"][d] = IF d = c THEN Tail(inbox["travel"][d]) ELSE inbox["travel"][d]
    BY <1>c, <1>t, TravelConsumed, HomeConsumed
  <2> QED BY <1>c, <2>1 DEF TravelHears, TravelSays
<1>10. ASSUME NEW c \in Carriers, RaceAnswerIgnored(c) PROVE TravelMove(d)
  <2>1. /\ home' = home /\ tx' = tx /\ rx' = rx /\ link' = link /\ inbox["travel"][c] # <<>>
        /\ inbox' = Consumed("travel", c) /\ travel' = travel
        /\ travel.racing => ~Answers(Head(inbox["travel"][c]), travel.race)
    BY <1>10 DEF RaceAnswerIgnored, Arrives, Answers
  <2> QED BY <1>c, <1>q, <2>1
<1>11. ASSUME NEW c \in Carriers, TravelData(c) PROVE TravelMove(d)
  <2> DEFINE m == Head(inbox["travel"][c])
  <2>1. /\ home' = home /\ tx' = tx /\ link' = link /\ inbox["travel"][c] # <<>>
        /\ m.type = "Data" /\ Arrives("travel", c, {"Data"})
        /\ rx' = [rx EXCEPT !["travel"].receive_offset = End(m)]
        /\ travel' = [travel EXCEPT !.heard = @ \cup {m.src}]
        /\ inbox' = Reply("travel", c, Ack(End(m)))
    BY <1>11 DEF TravelData, Arrives
  <2>2. rx'["travel"].receive_offset = End(m) BY <1>t, <2>1 DEF RxState
  <2>3. m \in Frame /\ ~IsAnswer(m) BY <1>h, <2>1 DEF IsAnswer
  <2>4. /\ travel'.race = travel.race /\ travel'.racing = travel.racing
        /\ travel'.active = travel.active /\ travel'.carriers = travel.carriers
        /\ travel'.opening = travel.opening
    BY <1>t, <2>1 DEF TravelState
  <2> HIDE DEF m
  <2>5. m.offset \in Nat /\ m.len \in Nat BY <2>1, <2>3, FrameFields
  <2>6. End(m) \in Nat BY <2>5 DEF End
  <2>7. PICK f \in Frame : f = Ack(End(m)) BY <2>6, FrameTypes
  <2>8. f.type # "Race" /\ f.next_offset = rx'["travel"].receive_offset BY <2>2, <2>7 DEF Ack
  <2>9. TravelHears(d) /\ TravelSays(d)
    <3>1. ~IsAnswer(Head(inbox["travel"][c])) /\ inbox' = Reply("travel", c, f)
      BY <2>1, <2>3, <2>7 DEF m
    <3> QED BY <2>1, <2>8, <3>1, TravelReplies
  <2> QED BY <1>q, <2>1, <2>4, <2>9
<1>12. ASSUME NEW c \in Carriers, LocalWriteFails(c) PROVE TravelMove(d)
  BY <1>12, <1>e DEF LocalWriteFails
<1>13. ASSUME NEW c \in Carriers, TravelDuplicate(c) PROVE TravelMove(d)
  <2>1. /\ home' = home /\ tx' = tx /\ link' = link /\ rx' = rx /\ travel' = travel
        /\ inbox["travel"][c] # <<>> /\ Arrives("travel", c, {"Data"})
        /\ inbox' = Reply("travel", c, Duplicate(rx["travel"].receive_offset))
    BY <1>13 DEF TravelDuplicate, DataDuplicate, Arrives
  <2>2. ~IsAnswer(Head(inbox["travel"][c])) BY <2>1 DEF Arrives, IsAnswer
  <2>3. PICK f \in Frame : f = Duplicate(rx["travel"].receive_offset) BY <1>t, FrameTypes
  <2>4. f.type # "Race" /\ f.next_offset = rx'["travel"].receive_offset
    BY <2>1, <2>3 DEF Duplicate
  <2>5. TravelHears(d) /\ TravelSays(d) BY <2>1, <2>2, <2>3, <2>4, TravelReplies
  <2> QED BY <1>q, <2>1, <2>5
<1>14. ASSUME NEW c \in Carriers, TravelFin(c) PROVE TravelMove(d)
  <2>1. /\ home' = home /\ tx' = tx /\ link' = link /\ travel' = travel
        /\ inbox["travel"][c] # <<>> /\ Head(inbox["travel"][c]).type = "Fin"
        /\ inbox' = Reply("travel", c, FinAck(rx["travel"].receive_offset))
    BY <1>14 DEF TravelFin, FinInOrder, Arrives
  <2>2. ~IsAnswer(Head(inbox["travel"][c])) BY <2>1 DEF IsAnswer
  <2>3. PICK f \in Frame : f = FinAck(rx["travel"].receive_offset) BY <1>t, FrameTypes
  <2>4. f.type # "Race" /\ ~IsAck(f) BY <2>3 DEF FinAck, IsAck
  <2>5. TravelHears(d) /\ TravelSays(d) BY <2>1, <2>2, <2>3, <2>4, TravelReplies
  <2> QED BY <1>q, <2>1, <2>5
<1>15. ASSUME NEW c \in Carriers, TravelAck(c) \/ TravelFinAck(c) PROVE TravelMove(d)
  <2>1. /\ home' = home /\ rx' = rx /\ link' = link /\ travel' = travel
        /\ inbox["travel"][c] # <<>>
        /\ Head(inbox["travel"][c]).type \in {"Ack", "Duplicate", "FinAck"}
        /\ inbox' = Consumed("travel", c)
    BY <1>15 DEF TravelAck, TravelFinAck, AckInWindow, FinAckInOrder, Arrives
  <2>2. tx'["home"] = tx["home"]
    BY <1>15, <1>t DEF TravelAck, TravelFinAck, AckInWindow, FinAckInOrder
  <2>3. ~Answers(Head(inbox["travel"][c]), travel.race) BY <2>1 DEF Answers, IsAnswer
  <2>4. TravelHears(d) /\ TravelSays(d) BY <1>c, <2>1, <2>3
  <2> QED BY <1>q, <2>1, <2>2, <2>4
<1>16. ASSUME NEW len \in SegLens, LocalData(len) PROVE TravelMove(d)
  <2> DEFINE seg == [offset |-> tx["travel"].send_offset, len |-> len]
  <2>1. /\ home' = home /\ rx' = rx /\ link' = link /\ travel' = travel
        /\ inbox' = Sent(inbox, "travel", travel.carriers, travel.active, <<Data(seg, 0)>>)
    BY <1>16 DEF LocalData, ReadData, Holds, Active, Src
  <2>2. tx'["home"] = tx["home"] BY <1>16, <1>t DEF LocalData, ReadData
  <2>3. seg \in Segment BY <1>t, FlowConstants DEF Segment
  <2>4. PICK f \in Frame : f = Data(seg, 0) BY <2>3, FrameTypes
  <2>5. f.type # "Race" /\ ~IsAck(f) BY <2>4 DEF Data, IsAck
  <2>6. inbox'["travel"] = inbox["travel"] /\ TravelSays(d)
    BY <1>t, <2>1, <2>4, <2>5, TravelSaysOne
  <2> QED BY <1>q, <2>1, <2>2, <2>6 DEF TravelHears
<1>17. CASE LocalEof
  <2>1. /\ home' = home /\ rx' = rx /\ link' = link /\ travel' = travel
        /\ inbox' = Sent(inbox, "travel", travel.carriers, travel.active,
                         <<Fin(tx["travel"].send_offset)>>)
    BY <1>17 DEF LocalEof, ReadEof, Holds, Active
  <2>2. tx'["home"] = tx["home"] BY <1>17, <1>t DEF LocalEof, ReadEof
  <2>4. PICK f \in Frame : f = Fin(tx["travel"].send_offset) BY <1>t, FrameTypes
  <2>5. f.type # "Race" /\ ~IsAck(f) BY <2>4 DEF Fin, IsAck
  <2>6. inbox'["travel"] = inbox["travel"] /\ TravelSays(d)
    BY <1>t, <2>1, <2>4, <2>5, TravelSaysOne
  <2> QED BY <1>q, <2>1, <2>2, <2>6 DEF TravelHears
<1>18. CASE RecoveryTimePasses
  <2>1. /\ home' = home /\ tx' = tx /\ link' = link /\ inbox' = inbox
        /\ travel'.race = travel.race /\ travel'.racing = travel.racing
        /\ travel'.active = travel.active /\ travel'.carriers = travel.carriers
        /\ travel'.opening = travel.opening
    BY <1>18, <1>t DEF RecoveryTimePasses, TravelState
  <2> QED BY <1>q, <2>1 DEF TravelHears, TravelSays
<1> QED
  BY <1>1, <1>2, <1>3, <1>4, <1>5, <1>6, <1>7, <1>8, <1>9, <1>10, <1>11, <1>12, <1>13, <1>14, <1>15,
     <1>16, <1>17, <1>18
  DEF TravelNext

\* What a race selects survives every step.
LEMMA TravelSelection ==
  ASSUME TypeOK, LinksOK, NEW d \in Carriers, TravelMove(d), SelectionOn(d)
  PROVE  SelectionOn(d)'
<1> DEFINE q == inbox["travel"][d]
           p == inbox'["travel"][d]
           h == inbox["home"][d]
           g == inbox'["home"][d]
<1>t. /\ q \in Seq(Frame) /\ h \in Seq(Frame)
      /\ travel \in TravelState
      /\ travel.carriers \cap travel.opening = {}
      /\ ~travel.racing => travel.opening = {}
  BY DEF TypeOK, LinksOK, TravelLinks, Sides
<1>l. Listening(d)' => Listening(d) BY DEF TravelMove, Listening
<1>o. ASSUME Opened(d)
      PROVE  /\ d \in travel.opening /\ d \notin travel'.opening /\ travel.racing /\ travel'.racing
             /\ q # <<>>
  BY <1>o, <1>t DEF Opened, TravelState, Arrives
<1>e. Without(<<>>, {"Data"}) /\ \A r : AnswerFirst(<<>>, r) /\ AskedOnly(<<>>, r)
  BY DEF Without, AnswerFirst, AskedOnly
<1>1. CASE travel'.carriers \subseteq {travel'.active} /\ travel'.opening = {}
  BY <1>1 DEF SelectionOn
<1>2. CASE /\ ~travel.racing
           /\ travel'.carriers = travel.carriers /\ travel'.active = travel.active
           /\ d \in travel'.opening => link[d] = "idle"
           /\ p = q
  <2>1. d \notin travel'.carriers \ {travel'.active} BY <1>2 DEF SelectionOn
  <2>2. ASSUME d \in travel'.opening PROVE OpeningOK(d)'
    <3>1. q = <<>> /\ h = <<>> /\ link[d] = "idle" /\ home.active # d
      BY <1>2, <2>2 DEF LinksOK, Idle, HomeLinks
    <3>2. g = h BY <1>2, <1>o, <3>1 DEF TravelMove, TravelSays
    <3> QED BY <1>2, <1>e, <3>1, <3>2 DEF OpeningOK, TravelMove
  <2> QED BY <2>1, <2>2 DEF SelectionOn
<1>3. CASE Opened(d) /\ p = Tail(q)
  <2>1. h = <<>> /\ home.active # d /\ Without(q, {"Data"})
    BY <1>3, <1>o DEF SelectionOn, OpeningOK
  <2>2. ~Listening(d)' BY <2>1 DEF TravelMove, Listening
  <2>3. AskedOnly(g, travel'.race)
    <3>1. CASE g = h BY <1>e, <2>1, <3>1
    <3>2. ASSUME NEW f \in Seq(Frame), g = h \o f, AskedOnly(f, travel'.race)
          PROVE  AskedOnly(g, travel'.race)
      BY <1>t, <1>e, <2>1, <3>2, AskedAppend
    <3> HIDE DEF g, h
    <3> QED BY <3>1, <3>2 DEF TravelMove, TravelSays, g, h
  <2>4. Without(p, {"Data"}) BY <1>3, <1>o, <1>t, <2>1, AskedTail
  <2>5. AnswerFirst(p, travel'.race) BY <2>4 DEF AnswerFirst, Without
  <2>6. CandidateOK(d)' BY <2>2, <2>3, <2>5 DEF CandidateOK
  <2> QED BY <1>3, <1>o, <2>6 DEF SelectionOn
<1>4. CASE /\ travel'.race = travel.race
           /\ travel'.opening \subseteq travel.opening
           /\ d \in travel'.carriers \ {travel'.active} =>
                  d \in travel.carriers \ {travel.active} /\ (travel.racing => travel'.racing)
           /\ TravelHears(d)
  <2>1. ASSUME d \in travel'.opening PROVE OpeningOK(d)'
    <3>1. h = <<>> /\ home.active # d /\ Without(q, {"Data"}) /\ d \in travel.opening
      BY <1>4, <2>1 DEF SelectionOn, OpeningOK
    <3>2. g = h BY <1>t, <1>o, <2>1, <3>1 DEF TravelMove, TravelSays
    <3>3. Without(p, {"Data"}) BY <1>4, <1>t, <1>e, <3>1, AskedTail DEF TravelHears
    <3> QED BY <3>1, <3>2, <3>3 DEF OpeningOK, TravelMove
  <2>2. ASSUME d \in travel'.carriers \ {travel'.active} PROVE travel'.racing /\ CandidateOK(d)'
    <3>1. travel.racing /\ travel'.racing /\ CandidateOK(d) BY <1>4, <2>2 DEF SelectionOn
    <3>2. AskedOnly(g, travel'.race)
      <4>0. AskedOnly(h, travel'.race) BY <1>4, <3>1 DEF CandidateOK
      <4>1. ASSUME NEW f \in Seq(Frame), g = h \o f, AskedOnly(f, travel'.race)
            PROVE  AskedOnly(g, travel'.race)
        BY <1>t, <4>0, <4>1, AskedAppend
      <4> HIDE DEF g, h
      <4> QED BY <4>0, <4>1 DEF TravelMove, TravelSays, g, h
    <3>3. AnswerFirst(q, travel.race) /\ (Listening(d) => Answered(q, Len(q), travel.race))
      BY <3>1 DEF CandidateOK
    <3>4. AnswerFirst(p, travel.race) /\ (Listening(d)' => Answered(p, Len(p), travel.race))
      <4>1. CASE p = q BY <1>l, <3>3, <4>1
      <4>2. CASE q # <<>> /\ p = Tail(q) /\ ~Answers(Head(q), travel.race)
        BY <1>l, <1>t, <3>3, <4>2, AnswerTail
      <4>3. CASE p = <<>> /\ link'[d] # "up" BY <1>e, <4>3 DEF Listening
      <4> QED BY <1>4, <3>1, <4>1, <4>2, <4>3 DEF TravelHears
    <3> QED BY <1>4, <3>1, <3>2, <3>4 DEF CandidateOK
  <2> QED BY <2>1, <2>2 DEF SelectionOn
<1> QED BY <1>1, <1>2, <1>3, <1>4 DEF TravelMove, TravelSelects

-----------------------------------------------------------------------------
(* What a step of Home does to one Carrier.                                 *)

HomeHears(d) ==
    LET h == inbox["home"][d] IN
    \/ inbox'["home"][d] = h
    \/ h # <<>> /\ inbox'["home"][d] = Tail(h)
    \/ inbox'["home"][d] = <<>>

\* Home answers what it takes from d, and sends what it reads where it listens.
HomeSays(d) ==
    LET h == inbox["home"][d]
        q == inbox["travel"][d]
    IN
    \/ inbox'["travel"][d] = q /\ (Listening(d)' => Listening(d))
    \/ link[d] = "opening" /\ Without(inbox'["travel"][d], {"Data"}) /\ ~Listening(d)'
    \/ \E f \in Seq(Frame) :
           /\ inbox'["travel"][d] = q \o f
           /\ \/ h # <<>> /\ Without(f, {"Data"}) /\ (Listening(d)' => Listening(d))
              \/ Listening(d)
              \/ h # <<>> /\ Head(h).type = "Race" /\ Len(f) >= 1 /\ Answers(f[1], Head(h).race)

HomeMove(d) ==
    /\ travel' = travel
    /\ link'[d] = "up" => link[d] \in {"opening", "up"}
    /\ home'.active = d => home.active = d \/ inbox["home"][d] # <<>>
    /\ HomeHears(d) /\ HomeSays(d)

LEMMA HomeSelection ==
  ASSUME TypeOK, LinksOK, NEW d \in Carriers, HomeMove(d), SelectionOn(d)
  PROVE  SelectionOn(d)'
<1> DEFINE q == inbox["travel"][d]
           p == inbox'["travel"][d]
           h == inbox["home"][d]
           g == inbox'["home"][d]
           r == travel.race
<1>t. /\ q \in Seq(Frame) /\ h \in Seq(Frame)
      /\ travel' = travel
      /\ d \in travel.carriers => link[d] # "opening"
      /\ home'.active = d => home.active = d \/ h # <<>>
  BY DEF TypeOK, LinksOK, TravelLinks, Sides, HomeMove
<1>e. Without(<<>>, {"Data"}) /\ AskedOnly(<<>>, r)
  BY DEF Without, AskedOnly
<1>1. ASSUME d \in travel.opening PROVE OpeningOK(d)'
  <2>1. h = <<>> /\ home.active # d /\ Without(q, {"Data"}) BY <1>1 DEF SelectionOn, OpeningOK
  <2>2. g = <<>> BY <2>1 DEF HomeMove, HomeHears
  <2>3. ~Listening(d) BY <2>1 DEF Listening
  <2>4. Without(p, {"Data"}) BY <2>1, <2>3 DEF HomeMove, HomeSays
  <2> QED BY <1>t, <2>1, <2>2, <2>4 DEF OpeningOK
<1>2. ASSUME d \in travel.carriers \ {travel.active} PROVE CandidateOK(d)'
  <2>1. /\ AskedOnly(h, r) /\ AnswerFirst(q, r)
        /\ Listening(d) => Answered(q, Len(q), r)
    BY <1>2 DEF SelectionOn, CandidateOK
  <2>2. AskedOnly(g, r) BY <1>t, <1>e, <2>1, AskedTail DEF HomeMove, HomeHears
  <2>3. AnswerFirst(p, r) /\ (Listening(d)' => Answered(p, Len(p), r))
    <3>1. CASE p = q /\ (Listening(d)' => Listening(d)) BY <2>1, <3>1
    <3>2. ASSUME NEW f \in Seq(Frame), p = q \o f,
                 \/ Without(f, {"Data"}) /\ (Listening(d)' => Listening(d))
                 \/ Listening(d)
                 \/ h # <<>> /\ Head(h).type = "Race" /\ Len(f) >= 1 /\ Answers(f[1], Head(h).race)
          PROVE  AnswerFirst(p, r) /\ (Listening(d)' => Answered(p, Len(p), r))
      <4>1. CASE Without(f, {"Data"}) /\ (Listening(d)' => Listening(d))
        <5>1. AnswerFirst(f, r) BY <4>1 DEF Without, AnswerFirst
        <5> QED BY <1>t, <2>1, <3>2, <4>1, <5>1, AnswerAppend
      <4>2. CASE Listening(d) BY <1>t, <2>1, <3>2, <4>2, AnswerAppend
      <4>3. CASE h # <<>> /\ Head(h).type = "Race" /\ Len(f) >= 1 /\ Answers(f[1], Head(h).race)
        <5>1. Len(h) \in Nat /\ Len(h) >= 1 /\ Head(h) = h[1] BY <1>t, <4>3, TailItems
        <5>2. Head(h).race = r BY <2>1, <4>3, <5>1 DEF AskedOnly
        <5>3. Answers(f[1], r) /\ Len(f) \in Nat /\ 1 \in 1..Len(f)
          BY <4>3, <5>2, LenProperties
        <5>4. Answered(f, Len(f), r) BY <5>3 DEF Answered
        <5>5. AnswerFirst(f, r)
          <6> SUFFICES ASSUME NEW i \in 1..Len(f), f[i].type = "Data" PROVE Answered(f, i - 1, r)
            BY DEF AnswerFirst
          <6>1. i # 1 BY <5>3 DEF Answers, IsAnswer
          <6>2. 1 \in 1..(i - 1) BY <5>3, <6>1
          <6> QED BY <5>3, <6>2 DEF Answered
        <5> QED BY <1>t, <2>1, <3>2, <5>4, <5>5, AnswerAppend
      <4> QED BY <3>2, <4>1, <4>2, <4>3
    <3> HIDE DEF p, q, h
    <3> QED BY <1>2, <1>t, <3>1, <3>2 DEF HomeMove, HomeSays, p, q, h
  <2> QED BY <1>t, <2>2, <2>3 DEF CandidateOK
<1> QED BY <1>t, <1>1, <1>2 DEF SelectionOn

\* Home's half of the selection.
LEMMA HomeMoves ==
  ASSUME TypeOK, LinksOK, HomeNext, NEW d \in Carriers
  PROVE  HomeMove(d)
<1>i. /\ home \in HomeState /\ inbox \in Boxes /\ rx \in [Sides -> RxState]
      /\ tx \in [Sides -> TxState] /\ link \in Links /\ HomeLinks(home, link)
      /\ "travel" \in Sides /\ "home" \in Sides
  BY DEF TypeOK, Boxes, Sides, LinksOK, Links
<1>j. d # NoCarrier /\ home.inc \in Nat /\ home.carriers \subseteq Carriers
  BY <1>i, FlowConstants DEF HomeState, Carriers
<1>t. /\ home \in HomeState /\ inbox \in Boxes /\ rx \in [Sides -> RxState]
      /\ tx \in [Sides -> TxState] /\ link \in Links
      /\ "travel" \in Sides /\ "home" \in Sides
      /\ home.carriers \subseteq Carriers
      /\ rx["home"].receive_offset \in Nat
      /\ tx["home"].send_offset \in Nat /\ tx["home"].send_acked \in Nat
      /\ HomeLinks(home, link) /\ d # NoCarrier /\ home.inc \in Nat
  BY <1>i, <1>j DEF RxState, TxState
<1>h. ASSUME NEW c \in Carriers, inbox["home"][c] # <<>>
      PROVE  /\ Head(inbox["home"][c]) \in Frame
             /\ Consumed("home", c) \in Boxes /\ Consumed("home", c)["travel"] = inbox["travel"]
             /\ Consumed("home", c)["home"][d] =
                    IF d = c THEN Tail(inbox["home"][d]) ELSE inbox["home"][d]
  BY <1>h, <1>t, ConsumedType, TravelConsumed, HomeConsumed
\* Home sends nothing on d, and does not begin to listen there.
<1>k. ASSUME travel' = travel, link'[d] = "up" => link[d] = "up", home'.active \in {home.active, NoCarrier},
             home'.carriers \subseteq home.carriers, HomeHears(d),
             inbox'["travel"][d] = inbox["travel"][d]
      PROVE  HomeMove(d)
  BY <1>k, <1>t DEF HomeMove, HomeSays, Listening
<1>a. ASSUME NEW queued, Attaches(queued)
      PROVE  home'.active = home.active /\ home'.carriers = home.carriers
  BY <1>a, <1>t DEF Attaches, HomeState
<1>e. ASSUME NEW outcome, NEW links, HomeEnds(outcome, links), links[d] = "up" => link[d] = "up"
      PROVE  HomeMove(d)
  <2>1. /\ home'.active = NoCarrier /\ home'.carriers = {} /\ inbox' = Deaf("home") /\ link' = links
        /\ travel' = travel
    BY <1>e, <1>t DEF HomeEnds, HomeState
  <2>2. inbox'["travel"] = inbox["travel"] /\ inbox'["home"][d] = <<>>
    BY <1>t, <2>1, TravelConsumed, HomeConsumed
  <2> QED BY <1>e, <1>k, <2>1, <2>2 DEF HomeHears
<1>f. ASSUME NEW outcome, HomeFails(outcome) PROVE HomeMove(d)
  <2>1. Dropped(home.carriers \cup home.incoming)[d] = "up" => link[d] = "up" BY DEF Dropped
  <2> QED BY <1>e, <1>f, <2>1 DEF HomeFails
\* An answer that is no data.
<1>r. ASSUME NEW c \in Carriers, inbox["home"][c] # <<>>, NEW f \in Frame,
             f.type # "Data", inbox' = Reply("home", c, f),
             travel' = travel, home' = home, link' = link
      PROVE  HomeMove(d)
  <2>1. inbox' = Sent(Consumed("home", c), "home", home.carriers, c, <<f>>)
    BY <1>r, ReplyIsSent DEF Holds
  <2>2. inbox'["travel"][d] = IF d = c /\ c \in home.carriers /\ link[c] = "up"
                              THEN inbox["travel"][d] \o <<f>> ELSE inbox["travel"][d]
    BY <1>h, <1>r, <1>t, <2>1, HomeSends
  <2>3. HomeHears(d)
    <3>1. inbox'["home"] = Consumed("home", c)["home"]
      <4>1. "travel" \in Sides /\ "home" \in Sides /\ Peer("home") = "travel" BY DEF Sides, Peer
      <4> QED BY <1>h, <1>r, <2>1, <4>1 DEF Sent, Boxes
    <3> QED BY <1>h, <1>r, <3>1 DEF HomeHears
  <2>4. CASE inbox'["travel"][d] = inbox["travel"][d] BY <1>k, <1>r, <2>3, <2>4
  <2>5. CASE d = c /\ inbox'["travel"][d] = inbox["travel"][d] \o <<f>>
    <3>1. PICK fs : fs = <<f>> OBVIOUS
    <3>2. fs \in Seq(Frame) /\ \A i \in 1..Len(fs) : fs[i] = f BY <1>r, <3>1
    <3>3. Without(fs, {"Data"}) BY <1>r, <3>2 DEF Without
    <3>4. Listening(d)' => Listening(d) BY <1>r DEF Listening
    <3>5. HomeSays(d) BY <1>r, <2>5, <3>1, <3>2, <3>3, <3>4 DEF HomeSays
    <3> QED BY <1>r, <2>3, <3>5 DEF HomeMove
  <2> QED BY <2>2, <2>4, <2>5
<1>1. ASSUME NEW c \in Carriers, Attach(c) \/ AttachNoSlot(c) \/ AttachRejected(c)
      PROVE  HomeMove(d)
  <2>1. inbox' = inbox /\ (link'[d] = "up" => link[d] = "up") /\ travel' = travel
    BY <1>1 DEF Attach, AttachNoSlot, AttachRejected, Dropped
  <2>2. home'.active = home.active /\ home'.carriers = home.carriers
    <3>1. CASE Attach(c) BY <1>a, <3>1 DEF Attach
    <3>2. CASE AttachNoSlot(c) BY <1>a, <3>2 DEF AttachNoSlot
    <3>3. CASE AttachRejected(c) BY <3>3 DEF AttachRejected
    <3> QED BY <1>1, <3>1, <3>2, <3>3
  <2> QED BY <1>k, <2>1, <2>2 DEF HomeHears
<1>2. ASSUME NEW c \in Carriers, Admit(c) PROVE HomeMove(d)
  <2>1. /\ c \in home.incoming /\ travel' = travel
        /\ home'.carriers = home.carriers \cup {c} /\ home'.active = home.active
    BY <1>2, <1>t DEF Admit, HomeState
  <2>2. link[c] \in {"opening", "down"} BY <1>t, <2>1 DEF HomeLinks
  <2>3. inbox'["home"] = inbox["home"] BY <1>2, <1>t DEF Admit, Boxes
  <2>4. CASE d # c
    <3>1. link'[d] = link[d] /\ inbox'["travel"][d] = inbox["travel"][d]
      BY <1>2, <1>t, <2>4 DEF Admit, Links, Boxes
    <3> QED BY <2>1, <2>3, <2>4, <3>1 DEF HomeMove, HomeHears, HomeSays, Listening
  <2>5. CASE d = c /\ link[c] = "down"
    <3>1. link'[d] = "down" /\ inbox' = inbox BY <1>2, <1>t, <2>5 DEF Admit, Links
    <3> QED BY <2>1, <2>5, <3>1 DEF HomeMove, HomeHears, HomeSays, Listening
  <2>6. CASE d = c /\ link[c] = "opening"
    <3>1. home.active # c BY <1>t, <2>6 DEF HomeLinks
    <3>2. ~Listening(d)' BY <2>1, <2>6, <3>1 DEF Listening
    <3>3. PICK f : /\ f = OpenOk(rx["home"].receive_offset, tx["home"].send_acked)
                   /\ inbox' = [inbox EXCEPT !["travel"][c] = <<f>>]
      BY <1>2, <2>6 DEF Admit
    <3>4. inbox'["travel"][d] = <<f>> /\ f.type = "OpenOk"
      BY <1>t, <2>6, <3>3 DEF Boxes, OpenOk
    <3>5. Without(<<f>>, {"Data"}) BY <3>4 DEF Without
    <3> QED BY <2>1, <2>3, <2>6, <3>2, <3>4, <3>5 DEF HomeMove, HomeHears, HomeSays
  <2> QED BY <2>2, <2>4, <2>5, <2>6
<1>3. ASSUME NEW c \in Carriers, HomeRaceWon(c) PROVE HomeMove(d)
  <2> DEFINE m == Head(inbox["home"][c])
             R == Retransmission(tx["home"], home.inc)
             a == RaceAck(m.race, c)
  <2>1. /\ inbox["home"][c] # <<>> /\ m.type = "Race" /\ link' = link /\ travel' = travel
        /\ inbox' = Sent(Consumed("home", c), "home", home.carriers, c, <<a>> \o R)
        /\ home'.active = c /\ home'.carriers = home.carriers
    BY <1>3, <1>t DEF HomeRaceWon, Arrives, HomeState
  <2>2. m \in Frame BY <1>h, <2>1
  <2>3. a \in Frame /\ Answers(a, m.race)
    BY <2>1, <2>2, FrameFields, FrameTypes DEF RaceAck, Answers, IsAnswer
  <2>4. R \in Seq(Frame) BY <1>t, RetransmissionType
  <2>7. inbox'["travel"][d] = IF d = c /\ c \in home.carriers /\ link[c] = "up"
                              THEN inbox["travel"][d] \o (<<a>> \o R) ELSE inbox["travel"][d]
    BY <1>h, <1>t, <2>1, HomeSends
  <2>8. HomeHears(d)
    <3>1. inbox'["home"] = Consumed("home", c)["home"]
      <4>1. "travel" \in Sides /\ "home" \in Sides /\ Peer("home") = "travel" BY DEF Sides, Peer
      <4> QED BY <1>h, <2>1, <4>1 DEF Sent, Boxes
    <3> QED BY <1>h, <2>1, <3>1 DEF HomeHears
  <2>9. home'.active = d => inbox["home"][d] # <<>> BY <2>1
  <2> HIDE DEF R, a
  <2>10. CASE d = c /\ c \in home.carriers /\ link[c] = "up"
    <3>1. PICK as : as = <<a>> OBVIOUS
    <3>2. as \in Seq(Frame) /\ Len(as) = 1 /\ as[1] = a BY <2>3, <3>1
    <3>3. PICK f : f = as \o R OBVIOUS
    <3>4. /\ f \in Seq(Frame) /\ Len(f) = Len(as) + Len(R) /\ Len(R) \in Nat
          /\ \A i \in 1..Len(as) : f[i] = as[i]
      BY <2>4, <3>2, <3>3, ConcatItems
    <3>5. Len(f) >= 1 /\ f[1] = a
      <4>1. Len(as) = 1 /\ 1 \in 1..Len(as) BY <3>2
      <4>2. f[1] = as[1] BY <3>4, <4>1
      <4>3. Len(f) >= 1 BY <3>4, <4>1
      <4> QED BY <3>2, <4>2, <4>3
    <3>6. inbox'["travel"][d] = inbox["travel"][d] \o f BY <2>7, <2>10, <3>1, <3>3
    <3>7. /\ inbox["home"][d] # <<>> /\ Head(inbox["home"][d]).type = "Race"
          /\ Answers(f[1], Head(inbox["home"][d]).race)
      BY <2>1, <2>3, <2>10, <3>5
    <3>8. HomeSays(d) BY <3>4, <3>5, <3>6, <3>7 DEF HomeSays
    <3> QED BY <2>1, <2>8, <2>9, <3>8 DEF HomeMove
  <2>11. CASE ~(d = c /\ c \in home.carriers /\ link[c] = "up")
    <3>1. inbox'["travel"][d] = inbox["travel"][d] BY <2>7, <2>11
    <3>2. ~Listening(d)' BY <2>1, <2>11 DEF Listening
    <3> QED BY <2>1, <2>8, <2>9, <3>1, <3>2 DEF HomeMove, HomeSays
  <2> QED BY <2>10, <2>11
<1>4. ASSUME NEW c \in Carriers, HomeRaceLost(c) PROVE HomeMove(d)
  <2>1. /\ inbox["home"][c] # <<>> /\ Head(inbox["home"][c]).type = "Race"
        /\ travel' = travel /\ home' = home /\ link' = link
    BY <1>4 DEF HomeRaceLost, Arrives
  <2>2. PICK w \in Winners(Head(inbox["home"][c]).race) :
            inbox' = Reply("home", c, RaceDuplicate(Head(inbox["home"][c]).race, w))
    BY <1>4 DEF HomeRaceLost
  <2>3. PICK r : r = Head(inbox["home"][c]).race OBVIOUS
  <2>4. r \in Nat /\ w \in Carriers
    BY <1>h, <2>1, <2>2, <2>3, FrameFields, WinnersRemembered
  <2>5. RaceDuplicate(r, w) \in Frame /\ RaceDuplicate(r, w).type # "Data"
    BY <2>4, FrameTypes DEF RaceDuplicate
  <2> QED BY <1>r, <2>1, <2>2, <2>3, <2>5
<1>5. ASSUME NEW c \in Carriers, HomeData(c) PROVE HomeMove(d)
  <2> DEFINE m == Head(inbox["home"][c])
  <2>1. /\ inbox["home"][c] # <<>> /\ m.type = "Data" /\ travel' = travel /\ home' = home
        /\ link' = link
        /\ inbox' = Reply("home", c, Ack(End(m)))
    BY <1>5 DEF HomeData, Arrives
  <2>2. m \in Frame BY <1>h, <2>1
  <2> HIDE DEF m
  <2>3. End(m) \in Nat BY <2>1, <2>2, FrameFields DEF End
  <2>4. Ack(End(m)) \in Frame /\ Ack(End(m)).type # "Data" BY <2>3, FrameTypes DEF Ack
  <2> QED BY <1>r, <2>1, <2>4
<1>6. ASSUME NEW c \in Carriers, HomeDuplicate(c) PROVE HomeMove(d)
  <2>1. /\ inbox["home"][c] # <<>> /\ travel' = travel /\ home' = home /\ link' = link
        /\ inbox' = Reply("home", c, Duplicate(rx["home"].receive_offset))
    BY <1>6 DEF HomeDuplicate, DataDuplicate, Arrives
  <2>2. PICK f \in Frame : f = Duplicate(rx["home"].receive_offset) BY <1>t, FrameTypes
  <2>3. f.type # "Data" BY <2>2 DEF Duplicate
  <2> QED BY <1>r, <2>1, <2>2, <2>3
<1>7. ASSUME NEW c \in Carriers, HomeFin(c) PROVE HomeMove(d)
  <2>1. /\ inbox["home"][c] # <<>> /\ travel' = travel /\ home' = home /\ link' = link
        /\ inbox' = Reply("home", c, FinAck(rx["home"].receive_offset))
    BY <1>7 DEF HomeFin, FinInOrder, Arrives
  <2>2. PICK f \in Frame : f = FinAck(rx["home"].receive_offset) BY <1>t, FrameTypes
  <2>3. f.type # "Data" BY <2>2 DEF FinAck
  <2> QED BY <1>r, <2>1, <2>2, <2>3
<1>c. ASSUME NEW c \in Carriers, AckInWindow("home", c) \/ FinAckInOrder("home", c)
      PROVE  HomeMove(d)
  <2>1. /\ travel' = travel /\ home' = home /\ link' = link /\ inbox' = Consumed("home", c)
        /\ inbox["home"][c] # <<>>
    BY <1>c DEF AckInWindow, FinAckInOrder, Arrives
  <2> QED BY <1>h, <1>k, <2>1 DEF HomeHears
<1>8. ASSUME NEW c \in Carriers, HomeAck(c) \/ HomeFinAck(c) PROVE HomeMove(d)
  BY <1>8, <1>c, <1>f DEF HomeAck, HomeFinAck
<1>9. ASSUME NEW c \in Carriers, HomeObjects(c) PROVE HomeMove(d)
  <2>1. inbox["home"][c] # <<>> BY <1>9 DEF HomeObjects, Arrives, OutOfOrder
  <2>2. inbox' = Reply("home", c, Close) /\ travel' = travel /\ home' = home /\ link' = link
    BY <1>9 DEF HomeObjects
  <2>3. Close \in Frame /\ Close.type # "Data" BY FrameTypes DEF Close
  <2> QED BY <1>r, <2>1, <2>2, <2>3
<1>10. ASSUME NEW c \in Carriers, HomeCarrierClosed(c) PROVE HomeMove(d)
  <2>1. /\ travel' = travel /\ link' = link /\ inbox'["travel"] = inbox["travel"]
        /\ inbox'["home"][d] = IF d = c THEN <<>> ELSE inbox["home"][d]
        /\ home'.carriers = home.carriers \ {c} /\ home'.active \in {home.active, NoCarrier}
    BY <1>10, <1>t DEF HomeCarrierClosed, Detached, HomeState, Boxes, Sides
  <2> QED BY <1>k, <2>1 DEF HomeHears
<1>11. CASE TargetConnects
  <2>1. /\ travel' = travel /\ link' = link /\ inbox' = inbox
        /\ home'.carriers = home.carriers /\ home'.active = home.active
    BY <1>11, <1>t DEF TargetConnects, HomeState
  <2> QED BY <1>k, <2>1 DEF HomeHears
\* What Home reads goes where it listens.
<1>s. ASSUME NEW f \in Frame, travel' = travel, home' = home, link' = link,
             inbox' = Sent(inbox, "home", home.carriers, home.active, <<f>>)
      PROVE  HomeMove(d)
  <2>1. inbox'["travel"][d] = IF d = home.active /\ home.active \in home.carriers
                                 /\ link[home.active] = "up"
                              THEN inbox["travel"][d] \o <<f>> ELSE inbox["travel"][d]
    BY <1>s, <1>t, HomeSends
  <2>2. inbox'["home"] = inbox["home"]
    <3>1. "travel" \in Sides /\ "home" \in Sides /\ Peer("home") = "travel" BY DEF Sides, Peer
    <3> QED BY <1>s, <1>t, <3>1 DEF Sent, Boxes
  <2>3. CASE Listening(d)
    <3>1. PICK fs : fs = <<f>> OBVIOUS
    <3>2. fs \in Seq(Frame) BY <1>s, <3>1
    <3>3. inbox'["travel"][d] = inbox["travel"][d] \o fs BY <2>1, <2>3, <3>1 DEF Listening
    <3>4. HomeSays(d) BY <2>3, <3>2, <3>3 DEF HomeSays
    <3> QED BY <1>s, <2>2, <3>4 DEF HomeMove, HomeHears
  <2>4. CASE ~Listening(d)
    <3>1. inbox'["travel"][d] = inbox["travel"][d] BY <2>1, <2>4 DEF Listening
    <3> QED BY <1>k, <1>s, <2>2, <3>1 DEF HomeHears
  <2> QED BY <2>3, <2>4
<1>12. ASSUME NEW len \in SegLens, TargetData(len) PROVE HomeMove(d)
  <2> DEFINE seg == [offset |-> tx["home"].send_offset, len |-> len]
  <2>1. /\ travel' = travel /\ home' = home /\ link' = link
        /\ inbox' = Sent(inbox, "home", home.carriers, home.active, <<Data(seg, home.inc)>>)
    BY <1>12 DEF TargetData, ReadData, Holds, Active, Src
  <2>2. seg \in Segment BY <1>t, FlowConstants DEF Segment
  <2>3. Data(seg, home.inc) \in Frame BY <1>t, <2>2, FrameTypes
  <2> QED BY <1>s, <2>1, <2>3
<1>13. CASE TargetEof
  <2>1. /\ travel' = travel /\ home' = home /\ link' = link
        /\ inbox' = Sent(inbox, "home", home.carriers, home.active,
                         <<Fin(tx["home"].send_offset)>>)
    BY <1>13 DEF TargetEof, ReadEof, Holds, Active
  <2>2. Fin(tx["home"].send_offset) \in Frame BY <1>t, FrameTypes
  <2> QED BY <1>s, <2>1, <2>2
<1>14. ASSUME NEW c \in Carriers, AdmitFails(c) PROVE HomeMove(d)
  BY <1>14, <1>f DEF AdmitFails
<1>15. CASE DetachExpires \/ HomeStops \/ HomeDrainTimesOut
  BY <1>15, <1>f DEF DetachExpires, HomeStops, HomeDrainTimesOut
<1>16. CASE HomeCompletes
  <2> DEFINE links == [c \in Carriers |->
                         IF c \in home.incoming THEN "down" ELSE Drained(home.carriers)[c]]
  <2>1. links[d] = "up" => link[d] = "up" BY DEF Drained
  <2>2. HomeEnds("finished", links) BY <1>16 DEF HomeCompletes
  <2> HIDE DEF links
  <2> QED BY <1>e, <2>1, <2>2
<1> QED
  BY <1>1, <1>2, <1>3, <1>4, <1>5, <1>6, <1>7, <1>8, <1>9, <1>10, <1>11, <1>12, <1>13, <1>14, <1>15,
     <1>16
  DEF HomeNext

LEMMA SelectionNext ==
  ASSUME TypeOK, LinksOK, SelectionOK, [Next]_vars
  PROVE  SelectionOK'
<1> SUFFICES ASSUME NEW d \in Carriers PROVE SelectionOn(d)' BY DEF SelectionOK
<1>i. SelectionOn(d) BY DEF SelectionOK
<1>1. CASE TravelNext BY <1>1, <1>i, TravelMoves, TravelSelection
<1>2. CASE HomeNext BY <1>2, <1>i, HomeMoves, HomeSelection
<1>3. ASSUME NEW c \in Carriers, Break(c) PROVE SelectionOn(d)'
  <2>1. travel' = travel /\ home' = home /\ inbox' = inbox /\ link' = Dropped({c}) BY <1>3 DEF Break
  <2>2. Listening(d)' => Listening(d) BY <2>1 DEF Listening, Dropped
  <2> QED BY <1>i, <2>1, <2>2 DEF SelectionOn, CandidateOK, OpeningOK
<1>4. CASE UNCHANGED vars
  BY <1>4, <1>i DEF SelectionOn, CandidateOK, OpeningOK, Listening, vars
<1> QED BY <1>1, <1>2, <1>3, <1>4 DEF Next

\* Travel reads no data from a candidate before the answer that decides the race,
\* and Home hears of that race only there: whatever candidates fail, join late or
\* are answered out of turn, Travel acknowledges on its active Carrier alone.
THEOREM SelectionInvariant == Spec => []SelectionOK
<1>1. Init => SelectionOK
  BY DEF Init, SelectionOK, SelectionOn
<1> QED BY <1>1, TypeCorrect, LinksInvariant, SelectionNext, PTL DEF Spec

-----------------------------------------------------------------------------
(* The acknowledgements under way to Home.                                  *)

Acks(q, n) == \E i \in 1..Len(q) : IsAck(q[i]) /\ q[i].next_offset = n
Ordered(q) ==
    \A i, j \in 1..Len(q) :
        i < j /\ IsAck(q[i]) /\ IsAck(q[j]) => q[i].next_offset <= q[j].next_offset

\* What Home will read on a Carrier that still works: it came from Travel's active
\* Carrier, in order, and nothing Home has taken, or may yet take on another
\* Carrier, is ahead of it.
AcksOn(c) ==
    LET q == inbox["home"][c] IN
    /\ Ordered(q)
    /\ \A n \in Nat : Acks(q, n) =>
           /\ c = travel.active
           /\ tx["home"].send_acked <= n
           /\ \A d \in Carriers \ {c}, m \in Nat : Acks(inbox["home"][d], m) => m <= n
AcksOK == SoleHome => \A c \in Carriers : link[c] = "up" => AcksOn(c)

LEMMA AcksTail ==
  ASSUME NEW q \in Seq(Frame), q # <<>>
  PROVE  /\ \A n : Acks(Tail(q), n) => Acks(q, n)
         /\ IsAck(Head(q)) => Acks(q, Head(q).next_offset)
         /\ Ordered(q) =>
                /\ Ordered(Tail(q))
                /\ IsAck(Head(q)) => \A n : Acks(Tail(q), n) => Head(q).next_offset <= n
<1> DEFINE p == Tail(q)
<1>1. /\ Len(q) \in Nat /\ Len(q) >= 1 /\ Len(p) = Len(q) - 1 /\ Head(q) = q[1]
      /\ \A i \in 1..Len(p) : p[i] = q[i + 1] /\ i + 1 \in 1..Len(q)
  BY TailItems
<1> HIDE DEF p
<1>2. 1 \in 1..Len(q) /\ \A i \in 1..Len(p) : 1 < i + 1 BY <1>1
<1>3. \A i, j \in 1..Len(p) : i < j => i + 1 < j + 1 BY <1>1
<1>4. \A n : Acks(p, n) => Acks(q, n) BY <1>1 DEF Acks
<1>5. IsAck(Head(q)) => Acks(q, Head(q).next_offset) BY <1>1, <1>2 DEF Acks
<1>6. ASSUME Ordered(q) PROVE Ordered(p)
  <2> SUFFICES ASSUME NEW i \in 1..Len(p), NEW j \in 1..Len(p), i < j, IsAck(p[i]), IsAck(p[j])
               PROVE  p[i].next_offset <= p[j].next_offset
    BY DEF Ordered
  <2>1. /\ i + 1 \in 1..Len(q) /\ j + 1 \in 1..Len(q) /\ i + 1 < j + 1
        /\ p[i] = q[i + 1] /\ p[j] = q[j + 1]
    BY <1>1, <1>3
  <2> QED BY <1>6, <2>1 DEF Ordered
<1>7. ASSUME Ordered(q), IsAck(Head(q)), NEW n, Acks(p, n) PROVE Head(q).next_offset <= n
  <2>1. PICK i \in 1..Len(p) : IsAck(p[i]) /\ p[i].next_offset = n BY <1>7 DEF Acks
  <2>2. /\ i + 1 \in 1..Len(q) /\ 1 < i + 1 /\ p[i] = q[i + 1] /\ 1 \in 1..Len(q)
        /\ Head(q) = q[1]
    BY <1>1, <1>2
  <2> QED BY <1>7, <2>1, <2>2 DEF Ordered
<1> QED BY <1>4, <1>5, <1>6, <1>7 DEF p

LEMMA AcksAppend ==
  ASSUME NEW q \in Seq(Frame), NEW f \in Seq(Frame)
  PROVE  /\ \A n : Acks(q \o f, n) <=> Acks(q, n) \/ Acks(f, n)
         /\ /\ Ordered(q) /\ Ordered(f)
            /\ \A n, m \in Nat : Acks(q, n) /\ Acks(f, m) => n <= m
            => Ordered(q \o f)
<1> DEFINE p == q \o f
<1>1. /\ Len(q) \in Nat /\ Len(f) \in Nat /\ Len(p) = Len(q) + Len(f)
      /\ \A i \in 1..Len(q) : i \in 1..Len(p) /\ p[i] = q[i]
      /\ \A i \in 1..Len(f) : Len(q) + i \in 1..Len(p) /\ p[Len(q) + i] = f[i]
      /\ \A k \in 1..Len(p) : k \in 1..Len(q) \/ \E i \in 1..Len(f) : k = Len(q) + i
  BY ConcatItems
<1> HIDE DEF p
<1>2. ASSUME NEW n PROVE Acks(p, n) <=> Acks(q, n) \/ Acks(f, n)
  <2>1. ASSUME Acks(p, n) PROVE Acks(q, n) \/ Acks(f, n)
    <3>1. PICK k \in 1..Len(p) : IsAck(p[k]) /\ p[k].next_offset = n BY <2>1 DEF Acks
    <3>2. CASE k \in 1..Len(q) BY <1>1, <3>1, <3>2 DEF Acks
    <3>3. ASSUME NEW i \in 1..Len(f), k = Len(q) + i PROVE Acks(f, n)
      BY <1>1, <3>1, <3>3 DEF Acks
    <3> QED BY <1>1, <3>2, <3>3
  <2>2. Acks(q, n) => Acks(p, n) BY <1>1 DEF Acks
  <2>3. Acks(f, n) => Acks(p, n) BY <1>1 DEF Acks
  <2> QED BY <2>1, <2>2, <2>3
<1>3. ASSUME Ordered(q), Ordered(f), \A n, m \in Nat : Acks(q, n) /\ Acks(f, m) => n <= m
      PROVE  Ordered(p)
  <2> SUFFICES ASSUME NEW k \in 1..Len(p), NEW l \in 1..Len(p), k < l, IsAck(p[k]), IsAck(p[l])
               PROVE  p[k].next_offset <= p[l].next_offset
    BY DEF Ordered
  <2>1. CASE k \in 1..Len(q) /\ l \in 1..Len(q)
    BY <1>1, <1>3, <2>1 DEF Ordered
  <2>2. ASSUME k \in 1..Len(q), NEW j \in 1..Len(f), l = Len(q) + j
        PROVE  p[k].next_offset <= p[l].next_offset
    <3>1. p[k] = q[k] /\ p[l] = f[j] BY <1>1, <2>2
    <3>2. q[k] \in Frame /\ f[j] \in Frame BY <2>2, ElementOfSeq
    <3>3. q[k].next_offset \in Nat /\ f[j].next_offset \in Nat
      BY <3>1, <3>2, FrameFields DEF IsAck
    <3>4. Acks(q, q[k].next_offset) /\ Acks(f, f[j].next_offset) BY <2>2, <3>1 DEF Acks
    <3> QED BY <1>3, <3>1, <3>3, <3>4
  <2>3. ASSUME NEW i \in 1..Len(f), k = Len(q) + i, NEW j \in 1..Len(f), l = Len(q) + j
        PROVE  p[k].next_offset <= p[l].next_offset
    <3>1. p[k] = f[i] /\ p[l] = f[j] /\ i < j BY <1>1, <2>3
    <3> QED BY <1>3, <3>1 DEF Ordered
  <2>4. ~(k \notin 1..Len(q) /\ l \in 1..Len(q)) BY <1>1
  <2> QED BY <1>1, <2>1, <2>2, <2>3, <2>4
<1> QED BY <1>2, <1>3 DEF p

\* No acknowledgement is ahead of what Travel delivered.
LEMMA AckBound ==
  ASSUME NEW box, NEW T, NEW R, ChannelOK(box, T, R), NEW d \in Carriers, NEW n,
         Acks(box["home"][d], n)
  PROVE  n <= R["travel"].receive_offset
<1>1. "home" \in Sides /\ Peer("home") = "travel" BY DEF Sides, Peer
<1>2. PICK i \in 1..Len(box["home"][d]) :
          IsAck(box["home"][d][i]) /\ box["home"][d][i].next_offset = n
  BY DEF Acks
<1> QED BY <1>1, <1>2 DEF ChannelOK, FrameOK, IsAck

\* Travel acknowledges on its active Carrier, and all it has delivered.
LEMMA TravelAcksOn ==
  ASSUME TypeOK, SelectionOK, NEW d \in Carriers, TravelMove(d), ChannelOK(inbox', tx', rx')
  PROVE  /\ \A n : Acks(inbox'["home"][d], n) =>
                \/ Acks(inbox["home"][d], n)
                \/ n = rx'["travel"].receive_offset /\ d = travel.active
         /\ rx'["travel"].receive_offset \in Nat /\ Ordered(inbox["home"][d]) =>
                Ordered(inbox'["home"][d])
<1> DEFINE q == inbox["home"][d]
           p == inbox'["home"][d]
           x == rx'["travel"].receive_offset
<1>1. q \in Seq(Frame) /\ inbox["travel"][d] \in Seq(Frame) BY DEF TypeOK, Sides
<1>2. ASSUME d \in travel.carriers, Arrives("travel", d, {"Data"}) PROVE d = travel.active
  <2> SUFFICES ASSUME d # travel.active PROVE FALSE OBVIOUS
  <2>1. AnswerFirst(inbox["travel"][d], travel.race)
    BY <1>2 DEF SelectionOK, SelectionOn, CandidateOK
  <2>2. inbox["travel"][d] # <<>> /\ Head(inbox["travel"][d]).type = "Data" BY <1>2 DEF Arrives
  <2>3. ~Answers(Head(inbox["travel"][d]), travel.race) BY <2>2 DEF Answers, IsAnswer
  <2>4. Head(inbox["travel"][d]).type # "Data" BY <1>1, <2>1, <2>2, <2>3, AnswerTail
  <2> QED BY <2>2, <2>4
<1>b. \A n : Acks(p, n) => n <= x BY AckBound
<1> HIDE DEF q, p, x
<1>3. ASSUME NEW f \in Seq(Frame), p = q \o f,
             \A i \in 1..Len(f) : IsAck(f[i]) =>
                 f[i].next_offset = x /\ d \in travel.carriers /\ Arrives("travel", d, {"Data"})
      PROVE  /\ \A n : Acks(p, n) => Acks(q, n) \/ (n = x /\ d = travel.active)
             /\ x \in Nat /\ Ordered(q) => Ordered(p)
  <2>1. \A n : Acks(f, n) => n = x /\ d = travel.active BY <1>2, <1>3 DEF Acks
  <2>2. \A n : Acks(p, n) <=> Acks(q, n) \/ Acks(f, n) BY <1>1, <1>3, AcksAppend DEF q
  <2>3. ASSUME x \in Nat, Ordered(q) PROVE Ordered(p)
    <3>1. Ordered(f) BY <1>3, <2>3 DEF Ordered
    <3>2. \A n, m \in Nat : Acks(q, n) /\ Acks(f, m) => n <= m BY <1>b, <2>1, <2>2
    <3> QED BY <1>1, <1>3, <2>3, <3>1, <3>2, AcksAppend DEF q
  <2> QED BY <2>1, <2>2, <2>3
<1>4. ASSUME p = q
      PROVE  /\ \A n : Acks(p, n) => Acks(q, n) \/ (n = x /\ d = travel.active)
             /\ x \in Nat /\ Ordered(q) => Ordered(p)
  BY <1>4
<1> QED BY <1>3, <1>4 DEF TravelMove, TravelSays, q, p, x

\* A step of Travel keeps its acknowledgements in order.
LEMMA TravelAcks ==
  ASSUME DeliveryInv, DeliveryInv', LinksOK, SelectionOK, AcksOK, SoleHome, TravelNext
  PROVE  AcksOK'
<1> DEFINE x == rx'["travel"].receive_offset
           a == tx["home"].send_acked
<1> SUFFICES ASSUME SoleHome', NEW c \in Carriers, link'[c] = "up" PROVE AcksOn(c)'
  BY DEF AcksOK
<1>t. TypeOK /\ TypeOK' /\ ChannelOK(inbox', tx', rx') /\ TransferOK(tx', rx') BY DEF DeliveryInv
<1>m. \A d \in Carriers : TravelMove(d) BY <1>t, TravelMoves
<1>x. x \in Nat /\ a <= x
  <2>1. "travel" \in Sides /\ "home" \in Sides /\ Peer("home") = "travel" BY DEF Sides, Peer
  <2>2. tx'["home"] = tx["home"] BY <1>m DEF TravelMove
  <2> QED BY <1>t, <2>1, <2>2 DEF TransferOK, TypeOK, RxState
<1>1. /\ link[c] = "up" /\ (c = travel.active => c = travel'.active) /\ tx'["home"] = tx["home"]
  BY <1>m DEF TravelMove
<1>2. AcksOn(c) BY <1>1 DEF AcksOK
<1>3. ASSUME NEW d \in Carriers
      PROVE  /\ \A n : Acks(inbox'["home"][d], n) =>
                    Acks(inbox["home"][d], n) \/ (n = x /\ d = travel.active)
             /\ \A n : Acks(inbox'["home"][d], n) => n <= x
             /\ Ordered(inbox["home"][d]) => Ordered(inbox'["home"][d])
  <2>1. \A n : Acks(inbox'["home"][d], n) =>
            Acks(inbox["home"][d], n) \/ (n = x /\ d = travel.active)
    BY <1>t, <1>m, TravelAcksOn
  <2>2. ASSUME NEW n, Acks(inbox'["home"][d], n) PROVE n <= x BY <1>t, <2>2, AckBound
  <2>3. Ordered(inbox["home"][d]) => Ordered(inbox'["home"][d])
    BY <1>t, <1>m, <1>x, TravelAcksOn
  <2> QED BY <2>1, <2>2, <2>3
<1> HIDE DEF x
<1>4. Ordered(inbox["home"][c]) BY <1>2 DEF AcksOn
<1>5. ASSUME NEW n \in Nat, Acks(inbox'["home"][c], n)
      PROVE  /\ c = travel'.active /\ a <= n
             /\ \A d \in Carriers \ {c}, k \in Nat : Acks(inbox'["home"][d], k) => k <= n
  <2>1. CASE Acks(inbox["home"][c], n)
    <3>1. /\ c = travel.active /\ a <= n
          /\ \A d \in Carriers \ {c}, k \in Nat : Acks(inbox["home"][d], k) => k <= n
      BY <1>2, <2>1 DEF AcksOn
    <3> QED BY <1>1, <1>3, <3>1
  <2>2. CASE n = x /\ c = travel.active BY <1>1, <1>3, <1>x, <2>2
  <2> QED BY <1>3, <1>5, <2>1, <2>2
<1> QED BY <1>1, <1>3, <1>4, <1>5 DEF AcksOn

\* A step of Home takes them in that order.
LEMMA HomeAcked ==
  ASSUME TypeOK, NoHomeYet, HomeNext, SoleHome'
  PROVE  \/ tx'["home"].send_acked = tx["home"].send_acked
         \/ \E c \in Carriers :
                LET h == inbox["home"][c] IN
                /\ h # <<>> /\ IsAck(Head(h)) /\ inbox'["home"][c] = Tail(h)
                /\ tx'["home"].send_acked = Head(h).next_offset
<1> DEFINE Same == tx'["home"].send_acked = tx["home"].send_acked
<1>t. /\ tx \in [Sides -> TxState] /\ inbox \in Boxes /\ home \in HomeState /\ home.inc \in Nat
      /\ "home" \in Sides /\ tx["home"] \in TxState
  BY FlowConstants DEF TypeOK, Boxes, Sides, HomeState
<1>e. ASSUME NEW outcome, NEW links, HomeEnds(outcome, links) PROVE Same BY <1>e DEF HomeEnds
<1>a. ASSUME NEW queued, Attaches(queued) PROVE Same
  <2>1. CASE home.phase # "absent" BY <1>a, <2>1 DEF Attaches
  <2>2. CASE home.phase = "absent"
    <3>1. home'.inc = home.inc + 1 /\ tx'["home"] = NewTx
      BY <1>a, <1>t, <2>2 DEF Attaches, HomeState
    <3>2. home.inc = 0 BY <1>t, <3>1 DEF SoleHome
    <3> QED BY <3>1, <3>2 DEF NoHomeYet
  <2> QED BY <2>1, <2>2
<1> HIDE DEF Same
<1>1. ASSUME NEW c \in Carriers, Attach(c) \/ AttachNoSlot(c) \/ AttachRejected(c) PROVE Same
  BY <1>1, <1>a DEF Attach, AttachNoSlot, AttachRejected, Same
<1>2. ASSUME NEW c \in Carriers,
             \/ Admit(c) \/ HomeRaceWon(c) \/ HomeRaceLost(c) \/ HomeData(c) \/ HomeDuplicate(c)
             \/ HomeFin(c) \/ HomeObjects(c) \/ HomeCarrierClosed(c)
      PROVE  Same
  BY <1>2 DEF Admit, HomeRaceWon, HomeRaceLost, HomeData, HomeDuplicate, HomeFin, HomeObjects,
     HomeCarrierClosed, DataDuplicate, FinInOrder, Same
<1>3. ASSUME NEW c \in Carriers, AdmitFails(c) PROVE Same
  BY <1>3, <1>e DEF AdmitFails, HomeFails
<1>4. ASSUME DetachExpires \/ HomeStops \/ HomeDrainTimesOut \/ HomeCompletes PROVE Same
  BY <1>4, <1>e DEF DetachExpires, HomeStops, HomeDrainTimesOut, HomeCompletes, HomeFails
<1>5. ASSUME TargetConnects PROVE Same BY <1>5 DEF TargetConnects, Same
<1>6. ASSUME NEW len \in SegLens, TargetData(len) PROVE Same
  BY <1>6, <1>t DEF TargetData, ReadData, Buffer, TxState, Same
<1>7. ASSUME TargetEof PROVE Same BY <1>7, <1>t DEF TargetEof, ReadEof, TxState, Same
<1>8. ASSUME NEW c \in Carriers, HomeFinAck(c) PROVE Same
  BY <1>8, <1>t DEF HomeFinAck, FinAckInOrder, TxState, Same
<1>9. ASSUME NEW c \in Carriers, HomeAck(c)
      PROVE  \/ Same
             \/ /\ inbox["home"][c] # <<>> /\ IsAck(Head(inbox["home"][c]))
                /\ inbox'["home"][c] = Tail(inbox["home"][c])
                /\ tx'["home"].send_acked = Head(inbox["home"][c]).next_offset
  <2>1. CASE AckSplits("home", c) BY <1>9, <1>e, <2>1 DEF HomeAck, HomeFails
  <2>2. CASE AckInWindow("home", c)
    <3> DEFINE n == Head(inbox["home"][c]).next_offset
    <3>1. /\ inbox["home"][c] # <<>> /\ Head(inbox["home"][c]).type \in {"Ack", "Duplicate"}
          /\ inbox' = Consumed("home", c)
      BY <2>2 DEF AckInWindow, Arrives
    <3>2. PICK j \in 0..Len(tx["home"].unacked) :
              tx' = [tx EXCEPT !["home"] = Acknowledge(@, n, j)]
      BY <2>2 DEF AckInWindow
    <3>3. tx'["home"] = Acknowledge(tx["home"], n, j) BY <1>t, <3>2
    <3>4. tx'["home"].send_acked = n BY <1>t, <3>3 DEF Acknowledge, TxState
    <3>5. inbox'["home"][c] = Tail(inbox["home"][c]) BY <1>t, <3>1, HomeConsumed
    <3> QED BY <3>1, <3>4, <3>5 DEF IsAck
  <2> QED BY <1>9, <2>1, <2>2 DEF HomeAck
<1> QED BY <1>1, <1>2, <1>3, <1>4, <1>5, <1>6, <1>7, <1>8, <1>9 DEF HomeNext, Same

LEMMA HomeAcks ==
  ASSUME DeliveryInv, LinksOK, AcksOK, HomeNext, SoleHome, SoleHome'
  PROVE  AcksOK'
<1> SUFFICES ASSUME NEW c \in Carriers, link'[c] = "up" PROVE AcksOn(c)'
  BY DEF AcksOK
<1>t. TypeOK /\ NoHomeYet /\ "home" \in Sides /\ \A d \in Carriers : inbox["home"][d] \in Seq(Frame)
  BY DEF DeliveryInv, TypeOK, Sides
<1>m. \A d \in Carriers : HomeMove(d) BY <1>t, HomeMoves
<1>1. travel' = travel /\ link[c] \in {"opening", "up"} BY <1>m DEF HomeMove
\* Home only takes what is under way.
<1>2. ASSUME NEW d \in Carriers
      PROVE  /\ \A n : Acks(inbox'["home"][d], n) => Acks(inbox["home"][d], n)
             /\ Ordered(inbox["home"][d]) => Ordered(inbox'["home"][d])
  <2> DEFINE h == inbox["home"][d]
             g == inbox'["home"][d]
  <2>1. g = h \/ (h # <<>> /\ g = Tail(h)) \/ g = <<>> BY <1>m DEF HomeMove, HomeHears
  <2>2. h \in Seq(Frame) BY <1>t
  <2>3. Ordered(<<>>) /\ \A n : ~Acks(<<>>, n) BY DEF Ordered, Acks
  <2>4. h # <<>> => /\ \A n : Acks(Tail(h), n) => Acks(h, n)
                    /\ Ordered(h) => Ordered(Tail(h))
    BY <2>2, AcksTail
  <2> HIDE DEF h, g
  <2>5. /\ \A n : Acks(g, n) => Acks(h, n)
        /\ Ordered(h) => Ordered(g)
    BY <2>1, <2>3, <2>4
  <2> QED BY <2>5 DEF h, g
<1>3. CASE link[c] = "opening"
  <2>1. inbox["home"][c] = <<>> BY <1>3 DEF LinksOK, Idle
  <2>2. Ordered(<<>>) /\ \A n : ~Acks(<<>>, n) BY DEF Ordered, Acks
  <2> QED BY <1>2, <2>1, <2>2 DEF AcksOn
<1>4. CASE link[c] = "up"
  <2>1. AcksOn(c) BY <1>4 DEF AcksOK
  <2>2. Ordered(inbox["home"][c]) BY <2>1 DEF AcksOn
  <2>3. ASSUME NEW n \in Nat, Acks(inbox'["home"][c], n)
        PROVE  /\ c = travel.active /\ tx'["home"].send_acked <= n
               /\ \A d \in Carriers \ {c}, k \in Nat : Acks(inbox'["home"][d], k) => k <= n
    <3>1. /\ c = travel.active /\ tx["home"].send_acked <= n
          /\ \A d \in Carriers \ {c}, k \in Nat : Acks(inbox["home"][d], k) => k <= n
      BY <1>2, <2>1, <2>3 DEF AcksOn
    <3>2. ASSUME NEW d \in Carriers, inbox["home"][d] # <<>>, IsAck(Head(inbox["home"][d])),
                 inbox'["home"][d] = Tail(inbox["home"][d]),
                 tx'["home"].send_acked = Head(inbox["home"][d]).next_offset
          PROVE  tx'["home"].send_acked <= n
      <4> DEFINE h == inbox["home"][d]
      <4>1. h \in Seq(Frame) BY <1>t
      <4>2. Acks(h, Head(h).next_offset) BY <3>2, <4>1, AcksTail
      <4>3. Head(h) \in Frame BY <1>t, <3>2, ConsumedType DEF TypeOK, Boxes
      <4>4. Head(h).next_offset \in Nat BY <3>2, <4>3, FrameFields DEF IsAck
      <4>5. CASE d = c
        <5>1. Ordered(h) /\ Acks(Tail(h), n) BY <2>2, <2>3, <3>2, <4>5
        <5>2. Head(h).next_offset <= n BY <3>2, <4>1, <5>1, AcksTail
        <5> QED BY <3>2, <5>2
      <4>6. CASE d # c BY <3>1, <3>2, <4>2, <4>4, <4>6
      <4> QED BY <4>5, <4>6
    <3>3. tx'["home"].send_acked <= n BY <1>t, <3>1, <3>2, HomeAcked
    <3> QED BY <1>2, <3>1, <3>3
  <2> QED BY <1>1, <1>2, <2>2, <2>3 DEF AcksOn
<1> QED BY <1>1, <1>3, <1>4

LEMMA SoleHomeBefore ==
  ASSUME TypeOK, [Next]_vars, SoleHome'
  PROVE  SoleHome
<1>1. home.inc \in Nat BY FlowConstants DEF TypeOK, HomeState
<1>2. home'.inc = home.inc \/ home'.inc = home.inc + 1 BY NextEffects DEF NewHome, Effects, HomeStep
<1> QED BY <1>1, <1>2 DEF SoleHome

LEMMA AcksNext ==
  ASSUME DeliveryInv, DeliveryInv', LinksOK, SelectionOK, AcksOK, [Next]_vars
  PROVE  AcksOK'
<1>t. TypeOK BY DEF DeliveryInv
<1>s. CASE ~SoleHome' BY <1>s DEF AcksOK
<1>u. CASE SoleHome'
  <2>s. SoleHome BY <1>t, <1>u, SoleHomeBefore
  <2>1. CASE TravelNext BY <2>1, <2>s, TravelAcks
  <2>2. CASE HomeNext BY <1>u, <2>2, <2>s, HomeAcks
  <2>3. ASSUME NEW c \in Carriers, Break(c) PROVE AcksOK'
    <3>1. travel' = travel /\ tx' = tx /\ inbox' = inbox /\ link' = Dropped({c}) BY <2>3 DEF Break
    <3>2. \A d \in Carriers : link'[d] = "up" => link[d] = "up" BY <3>1 DEF Dropped
    <3> QED BY <2>s, <3>1, <3>2 DEF AcksOK, AcksOn
  <2>4. CASE UNCHANGED vars BY <2>4, <2>s DEF AcksOK, AcksOn, vars
  <2> QED BY <2>1, <2>2, <2>3, <2>4 DEF Next
<1> QED BY <1>s, <1>u

\* However acknowledgements cross with races, what Home has still to read of them
\* on a Carrier that works is in order, and at or after what it has already taken.
THEOREM AcksInvariant == Spec => []AcksOK
<1>1. Init => AcksOK
  <2> SUFFICES ASSUME Init, NEW c \in Carriers PROVE link[c] # "up" BY DEF AcksOK
  <2> QED BY DEF Init
<1> QED
  BY <1>1, DeliveryInvariant, LinksInvariant, SelectionInvariant, AcksNext, PTL DEF Spec

-----------------------------------------------------------------------------
(* The Flow that only downloads.                                            *)

\* What Travel would have to report if a handover cost the Flow.
Lost == {"acknowledgement moved backwards", "non-contiguous data", "ACK split a frame",
         "Home closed flow", "invalid frame"}

\* A FinAck is for the end of what its reader wrote.
FinAcksOK == \A s \in Sides : \A m \in InFlight(s) :
                 m.type = "FinAck" => m.final_offset = tx[s].send_offset

\* As long as Travel has sent nothing, no Race claims that Home has more than that,
\* Home closes nothing, and Travel keeps the Flow.
QuietOK ==
    tx["travel"].send_offset = 0 =>
        /\ \A m \in InFlight("home") : m.type = "Race" => m.next_offset = 0
        /\ \A m \in InFlight("travel") : m.type # "Close"
        /\ travel.reason \notin Lost
DownloadOK == SoleHome => FinAcksOK /\ QuietOK

\* What both endpoints know of the upload.
LEMMA NothingUp ==
  ASSUME DeliveryInv, SoleHome, tx["travel"].send_offset = 0
  PROVE  /\ rx["home"].receive_offset = 0 /\ tx["travel"].send_acked = 0
         /\ ChannelOK(inbox, tx, rx) /\ TransferOK(tx, rx)
         /\ "travel" \in Sides /\ "home" \in Sides
         /\ Peer("travel") = "home" /\ Peer("home") = "travel"
         /\ inbox \in Boxes
         /\ rx["travel"].receive_offset \in Nat /\ tx["home"].send_offset \in Nat
         /\ rx["travel"].receive_offset <= tx["home"].send_offset
<1>1. /\ ChannelOK(inbox, tx, rx) /\ TransferOK(tx, rx)
      /\ "travel" \in Sides /\ "home" \in Sides
      /\ Peer("travel") = "home" /\ Peer("home") = "travel"
      /\ inbox \in Boxes
  BY DEF DeliveryInv, TypeOK, Boxes, Sides, Peer
<1>2. /\ rx["home"].receive_offset \in Nat /\ tx["travel"].send_acked \in Nat
      /\ rx["travel"].receive_offset \in Nat /\ tx["home"].send_offset \in Nat
  BY <1>1 DEF DeliveryInv, TypeOK, RxState, TxState
<1>3. /\ tx["travel"].send_acked <= rx["home"].receive_offset
      /\ rx["home"].receive_offset <= tx["travel"].send_offset
      /\ rx["travel"].receive_offset <= tx["home"].send_offset
  BY <1>1 DEF TransferOK
<1> QED BY <1>1, <1>2, <1>3

LEMMA NoObjection ==
  ASSUME DeliveryInv, SoleHome, AcksOK, FinAcksOK, QuietOK, tx["travel"].send_offset = 0,
         NEW c \in Carriers, link[c] = "up"
  PROVE  ~HomeObjects(c)
<1> SUFFICES ASSUME HomeObjects(c) PROVE FALSE OBVIOUS
<1> DEFINE h == inbox["home"][c]
           m == Head(h)
<1>1. /\ h # <<>>
      /\ \/ m.type = "Data" /\ End(m) > rx["home"].receive_offset
         \/ m.type = "Race" /\ m.next_offset > rx["home"].receive_offset
         \/ m.type \in {"Ack", "Duplicate"} /\ ~InWindow(tx["home"], m.next_offset)
         \/ m.type = "Fin" /\ m.final_offset # rx["home"].receive_offset
         \/ /\ m.type = "FinAck"
            /\ ~(tx["home"].local_eof /\ m.final_offset = tx["home"].send_offset)
  BY DEF HomeObjects, Arrives, OutOfOrder
<1>2. /\ rx["home"].receive_offset = 0 /\ ChannelOK(inbox, tx, rx) /\ TransferOK(tx, rx)
      /\ "home" \in Sides /\ Peer("home") = "travel" /\ inbox \in Boxes
      /\ Peer("travel") = "home" /\ "travel" \in Sides
      /\ rx["travel"].receive_offset \in Nat /\ tx["home"].send_offset \in Nat
      /\ rx["travel"].receive_offset <= tx["home"].send_offset
  BY NothingUp
<1>3. m \in Frame /\ m \in InFlight("home") /\ h \in Seq(Frame)
  BY <1>1, <1>2, FlyingConsumed, ConsumedType DEF Boxes
<1>4. FrameOK(tx["travel"], rx["travel"], m)
  BY <1>1, <1>2, ChannelConsumed
<1>5. CASE m.type = "Data"
  <2>1. End(m) <= tx["travel"].send_offset BY <1>4, <1>5 DEF FrameOK
  <2>2. m.offset \in Nat /\ m.len \in Nat BY <1>3, <1>5, FrameFields
  <2>3. End(m) \in Nat BY <2>2 DEF End
  <2> HIDE DEF m
  <2> QED BY <1>1, <1>2, <1>5, <2>1, <2>3
<1>6. CASE m.type = "Race"
  <2>1. m.next_offset = 0 BY <1>3, <1>6 DEF QuietOK
  <2> QED BY <1>1, <1>2, <1>6, <2>1
<1>7. CASE m.type \in {"Ack", "Duplicate"}
  <2>1. m.next_offset \in Nat BY <1>3, <1>7, FrameFields
  <2>2. m.next_offset <= rx["travel"].receive_offset BY <1>4, <1>7 DEF FrameOK
  <2>3. Acks(h, m.next_offset) BY <1>1, <1>3, <1>7, AcksTail DEF IsAck
  <2>4. AcksOn(c) BY DEF AcksOK
  <2>5. tx["home"].send_acked <= m.next_offset BY <2>1, <2>3, <2>4 DEF AcksOn
  <2>6. tx["home"].send_acked \in Nat BY <1>2 DEF DeliveryInv, TypeOK, TxState
  <2> HIDE DEF m, h
  <2>7. m.next_offset >= tx["home"].send_acked /\ m.next_offset <= tx["home"].send_offset
    BY <1>2, <2>1, <2>2, <2>5, <2>6
  <2> QED BY <1>1, <1>7, <2>7 DEF InWindow
<1>8. CASE m.type = "Fin"
  <2>1. m.final_offset = tx["travel"].send_offset BY <1>4, <1>8 DEF FrameOK
  <2> QED BY <1>1, <1>2, <1>8, <2>1
<1>9. CASE m.type = "FinAck"
  <2>1. rx["travel"].remote_eof BY <1>4, <1>9 DEF FrameOK
  <2>2. tx["home"].local_eof BY <1>2, <2>1 DEF TransferOK
  <2>3. m.final_offset = tx["home"].send_offset BY <1>2, <1>3, <1>9 DEF FinAcksOK
  <2> QED BY <1>1, <1>9, <2>2, <2>3
<1> QED BY <1>1, <1>5, <1>6, <1>7, <1>8, <1>9

\* Travel's arms that bail do not run.
LEMMA NoBail ==
  ASSUME DeliveryInv, MarksOK, NoGap, SoleHome, FinAcksOK, QuietOK,
         tx["travel"].send_offset = 0, NEW c \in Carriers
  PROVE  ~TravelBails(c)
<1> DEFINE q == inbox["travel"][c]
           m == Head(q)
           x == rx["travel"].receive_offset
<1>t. /\ tx["travel"].send_acked = 0 /\ rx["home"].receive_offset = 0
      /\ ChannelOK(inbox, tx, rx) /\ TransferOK(tx, rx)
      /\ "travel" \in Sides /\ Peer("travel") = "home" /\ inbox \in Boxes
      /\ "home" \in Sides /\ Peer("home") = "travel"
      /\ x \in Nat /\ tx["home"].send_offset \in Nat /\ x <= tx["home"].send_offset
  BY NothingUp
<1>y. TypeOK BY DEF DeliveryInv
<1>h. ASSUME q # <<>>
      PROVE  /\ m \in InFlight("travel") /\ m \in Frame
             /\ FrameOK(tx["home"], rx["home"], m)
  BY <1>h, <1>t, FlyingConsumed, ConsumedType, ChannelConsumed
<1>1. ~AckSplits("travel", c)
  <2> SUFFICES ASSUME AckSplits("travel", c) PROVE FALSE OBVIOUS
  <2>1. q # <<>> /\ m.type \in {"Ack", "Duplicate"} BY DEF AckSplits, Arrives
  <2>2. m \in InFlight("travel") /\ m.next_offset \in Nat BY <1>h, <2>1, FrameFields
  <2>3. \E j \in 0..Len(tx["travel"].unacked) :
            Pops(tx["travel"], m.next_offset, j) /\ Splits(tx["travel"], m.next_offset, j)
    BY DEF AckSplits
  <2> HIDE DEF m
  <2> QED BY <1>t, <1>y, <2>1, <2>2, <2>3, NoSplit
<1>2. ~(/\ Arrives("travel", c, {"Data"})
        /\ m.offset # rx["travel"].receive_offset
        /\ End(m) > rx["travel"].receive_offset)
  BY <1>y, Contiguous
<1>3. ~Arrives("travel", c, {"Close"}) BY <1>h DEF QuietOK, Arrives
<1>4. ~OutOfOrder("travel", c)
  <2> SUFFICES ASSUME OutOfOrder("travel", c) PROVE FALSE OBVIOUS
  <2>1. /\ q # <<>>
        /\ \/ m.type \in {"Ack", "Duplicate"} /\ ~InWindow(tx["travel"], m.next_offset)
           \/ m.type = "Fin" /\ m.final_offset # x
           \/ /\ m.type = "FinAck"
              /\ ~(tx["travel"].local_eof /\ m.final_offset = tx["travel"].send_offset)
    BY DEF OutOfOrder, Arrives
  <2>2. m \in InFlight("travel") /\ m \in Frame /\ FrameOK(tx["home"], rx["home"], m)
    BY <1>h, <2>1
  <2>3. CASE m.type \in {"Ack", "Duplicate"}
    <3>1. m.next_offset \in Nat BY <2>2, <2>3, FrameFields
    <3>2. m.next_offset <= rx["home"].receive_offset BY <2>2, <2>3 DEF FrameOK
    <3> HIDE DEF m
    <3>3. m.next_offset >= tx["travel"].send_acked /\ m.next_offset <= tx["travel"].send_offset
      BY <1>t, <3>1, <3>2
    <3> QED BY <2>1, <2>3, <3>3 DEF InWindow
  <2>4. CASE m.type = "Fin"
    <3>1. m.final_offset = tx["home"].send_offset BY <2>2, <2>4 DEF FrameOK
    <3>2. q \in Seq(Frame) BY <1>t DEF Boxes
    <3>3. m = q[1] /\ 1 \in 1..Len(q) BY <2>1, <3>2, TailItems
    <3>4. GapFree(q, x) BY DEF NoGap, NoGapOn
    <3>5. ReachedBy(q, 1 - 1, x, m.final_offset) BY <2>4, <3>3, <3>4 DEF GapFree, Needs
    <3>6. m.final_offset <= x BY <3>5 DEF ReachedBy
    <3> HIDE DEF m, q, x
    <3>7. m.final_offset = x BY <1>t, <3>1, <3>6
    <3> QED BY <2>1, <2>4, <3>7
  <2>5. CASE m.type = "FinAck"
    <3>1. rx["home"].remote_eof BY <2>2, <2>5 DEF FrameOK
    <3>2. tx["travel"].local_eof BY <1>t, <3>1 DEF TransferOK
    <3>3. m.final_offset = tx["travel"].send_offset BY <1>t, <2>2, <2>5 DEF FinAcksOK
    <3> QED BY <2>1, <2>5, <3>2, <3>3
  <2> QED BY <2>1, <2>3, <2>4, <2>5
<1> QED BY <1>1, <1>2, <1>3, <1>4 DEF TravelBails

\* Travel's steps leave the Flow up.
LEMMA TravelKeepsFlow ==
  ASSUME DeliveryInv, MarksOK, NoGap, SoleHome, FinAcksOK, QuietOK, TravelNext,
         tx["travel"].send_offset = 0
  PROVE  travel'.reason \notin Lost
<1>t. /\ tx["travel"].send_acked = 0 /\ inbox \in Boxes /\ "travel" \in Sides
      /\ Peer("travel") = "home"
  BY NothingUp
<1>y. TypeOK /\ travel \in TravelState /\ travel.reason \notin Lost
  BY DEF DeliveryInv, TypeOK, QuietOK
<1>k. ASSUME travel'.reason = travel.reason PROVE travel'.reason \notin Lost BY <1>k, <1>y
<1> DEFINE Kept == {"drain timed out", "recovery deadline expired", "stopped",
                    "local TCP failed", "acknowledged unsent data"}
<1>e. ASSUME NEW reason \in Kept, TravelFails(reason)
      PROVE  travel'.reason \notin Lost
  <2>1. reason \notin Lost BY DEF Lost
  <2> QED BY <1>e, <1>y, <2>1 DEF TravelFails, TravelState
<1>1. CASE TravelCompletes BY <1>1, <1>y, <1>k DEF TravelCompletes, TravelState
<1>2. CASE TravelDrainTimesOut \/ RecoveryExpires \/ TravelStops
  <2>1. \E reason \in Kept : TravelFails(reason)
    BY <1>2 DEF TravelDrainTimesOut, RecoveryExpires, TravelStops
  <2> QED BY <1>e, <2>1
<1>3. ASSUME NEW S \in SUBSET Relays, StartRace(S) PROVE travel'.reason \notin Lost
  BY <1>3, <1>y, <1>k DEF StartRace, TravelState
<1>4. CASE RaceTimesOut BY <1>4, <1>y, <1>k DEF RaceTimesOut, TravelState
<1>5. ASSUME NEW c \in Carriers,
             \/ Opened(c) \/ OpenFailed(c) \/ TravelCarrierClosed(c) \/ RaceAnswered(c)
             \/ RaceAnswerIgnored(c)
      PROVE  travel'.reason \notin Lost
  BY <1>5, <1>y, <1>k
  DEF Opened, OpenFailed, TravelCarrierClosed, RaceAnswered, RaceAnswerIgnored, TravelState
<1>6. ASSUME NEW c \in Carriers, OpenedInconsistent(c) PROVE travel'.reason \notin Lost
  <2> DEFINE ok == Head(inbox["travel"][c])
             n == ok.receive_offset
  <2>1. inbox["travel"][c] # <<>> /\ ok.type = "OpenOk" BY <1>6 DEF OpenedInconsistent, Arrives
  <2>2. ok \in InFlight("travel") /\ ok \in Frame BY <1>t, <2>1, FlyingConsumed, ConsumedType
  <2>3. n \in Nat BY <2>1, <2>2, FrameFields
  <2>4. ~(n < tx["travel"].send_acked) BY <1>t, <2>3
  <2>5. \A j \in 0..Len(tx["travel"].unacked) :
            ~(Pops(tx["travel"], n, j) /\ Splits(tx["travel"], n, j))
    BY <1>t, <1>y, <2>1, <2>2, <2>3, NoSplit
  <2>6. TravelFails("acknowledged unsent data") BY <1>6, <2>4, <2>5 DEF OpenedInconsistent
  <2> QED BY <1>e, <2>6
<1>7. ASSUME NEW c \in Carriers, LocalWriteFails(c) PROVE travel'.reason \notin Lost
  BY <1>7, <1>e DEF LocalWriteFails
<1>8. ASSUME NEW c \in Carriers, TravelData(c) PROVE travel'.reason \notin Lost
  BY <1>8, <1>y, <1>k DEF TravelData, TravelState
<1>9. ASSUME NEW c \in Carriers,
             TravelDuplicate(c) \/ TravelAck(c) \/ TravelFin(c) \/ TravelFinAck(c)
      PROVE  travel'.reason \notin Lost
  BY <1>9, <1>k DEF TravelDuplicate, TravelAck, TravelFin, TravelFinAck,
     DataDuplicate, AckInWindow, FinInOrder, FinAckInOrder
<1>10. ASSUME NEW len \in SegLens, LocalData(len) PROVE travel'.reason \notin Lost
  BY <1>10, <1>k DEF LocalData, ReadData
<1>11. CASE LocalEof BY <1>11, <1>k DEF LocalEof, ReadEof
<1>12. CASE RecoveryTimePasses BY <1>12, <1>y, <1>k DEF RecoveryTimePasses, TravelState
<1>13. \A c \in Carriers : ~TravelBails(c) BY NoBail
<1> QED
  BY <1>1, <1>2, <1>3, <1>4, <1>5, <1>6, <1>7, <1>8, <1>9, <1>10, <1>11, <1>12, <1>13
  DEF TravelNext

LEMMA OthersLeaveTravel ==
  ASSUME [Next]_vars, ~TravelNext
  PROVE  travel' = travel
<1>1. \A outcome, links : HomeEnds(outcome, links) => travel' = travel BY DEF HomeEnds
<1>2. CASE HomeNext
  BY <1>1, <1>2
  DEF HomeNext, Attach, AttachNoSlot, AttachRejected, Admit, AdmitFails, HomeRaceWon,
      HomeRaceLost, HomeData, HomeDuplicate, HomeAck, HomeFin, HomeFinAck, HomeObjects,
      HomeCarrierClosed, TargetConnects, TargetData, TargetEof, DetachExpires, HomeStops,
      HomeCompletes, HomeDrainTimesOut, HomeFails,
      DataDuplicate, AckInWindow, FinInOrder, FinAckInOrder, ReadData, ReadEof
<1>3. ASSUME NEW c \in Carriers, Break(c) PROVE travel' = travel BY <1>3 DEF Break
<1>4. CASE UNCHANGED vars BY <1>4 DEF vars
<1> QED BY <1>2, <1>3, <1>4 DEF Next

LEMMA DownloadNext ==
  ASSUME DeliveryInv, DeliveryInv', Windows', MarksOK, NoGap, AcksOK, DownloadOK, [Next]_vars
  PROVE  DownloadOK'
<1> SUFFICES ASSUME SoleHome' PROVE FinAcksOK' /\ QuietOK'
  BY DEF DownloadOK
<1>t. TypeOK /\ TypeOK' /\ NoHomeYet BY DEF DeliveryInv
<1>s. SoleHome BY <1>t, SoleHomeBefore
<1>i. FinAcksOK /\ QuietOK BY <1>s DEF DownloadOK
<1>c. /\ ChannelOK(inbox, tx, rx) /\ TransferOK(tx, rx) /\ TransferOK(tx', rx') /\ inbox \in Boxes
  BY <1>s, <1>t DEF DeliveryInv, TypeOK, Boxes
<1>1. CASE NewHome
  <2>1. /\ home'.inc = home.inc + 1 /\ inbox' = inbox /\ travel' = travel
        /\ tx' = [tx EXCEPT !["home"] = NewTx]
    BY <1>1 DEF NewHome
  <2>2. home.inc \in Nat /\ tx \in [Sides -> TxState] BY <1>t, FlowConstants DEF TypeOK, HomeState
  <2>3. home.inc = 0 BY <2>1, <2>2 DEF SoleHome
  <2>4. tx' = tx BY <1>t, <2>1, <2>2, <2>3 DEF NoHomeYet
  <2> QED BY <1>i, <2>1, <2>4 DEF FinAcksOK, QuietOK, InFlight
<1>2. CASE Effects
  <2>e. \A s \in Sides : TxStep(s) /\ FrameStep(s) BY <1>2 DEF Effects, Transfers
  <2>1. FinAcksOK'
    <3> SUFFICES ASSUME NEW s \in Sides, NEW m \in InFlight(s)', m.type = "FinAck"
                 PROVE  m.final_offset = tx'[s].send_offset
      BY DEF FinAcksOK
    <3>1. Peer(s) \in Sides /\ Peer(Peer(s)) = s BY PeerType
    <3>2. CASE m \in InFlight(s)
      <4>1. m.final_offset = tx[s].send_offset BY <1>i, <3>2 DEF FinAcksOK
      <4>2. PICK c \in Carriers : \E i \in 1..Len(inbox[s][c]) : m = inbox[s][c][i]
        BY <3>2, FlyingDef DEF InFlight
      <4>3. FrameOK(tx[Peer(s)], rx[Peer(s)], m) BY <1>c, <4>2 DEF ChannelOK
      <4>4. rx[Peer(s)].remote_eof BY <4>3 DEF FrameOK
      <4>5. tx[s].local_eof BY <1>c, <3>1, <4>4 DEF TransferOK
      <4>6. tx'[s].send_offset = tx[s].send_offset BY <1>t, <2>e, <4>5, SenderGrows
      <4> QED BY <4>1, <4>6
    <3>3. CASE Speaks(s, m)
      <4>1. rx'[Peer(s)].remote_eof /\ m.final_offset = rx'[Peer(s)].receive_offset
        BY <3>3 DEF Speaks
      <4> QED BY <1>c, <3>1, <4>1 DEF TransferOK
    <3> QED BY <2>e, <3>2, <3>3 DEF FrameStep
  <2>2. ASSUME tx'["travel"].send_offset = 0
        PROVE  /\ \A m \in InFlight("home")' : m.type = "Race" => m.next_offset = 0
               /\ \A m \in InFlight("travel")' : m.type # "Close"
               /\ travel'.reason \notin Lost
    <3>1. /\ "travel" \in Sides /\ "home" \in Sides
          /\ tx["travel"].send_offset \in Nat /\ tx'["travel"].send_acked \in Nat
      BY <1>t DEF Sides, TypeOK, TxState
    <3>2. tx["travel"].send_offset = 0
      <4>1. tx["travel"].send_offset <= tx'["travel"].send_offset BY <1>t, <2>e, <3>1, SenderGrows
      <4> QED BY <2>2, <3>1, <4>1
    <3>3. tx'["travel"].send_acked = 0
      <4>1. tx'["travel"].send_acked <= tx'["travel"].send_offset
        BY <3>1 DEF Windows, WindowOK
      <4> QED BY <2>2, <3>1, <4>1
    <3>4. ASSUME NEW m \in InFlight("home")', m.type = "Race" PROVE m.next_offset = 0
      <4>1. m \in InFlight("home") \/ Speaks("home", m) BY <2>e, <3>1 DEF FrameStep
      <4>2. CASE m \in InFlight("home") BY <1>i, <3>2, <3>4, <4>2 DEF QuietOK
      <4>3. CASE Speaks("home", m) BY <3>3, <3>4, <4>3 DEF Speaks
      <4> QED BY <4>1, <4>2, <4>3
    <3>5. ASSUME NEW m \in InFlight("travel")', m.type = "Close" PROVE FALSE
      <4>1. m \in InFlight("travel") \/ Speaks("travel", m) BY <2>e, <3>1 DEF FrameStep
      <4>2. m \notin InFlight("travel") BY <1>i, <3>2, <3>5 DEF QuietOK
      <4>3. \E c \in Carriers : HomeObjects(c) /\ link[c] = "up" BY <3>5, <4>1, <4>2 DEF Speaks
      <4> QED BY <1>i, <1>s, <3>2, <4>3, NoObjection
    <3>6. travel'.reason \notin Lost
      <4>1. CASE TravelNext BY <1>i, <1>s, <3>2, <4>1, TravelKeepsFlow
      <4>2. CASE ~TravelNext BY <1>i, <3>2, <4>2, OthersLeaveTravel DEF QuietOK
      <4> QED BY <4>1, <4>2
    <3> QED BY <3>4, <3>5, <3>6
  <2> QED BY <2>1, <2>2 DEF QuietOK
<1> QED BY <1>t, <1>1, <1>2, NextEffects

\* A Flow that only downloads survives every handover: neither the snapshot in an
\* OpenOk nor a Race, an acknowledgement or a FIN that crosses on a losing Carrier
\* makes Travel's handle_event or Home's run_flow give it up.
THEOREM DownloadKeepsFlowThm == Spec => []DownloadKeepsFlow
<1>1. Init => DownloadOK
  <2> SUFFICES ASSUME Init PROVE FinAcksOK /\ QuietOK BY DEF DownloadOK
  <2>1. \A s \in Sides, c \in Carriers : inbox[s][c] = <<>> BY DEF Init
  <2>2. \A s \in Sides : InFlight(s) = {}
    <3> SUFFICES ASSUME NEW s \in Sides, NEW m \in InFlight(s) PROVE FALSE OBVIOUS
    <3>1. PICK c \in Carriers : \E i \in 1..Len(inbox[s][c]) : m = inbox[s][c][i]
      BY FlyingDef DEF InFlight
    <3> QED BY <2>1, <3>1
  <2>3. travel.reason = "none" BY DEF Init
  <2>4. "none" \notin Lost BY DEF Lost
  <2> QED BY <2>2, <2>3, <2>4 DEF FinAcksOK, QuietOK, Sides
<1>2. Spec => []DownloadOK
  BY <1>1, DeliveryInvariant, WindowsInvariant, MarksInvariant, NoGapInvariant, AcksInvariant,
     DownloadNext, PTL DEF Spec
<1>3. DownloadOK => DownloadKeepsFlow BY DEF DownloadOK, QuietOK, DownloadKeepsFlow, Lost
<1> QED BY <1>2, <1>3, PTL
=============================================================================
