-------------------------- MODULE AuthorizationProofs --------------------------
(***************************************************************************)
(* Distribution of the Travel authorization, for any number of nodes,      *)
(* credentials, generations, lost connections and restarts.                *)
(***************************************************************************)
EXTENDS Authorization, SequenceTheorems, TLAPS

-----------------------------------------------------------------------------
(* Types.                                                                   *)

LEMMA NewConnOK == NewConn \in Conn
  BY AuthorizationConstants, EmptySeq DEF NewConn, Conn

LEMMA NewNodeOK ==
  ASSUME NEW cache \in Snapshot \cup {NoSnapshot}
  PROVE  NewNode \in Node /\ [NewNode EXCEPT !.cache = cache] \in Node
  BY DEF NewNode, Node

\* Both ends of a connection may have closed it.
LEMMA ReusableOK ==
  ASSUME NEW r \in Conn
  PROVE  Reusable(r) \in Conn
  BY NewConnOK DEF Reusable

LEMMA HeadAndTail ==
  ASSUME NEW S, NEW q \in Seq(S), q # <<>>
  PROVE  /\ Head(q) = q[1] /\ Head(q) \in S /\ Tail(q) \in Seq(S)
         /\ Len(q) \in Nat /\ Len(q) > 0 /\ 1 \in 1..Len(q) /\ Len(Tail(q)) = Len(q) - 1
         /\ \A i \in 1..Len(Tail(q)) : Tail(q)[i] = q[i + 1]
<1>1. Len(q) \in Nat /\ Len(q) # 0 BY LenProperties, EmptySeq
<1> QED BY <1>1, HeadTailProperties

\* A step that changes one connection.
LEMMA OneConn ==
  ASSUME TypeOK, NEW c \in Conns, NEW r \in Conn, conn' = [conn EXCEPT ![c] = r],
         Len(r.queue) <= QueueCapacity
  PROVE  /\ conn' \in [Conns -> Conn]
         /\ (\A d \in Conns : Len(conn[d].queue) <= QueueCapacity)'
         /\ conn'[c] = r /\ \A d \in Conns : d # c => conn'[d] = conn[d]
  BY DEF TypeOK

\* A step that changes one node.
LEMMA OneNode ==
  ASSUME TypeOK, NEW n \in Nodes, NEW r \in Node, node' = [node EXCEPT ![n] = r]
  PROVE  /\ node' \in [Nodes -> Node]
         /\ node'[n] = r /\ \A m \in Nodes : m # n => node'[m] = node[m]
  BY DEF TypeOK

\* The node of a connection.
LEMMA ConnNode ==
  ASSUME NEW c \in Conns
  PROVE  c[1] \in Nodes /\ c \in Of(c[1]) /\ \A n \in Nodes : c \in Of(n) <=> n = c[1]
  BY DEF Conns, Of

LEMMA TypeServer ==
  ASSUME TypeOK, ServerNext
  PROVE  TypeOK'
<1>1. ASSUME NEW s \in Snapshot, Changes(s) PROVE TypeOK'
  <2>1. server' \in Snapshot
    BY <1>1, AuthorizationConstants DEF Changes, Snapshot, TypeOK
  <2>2. publishing' \subseteq [snapshot : Snapshot, to : {"relays", "homes"}]
    BY <1>1, <2>1 DEF Changes, TypeOK
  <2> QED BY <1>1, <2>1, <2>2 DEF Changes, TypeOK
<1>2. ASSUME NEW cr \in Credentials, ImportCredential(cr) \/ RevokeCredential(cr)
      PROVE  TypeOK'
  <2>1. /\ [server EXCEPT !.credentials = @ \cup {cr}] \in Snapshot
        /\ [server EXCEPT !.revocations = @ \cup {cr}] \in Snapshot
    BY DEF TypeOK, Snapshot
  <2> QED BY <1>1, <1>2, <2>1 DEF ImportCredential, RevokeCredential
<1>3. ASSUME NEW b \in publishing, Broadcast(b) PROVE TypeOK'
  <2>1. b \in [snapshot : Snapshot, to : {"relays", "homes"}] BY DEF TypeOK
  <2>2. publishing' \subseteq [snapshot : Snapshot, to : {"relays", "homes"}]
    <3>1. [b EXCEPT !.to = "homes"] \in [snapshot : Snapshot, to : {"relays", "homes"}] BY <2>1
    <3>2. publishing' \subseteq publishing \cup {[b EXCEPT !.to = "homes"]} BY <1>3 DEF Broadcast
    <3> QED BY <3>1, <3>2 DEF TypeOK
  <2>3. sends' \subseteq [conn : Conns, snapshot : Snapshot, own : BOOLEAN]
    <3> DEFINE to == IF b.to = "relays" THEN Relays ELSE Homes
               targets == {sessions[n] : n \in to} \ {NoConn}
    <3>1. sends' = sends \cup {[conn |-> c, snapshot |-> b.snapshot, own |-> FALSE] : c \in targets}
      BY <1>3 DEF Broadcast
    <3>2. targets \subseteq Conns BY DEF TypeOK, Nodes
    <3> HIDE DEF targets
    <3>3. \A c \in targets : [conn |-> c, snapshot |-> b.snapshot, own |-> FALSE]
                                 \in [conn : Conns, snapshot : Snapshot, own : BOOLEAN]
      BY <2>1, <3>2
    <3> QED BY <3>1, <3>3 DEF TypeOK
  <2> QED BY <1>3, <2>2, <2>3 DEF Broadcast, TypeOK
<1>4. ASSUME NEW s \in sends, Enqueue(s) \/ EnqueueTimesOut(s) PROVE TypeOK'
  <2>1. s \in [conn : Conns, snapshot : Snapshot, own : BOOLEAN] BY DEF TypeOK
  <2>2. PICK c \in Conns : c = s.conn BY <2>1
  <2>3. conn[c] \in Conn BY DEF TypeOK
  <2>4. CASE Enqueue(s)
    <3> DEFINE r == [conn[c] EXCEPT !.queue = Append(@, s.snapshot)]
    <3>1. /\ Append(conn[c].queue, s.snapshot) \in Seq(Snapshot)
          /\ Len(Append(conn[c].queue, s.snapshot)) = Len(conn[c].queue) + 1
          /\ Len(conn[c].queue) \in Nat
      <4>1. conn[c].queue \in Seq(Snapshot) BY <2>3 DEF Conn
      <4> QED BY <2>1, <4>1, AppendProperties, LenProperties
    <3>2. r \in Conn /\ r.queue = Append(conn[c].queue, s.snapshot) BY <2>3, <3>1 DEF Conn
    <3>3. conn' = [conn EXCEPT ![c] = r] BY <2>2, <2>4 DEF Enqueue
    <3>4. Len(r.queue) <= QueueCapacity
      BY <2>2, <2>4, <3>1, <3>2, AuthorizationConstants DEF Enqueue
    <3> HIDE DEF r
    <3>5. conn' \in [Conns -> Conn] /\ (\A d \in Conns : Len(conn[d].queue) <= QueueCapacity)'
      BY <3>2, <3>3, <3>4, OneConn
    <3> QED BY <2>4, <3>5 DEF Enqueue, TypeOK
  <2>5. CASE EnqueueTimesOut(s)
    <3> DEFINE r == [conn[c] EXCEPT !.missed = TRUE]
    <3>1. r \in Conn /\ r.queue = conn[c].queue BY <2>3 DEF Conn
    <3>2. conn' = [conn EXCEPT ![c] = r] BY <2>2, <2>5 DEF EnqueueTimesOut
    <3>3. Len(conn[c].queue) <= QueueCapacity BY DEF TypeOK
    <3>5. Len(r.queue) <= QueueCapacity BY <3>1, <3>3
    <3> HIDE DEF r
    <3>4. conn' \in [Conns -> Conn] /\ (\A d \in Conns : Len(conn[d].queue) <= QueueCapacity)'
      BY <3>1, <3>2, <3>5, OneConn
    <3> QED BY <2>5, <3>4 DEF EnqueueTimesOut, TypeOK
  <2> QED BY <1>4, <2>4, <2>5
<1>5. ASSUME NEW c \in Conns, Register(c) PROVE TypeOK'
  <2> DEFINE r == [conn[c] EXCEPT !.task = "registered", !.sent = conn[c].initial]
  <2>1. r \in Conn /\ r.queue = conn[c].queue
    <3>1. conn[c] \in Conn BY DEF TypeOK
    <3> QED BY <3>1 DEF Conn
  <2>2. conn' = [conn EXCEPT ![c] = r] BY <1>5 DEF Register
  <2>3. Len(r.queue) <= QueueCapacity BY <2>1 DEF TypeOK
  <2> HIDE DEF r
  <2>4. conn' \in [Conns -> Conn] /\ (\A d \in Conns : Len(conn[d].queue) <= QueueCapacity)'
    BY <2>1, <2>2, <2>3, OneConn
  <2> QED BY <1>5, <2>4 DEF Register, TypeOK
<1>6. ASSUME NEW c \in Conns, CatchUp(c) PROVE TypeOK'
  <2> DEFINE r == IF server.generation # conn[c].initial /\ c[1] \in Relays
                  THEN [conn[c] EXCEPT !.task = "open", !.sent = server.generation,
                                       !.wire = Append(@, server)]
                  ELSE [conn[c] EXCEPT !.task = "open"]
  <2>1. r \in Conn /\ r.queue = conn[c].queue
    <3>1. conn[c] \in Conn /\ server \in Snapshot BY DEF TypeOK
    <3>2. conn[c].wire \in Seq(Snapshot) /\ server.generation \in 0..MaxGeneration
      BY <3>1, AuthorizationConstants DEF Conn, Snapshot
    <3>3. Append(conn[c].wire, server) \in Seq(Snapshot) BY <3>1, <3>2, AppendProperties
    <3> QED BY <3>1, <3>2, <3>3 DEF Conn
  <2>2. conn' = [conn EXCEPT ![c] = r] BY <1>6 DEF CatchUp
  <2>3. Len(r.queue) <= QueueCapacity BY <2>1 DEF TypeOK
  <2> HIDE DEF r
  <2>4. conn' \in [Conns -> Conn] /\ (\A d \in Conns : Len(conn[d].queue) <= QueueCapacity)'
    BY <2>1, <2>2, <2>3, OneConn
  <2>5. sends' \subseteq [conn : Conns, snapshot : Snapshot, own : BOOLEAN]
    <3>1. [conn |-> c, snapshot |-> server, own |-> TRUE]
              \in [conn : Conns, snapshot : Snapshot, own : BOOLEAN]
      BY DEF TypeOK
    <3>2. sends' \subseteq sends \cup {[conn |-> c, snapshot |-> server, own |-> TRUE]}
      BY <1>6 DEF CatchUp
    <3> QED BY <3>1, <3>2 DEF TypeOK
  <2> QED BY <1>6, <2>4, <2>5 DEF CatchUp, TypeOK
<1>7. ASSUME NEW c \in Conns, Write(c) PROVE TypeOK'
  <2> DEFINE r == [conn[c] EXCEPT
            !.queue = Tail(@),
            !.wire = IF Writes(c) THEN Append(@, Head(conn[c].queue)) ELSE @,
            !.sent = IF Writes(c) THEN Head(conn[c].queue).generation ELSE @]
  <2>1. conn[c] \in Conn BY DEF TypeOK
  <2>2. conn[c].queue \in Seq(Snapshot) /\ conn[c].wire \in Seq(Snapshot) BY <2>1 DEF Conn
  <2>3. /\ Head(conn[c].queue) \in Snapshot /\ Tail(conn[c].queue) \in Seq(Snapshot)
        /\ Len(Tail(conn[c].queue)) = Len(conn[c].queue) - 1 /\ Len(conn[c].queue) \in Nat
    BY <1>7, <2>2, HeadAndTail DEF Write
  <2>4. /\ Append(conn[c].wire, Head(conn[c].queue)) \in Seq(Snapshot)
        /\ Head(conn[c].queue).generation \in 0..MaxGeneration
    BY <2>2, <2>3, AppendProperties, AuthorizationConstants DEF Snapshot
  <2>5. r \in Conn /\ r.queue = Tail(conn[c].queue) BY <2>1, <2>3, <2>4 DEF Conn
  <2>6. conn' = [conn EXCEPT ![c] = r] BY <1>7 DEF Write
  <2>7. Len(r.queue) <= QueueCapacity
    BY <2>3, <2>5, AuthorizationConstants DEF TypeOK
  <2> HIDE DEF r
  <2>8. conn' \in [Conns -> Conn] /\ (\A d \in Conns : Len(conn[d].queue) <= QueueCapacity)'
    BY <2>5, <2>6, <2>7, OneConn
  <2> QED BY <1>7, <2>8 DEF Write, TypeOK
<1>8. ASSUME NEW c \in Conns, TaskEnds(c) PROVE TypeOK'
  <2> DEFINE e == [conn[c] EXCEPT !.task = "ended", !.link = "cut", !.queue = <<>>]
             r == Reusable(e)
  <2>1. e \in Conn /\ e.queue = <<>>
    <3>1. conn[c] \in Conn BY DEF TypeOK
    <3> QED BY <3>1, EmptySeq DEF Conn
  <2>2. r \in Conn /\ r.queue = <<>>
    BY <2>1, ReusableOK DEF Reusable, NewConn
  <2>3. conn' = [conn EXCEPT ![c] = r] BY <1>8 DEF TaskEnds
  <2>4. Len(r.queue) <= QueueCapacity BY <2>2, EmptySeq, AuthorizationConstants
  <2> HIDE DEF r
  <2>5. conn' \in [Conns -> Conn] /\ (\A d \in Conns : Len(conn[d].queue) <= QueueCapacity)'
    BY <2>2, <2>3, <2>4, OneConn
  <2>6. sessions' \in [Nodes -> Conns \cup {NoConn}] BY <1>8 DEF TaskEnds, TypeOK
  <2> QED BY <1>8, <2>5, <2>6 DEF TaskEnds, TypeOK
<1> QED BY <1>2, <1>3, <1>4, <1>5, <1>6, <1>7, <1>8 DEF ServerNext

\* The node's end of a connection closes.
LEMMA PeerClosesOK ==
  ASSUME TypeOK, NEW c \in Conns, PeerCloses(c)
  PROVE  /\ conn' \in [Conns -> Conn]
         /\ (\A d \in Conns : Len(conn[d].queue) <= QueueCapacity)'
         /\ \A d \in Conns : d # c => conn'[d] = conn[d]
         /\ \/ conn'[c].peer \in {"none", "closed"} /\ conn'[c].stage = conn[c].stage
            \/ conn'[c] = NewConn
<1> DEFINE e == [conn[c] EXCEPT !.peer = "closed", !.link = "cut", !.wire = <<>>]
           r == Reusable(e)
<1>1. /\ e \in Conn /\ e.queue = conn[c].queue /\ e.peer = "closed" /\ e.stage = conn[c].stage
      /\ Len(conn[c].queue) <= QueueCapacity
  <2>1. conn[c] \in Conn /\ Len(conn[c].queue) <= QueueCapacity BY DEF TypeOK
  <2> QED BY <2>1, EmptySeq DEF Conn
<1>2. r \in Conn BY <1>1, ReusableOK
<1>3. conn' = [conn EXCEPT ![c] = r] BY DEF PeerCloses
<1> HIDE DEF e
<1>4. Len(r.queue) <= QueueCapacity /\ (r = e \/ r = NewConn)
  BY <1>1, EmptySeq, AuthorizationConstants DEF Reusable, NewConn
<1> HIDE DEF r
<1> QED BY <1>1, <1>2, <1>3, <1>4, OneConn

LEMMA TypeNode ==
  ASSUME TypeOK, NodeNext
  PROVE  TypeOK'
<1>1. ASSUME NEW n \in Nodes, NEW c \in Conns, Connect(n, c) PROVE TypeOK'
  <2> DEFINE r == [NewConn EXCEPT !.link = "up", !.task = "offered",
                                  !.peer = "waiting", !.wire = <<server>>,
                                  !.initial = server.generation]
  <2>1. r \in Conn /\ r.queue = <<>>
    <3>1. server.generation \in 0..MaxGeneration /\ server \in Snapshot
      BY AuthorizationConstants DEF TypeOK, Snapshot
    <3>2. <<server>> \in Seq(Snapshot) BY <3>1
    <3> QED BY <3>1, <3>2, NewConnOK DEF Conn, NewConn
  <2>2. conn' = [conn EXCEPT ![c] = r] BY <1>1 DEF Connect
  <2>3. Len(r.queue) <= QueueCapacity BY <2>1, EmptySeq, AuthorizationConstants
  <2> HIDE DEF r
  <2>4. conn' \in [Conns -> Conn] /\ (\A d \in Conns : Len(conn[d].queue) <= QueueCapacity)'
    BY <2>1, <2>2, <2>3, OneConn
  <2> QED BY <1>1, <2>4 DEF Connect, TypeOK
<1>2. ASSUME NEW c \in Conns, Receive(c) PROVE TypeOK'
  <2>1. conn[c] \in Conn /\ c[1] \in Nodes /\ Len(conn[c].queue) <= QueueCapacity
    BY ConnNode DEF TypeOK
  <2>2. conn[c].wire \in Seq(Snapshot) BY <2>1 DEF Conn
  <2>3. Head(conn[c].wire) \in Snapshot /\ Tail(conn[c].wire) \in Seq(Snapshot)
    BY <1>2, <2>2, HeadAndTail DEF Receive
  <2>4. CASE Accepts(node[c[1]].cache, Head(conn[c].wire))
    <3> DEFINE r == [conn[c] EXCEPT !.wire = Tail(@), !.stage = "accepted",
                                    !.apply = Head(conn[c].wire)]
    <3>1. r \in Conn /\ r.queue = conn[c].queue BY <2>1, <2>3 DEF Conn
    <3>2. conn' = [conn EXCEPT ![c] = r] BY <1>2, <2>4 DEF Receive
    <3> HIDE DEF r
    <3>3. conn' \in [Conns -> Conn] /\ (\A d \in Conns : Len(conn[d].queue) <= QueueCapacity)'
      BY <2>1, <3>1, <3>2, OneConn
    <3>4. node' \in [Nodes -> Node]
      <4> DEFINE m == [node[c[1]] EXCEPT !.cache = Head(conn[c].wire)]
      <4>1. node[c[1]] \in Node BY <2>1 DEF TypeOK
      <4>2. m \in Node BY <2>3, <4>1 DEF Node
      <4>3. node' = [node EXCEPT ![c[1]] = m] BY <1>2, <2>4 DEF Receive
      <4> HIDE DEF m
      <4> QED BY <2>1, <4>2, <4>3, OneNode
    <3> QED BY <1>2, <3>3, <3>4 DEF Receive, TypeOK
  <2>5. CASE ~Accepts(node[c[1]].cache, Head(conn[c].wire))
    <3>1. PeerCloses(c) /\ UNCHANGED node BY <1>2, <2>5 DEF Receive
    <3> QED BY <1>2, <3>1, PeerClosesOK DEF Receive, TypeOK
  <2> QED BY <2>4, <2>5
<1>3. ASSUME NEW c \in Conns, Sweep(c) PROVE TypeOK'
  <2> DEFINE r == [conn[c] EXCEPT !.stage = "swept"]
             Kept(S) == {cr \in S : IsActive(conn[c].apply, cr)}
             m == [node[c[1]] EXCEPT !.routes = Kept(@),
                                     !.live = IF c[1] \in Homes THEN Kept(@) ELSE @]
  <2>1. conn[c] \in Conn /\ c[1] \in Nodes /\ Len(conn[c].queue) <= QueueCapacity
    BY ConnNode DEF TypeOK
  <2>2. r \in Conn /\ r.queue = conn[c].queue BY <2>1 DEF Conn
  <2>3. m \in Node
    <3>1. node[c[1]] \in Node BY <2>1 DEF TypeOK
    <3> QED BY <3>1 DEF Node
  <2>4. conn' = [conn EXCEPT ![c] = r] /\ node' = [node EXCEPT ![c[1]] = m]
    BY <1>3 DEF Sweep
  <2> HIDE DEF r, m
  <2>5. conn' \in [Conns -> Conn] /\ (\A d \in Conns : Len(conn[d].queue) <= QueueCapacity)'
    BY <2>1, <2>2, <2>4, OneConn
  <2>6. node' \in [Nodes -> Node] BY <2>1, <2>3, <2>4, OneNode
  <2> QED BY <1>3, <2>5, <2>6 DEF Sweep, TypeOK
<1>4. ASSUME NEW c \in Conns, Publish(c) PROVE TypeOK'
  <2> DEFINE r == [conn[c] EXCEPT !.stage = "idle", !.apply = NoSnapshot, !.acked = TRUE,
                                  !.peer = IF @ = "waiting" THEN "running" ELSE @]
             m == [node[c[1]] EXCEPT !.applied = conn[c].apply]
  <2>1. conn[c] \in Conn /\ c[1] \in Nodes /\ Len(conn[c].queue) <= QueueCapacity
    BY ConnNode DEF TypeOK
  <2>2. r \in Conn /\ r.queue = conn[c].queue BY <2>1 DEF Conn
  <2>3. m \in Node
    <3>1. node[c[1]] \in Node /\ conn[c].apply \in Snapshot \cup {NoSnapshot}
      BY <2>1 DEF TypeOK, Conn
    <3> QED BY <3>1 DEF Node
  <2>4. conn' = [conn EXCEPT ![c] = r] /\ node' = [node EXCEPT ![c[1]] = m]
    BY <1>4 DEF Publish
  <2> HIDE DEF r, m
  <2>5. conn' \in [Conns -> Conn] /\ (\A d \in Conns : Len(conn[d].queue) <= QueueCapacity)'
    BY <2>1, <2>2, <2>4, OneConn
  <2>6. node' \in [Nodes -> Node] BY <2>1, <2>3, <2>4, OneNode
  <2> QED BY <1>4, <2>5, <2>6 DEF Publish, TypeOK
<1>5. ASSUME NEW c \in Conns, PeerEnds(c) PROVE TypeOK'
  BY <1>5, PeerClosesOK DEF PeerEnds, TypeOK
<1>6. ASSUME NEW n \in Nodes, NEW cr \in Credentials,
             \/ Authorize(n, cr) \/ Record(n, cr) \/ Pair(n, cr) \/ CutInactive(n, cr)
             \/ Finish(n, cr)
      PROVE  TypeOK'
  <2>1. node[n] \in Node BY DEF TypeOK
  <2>2. \E m \in Node : node' = [node EXCEPT ![n] = m]
    <3> DEFINE Kept(R, S, L) == [node[n] EXCEPT !.ready = R, !.routes = S, !.live = L]
    <3>1. \A R, S, L \in SUBSET Credentials : Kept(R, S, L) \in Node BY <2>1 DEF Node
    <3>2. /\ node[n].ready \in SUBSET Credentials /\ node[n].routes \in SUBSET Credentials
          /\ node[n].live \in SUBSET Credentials
      BY <2>1 DEF Node
    <3>3. \E R, S, L \in SUBSET Credentials : node' = [node EXCEPT ![n] = Kept(R, S, L)]
      <4>1. CASE Authorize(n, cr)
        <5>1. node' = [node EXCEPT ![n] = Kept(node[n].ready \cup {cr}, node[n].routes, node[n].live)]
          BY <2>1, <4>1 DEF Authorize, TypeOK, Node
        <5> HIDE DEF Kept
        <5> QED BY <3>2, <5>1
      <4>2. CASE Record(n, cr)
        <5>1. node' = [node EXCEPT ![n] = Kept(node[n].ready \ {cr},
                          IF n \in Relays THEN node[n].routes \cup {cr} ELSE node[n].routes,
                          IF n \in Homes THEN node[n].live \cup {cr} ELSE node[n].live)]
          BY <2>1, <4>2 DEF Record, TypeOK, Node
        <5> HIDE DEF Kept
        <5> QED BY <3>2, <5>1
      <4>3. CASE Pair(n, cr)
        <5>1. node' = [node EXCEPT ![n] = Kept(node[n].ready, node[n].routes \ {cr},
                                               node[n].live \cup {cr})]
          BY <2>1, <4>3 DEF Pair, TypeOK, Node
        <5> HIDE DEF Kept
        <5> QED BY <3>2, <5>1
      <4>4. CASE CutInactive(n, cr)
        <5>1. node' = [node EXCEPT ![n] = Kept(node[n].ready, node[n].routes,
                                               node[n].live \ {cr})]
          BY <2>1, <4>4 DEF CutInactive, TypeOK, Node
        <5> HIDE DEF Kept
        <5> QED BY <3>2, <5>1
      <4>5. CASE Finish(n, cr)
        <5>1. \/ node' = [node EXCEPT ![n] = Kept(node[n].ready \ {cr}, node[n].routes, node[n].live)]
              \/ node' = [node EXCEPT ![n] = Kept(node[n].ready, node[n].routes \ {cr}, node[n].live)]
              \/ node' = [node EXCEPT ![n] = Kept(node[n].ready, node[n].routes, node[n].live \ {cr})]
          BY <2>1, <4>5 DEF Finish, TypeOK, Node
        <5> HIDE DEF Kept
        <5> QED BY <3>2, <5>1
      <4> QED BY <1>6, <4>1, <4>2, <4>3, <4>4, <4>5
    <3> HIDE DEF Kept
    <3> QED BY <3>1, <3>3
  <2>3. node' \in [Nodes -> Node] BY <2>2, OneNode
  <2> QED BY <1>6, <2>3 DEF Authorize, Record, Pair, CutInactive, Finish, TypeOK
<1> QED BY <1>1, <1>2, <1>3, <1>4, <1>5, <1>6 DEF NodeNext

\* A process that restarts: whatever connection it was part of is closed.
LEMMA TypeFailures ==
  ASSUME TypeOK,
         \/ \E c \in Conns : Cut(c)
         \/ \E n \in Nodes : Restart(n)
         \/ ServerRestart
  PROVE  TypeOK'
<1>1. ASSUME NEW kind, Fails(kind) PROVE failures' \in 0..MaxFailures
  BY <1>1, AuthorizationConstants DEF Fails, TypeOK
<1>2. ASSUME NEW c \in Conns, Cut(c) PROVE TypeOK'
  <2> DEFINE r == [conn[c] EXCEPT !.link = "cut"]
  <2>1. conn[c] \in Conn /\ Len(conn[c].queue) <= QueueCapacity BY DEF TypeOK
  <2>2. r \in Conn /\ r.queue = conn[c].queue BY <2>1 DEF Conn
  <2>3. conn' = [conn EXCEPT ![c] = r] BY <1>2 DEF Cut
  <2> HIDE DEF r
  <2>4. conn' \in [Conns -> Conn] /\ (\A d \in Conns : Len(conn[d].queue) <= QueueCapacity)'
    BY <2>1, <2>2, <2>3, OneConn
  <2> QED BY <1>1, <1>2, <2>4 DEF Cut, TypeOK
<1>3. ASSUME NEW n \in Nodes, Restart(n) PROVE TypeOK'
  <2> DEFINE e(c) == [conn[c] EXCEPT !.peer = "closed", !.link = "cut",
                                     !.wire = <<>>, !.stage = "idle", !.apply = NoSnapshot]
  <2>1. ASSUME NEW c \in Conns
        PROVE  /\ conn[c] \in Conn /\ Len(conn[c].queue) <= QueueCapacity
               /\ Reusable(e(c)) \in Conn /\ Len(Reusable(e(c)).queue) <= QueueCapacity
    <3>1. conn[c] \in Conn /\ Len(conn[c].queue) <= QueueCapacity BY DEF TypeOK
    <3>2. e(c) \in Conn /\ e(c).queue = conn[c].queue BY <3>1, EmptySeq DEF Conn
    <3>3. Len(NewConn.queue) <= QueueCapacity
      BY EmptySeq, AuthorizationConstants DEF NewConn
    <3> HIDE DEF e
    <3> QED BY <3>1, <3>2, <3>3, ReusableOK DEF Reusable
  <2>2. \A c \in Conns : conn'[c] = conn[c] \/ conn'[c] = Reusable(e(c))
    BY <1>3 DEF Restart
  <2>3. conn' = [c \in Conns |-> conn'[c]] BY <1>3 DEF Restart
  <2> HIDE DEF e
  <2>4. conn' \in [Conns -> Conn] /\ (\A d \in Conns : Len(conn[d].queue) <= QueueCapacity)'
    BY <2>1, <2>2, <2>3
  <2>5. node' \in [Nodes -> Node]
    <3>1. node[n].cache \in Snapshot \cup {NoSnapshot} BY DEF TypeOK, Node
    <3>2. [NewNode EXCEPT !.cache = node[n].cache] \in Node BY <3>1, NewNodeOK
    <3> QED BY <1>3, <3>2, OneNode DEF Restart
  <2> QED BY <1>1, <1>3, <2>4, <2>5 DEF Restart, TypeOK
<1>4. CASE ServerRestart
  <2> DEFINE e(c) == [conn[c] EXCEPT !.task = "ended", !.link = "cut", !.queue = <<>>]
  <2>1. ASSUME NEW c \in Conns
        PROVE  /\ conn[c] \in Conn /\ Len(conn[c].queue) <= QueueCapacity
               /\ Reusable(e(c)) \in Conn /\ Len(Reusable(e(c)).queue) <= QueueCapacity
    <3>1. conn[c] \in Conn /\ Len(conn[c].queue) <= QueueCapacity BY DEF TypeOK
    <3>2. e(c) \in Conn /\ e(c).queue = <<>> BY <3>1, EmptySeq DEF Conn
    <3>3. Len(NewConn.queue) <= QueueCapacity /\ Len(<<>>) <= QueueCapacity
      BY EmptySeq, AuthorizationConstants DEF NewConn
    <3> HIDE DEF e
    <3> QED BY <3>1, <3>2, <3>3, ReusableOK DEF Reusable
  <2>2. \A c \in Conns : conn'[c] = conn[c] \/ conn'[c] = Reusable(e(c))
    BY <1>4 DEF ServerRestart
  <2>3. conn' = [c \in Conns |-> conn'[c]] BY <1>4 DEF ServerRestart
  <2> HIDE DEF e
  <2>4. conn' \in [Conns -> Conn] /\ (\A d \in Conns : Len(conn[d].queue) <= QueueCapacity)'
    BY <2>1, <2>2, <2>3
  <2> QED BY <1>1, <1>4, <2>4 DEF ServerRestart, TypeOK
<1> QED BY <1>2, <1>3, <1>4

LEMMA TypeInit == Init => TypeOK
<1> SUFFICES ASSUME Init PROVE TypeOK
  OBVIOUS
<1>1. server \in Snapshot BY AuthorizationConstants DEF Init, Snapshot
<1>2. NewConn \in Conn /\ Len(NewConn.queue) <= QueueCapacity
  BY NewConnOK, EmptySeq, AuthorizationConstants DEF NewConn
<1>3. NewNode \in Node BY DEF NewNode, Node
<1> QED BY <1>1, <1>2, <1>3, AuthorizationConstants DEF Init, TypeOK

LEMMA TypeNext == TypeOK /\ [Next]_vars => TypeOK'
<1> SUFFICES ASSUME TypeOK, [Next]_vars PROVE TypeOK'
  OBVIOUS
<1>1. CASE UNCHANGED vars BY <1>1 DEF vars, TypeOK
<1>2. CASE Next BY <1>2, TypeServer, TypeNode, TypeFailures DEF Next
<1> QED BY <1>1, <1>2

\* Every state of the distribution is well-formed: no queue of a control session
\* exceeds its capacity (control_tx, the mpsc channel of a session).
THEOREM AuthorizationTypeCorrect == Spec => []TypeOK
  BY TypeInit, TypeNext, PTL DEF Spec

-----------------------------------------------------------------------------
(* The invariant.                                                           *)

\* The node still reads from this connection.
Attends(c) == conn[c].peer \in {"waiting", "running"}

\* A node that dials keeps one connection at most open at its end, and a snapshot it
\* is busy with is the one in its cache.
OneAttended ==
    \A c, d \in Conns :
        c[1] \notin Passive /\ c[1] = d[1] /\ Attends(c) /\ Attends(d) => c = d
ApplyOK ==
    \A c \in Conns : c[1] \notin Passive /\ conn[c].stage # "idle" =>
        /\ Attends(c)
        /\ conn[c].apply # NoSnapshot /\ conn[c].apply = node[c[1]].cache
\* What is published is what is stored, unless a snapshot is between the two.
AppliedOK ==
    \A n \in Nodes \ Passive : (\A c \in Of(n) : conn[c].stage = "idle") =>
        node[n].applied = NoSnapshot \/ node[n].applied = node[n].cache

StoredInv == TypeOK /\ OneAttended /\ ApplyOK /\ AppliedOK

\* No part holds a snapshot the Server has not made, and of its generation there is
\* one.
Past(snapshot) ==
    /\ snapshot.generation <= server.generation
    /\ snapshot.generation = server.generation => snapshot = server
ConnPast(c) ==
    /\ \A i \in 1..Len(conn[c].queue) : Past(conn[c].queue[i])
    /\ \A i \in 1..Len(conn[c].wire) : Past(conn[c].wire[i])
    /\ conn[c].sent <= server.generation /\ conn[c].initial <= server.generation
SnapshotsOK ==
    /\ \A b \in publishing : Past(b.snapshot)
    /\ \A s \in sends : Past(s.snapshot)
    /\ \A c \in Conns : ConnPast(c)
    /\ \A n \in Nodes : node[n].cache # NoSnapshot => Past(node[n].cache)

\* The initial snapshot has come before the session is registered.
Knows(n, generation) ==
    node[n].cache # NoSnapshot /\ node[n].cache.generation >= generation
InitialOne(c) ==
    /\ conn[c].link = "up" => Attends(c)
    /\ conn[c].task \in {"registered", "open"} => conn[c].acked
    /\ conn[c].acked \/ conn[c].stage # "idle" => Knows(c[1], conn[c].initial)
    /\ conn[c].acked /\ Attends(c) => node[c[1]].applied # NoSnapshot
    /\ ~conn[c].acked =>
          \A i \in 1..Len(conn[c].wire) : conn[c].wire[i].generation >= conn[c].initial
InitialOK == \A c \in Conns : c[1] \notin Passive => InitialOne(c)

\* The Server's snapshot is with the node of the session or on its way to it.
Told(c) ==
    \/ node[c[1]].cache = server
    \/ \E i \in 1..Len(conn[c].wire) : conn[c].wire[i] = server
    \/ \E i \in 1..Len(conn[c].queue) : conn[c].queue[i] = server
    \/ \E s \in sends : s.conn = c /\ s.snapshot = server
    \/ [snapshot |-> server, to |-> "relays"] \in publishing
    \/ c[1] \in Homes /\ [snapshot |-> server, to |-> "homes"] \in publishing
InForce(c) ==
    /\ sessions[c[1]] = c
    /\ conn[c].task = "open" /\ conn[c].link = "up" /\ ~conn[c].missed
SessionsTold == \A c \in Conns : c[1] \notin Passive /\ InForce(c) => Told(c)

NoLossInv == StoredInv /\ SnapshotsOK /\ InitialOK /\ SessionsTold

-----------------------------------------------------------------------------
(* What a step that leaves something alone preserves.                       *)

LEMMA StoredKept ==
  ASSUME StoredInv, TypeOK',
         \A n \in Nodes : node'[n].cache = node[n].cache /\ node'[n].applied = node[n].applied,
         \A c \in Conns : c[1] \notin Passive =>
             /\ Attends(c)' => Attends(c)
             /\ conn'[c].stage = "idle" <=> conn[c].stage = "idle"
             /\ conn[c].stage # "idle" => Attends(c)' /\ conn'[c].apply = conn[c].apply
  PROVE  StoredInv'
<1>1. OneAttended' BY DEF StoredInv, OneAttended
<1>2. ApplyOK'
  <2> SUFFICES ASSUME NEW c \in Conns, c[1] \notin Passive, conn'[c].stage # "idle"
               PROVE  /\ Attends(c)'
                      /\ conn'[c].apply # NoSnapshot /\ conn'[c].apply = node'[c[1]].cache
    BY DEF ApplyOK
  <2>1. c[1] \in Nodes BY ConnNode
  <2> QED BY <2>1 DEF StoredInv, ApplyOK
<1>3. AppliedOK'
  <2> SUFFICES ASSUME NEW n \in Nodes \ Passive, \A c \in Of(n) : conn'[c].stage = "idle"
               PROVE  node'[n].applied = NoSnapshot \/ node'[n].applied = node'[n].cache
    BY DEF AppliedOK, Of
  <2>1. \A c \in Of(n) : conn[c].stage = "idle" BY DEF Of
  <2> QED BY <2>1 DEF StoredInv, AppliedOK
<1> QED BY <1>1, <1>2, <1>3 DEF StoredInv

LEMMA StoredSame ==
  ASSUME StoredInv, TypeOK', UNCHANGED <<conn, node>>
  PROVE  StoredInv'
<1>1. \A c \in Conns : Attends(c)' <=> Attends(c) BY DEF Attends
<1>2. \A c \in Conns : c[1] \notin Passive /\ conn[c].stage # "idle" => Attends(c)
  BY DEF StoredInv, ApplyOK
<1> QED BY <1>1, <1>2, StoredKept

LEMMA PastKept ==
  ASSUME NEW c \in Conns, ConnPast(c), UNCHANGED server, conn'[c] = conn[c]
  PROVE  ConnPast(c)'
  BY DEF ConnPast, Past

\* The node learns only.
Learns(n) ==
    /\ node[n].cache # NoSnapshot =>
          /\ node'[n].cache # NoSnapshot
          /\ node'[n].cache.generation >= node[n].cache.generation
    /\ node[n].cache = server => node'[n].cache = server

LEMMA KnowsMore ==
  ASSUME TypeOK, TypeOK', NEW n \in Nodes, Learns(n), NEW g \in 0..MaxGeneration, Knows(n, g)
  PROVE  Knows(n, g)'
<1>1. /\ node[n].cache \in Snapshot \cup {NoSnapshot}
      /\ node'[n].cache \in Snapshot \cup {NoSnapshot}
  BY DEF TypeOK, Node
<1>2. \A s \in Snapshot : s.generation \in Nat BY DEF Snapshot
<1> QED BY <1>1, <1>2, AuthorizationConstants DEF Knows, Learns

LEMMA InitialKept ==
  ASSUME TypeOK, TypeOK', NEW c \in Conns, InitialOne(c), Learns(c[1]),
         node[c[1]].applied # NoSnapshot => node'[c[1]].applied # NoSnapshot,
         conn'[c] = conn[c]
  PROVE  InitialOne(c)'
<1>1. c[1] \in Nodes /\ conn[c].initial \in 0..MaxGeneration BY ConnNode DEF TypeOK, Conn
<1>2. Knows(c[1], conn[c].initial) => Knows(c[1], conn[c].initial)' BY <1>1, KnowsMore
<1> QED BY <1>2 DEF InitialOne, Attends, Knows

LEMMA ToldKept ==
  ASSUME NEW c \in Conns, InForce(c)' => InForce(c) /\ Told(c),
         UNCHANGED server, Learns(c[1]), conn'[c] = conn[c],
         \A s \in sends : s.conn = c => s \in sends',
         publishing \subseteq publishing'
  PROVE  InForce(c)' => Told(c)'
  BY DEF Told, Learns

LEMMA LearnsNothing ==
  ASSUME TypeOK, NEW n \in Nodes, node'[n].cache = node[n].cache, UNCHANGED server
  PROVE  Learns(n)
<1>1. node[n].cache \in Snapshot \cup {NoSnapshot} BY DEF TypeOK, Node
<1>2. \A s \in Snapshot : s.generation \in Nat BY DEF Snapshot
<1>3. \A g \in Nat : g >= g OBVIOUS
<1> QED BY <1>1, <1>2, <1>3 DEF Learns

\* A step of one connection has to answer for that connection.
LEMMA OneConnStep ==
  ASSUME NoLossInv, TypeOK', NEW c \in Conns,
         UNCHANGED server, \A d \in Conns : d # c => conn'[d] = conn[d],
         \A n \in Nodes :
             /\ Learns(n)
             /\ node'[n].cache # NoSnapshot => Past(node'[n].cache)
             /\ n \notin Passive /\ node[n].applied # NoSnapshot => node'[n].applied # NoSnapshot,
         \A s \in sends : s.conn # c => s \in sends',
         \A s \in sends' : Past(s.snapshot), UNCHANGED publishing,
         \A d \in Conns : d # c /\ sessions'[d[1]] = d => sessions[d[1]] = d,
         StoredInv', ConnPast(c)',
         c[1] \notin Passive => InitialOne(c)' /\ (InForce(c)' => Told(c)')
  PROVE  NoLossInv'
<1>1. SnapshotsOK'
  <2>1. \A d \in Conns : ConnPast(d)' BY PastKept DEF NoLossInv, SnapshotsOK
  <2>2. \A b \in publishing' : Past(b.snapshot)' BY DEF NoLossInv, SnapshotsOK, Past
  <2>3. \A s \in sends' : Past(s.snapshot)' BY DEF Past
  <2>4. \A n \in Nodes : node'[n].cache # NoSnapshot => Past(node[n].cache)' BY DEF Past
  <2> QED BY <2>1, <2>2, <2>3, <2>4 DEF SnapshotsOK
<1>2. InitialOK'
  <2> SUFFICES ASSUME NEW d \in Conns, d # c, d[1] \notin Passive PROVE InitialOne(d)'
    BY DEF InitialOK
  <2>1. d[1] \in Nodes /\ TypeOK /\ InitialOne(d)
    BY ConnNode DEF NoLossInv, StoredInv, InitialOK
  <2>2. /\ Learns(d[1]) /\ conn'[d] = conn[d]
        /\ node[d[1]].applied # NoSnapshot => node'[d[1]].applied # NoSnapshot
    BY <2>1
  <2> QED BY <2>1, <2>2, InitialKept
<1>3. SessionsTold'
  <2> SUFFICES ASSUME NEW d \in Conns, d # c, d[1] \notin Passive PROVE InForce(d)' => Told(d)'
    BY DEF SessionsTold
  <2>1. d[1] \in Nodes BY ConnNode
  <2>2. InForce(d)' => InForce(d) /\ Told(d) BY DEF InForce, NoLossInv, SessionsTold
  <2>3. \A s \in sends : s.conn = d => s \in sends' OBVIOUS
  <2>4. Learns(d[1]) /\ conn'[d] = conn[d] /\ publishing \subseteq publishing' BY <2>1
  <2> QED BY <2>2, <2>3, <2>4, ToldKept
<1> QED BY <1>1, <1>2, <1>3 DEF NoLossInv

\* Nothing of a connection that was given back remains.
LEMMA NewConnClean ==
  ASSUME NEW c \in Conns, conn'[c] = NewConn, TypeOK'
  PROVE  /\ ~Attends(c)' /\ conn'[c].stage = "idle" /\ ConnPast(c)' /\ InitialOne(c)' /\ ~InForce(c)'
<1>1. Len(<<>>) = 0 BY EmptySeq
<1>2. server'.generation \in Nat BY DEF TypeOK, Snapshot
<1> QED BY <1>1, <1>2 DEF NewConn, Attends, ConnPast, InitialOne, InForce

-----------------------------------------------------------------------------
(* The Server's steps.                                                      *)

LEMMA InvChanges ==
  ASSUME NoLossInv, NEW snapshot \in Snapshot, Changes(snapshot), TypeOK'
  PROVE  NoLossInv'
<1>1. /\ UNCHANGED <<sends, sessions, conn, node>>
      /\ server'.generation = server.generation + 1 /\ server.generation \in Nat
      /\ publishing' = publishing \cup {[snapshot |-> server', to |-> "relays"]}
  <2>1. server \in Snapshot /\ server' = [snapshot EXCEPT !.generation = server.generation + 1]
    BY DEF Changes, NoLossInv, StoredInv, TypeOK
  <2> QED BY <2>1 DEF Changes, Snapshot
<1>2. StoredInv' BY <1>1, StoredSame DEF NoLossInv
<1>3. \A s \in Snapshot : Past(s) => Past(s)'
  BY <1>1 DEF Past, Snapshot
<1>4. SnapshotsOK'
  <2>1. Past(server)' BY <1>1 DEF Past
  <2>2. /\ \A b \in publishing : b.snapshot \in Snapshot
        /\ \A s \in sends : s.snapshot \in Snapshot
        /\ \A n \in Nodes : node[n].cache # NoSnapshot => node[n].cache \in Snapshot
    BY DEF NoLossInv, StoredInv, TypeOK, Node
  <2>3. ASSUME NEW c \in Conns PROVE ConnPast(c)'
    <3>1. conn[c] \in Conn BY DEF NoLossInv, StoredInv, TypeOK
    <3>2. /\ \A i \in 1..Len(conn[c].queue) : conn[c].queue[i] \in Snapshot
          /\ \A i \in 1..Len(conn[c].wire) : conn[c].wire[i] \in Snapshot
          /\ conn[c].sent \in Nat /\ conn[c].initial \in Nat
      <4>1. /\ conn[c].queue \in Seq(Snapshot) /\ conn[c].wire \in Seq(Snapshot)
            /\ conn[c].sent \in Nat /\ conn[c].initial \in Nat
        BY <3>1 DEF Conn
      <4> QED BY <4>1, ElementOfSeq
    <3>3. ConnPast(c) BY DEF NoLossInv, SnapshotsOK
    <3>4. \A i \in 1..Len(conn[c].queue) : Past(conn[c].queue[i])'
      BY <1>1, <1>3, <3>2, <3>3 DEF ConnPast
    <3>5. \A i \in 1..Len(conn[c].wire) : Past(conn[c].wire[i])'
      BY <1>1, <1>3, <3>2, <3>3 DEF ConnPast
    <3>6. conn'[c].sent <= server'.generation /\ conn'[c].initial <= server'.generation
      BY <1>1, <3>2, <3>3 DEF ConnPast
    <3> QED BY <1>1, <3>4, <3>5, <3>6 DEF ConnPast
  <2> QED BY <1>1, <1>3, <2>1, <2>2, <2>3 DEF NoLossInv, SnapshotsOK
<1>5. InitialOK' BY <1>1 DEF NoLossInv, InitialOK, InitialOne, Attends, Knows
<1>6. SessionsTold' BY <1>1 DEF SessionsTold, Told
<1> QED BY <1>2, <1>4, <1>5, <1>6 DEF NoLossInv

LEMMA InvBroadcast ==
  ASSUME NoLossInv, NEW b \in publishing, Broadcast(b), TypeOK'
  PROVE  NoLossInv'
<1>1. UNCHANGED <<server, sessions, conn, node>> BY DEF Broadcast
<1>2. StoredInv' BY <1>1, StoredSame DEF NoLossInv
<1>3. b \in [snapshot : Snapshot, to : {"relays", "homes"}] /\ Past(b.snapshot)
  BY DEF NoLossInv, StoredInv, TypeOK, SnapshotsOK
<1>4. /\ sends \subseteq sends' /\ \A s \in sends' \ sends : s.snapshot = b.snapshot
      /\ publishing \ {b} \subseteq publishing'
      /\ b.to = "relays" => [b EXCEPT !.to = "homes"] \in publishing'
      /\ \A p \in publishing' : p.snapshot = b.snapshot \/ p \in publishing
  BY <1>3 DEF Broadcast
<1>5. SnapshotsOK' BY <1>1, <1>3, <1>4 DEF NoLossInv, SnapshotsOK, Past, ConnPast
<1>6. InitialOK' BY <1>1 DEF NoLossInv, InitialOK, InitialOne, Attends, Knows
<1>7. SessionsTold'
  <2> SUFFICES ASSUME NEW c \in Conns, c[1] \notin Passive, InForce(c) PROVE Told(c)'
    BY <1>1 DEF SessionsTold, InForce
  <2>1. Told(c) /\ c[1] \in Nodes /\ sessions[c[1]] = c /\ c # NoConn
    BY ConnNode, AuthorizationConstants DEF NoLossInv, SessionsTold, InForce, Conns
  <2>2. ASSUME b = [snapshot |-> server, to |-> "relays"] PROVE Told(c)'
    <3>1. CASE c[1] \in Relays
      <4>1. [conn |-> c, snapshot |-> server, own |-> FALSE] \in sends'
        BY <2>1, <2>2, <3>1 DEF Broadcast
      <4> QED BY <1>1, <4>1 DEF Told
    <3>2. CASE c[1] \in Homes
      <4>1. [b EXCEPT !.to = "homes"] = [snapshot |-> server, to |-> "homes"] BY <2>2
      <4> QED BY <1>1, <1>4, <2>2, <3>2, <4>1 DEF Told
    <3> QED BY <2>1, <3>1, <3>2 DEF Nodes
  <2>3. ASSUME b = [snapshot |-> server, to |-> "homes"], c[1] \in Homes PROVE Told(c)'
    <3>1. [conn |-> c, snapshot |-> server, own |-> FALSE] \in sends'
      BY <2>1, <2>3 DEF Broadcast
    <3> QED BY <1>1, <3>1 DEF Told
  <2> QED BY <1>1, <1>4, <2>1, <2>2, <2>3 DEF Told
<1> QED BY <1>2, <1>5, <1>6, <1>7 DEF NoLossInv

\* A step that no node takes part in.
LEMMA NodesKept ==
  ASSUME NoLossInv, UNCHANGED server,
         \A n \in Nodes : node'[n].cache = node[n].cache /\ node'[n].applied = node[n].applied
  PROVE  \A n \in Nodes :
             /\ Learns(n)
             /\ node'[n].cache # NoSnapshot => Past(node'[n].cache)
             /\ node[n].applied # NoSnapshot => node'[n].applied # NoSnapshot
  BY LearnsNothing DEF NoLossInv, StoredInv, SnapshotsOK

LEMMA InvEnqueue ==
  ASSUME NoLossInv, NEW s \in sends, Enqueue(s) \/ EnqueueTimesOut(s), TypeOK'
  PROVE  NoLossInv'
<1>1. TypeOK BY DEF NoLossInv, StoredInv
<1>2. s \in [conn : Conns, snapshot : Snapshot, own : BOOLEAN] BY <1>1 DEF TypeOK
<1>3. PICK c \in Conns : c = s.conn BY <1>2
<1>4. /\ conn[c] \in Conn /\ conn[c].queue \in Seq(Snapshot)
      /\ ConnPast(c) /\ (c[1] \notin Passive => InitialOne(c) /\ (InForce(c) => Told(c)))
      /\ Past(s.snapshot)
  BY <1>1 DEF TypeOK, Conn, NoLossInv, SnapshotsOK, InitialOK, SessionsTold
<1>5. UNCHANGED <<server, node, publishing, sessions>> /\ sends' = sends \ {s}
  BY DEF Enqueue, EnqueueTimesOut
<1>6. /\ \A d \in Conns : d # c => conn'[d] = conn[d]
      /\ conn'[c] = [conn[c] EXCEPT !.queue = conn'[c].queue, !.missed = conn'[c].missed]
      /\ \/ /\ conn'[c].queue = conn[c].queue /\ conn'[c].missed
         \/ /\ conn'[c].queue = Append(conn[c].queue, s.snapshot)
            /\ conn'[c].missed = conn[c].missed
  <2>1. CASE Enqueue(s)
    <3>1. conn' = [conn EXCEPT ![c] = [conn[c] EXCEPT !.queue = Append(@, s.snapshot)]]
      BY <1>3, <2>1 DEF Enqueue
    <3>2. /\ \A d \in Conns : d # c => conn'[d] = conn[d]
          /\ conn'[c] = [conn[c] EXCEPT !.queue = Append(@, s.snapshot)]
      BY <1>1, <3>1 DEF TypeOK
    <3> QED BY <1>4, <3>2 DEF Conn
  <2>2. CASE EnqueueTimesOut(s)
    <3>1. conn' = [conn EXCEPT ![c] = [conn[c] EXCEPT !.missed = TRUE]]
      BY <1>3, <2>2 DEF EnqueueTimesOut
    <3>2. /\ \A d \in Conns : d # c => conn'[d] = conn[d]
          /\ conn'[c] = [conn[c] EXCEPT !.missed = TRUE]
      BY <1>1, <3>1 DEF TypeOK
    <3> QED BY <1>4, <3>2 DEF Conn
  <2> QED BY <2>1, <2>2
<1>7. /\ conn'[c].peer = conn[c].peer /\ conn'[c].stage = conn[c].stage
      /\ conn'[c].apply = conn[c].apply /\ conn'[c].wire = conn[c].wire
      /\ conn'[c].sent = conn[c].sent /\ conn'[c].initial = conn[c].initial
      /\ conn'[c].task = conn[c].task /\ conn'[c].link = conn[c].link
      /\ conn'[c].acked = conn[c].acked
  BY <1>4, <1>6 DEF Conn
<1>8. StoredInv'
  <2>1. \A d \in Conns : /\ Attends(d)' <=> Attends(d)
                         /\ conn'[d].stage = conn[d].stage /\ conn'[d].apply = conn[d].apply
    BY <1>6, <1>7 DEF Attends
  <2>2. \A d \in Conns : d[1] \notin Passive /\ conn[d].stage # "idle" => Attends(d)
    BY DEF NoLossInv, StoredInv, ApplyOK
  <2> QED BY <1>5, <2>1, <2>2, StoredKept DEF NoLossInv
<1>9. CASE conn'[c].queue = conn[c].queue /\ conn'[c].missed
  <2>1. ConnPast(c)' BY <1>4, <1>5, <1>7, <1>9 DEF ConnPast, Past
  <2>2. c[1] \notin Passive => InitialOne(c)'
    BY <1>4, <1>5, <1>7 DEF InitialOne, Attends, Knows
  <2>3. ~InForce(c)' BY <1>9 DEF InForce
  <2> QED BY <1>3, <1>5, <1>6, <1>8, <2>1, <2>2, <2>3, NodesKept, OneConnStep
          DEF NoLossInv, SnapshotsOK
<1>10. CASE /\ conn'[c].queue = Append(conn[c].queue, s.snapshot)
            /\ conn'[c].missed = conn[c].missed
  <2> DEFINE q == conn[c].queue
  <2>1. /\ Len(q) \in Nat /\ Len(conn'[c].queue) = Len(q) + 1
        /\ \A i \in 1..Len(q) : conn'[c].queue[i] = q[i]
        /\ conn'[c].queue[Len(q) + 1] = s.snapshot
    BY <1>2, <1>4, <1>10, AppendProperties, LenProperties
  <2>2. \A i \in 1..Len(conn'[c].queue) : i \in 1..Len(q) \/ i = Len(q) + 1 BY <2>1
  <2>3. ConnPast(c)'
    BY <1>4, <1>5, <1>7, <2>1, <2>2 DEF ConnPast, Past
  <2>4. c[1] \notin Passive => InitialOne(c)'
    BY <1>4, <1>5, <1>7 DEF InitialOne, Attends, Knows
  <2>5. ASSUME c[1] \notin Passive, InForce(c)' PROVE Told(c)'
    <3>1. InForce(c) /\ Told(c) BY <1>4, <1>5, <1>7, <1>10, <2>5 DEF InForce
    <3>2. CASE \E t \in sends : t.conn = c /\ t.snapshot = server
      <4>1. CASE s.snapshot = server
        <5>1. Len(q) + 1 \in 1..Len(conn'[c].queue) BY <2>1
        <5> QED BY <1>5, <2>1, <4>1, <5>1 DEF Told
      <4>2. CASE s.snapshot # server BY <1>5, <3>2, <4>2 DEF Told
      <4> QED BY <4>1, <4>2
    <3>3. CASE \E i \in 1..Len(conn[c].queue) : conn[c].queue[i] = server
      <4>1. PICK i \in 1..Len(q) : q[i] = server BY <3>3
      <4>2. i \in 1..Len(conn'[c].queue) /\ conn'[c].queue[i] = server' BY <1>5, <2>1, <4>1
      <4> QED BY <4>2 DEF Told
    <3> QED BY <1>5, <1>7, <3>1, <3>2, <3>3 DEF Told
  <2> QED BY <1>3, <1>5, <1>6, <1>8, <2>3, <2>4, <2>5, NodesKept, OneConnStep
          DEF NoLossInv, SnapshotsOK
<1> QED BY <1>6, <1>9, <1>10

\* Registration and catch-up: a session that opens has been told.
LEMMA InvSetup ==
  ASSUME NoLossInv, NEW c \in Conns, Register(c) \/ CatchUp(c), TypeOK'
  PROVE  NoLossInv'
<1>1. TypeOK /\ server \in Snapshot /\ c[1] \in Nodes
  BY ConnNode DEF NoLossInv, StoredInv, TypeOK
<1>2. /\ conn[c] \in Conn /\ conn[c].wire \in Seq(Snapshot)
      /\ ConnPast(c) /\ (c[1] \notin Passive => InitialOne(c) /\ (InForce(c) => Told(c)))
  BY <1>1 DEF TypeOK, Conn, NoLossInv, SnapshotsOK, InitialOK, SessionsTold
<1>3. /\ UNCHANGED <<server, node, publishing>>
      /\ \A d \in Conns : d # c => conn'[d] = conn[d]
      /\ conn'[c].peer = conn[c].peer /\ conn'[c].stage = conn[c].stage
      /\ conn'[c].apply = conn[c].apply /\ conn'[c].queue = conn[c].queue
      /\ conn'[c].initial = conn[c].initial /\ conn'[c].link = conn[c].link
      /\ conn'[c].acked = conn[c].acked
  BY <1>1, <1>2 DEF Register, CatchUp, TypeOK, Conn
<1>4. StoredInv'
  <2>1. \A d \in Conns : /\ Attends(d)' <=> Attends(d)
                         /\ conn'[d].stage = conn[d].stage /\ conn'[d].apply = conn[d].apply
    BY <1>3 DEF Attends
  <2>2. \A d \in Conns : d[1] \notin Passive /\ conn[d].stage # "idle" => Attends(d)
    BY DEF NoLossInv, StoredInv, ApplyOK
  <2> QED BY <1>3, <2>1, <2>2, StoredKept DEF NoLossInv
<1>5. CASE Register(c)
  <2>1. /\ conn'[c].task = "registered" /\ conn[c].acked /\ conn'[c].sent = conn[c].initial
        /\ conn'[c].wire = conn[c].wire /\ UNCHANGED sends
        /\ \A d \in Conns : d # c /\ sessions'[d[1]] = d => sessions[d[1]] = d
    BY <1>1, <1>2, <1>5, ConnNode DEF Register, TypeOK, Conn
  <2>2. ConnPast(c)' BY <1>2, <1>3, <2>1 DEF ConnPast, Past
  <2>3. c[1] \notin Passive => InitialOne(c)'
    BY <1>2, <1>3, <2>1 DEF InitialOne, Attends, Knows
  <2>4. ~InForce(c)' BY <2>1 DEF InForce
  <2> QED BY <1>3, <1>4, <2>1, <2>2, <2>3, <2>4, NodesKept, OneConnStep DEF NoLossInv, SnapshotsOK
<1>6. CASE CatchUp(c)
  <2>1. /\ conn[c].task = "registered" /\ conn'[c].task = "open" /\ UNCHANGED sessions
        /\ \A s \in sends : s \in sends'
        /\ \A s \in sends' : s \in sends \/ s.snapshot = server
    <3>1. sends' \subseteq sends \cup {[conn |-> c, snapshot |-> server, own |-> TRUE]}
      BY <1>6 DEF CatchUp
    <3>2. sends \subseteq sends' BY <1>6 DEF CatchUp
    <3>3. conn'[c].task = "open" BY <1>1, <1>2, <1>6 DEF CatchUp, TypeOK, Conn
    <3>4. conn[c].task = "registered" /\ UNCHANGED sessions BY <1>6 DEF CatchUp
    <3> QED BY <3>1, <3>2, <3>3, <3>4
  <2> DEFINE w == conn[c].wire
  <2>2. \/ /\ conn'[c].wire = w /\ conn'[c].sent = conn[c].sent
        \/ /\ conn'[c].wire = Append(w, server) /\ conn'[c].sent = server.generation
    BY <1>1, <1>2, <1>6 DEF CatchUp, TypeOK, Conn
  <2>3. /\ Len(w) \in Nat /\ Len(Append(w, server)) = Len(w) + 1
        /\ \A i \in 1..Len(w) : Append(w, server)[i] = w[i]
        /\ Append(w, server)[Len(w) + 1] = server
    BY <1>1, <1>2, AppendProperties, LenProperties
  <2>4. \A i \in 1..Len(conn'[c].wire) :
            \/ i \in 1..Len(w) /\ conn'[c].wire[i] = w[i]
            \/ conn'[c].wire[i] = server
    BY <2>2, <2>3
  <2>5. Past(server) /\ server.generation <= server.generation BY <1>1 DEF Past, Snapshot
  <2>6. ConnPast(c)' BY <1>2, <1>3, <2>2, <2>4, <2>5 DEF ConnPast, Past
  <2>7. \A s \in sends' : Past(s.snapshot) BY <2>1, <2>5 DEF NoLossInv, SnapshotsOK
  <2>8. c[1] \notin Passive => InitialOne(c)'
    BY <1>2, <1>3, <2>1 DEF InitialOne, Attends, Knows
  <2>9. ASSUME c[1] \notin Passive PROVE Told(c)'
    <3>1. CASE server.generation = conn[c].initial
      <4>1. Knows(c[1], conn[c].initial) BY <1>2, <2>1, <2>9 DEF InitialOne
      <4>2. node[c[1]].cache # NoSnapshot /\ Past(node[c[1]].cache) /\ node[c[1]].cache \in Snapshot
        BY <1>1, <4>1 DEF Knows, NoLossInv, SnapshotsOK, TypeOK, Node
      <4>3. node[c[1]].cache = server BY <1>1, <3>1, <4>1, <4>2 DEF Knows, Past, Snapshot
      <4> QED BY <1>3, <4>3 DEF Told
    <3>2. CASE server.generation # conn[c].initial /\ c[1] \in Relays
      <4>1. conn'[c].wire = Append(w, server)
        BY <1>1, <1>2, <1>6, <3>2 DEF CatchUp, TypeOK, Conn
      <4>2. Len(w) + 1 \in 1..Len(conn'[c].wire) /\ conn'[c].wire[Len(w) + 1] = server'
        BY <1>3, <2>3, <4>1
      <4> QED BY <4>2 DEF Told
    <3>3. CASE server.generation # conn[c].initial /\ c[1] \in Homes
      <4>1. [conn |-> c, snapshot |-> server, own |-> TRUE] \in sends' BY <1>6, <3>3 DEF CatchUp
      <4> QED BY <1>3, <4>1 DEF Told
    <3> QED BY <1>1, <3>1, <3>2, <3>3 DEF Nodes
  <2> QED BY <1>3, <1>4, <2>1, <2>6, <2>7, <2>8, <2>9, NodesKept, OneConnStep
<1> QED BY <1>5, <1>6

\* An update leaves the queue: to the wire, unless the Relay was sent a newer one.
LEMMA InvWrite ==
  ASSUME NoLossInv, NEW c \in Conns, Write(c), TypeOK'
  PROVE  NoLossInv'
<1>1. TypeOK /\ server \in Snapshot BY DEF NoLossInv, StoredInv, TypeOK
<1>2. /\ conn[c] \in Conn /\ conn[c].wire \in Seq(Snapshot) /\ conn[c].queue \in Seq(Snapshot)
      /\ conn[c].sent \in Nat
      /\ ConnPast(c) /\ (c[1] \notin Passive => InitialOne(c) /\ (InForce(c) => Told(c)))
  BY <1>1 DEF TypeOK, Conn, NoLossInv, SnapshotsOK, InitialOK, SessionsTold
<1> DEFINE w == conn[c].wire
           q == conn[c].queue
           x == Head(conn[c].queue)
<1>3. /\ UNCHANGED <<server, node, publishing, sends, sessions>> /\ q # <<>>
      /\ \A d \in Conns : d # c => conn'[d] = conn[d]
      /\ conn'[c].peer = conn[c].peer /\ conn'[c].stage = conn[c].stage
      /\ conn'[c].apply = conn[c].apply /\ conn'[c].task = conn[c].task
      /\ conn'[c].initial = conn[c].initial /\ conn'[c].link = conn[c].link
      /\ conn'[c].acked = conn[c].acked /\ conn'[c].missed = conn[c].missed
      /\ conn'[c].queue = Tail(q)
      /\ conn[c].task \in {"registered", "open"}
  <2> DEFINE r == [conn[c] EXCEPT
                      !.queue = Tail(@),
                      !.wire = IF Writes(c) THEN Append(@, Head(conn[c].queue)) ELSE @,
                      !.sent = IF Writes(c) THEN Head(conn[c].queue).generation ELSE @]
  <2>1. conn' = [conn EXCEPT ![c] = r] BY DEF Write
  <2>2. conn'[c] = r /\ \A d \in Conns : d # c => conn'[d] = conn[d] BY <1>1, <2>1 DEF TypeOK
  <2>3. /\ r.peer = conn[c].peer /\ r.stage = conn[c].stage /\ r.apply = conn[c].apply
        /\ r.task = conn[c].task /\ r.initial = conn[c].initial /\ r.link = conn[c].link
        /\ r.acked = conn[c].acked /\ r.missed = conn[c].missed /\ r.queue = Tail(q)
    BY <1>2 DEF Conn
  <2> QED BY <2>2, <2>3 DEF Write
<1>4. \/ Writes(c) /\ conn'[c].wire = Append(w, x) /\ conn'[c].sent = x.generation
      \/ ~Writes(c) /\ conn'[c].wire = w /\ conn'[c].sent = conn[c].sent
  BY <1>1, <1>2 DEF Write, TypeOK, Conn
<1>5. /\ x = q[1] /\ x \in Snapshot /\ 1 \in 1..Len(q) /\ Len(q) \in Nat /\ Len(Tail(q)) = Len(q) - 1
      /\ \A i \in 1..Len(Tail(q)) : Tail(q)[i] = q[i + 1]
  BY <1>2, <1>3, HeadAndTail
<1>6. /\ Len(w) \in Nat /\ Len(Append(w, x)) = Len(w) + 1
      /\ \A i \in 1..Len(w) : Append(w, x)[i] = w[i]
      /\ Append(w, x)[Len(w) + 1] = x
  BY <1>2, <1>5, AppendProperties, LenProperties
<1>7. /\ \A i \in 1..Len(conn'[c].wire) :
            \/ i \in 1..Len(w) /\ conn'[c].wire[i] = w[i]
            \/ conn'[c].wire[i] = x
      /\ \A i \in 1..Len(w) : i \in 1..Len(conn'[c].wire) /\ conn'[c].wire[i] = w[i]
  BY <1>4, <1>6
<1> HIDE DEF w, q, x
<1>8. Past(x) BY <1>2, <1>5 DEF ConnPast, q
<1>9. StoredInv'
  <2>1. \A d \in Conns : /\ Attends(d)' <=> Attends(d)
                         /\ conn'[d].stage = conn[d].stage /\ conn'[d].apply = conn[d].apply
    BY <1>3 DEF Attends
  <2>2. \A d \in Conns : d[1] \notin Passive /\ conn[d].stage # "idle" => Attends(d)
    BY DEF NoLossInv, StoredInv, ApplyOK
  <2> QED BY <1>3, <2>1, <2>2, StoredKept DEF NoLossInv
<1>10. ConnPast(c)'
  <2>1. \A i \in 1..Len(conn'[c].queue) : i + 1 \in 1..Len(q) /\ conn'[c].queue[i] = q[i + 1]
    BY <1>3, <1>5
  <2>2. \A i \in 1..Len(conn'[c].queue) : Past(conn'[c].queue[i])
    BY <1>2, <2>1 DEF ConnPast, q
  <2>3. \A i \in 1..Len(conn'[c].wire) : Past(conn'[c].wire[i])
    BY <1>2, <1>7, <1>8 DEF ConnPast, w
  <2>4. conn'[c].sent <= server.generation BY <1>2, <1>4, <1>8 DEF ConnPast, Past
  <2> QED BY <1>2, <1>3, <2>2, <2>3, <2>4 DEF ConnPast, Past
<1>11. c[1] \notin Passive => InitialOne(c)'
  BY <1>2, <1>3 DEF InitialOne, Attends, Knows
<1>12. ASSUME c[1] \notin Passive, InForce(c)' PROVE Told(c)'
  <2>1. Told(c) BY <1>2, <1>3, <1>12 DEF InForce
  <2>2. CASE \E i \in 1..Len(q) : q[i] = server
    <3>1. PICK i \in 1..Len(q) : q[i] = server BY <2>2
    <3>2. CASE i = 1
      <4>1. x = server BY <1>5, <3>1, <3>2
      <4>2. Writes(c) BY <1>1, <1>2, <4>1 DEF Writes, ConnPast, Snapshot, x
      <4>3. Len(w) + 1 \in 1..Len(conn'[c].wire) /\ conn'[c].wire[Len(w) + 1] = server'
        BY <1>3, <1>4, <1>6, <4>1, <4>2
      <4> QED BY <4>3 DEF Told
    <3>3. CASE i # 1
      <4>1. i - 1 \in 1..Len(conn'[c].queue) /\ conn'[c].queue[i - 1] = server'
        BY <1>3, <1>5, <3>1, <3>3
      <4> QED BY <4>1 DEF Told
    <3> QED BY <3>2, <3>3
  <2>3. CASE \E i \in 1..Len(w) : w[i] = server
    <3>1. \E i \in 1..Len(conn'[c].wire) : conn'[c].wire[i] = server' BY <1>3, <1>7, <2>3
    <3> QED BY <3>1 DEF Told
  <2> QED BY <1>3, <2>1, <2>2, <2>3 DEF Told, q, w
<1> QED BY <1>3, <1>9, <1>10, <1>11, <1>12, NodesKept, OneConnStep DEF NoLossInv, SnapshotsOK

-----------------------------------------------------------------------------
(* Connections that end, and what a node does.                              *)

\* An end of a connection goes, with what it had to read.
LEMMA InvCloses ==
  ASSUME NoLossInv, TypeOK', NEW c \in Conns, UNCHANGED <<server, node, publishing>>,
         \A d \in Conns : d # c => conn'[d] = conn[d],
         \/ /\ conn'[c] = NewConn
            /\ c[1] \notin Passive => conn[c].stage = "idle"
         \/ /\ conn'[c].link # "up"
            /\ conn'[c].stage = conn[c].stage /\ conn'[c].apply = conn[c].apply
            /\ Attends(c)' => Attends(c)
            /\ c[1] \notin Passive /\ conn[c].stage # "idle" => Attends(c)'
            /\ conn'[c].task \in {conn[c].task, "ended"}
            /\ conn'[c].acked = conn[c].acked /\ conn'[c].initial = conn[c].initial
            /\ conn'[c].sent = conn[c].sent
            /\ conn'[c].wire \in {conn[c].wire, <<>>} /\ conn'[c].queue \in {conn[c].queue, <<>>},
         sends' \subseteq sends, \A s \in sends : s.conn # c => s \in sends',
         \A d \in Conns : d # c /\ sessions'[d[1]] = d => sessions[d[1]] = d
  PROVE  NoLossInv'
<1>1. conn'[c] = NewConn => /\ ~Attends(c)' /\ conn'[c].stage = "idle" /\ ConnPast(c)'
                            /\ InitialOne(c)' /\ ~InForce(c)'
  BY NewConnClean
<1>2. /\ ConnPast(c) /\ (c[1] \notin Passive => InitialOne(c))
      /\ \A d \in Conns : d[1] \notin Passive /\ conn[d].stage # "idle" => Attends(d)
  BY DEF NoLossInv, StoredInv, ApplyOK, SnapshotsOK, InitialOK
<1>3. StoredInv'
  <2>1. \A d \in Conns : d # c => /\ Attends(d)' <=> Attends(d)
                                  /\ conn'[d].stage = conn[d].stage /\ conn'[d].apply = conn[d].apply
    BY DEF Attends
  <2>2. \A d \in Conns : d[1] \notin Passive =>
            /\ Attends(d)' => Attends(d)
            /\ conn'[d].stage = "idle" <=> conn[d].stage = "idle"
            /\ conn[d].stage # "idle" => Attends(d)' /\ conn'[d].apply = conn[d].apply
    BY <1>1, <1>2, <2>1
  <2> QED BY <2>2, StoredKept DEF NoLossInv
<1>4. Len(<<>>) = 0 BY EmptySeq
<1>5. ConnPast(c)' BY <1>1, <1>2, <1>4 DEF ConnPast, Past
<1>6. c[1] \notin Passive => InitialOne(c)'
  BY <1>1, <1>2, <1>4 DEF InitialOne, Knows
<1>7. ~InForce(c)' BY <1>1 DEF InForce
<1>8. \A s \in sends' : Past(s.snapshot) BY DEF NoLossInv, SnapshotsOK
<1> QED BY <1>3, <1>5, <1>6, <1>7, <1>8, NodesKept, OneConnStep

LEMMA InvTaskEnds ==
  ASSUME NoLossInv, NEW c \in Conns, TaskEnds(c), TypeOK'
  PROVE  NoLossInv'
<1> DEFINE e == [conn[c] EXCEPT !.task = "ended", !.link = "cut", !.queue = <<>>]
<1>1. TypeOK /\ conn[c] \in Conn BY DEF NoLossInv, StoredInv, TypeOK
<1>2. \A d \in Conns : d[1] \notin Passive /\ conn[d].stage # "idle" => Attends(d)
  BY DEF NoLossInv, StoredInv, ApplyOK
<1>3. /\ UNCHANGED <<server, node, publishing>> /\ conn' = [conn EXCEPT ![c] = Reusable(e)]
      /\ sends' = {s \in sends : s.conn # c}
      /\ \A d \in Conns : d # c /\ sessions'[d[1]] = d => sessions[d[1]] = d
  BY <1>1, ConnNode, AuthorizationConstants DEF TaskEnds, TypeOK, Conns
<1>4. /\ e.peer = conn[c].peer /\ e.link # "up" /\ e.stage = conn[c].stage
      /\ e.apply = conn[c].apply /\ e.task = "ended" /\ e.acked = conn[c].acked
      /\ e.initial = conn[c].initial /\ e.sent = conn[c].sent /\ e.wire = conn[c].wire
      /\ e.queue = <<>>
  BY <1>1 DEF Conn
<1>5. /\ conn'[c] = Reusable(e) /\ \A d \in Conns : d # c => conn'[d] = conn[d]
  BY <1>1, <1>3 DEF TypeOK
<1> HIDE DEF e
<1>6. CASE e.peer = "closed"
  <2>1. conn'[c] = NewConn BY <1>4, <1>5, <1>6 DEF Reusable
  <2>2. c[1] \notin Passive => conn[c].stage = "idle" BY <1>2, <1>4, <1>6 DEF Attends
  <2> QED BY <1>3, <1>5, <2>1, <2>2, InvCloses
<1>7. CASE e.peer # "closed"
  <2>1. conn'[c] = e BY <1>5, <1>7 DEF Reusable
  <2>2. Attends(c)' <=> Attends(c) BY <1>4, <2>1 DEF Attends
  <2> QED BY <1>2, <1>3, <1>4, <1>5, <2>1, <2>2, InvCloses
<1> QED BY <1>6, <1>7

LEMMA InvPeerCloses ==
  ASSUME NoLossInv, NEW c \in Conns, PeerCloses(c), conn[c].stage = "idle",
         UNCHANGED <<server, node, publishing, sends, sessions>>, TypeOK'
  PROVE  NoLossInv'
<1> DEFINE e == [conn[c] EXCEPT !.peer = "closed", !.link = "cut", !.wire = <<>>]
<1>1. TypeOK /\ conn[c] \in Conn BY DEF NoLossInv, StoredInv, TypeOK
<1>2. conn' = [conn EXCEPT ![c] = Reusable(e)] BY DEF PeerCloses
<1>3. /\ e.peer = "closed" /\ e.link # "up" /\ e.stage = conn[c].stage
      /\ e.apply = conn[c].apply /\ e.task = conn[c].task /\ e.acked = conn[c].acked
      /\ e.initial = conn[c].initial /\ e.sent = conn[c].sent /\ e.queue = conn[c].queue
      /\ e.wire = <<>>
  BY <1>1 DEF Conn
<1>4. /\ conn'[c] = Reusable(e) /\ \A d \in Conns : d # c => conn'[d] = conn[d]
  BY <1>1, <1>2 DEF TypeOK
<1> HIDE DEF e
<1>5. conn'[c] = NewConn \/ conn'[c] = e BY <1>4 DEF Reusable
<1>6. conn'[c] = e => ~Attends(c)' BY <1>3 DEF Attends
<1> QED BY <1>3, <1>4, <1>5, <1>6, InvCloses

LEMMA InvCut ==
  ASSUME NoLossInv, NEW c \in Conns, Cut(c), TypeOK'
  PROVE  NoLossInv'
<1> DEFINE e == [conn[c] EXCEPT !.link = "cut"]
<1>1. TypeOK /\ conn[c] \in Conn BY DEF NoLossInv, StoredInv, TypeOK
<1>2. \A d \in Conns : d[1] \notin Passive /\ conn[d].stage # "idle" => Attends(d)
  BY DEF NoLossInv, StoredInv, ApplyOK
<1>3. UNCHANGED <<server, node, publishing, sends, sessions>> /\ conn' = [conn EXCEPT ![c] = e]
  BY DEF Cut
<1>4. /\ e.peer = conn[c].peer /\ e.link # "up" /\ e.stage = conn[c].stage
      /\ e.apply = conn[c].apply /\ e.task = conn[c].task /\ e.acked = conn[c].acked
      /\ e.initial = conn[c].initial /\ e.sent = conn[c].sent /\ e.queue = conn[c].queue
      /\ e.wire = conn[c].wire
  BY <1>1 DEF Conn
<1>5. conn'[c] = e /\ \A d \in Conns : d # c => conn'[d] = conn[d]
  BY <1>1, <1>3 DEF TypeOK
<1> HIDE DEF e
<1>6. Attends(c)' <=> Attends(c) BY <1>4, <1>5 DEF Attends
<1> QED BY <1>2, <1>3, <1>4, <1>5, <1>6, InvCloses

\* The setup of a connection reads the Server's snapshot itself.
LEMMA InvConnect ==
  ASSUME NoLossInv, NEW n \in Nodes, NEW c \in Conns, Connect(n, c), TypeOK'
  PROVE  NoLossInv'
<1> DEFINE r == [NewConn EXCEPT !.link = "up", !.task = "offered", !.peer = "waiting",
                                !.wire = <<server>>, !.initial = server.generation]
<1>1. TypeOK /\ server \in Snapshot BY DEF NoLossInv, StoredInv, TypeOK
<1>2. /\ UNCHANGED <<server, node, publishing, sends, sessions>>
      /\ conn' = [conn EXCEPT ![c] = r] /\ conn[c] = NewConn /\ n = c[1]
      /\ n \notin Passive => \A d \in Of(n) : conn[d].peer \in {"none", "closed"}
  BY DEF Connect, Of
<1>3. conn'[c] = r /\ \A d \in Conns : d # c => conn'[d] = conn[d]
  BY <1>1, <1>2 DEF TypeOK
<1>4. /\ r.link = "up" /\ r.task = "offered" /\ r.peer = "waiting" /\ r.stage = "idle"
      /\ r.wire = <<server>> /\ r.queue = <<>> /\ r.sent = 0 /\ ~r.acked
      /\ r.initial = server.generation /\ NewConn.stage = "idle"
  BY DEF NewConn
<1> HIDE DEF r
<1>5. StoredInv'
  <2>1. \A d \in Conns : conn'[d].stage = conn[d].stage
    BY <1>2, <1>3, <1>4
  <2>2. \A d \in Conns : d # c => (Attends(d)' <=> Attends(d)) /\ conn'[d].apply = conn[d].apply
    BY <1>3 DEF Attends
  <2>3. OneAttended'
    <3>1. n \notin Passive => \A d \in Conns : d[1] = n => ~Attends(d)
      BY <1>2 DEF Attends, Of
    <3> QED BY <1>2, <2>2, <3>1 DEF OneAttended, NoLossInv, StoredInv
  <2>4. ApplyOK'
    <3>1. conn'[c].stage = "idle" BY <1>3, <1>4
    <3> QED BY <1>2, <2>1, <2>2, <3>1 DEF ApplyOK, NoLossInv, StoredInv
  <2>5. AppliedOK' BY <1>2, <2>1 DEF AppliedOK, NoLossInv, StoredInv, Of
  <2> QED BY <2>3, <2>4, <2>5 DEF StoredInv
<1>6. Len(<<>>) = 0 /\ Len(<<server>>) = 1 /\ <<server>>[1] = server BY EmptySeq
<1>7. \A g \in Nat : g <= g /\ 0 <= g OBVIOUS
<1>8. server.generation \in Nat BY <1>1 DEF Snapshot
<1>9. ConnPast(c)'
  <2>1. \A i \in 1..Len(conn'[c].wire) : conn'[c].wire[i] = server BY <1>3, <1>4, <1>6
  <2>2. Past(server) BY <1>7, <1>8 DEF Past
  <2> QED BY <1>2, <1>3, <1>4, <1>6, <1>7, <1>8, <2>1, <2>2 DEF ConnPast, Past
<1>10. InitialOne(c)'
  <2>1. \A i \in 1..Len(conn'[c].wire) : conn'[c].wire[i] = server BY <1>3, <1>4, <1>6
  <2> QED BY <1>3, <1>4, <1>7, <1>8, <2>1 DEF InitialOne, Attends
<1>11. ~InForce(c)' BY <1>3, <1>4 DEF InForce
<1> QED BY <1>2, <1>3, <1>5, <1>9, <1>10, <1>11, NodesKept, OneConnStep
        DEF NoLossInv, SnapshotsOK

\* An accepted snapshot is in the cache before anything else.
LEMMA InvAccepts ==
  ASSUME NoLossInv, NEW c \in Conns, Receive(c),
         Accepts(node[c[1]].cache, Head(conn[c].wire)), TypeOK'
  PROVE  NoLossInv'
<1> DEFINE w == conn[c].wire
           x == Head(conn[c].wire)
           r == [conn[c] EXCEPT !.wire = Tail(@), !.stage = "accepted", !.apply = x]
<1>1. TypeOK /\ server \in Snapshot /\ c[1] \in Nodes
  BY ConnNode DEF NoLossInv, StoredInv, TypeOK
<1>2. /\ conn[c] \in Conn /\ w \in Seq(Snapshot) /\ node[c[1]] \in Node
      /\ ConnPast(c) /\ (c[1] \notin Passive => InitialOne(c) /\ (InForce(c) => Told(c)))
      /\ \A n \in Nodes : node[n].cache \in Snapshot \cup {NoSnapshot}
  BY <1>1 DEF TypeOK, Conn, Node, NoLossInv, SnapshotsOK, InitialOK, SessionsTold
<1>3. /\ x = w[1] /\ x \in Snapshot /\ 1 \in 1..Len(w) /\ Len(w) \in Nat /\ Len(Tail(w)) = Len(w) - 1
      /\ \A i \in 1..Len(Tail(w)) : Tail(w)[i] = w[i + 1]
  BY <1>2, HeadAndTail DEF Receive
<1>4. /\ UNCHANGED <<server, publishing, sends, sessions>> /\ Attends(c) /\ conn[c].stage = "idle"
      /\ conn' = [conn EXCEPT ![c] = r]
      /\ node' = [node EXCEPT ![c[1]] = [node[c[1]] EXCEPT !.cache = x]]
  BY DEF Receive, Attends
<1>5. /\ conn'[c] = r /\ \A d \in Conns : d # c => conn'[d] = conn[d]
      /\ node'[c[1]].cache = x /\ node'[c[1]].applied = node[c[1]].applied
      /\ \A n \in Nodes : n # c[1] => node'[n] = node[n]
  BY <1>1, <1>2, <1>4 DEF TypeOK, Node
<1>6. /\ r.peer = conn[c].peer /\ r.link = conn[c].link /\ r.stage = "accepted"
      /\ r.apply = x /\ r.task = conn[c].task /\ r.acked = conn[c].acked
      /\ r.initial = conn[c].initial /\ r.sent = conn[c].sent /\ r.queue = conn[c].queue
      /\ r.wire = Tail(w) /\ r.missed = conn[c].missed
  BY <1>2 DEF Conn
<1> HIDE DEF r
<1>7. Past(x) BY <1>2, <1>3 DEF ConnPast
<1>8. \A s \in Snapshot : s.generation \in Nat BY DEF Snapshot
<1>9. ASSUME NEW n \in Nodes
      PROVE  /\ Learns(n)
             /\ node'[n].cache # NoSnapshot => Past(node'[n].cache)
             /\ node'[n].applied = node[n].applied
  <2>1. CASE n = c[1]
    <3>1. node[n].cache = server => x = server
      BY <1>1, <1>3, <1>7, <1>8, <2>1, AuthorizationConstants DEF Accepts, Past
    <3>2. node[n].cache # NoSnapshot => x.generation >= node[n].cache.generation
      BY <2>1 DEF Accepts
    <3>3. x # NoSnapshot BY <1>3, AuthorizationConstants
    <3> QED BY <1>5, <1>7, <2>1, <3>1, <3>2, <3>3 DEF Learns
  <2>2. CASE n # c[1]
    <3>1. node'[n] = node[n] BY <1>5, <2>2
    <3> QED BY <1>1, <1>4, <3>1, LearnsNothing DEF NoLossInv, SnapshotsOK
  <2> QED BY <2>1, <2>2
<1>10. StoredInv'
  <2>1. \A d \in Conns : Attends(d)' <=> Attends(d) BY <1>5, <1>6 DEF Attends
  <2>2. OneAttended' BY <2>1 DEF OneAttended, NoLossInv, StoredInv
  <2>3. ApplyOK'
    <3> SUFFICES ASSUME NEW d \in Conns, d[1] \notin Passive, conn'[d].stage # "idle"
                 PROVE  /\ Attends(d)' /\ conn'[d].apply # NoSnapshot
                        /\ conn'[d].apply = node'[d[1]].cache
      BY DEF ApplyOK
    <3>1. CASE d = c
      BY <1>3, <1>4, <1>5, <1>6, <2>1, <3>1, AuthorizationConstants
    <3>2. CASE d # c
      <4>1. /\ conn'[d] = conn[d] /\ Attends(d) /\ conn[d].apply # NoSnapshot
            /\ conn[d].apply = node[d[1]].cache /\ d[1] \in Nodes
        BY <1>5, <3>2, ConnNode DEF NoLossInv, StoredInv, ApplyOK
      <4>2. d[1] # c[1] BY <1>4, <3>2, <4>1 DEF NoLossInv, StoredInv, OneAttended
      <4> QED BY <1>5, <2>1, <4>1, <4>2
    <3> QED BY <3>1, <3>2
  <2>4. AppliedOK'
    <3> SUFFICES ASSUME NEW n \in Nodes \ Passive, \A d \in Of(n) : conn'[d].stage = "idle"
                 PROVE  node'[n].applied = NoSnapshot \/ node'[n].applied = node'[n].cache
      BY DEF AppliedOK, Of
    <3>1. n # c[1] BY <1>5, <1>6, ConnNode
    <3>2. \A d \in Of(n) : conn'[d] = conn[d] BY <1>5, <3>1 DEF Of
    <3> QED BY <1>5, <3>1, <3>2 DEF NoLossInv, StoredInv, AppliedOK
  <2> QED BY <2>2, <2>3, <2>4 DEF StoredInv
<1>11. \A i \in 1..Len(conn'[c].wire) : i + 1 \in 1..Len(w) /\ conn'[c].wire[i] = w[i + 1]
  BY <1>3, <1>5, <1>6
<1>12. ConnPast(c)'
  <2>1. \A i \in 1..Len(conn'[c].wire) : Past(conn'[c].wire[i]) BY <1>2, <1>11 DEF ConnPast
  <2> QED BY <1>2, <1>4, <1>5, <1>6, <2>1 DEF ConnPast, Past
<1>13. ASSUME c[1] \notin Passive PROVE InitialOne(c)'
  <2>1. conn[c].initial \in 0..MaxGeneration BY <1>2 DEF Conn
  <2>2. CASE conn[c].acked
    <3>1. node'[c[1]].cache # NoSnapshot /\ node'[c[1]].cache.generation >= conn[c].initial
      <4>1. Knows(c[1], conn[c].initial) BY <1>2, <1>13, <2>2 DEF InitialOne
      <4>2. x.generation >= node[c[1]].cache.generation BY <4>1 DEF Accepts, Knows
      <4>3. node[c[1]].cache.generation \in Nat /\ x.generation \in Nat
        BY <1>1, <1>2, <1>3, <1>8, <4>1 DEF Knows
      <4>4. node[c[1]].cache.generation >= conn[c].initial /\ conn[c].initial \in Nat
        BY <2>1, <4>1, AuthorizationConstants DEF Knows
      <4>5. x.generation >= conn[c].initial BY <4>2, <4>3, <4>4
      <4> QED BY <1>3, <1>5, <4>5, AuthorizationConstants
    <3> QED BY <1>2, <1>5, <1>6, <1>13, <2>2, <3>1 DEF InitialOne, Attends, Knows
  <2>3. CASE ~conn[c].acked
    <3>1. x.generation >= conn[c].initial BY <1>2, <1>3, <1>13, <2>3 DEF InitialOne
    <3>2. \A i \in 1..Len(conn'[c].wire) : conn'[c].wire[i].generation >= conn[c].initial
      BY <1>2, <1>11, <1>13, <2>3 DEF InitialOne
    <3> QED BY <1>2, <1>3, <1>5, <1>6, <1>13, <2>3, <3>1, <3>2, AuthorizationConstants
            DEF InitialOne, Attends, Knows
  <2> QED BY <2>2, <2>3
<1>14. ASSUME c[1] \notin Passive, InForce(c)' PROVE Told(c)'
  <2>1. Told(c) BY <1>2, <1>4, <1>5, <1>6, <1>14 DEF InForce
  <2>2. CASE \E i \in 1..Len(w) : w[i] = server
    <3>1. PICK i \in 1..Len(w) : w[i] = server BY <2>2
    <3>2. CASE i = 1 BY <1>3, <1>4, <1>5, <3>1, <3>2 DEF Told
    <3>3. CASE i # 1
      <4>1. conn'[c].wire = Tail(w) BY <1>5, <1>6
      <4>2. i - 1 \in 1..Len(Tail(w)) /\ (i - 1) + 1 = i BY <1>3, <3>1, <3>3
      <4>3. Tail(w)[i - 1] = w[i] BY <1>3, <4>2
      <4> QED BY <1>4, <3>1, <4>1, <4>2, <4>3 DEF Told
    <3> QED BY <3>2, <3>3
  <2>3. CASE node[c[1]].cache = server
    <3>1. node'[c[1]].cache = server' BY <1>1, <1>4, <1>9, <2>3 DEF Learns
    <3> QED BY <3>1 DEF Told
  <2> QED BY <1>4, <1>5, <1>6, <2>1, <2>2, <2>3 DEF Told
<1>15. \A n \in Nodes :
          /\ Learns(n)
          /\ node'[n].cache # NoSnapshot => Past(node'[n].cache)
          /\ n \notin Passive /\ node[n].applied # NoSnapshot => node'[n].applied # NoSnapshot
  BY <1>9
<1>16. \A s \in sends' : Past(s.snapshot) BY <1>4 DEF NoLossInv, SnapshotsOK
<1> QED BY <1>4, <1>5, <1>10, <1>12, <1>13, <1>14, <1>15, <1>16, OneConnStep

LEMMA InvReceive ==
  ASSUME NoLossInv, NEW c \in Conns, Receive(c), TypeOK'
  PROVE  NoLossInv'
<1>1. CASE Accepts(node[c[1]].cache, Head(conn[c].wire)) BY <1>1, InvAccepts
<1>2. CASE ~Accepts(node[c[1]].cache, Head(conn[c].wire))
  <2>1. /\ PeerCloses(c) /\ UNCHANGED <<node, server, publishing, sends, sessions>>
        /\ conn[c].stage = "idle"
    BY <1>2 DEF Receive
  <2> QED BY <2>1, InvPeerCloses
<1> QED BY <1>1, <1>2

\* What the snapshot no longer permits ends; then it is published.
LEMMA InvApplies ==
  ASSUME NoLossInv, NEW c \in Conns, Sweep(c) \/ Publish(c), TypeOK'
  PROVE  NoLossInv'
<1>1. TypeOK /\ c[1] \in Nodes BY ConnNode DEF NoLossInv, StoredInv
<1>2. /\ conn[c] \in Conn /\ node[c[1]] \in Node
      /\ ConnPast(c) /\ (c[1] \notin Passive => InitialOne(c) /\ (InForce(c) => Told(c)))
  BY <1>1 DEF TypeOK, NoLossInv, SnapshotsOK, InitialOK, SessionsTold
<1>3. /\ UNCHANGED <<server, publishing, sends, sessions>>
      /\ \A d \in Conns : d # c => conn'[d] = conn[d]
      /\ \A n \in Nodes : n # c[1] => node'[n] = node[n]
      /\ node'[c[1]].cache = node[c[1]].cache /\ conn[c].stage # "idle"
      /\ conn'[c].queue = conn[c].queue /\ conn'[c].wire = conn[c].wire
      /\ conn'[c].sent = conn[c].sent /\ conn'[c].initial = conn[c].initial
      /\ conn'[c].task = conn[c].task /\ conn'[c].link = conn[c].link
      /\ conn'[c].missed = conn[c].missed
      /\ Attends(c)' <=> Attends(c)
  <2>1. CASE Sweep(c)
    <3> DEFINE r == [conn[c] EXCEPT !.stage = "swept"]
    <3>1. /\ conn' = [conn EXCEPT ![c] = r] /\ conn[c].stage = "accepted"
          /\ UNCHANGED <<server, publishing, sends, sessions>>
      BY <2>1 DEF Sweep
    <3>2. conn'[c] = r /\ \A d \in Conns : d # c => conn'[d] = conn[d]
      BY <1>1, <3>1 DEF TypeOK
    <3>3. /\ \A n \in Nodes : n # c[1] => node'[n] = node[n]
          /\ node'[c[1]].cache = node[c[1]].cache
      BY <1>1, <1>2, <2>1 DEF Sweep, TypeOK, Node
    <3> QED BY <1>2, <3>1, <3>2, <3>3 DEF Conn, Attends
  <2>2. CASE Publish(c)
    <3> DEFINE r == [conn[c] EXCEPT !.stage = "idle", !.apply = NoSnapshot, !.acked = TRUE,
                                    !.peer = IF @ = "waiting" THEN "running" ELSE @]
    <3>1. /\ conn' = [conn EXCEPT ![c] = r] /\ conn[c].stage = "swept"
          /\ UNCHANGED <<server, publishing, sends, sessions>>
      BY <2>2 DEF Publish
    <3>2. conn'[c] = r /\ \A d \in Conns : d # c => conn'[d] = conn[d]
      BY <1>1, <3>1 DEF TypeOK
    <3>3. /\ \A n \in Nodes : n # c[1] => node'[n] = node[n]
          /\ node'[c[1]].cache = node[c[1]].cache
      BY <1>1, <1>2, <2>2 DEF Publish, TypeOK, Node
    <3> QED BY <1>2, <3>1, <3>2, <3>3 DEF Conn, Attends
  <2> QED BY <2>1, <2>2
<1>4. c[1] \notin Passive => /\ Attends(c) /\ conn[c].apply # NoSnapshot
                             /\ conn[c].apply = node[c[1]].cache
  BY <1>3 DEF NoLossInv, StoredInv, ApplyOK
<1>5. ConnPast(c)' BY <1>2, <1>3 DEF ConnPast, Past
<1>6. InForce(c)' /\ c[1] \notin Passive => Told(c)' BY <1>2, <1>3 DEF InForce, Told
<1>7. ASSUME NEW n \in Nodes
      PROVE  /\ Learns(n)
             /\ node'[n].cache # NoSnapshot => Past(node'[n].cache)
  <2>1. node'[n].cache = node[n].cache BY <1>3
  <2> QED BY <1>1, <1>3, <2>1, LearnsNothing DEF NoLossInv, SnapshotsOK
<1>8. \A s \in sends' : Past(s.snapshot) BY <1>3 DEF NoLossInv, SnapshotsOK
<1>9. CASE Sweep(c)
  <2>1. /\ conn'[c].stage = "swept" /\ conn'[c].apply = conn[c].apply
        /\ conn'[c].acked = conn[c].acked /\ node'[c[1]].applied = node[c[1]].applied
    BY <1>1, <1>2, <1>9 DEF Sweep, TypeOK, Conn, Node
  <2>2. StoredInv'
    <3>1. \A d \in Conns : /\ Attends(d)' <=> Attends(d)
                           /\ conn'[d].stage = "idle" <=> conn[d].stage = "idle"
                           /\ conn'[d].apply = conn[d].apply
      BY <1>3, <2>1 DEF Attends
    <3>2. \A d \in Conns : d[1] \notin Passive /\ conn[d].stage # "idle" => Attends(d)
      BY DEF NoLossInv, StoredInv, ApplyOK
    <3>3. \A n \in Nodes : node'[n].cache = node[n].cache /\ node'[n].applied = node[n].applied
      BY <1>3, <2>1
    <3> QED BY <3>1, <3>2, <3>3, StoredKept DEF NoLossInv
  <2>3. c[1] \notin Passive => InitialOne(c)'
    BY <1>2, <1>3, <2>1 DEF InitialOne, Knows
  <2>4. \A n \in Nodes :
            n \notin Passive /\ node[n].applied # NoSnapshot => node'[n].applied # NoSnapshot
    BY <1>3, <2>1
  <2> QED BY <1>3, <1>5, <1>6, <1>7, <1>8, <2>2, <2>3, <2>4, OneConnStep
<1>10. CASE Publish(c)
  <2>1. /\ conn'[c].stage = "idle" /\ conn'[c].acked /\ node'[c[1]].applied = conn[c].apply
    BY <1>1, <1>2, <1>10 DEF Publish, TypeOK, Conn, Node
  <2>2. \A d \in Conns : Attends(d)' <=> Attends(d) BY <1>3 DEF Attends
  <2>3. OneAttended' BY <2>2 DEF OneAttended, NoLossInv, StoredInv
  <2>4. ApplyOK'
    <3> SUFFICES ASSUME NEW d \in Conns, d[1] \notin Passive, conn'[d].stage # "idle"
                 PROVE  /\ Attends(d)' /\ conn'[d].apply # NoSnapshot
                        /\ conn'[d].apply = node'[d[1]].cache
      BY DEF ApplyOK
    <3>1. d # c /\ conn'[d] = conn[d] /\ d[1] \in Nodes BY <1>3, <2>1, ConnNode
    <3>2. node'[d[1]].cache = node[d[1]].cache BY <1>3, <3>1
    <3> QED BY <2>2, <3>1, <3>2 DEF NoLossInv, StoredInv, ApplyOK
  <2>5. AppliedOK'
    <3> SUFFICES ASSUME NEW n \in Nodes \ Passive, \A d \in Of(n) : conn'[d].stage = "idle"
                 PROVE  node'[n].applied = NoSnapshot \/ node'[n].applied = node'[n].cache
      BY DEF AppliedOK, Of
    <3>1. CASE n = c[1] BY <1>3, <1>4, <2>1, <3>1
    <3>2. CASE n # c[1]
      <4>1. \A d \in Of(n) : conn'[d] = conn[d] BY <1>3, <3>2 DEF Of
      <4> QED BY <1>3, <3>2, <4>1 DEF NoLossInv, StoredInv, AppliedOK
    <3> QED BY <3>1, <3>2
  <2>6. StoredInv' BY <2>3, <2>4, <2>5 DEF StoredInv
  <2>7. c[1] \notin Passive => InitialOne(c)'
    BY <1>2, <1>3, <1>4, <2>1 DEF InitialOne, Knows
  <2>8. \A n \in Nodes :
            n \notin Passive /\ node[n].applied # NoSnapshot => node'[n].applied # NoSnapshot
    BY <1>3, <1>4, <2>1
  <2> QED BY <1>3, <1>5, <1>6, <1>7, <1>8, <2>6, <2>7, <2>8, OneConnStep
<1> QED BY <1>9, <1>10

\* Routes and Flows come and go: no snapshot changes.
LEMMA InvLocal ==
  ASSUME NoLossInv, TypeOK', UNCHANGED <<server, publishing, sends, sessions, conn>>,
         \A n \in Nodes : node'[n].cache = node[n].cache /\ node'[n].applied = node[n].applied
  PROVE  NoLossInv'
<1>1. \A c \in Conns : c[1] \in Nodes BY ConnNode
<1>2. StoredInv'
  <2>1. \A c \in Conns : Attends(c)' <=> Attends(c) BY DEF Attends
  <2>2. \A c \in Conns : c[1] \notin Passive /\ conn[c].stage # "idle" => Attends(c)
    BY DEF NoLossInv, StoredInv, ApplyOK
  <2> QED BY <2>1, <2>2, StoredKept DEF NoLossInv
<1>3. SnapshotsOK' BY DEF NoLossInv, SnapshotsOK, ConnPast, Past
<1>4. InitialOK' BY <1>1 DEF NoLossInv, InitialOK, InitialOne, Attends, Knows
<1>5. SessionsTold' BY <1>1 DEF NoLossInv, SessionsTold, InForce, Told
<1> QED BY <1>2, <1>3, <1>4, <1>5 DEF NoLossInv

\* A node's process dies: whatever connection it was part of is closed.
LEMMA InvRestart ==
  ASSUME NoLossInv, NEW n \in Nodes, Restart(n), TypeOK'
  PROVE  NoLossInv'
<1> DEFINE e(c) == [conn[c] EXCEPT !.peer = "closed", !.link = "cut",
                                   !.wire = <<>>, !.stage = "idle", !.apply = NoSnapshot]
<1>1. TypeOK /\ \A c \in Conns : conn[c] \in Conn /\ c[1] \in Nodes
  BY ConnNode DEF NoLossInv, StoredInv, TypeOK
<1>2. /\ UNCHANGED <<server, publishing, sends, sessions>>
      /\ node'[n].cache = node[n].cache /\ node'[n].applied = NoSnapshot
      /\ \A m \in Nodes : m # n => node'[m] = node[m]
      /\ \A c \in Conns :
            IF c[1] # n \/ conn[c].peer \in {"none", "closed"} THEN conn'[c] = conn[c]
            ELSE conn'[c] = Reusable(e(c))
  BY <1>1 DEF Restart, TypeOK, NewNode
<1>4. \A c \in Conns :
          /\ e(c).peer = "closed" /\ e(c).link # "up" /\ e(c).stage = "idle"
          /\ e(c).task = conn[c].task /\ e(c).acked = conn[c].acked
          /\ e(c).initial = conn[c].initial /\ e(c).sent = conn[c].sent
          /\ e(c).queue = conn[c].queue /\ e(c).wire = <<>>
  BY <1>1 DEF Conn
<1>3. \A c \in Conns : c[1] = n /\ Attends(c) =>
          /\ conn'[c] = NewConn \/ conn'[c] = e(c)
          /\ conn'[c].peer \in {"none", "closed"}
  <2> SUFFICES ASSUME NEW c \in Conns, c[1] = n, Attends(c)
               PROVE  /\ conn'[c] = NewConn \/ conn'[c] = e(c)
                      /\ conn'[c].peer \in {"none", "closed"}
    OBVIOUS
  <2>1. conn[c].peer \notin {"none", "closed"} BY DEF Attends
  <2>2. conn'[c] = Reusable(e(c)) BY <1>2, <2>1
  <2>3. e(c).peer = "closed" BY <1>4
  <2> HIDE DEF e
  <2>4. conn'[c] = NewConn \/ conn'[c] = e(c) BY <2>2 DEF Reusable
  <2> QED BY <2>3, <2>4 DEF NewConn
<1>5. \A c \in Conns : ~(c[1] = n /\ Attends(c)) => conn'[c] = conn[c]
  <2> SUFFICES ASSUME NEW c \in Conns, c[1] = n, ~Attends(c) PROVE conn'[c] = conn[c]
    BY <1>2
  <2>1. conn[c].peer \in {"none", "closed"} BY <1>1 DEF Attends, Conn
  <2> QED BY <1>2, <2>1
<1> HIDE DEF e
<1>6. \A c \in Conns : Attends(c)' => Attends(c) /\ c[1] # n /\ conn'[c] = conn[c]
  BY <1>3, <1>5 DEF Attends
<1>7. \A c \in Conns : c[1] \notin Passive /\ conn[c].stage # "idle" => Attends(c)
  BY DEF NoLossInv, StoredInv, ApplyOK
<1>8. \A c \in Conns : c[1] \notin Passive /\ c[1] = n => conn'[c].stage = "idle"
  BY <1>3, <1>4, <1>5, <1>7 DEF NewConn
<1>9. StoredInv'
  <2>1. OneAttended' BY <1>6 DEF OneAttended, NoLossInv, StoredInv
  <2>2. ApplyOK'
    <3> SUFFICES ASSUME NEW c \in Conns, c[1] \notin Passive, conn'[c].stage # "idle"
                 PROVE  /\ Attends(c)' /\ conn'[c].apply # NoSnapshot
                        /\ conn'[c].apply = node'[c[1]].cache
      BY DEF ApplyOK
    <3>1. c[1] # n /\ conn'[c] = conn[c] BY <1>5, <1>8
    <3>2. node'[c[1]] = node[c[1]] BY <1>1, <1>2, <3>1
    <3> QED BY <3>1, <3>2 DEF NoLossInv, StoredInv, ApplyOK, Attends
  <2>3. AppliedOK'
    <3> SUFFICES ASSUME NEW m \in Nodes \ Passive, m # n, \A d \in Of(m) : conn'[d].stage = "idle"
                 PROVE  node'[m].applied = NoSnapshot \/ node'[m].applied = node'[m].cache
      BY <1>2 DEF AppliedOK, Of
    <3>1. \A d \in Of(m) : conn'[d] = conn[d] BY <1>5 DEF Of
    <3> QED BY <1>2, <3>1 DEF NoLossInv, StoredInv, AppliedOK
  <2> QED BY <2>1, <2>2, <2>3 DEF StoredInv
<1>10. Len(<<>>) = 0 BY EmptySeq
<1>11. SnapshotsOK'
  <2>1. ASSUME NEW c \in Conns PROVE ConnPast(c)'
    <3>1. ConnPast(c) BY DEF NoLossInv, SnapshotsOK
    <3>2. CASE conn'[c] = conn[c] BY <1>2, <3>1, <3>2, PastKept
    <3>3. CASE conn'[c] = NewConn BY <3>3, NewConnClean
    <3>4. CASE conn'[c] = e(c) BY <1>2, <1>4, <1>10, <3>1, <3>4 DEF ConnPast, Past
    <3> QED BY <1>3, <1>5, <3>2, <3>3, <3>4
  <2>2. \A m \in Nodes : node'[m].cache = node[m].cache BY <1>2
  <2> QED BY <1>2, <2>1, <2>2 DEF NoLossInv, SnapshotsOK, Past
<1>12. \A m \in Nodes : Learns(m)
  <2>1. \A m \in Nodes : node'[m].cache = node[m].cache BY <1>2
  <2> QED BY <1>1, <1>2, <2>1, LearnsNothing
<1>13. InitialOK'
  <2> SUFFICES ASSUME NEW c \in Conns, c[1] \notin Passive PROVE InitialOne(c)'
    BY DEF InitialOK
  <2>1. InitialOne(c) BY DEF NoLossInv, InitialOK
  <2>2. CASE c[1] # n
    <3>1. conn'[c] = conn[c] /\ node'[c[1]] = node[c[1]] BY <1>1, <1>2, <1>5, <2>2
    <3> QED BY <1>1, <1>12, <2>1, <3>1, InitialKept
  <2>3. CASE c[1] = n
    <3>1. ~Attends(c)' BY <1>6, <2>3
    <3>2. CASE conn'[c] = NewConn BY <3>2, NewConnClean
    <3>3. CASE conn'[c] = e(c)
      BY <1>2, <1>4, <1>10, <2>1, <2>3, <3>1, <3>3 DEF InitialOne, Knows
    <3>4. CASE conn'[c] = conn[c] /\ ~Attends(c)
      BY <1>2, <2>1, <2>3, <3>1, <3>4 DEF InitialOne, Knows
    <3> QED BY <1>3, <1>5, <2>3, <3>2, <3>3, <3>4
  <2> QED BY <2>2, <2>3
<1>14. SessionsTold'
  <2> SUFFICES ASSUME NEW c \in Conns, c[1] \notin Passive, InForce(c)' PROVE Told(c)'
    BY DEF SessionsTold
  <2>1. Attends(c)' BY <1>13 DEF InitialOK, InitialOne, InForce
  <2>2. conn'[c] = conn[c] /\ Learns(c[1]) BY <1>1, <1>6, <1>12, <2>1
  <2>3. InForce(c)' => InForce(c) /\ Told(c)
    BY <1>2, <2>2 DEF InForce, NoLossInv, SessionsTold
  <2> QED BY <1>2, <2>2, <2>3, ToldKept
<1> QED BY <1>9, <1>11, <1>13, <1>14 DEF NoLossInv

\* The Server's process dies: no session is in force.
LEMMA InvServerRestart ==
  ASSUME NoLossInv, ServerRestart, TypeOK'
  PROVE  NoLossInv'
<1> DEFINE e(c) == [conn[c] EXCEPT !.task = "ended", !.link = "cut", !.queue = <<>>]
<1>1. TypeOK /\ \A c \in Conns : conn[c] \in Conn /\ c[1] \in Nodes
  BY ConnNode DEF NoLossInv, StoredInv, TypeOK
<1>2. /\ UNCHANGED <<server, node>> /\ publishing' = {} /\ sends' = {}
      /\ \A n \in Nodes : sessions'[n] = NoConn
      /\ \A c \in Conns : conn'[c] = conn[c] \/ conn'[c] = Reusable(e(c))
  BY DEF ServerRestart
<1>3. \A c \in Conns :
          /\ e(c).peer = conn[c].peer /\ e(c).link # "up" /\ e(c).stage = conn[c].stage
          /\ e(c).apply = conn[c].apply
          /\ e(c).task = "ended" /\ e(c).acked = conn[c].acked
          /\ e(c).initial = conn[c].initial /\ e(c).sent = conn[c].sent
          /\ e(c).queue = <<>> /\ e(c).wire = conn[c].wire
  BY <1>1 DEF Conn
<1> HIDE DEF e
<1>4. \A c \in Conns : \/ conn'[c] = conn[c] \/ conn'[c] = e(c)
                       \/ conn'[c] = NewConn /\ ~Attends(c)
  BY <1>2, <1>3 DEF Reusable, Attends
<1>5. \A c \in Conns : c[1] \notin Passive /\ conn[c].stage # "idle" => Attends(c)
  BY DEF NoLossInv, StoredInv, ApplyOK
<1>6. StoredInv'
  <2>1. \A c \in Conns : conn'[c] = NewConn => ~Attends(c)' /\ conn'[c].stage = "idle"
    BY NewConnClean
  <2>2. \A c \in Conns : c[1] \notin Passive =>
            /\ Attends(c)' => Attends(c)
            /\ conn'[c].stage = "idle" <=> conn[c].stage = "idle"
            /\ conn[c].stage # "idle" => Attends(c)' /\ conn'[c].apply = conn[c].apply
    BY <1>3, <1>4, <1>5, <2>1 DEF Attends
  <2> QED BY <1>2, <2>2, StoredKept DEF NoLossInv
<1>7. Len(<<>>) = 0 BY EmptySeq
<1>8. SnapshotsOK'
  <2>1. ASSUME NEW c \in Conns PROVE ConnPast(c)'
    <3>1. ConnPast(c) BY DEF NoLossInv, SnapshotsOK
    <3>2. CASE conn'[c] = conn[c] BY <1>2, <3>1, <3>2, PastKept
    <3>3. CASE conn'[c] = NewConn BY <3>3, NewConnClean
    <3>4. CASE conn'[c] = e(c) BY <1>2, <1>3, <1>7, <3>1, <3>4 DEF ConnPast, Past
    <3> QED BY <1>4, <3>2, <3>3, <3>4
  <2> QED BY <1>2, <2>1 DEF NoLossInv, SnapshotsOK, Past
<1>9. InitialOK'
  <2> SUFFICES ASSUME NEW c \in Conns, c[1] \notin Passive PROVE InitialOne(c)'
    BY DEF InitialOK
  <2>1. InitialOne(c) BY DEF NoLossInv, InitialOK
  <2>2. CASE conn'[c] = conn[c] BY <1>2, <2>1, <2>2 DEF InitialOne, Attends, Knows
  <2>3. CASE conn'[c] = NewConn BY <2>3, NewConnClean
  <2>4. CASE conn'[c] = e(c) BY <1>2, <1>3, <2>1, <2>4 DEF InitialOne, Attends, Knows
  <2> QED BY <1>4, <2>2, <2>3, <2>4
<1>10. SessionsTold' BY <1>1, <1>2, AuthorizationConstants DEF SessionsTold, InForce, Conns
<1> QED BY <1>6, <1>8, <1>9, <1>10 DEF NoLossInv

-----------------------------------------------------------------------------
(* Theorems.                                                                *)

LEMMA NoLossInit == Init => NoLossInv
<1> SUFFICES ASSUME Init PROVE NoLossInv
  OBVIOUS
<1>1. TypeOK BY TypeInit
<1>2. /\ \A c \in Conns : conn[c] = NewConn /\ c[1] \in Nodes
      /\ \A n \in Nodes : node[n] = NewNode /\ sessions[n] = NoConn
      /\ publishing = {} /\ sends = {}
  BY ConnNode DEF Init
<1>3. Len(<<>>) = 0 /\ server.generation \in Nat BY <1>1, EmptySeq DEF TypeOK, Snapshot
<1>4. StoredInv
  BY <1>1, <1>2 DEF StoredInv, OneAttended, ApplyOK, AppliedOK, Attends, NewConn, NewNode, Of
<1>5. SnapshotsOK BY <1>2, <1>3 DEF SnapshotsOK, ConnPast, NewConn, NewNode
<1>6. InitialOK BY <1>2, <1>3 DEF InitialOK, InitialOne, Attends, NewConn
<1>7. SessionsTold BY <1>2 DEF SessionsTold, InForce, NewConn
<1> QED BY <1>4, <1>5, <1>6, <1>7 DEF NoLossInv

LEMMA NoLossNext == NoLossInv /\ [Next]_vars => NoLossInv'
<1> SUFFICES ASSUME NoLossInv, [Next]_vars PROVE NoLossInv'
  OBVIOUS
<1>1. TypeOK BY DEF NoLossInv, StoredInv
<1>2. TypeOK' BY <1>1, TypeNext
<1>3. CASE UNCHANGED vars BY <1>2, <1>3, InvLocal DEF vars
<1>4. ASSUME NEW cr \in Credentials, ImportCredential(cr) \/ RevokeCredential(cr)
      PROVE  NoLossInv'
  <2>1. /\ [server EXCEPT !.credentials = @ \cup {cr}] \in Snapshot
        /\ [server EXCEPT !.revocations = @ \cup {cr}] \in Snapshot
    BY <1>1 DEF TypeOK, Snapshot
  <2> QED BY <1>2, <1>4, <2>1, InvChanges DEF ImportCredential, RevokeCredential
<1>5. ASSUME NEW n \in Nodes, NEW cr \in Credentials,
             \/ Authorize(n, cr) \/ Record(n, cr) \/ Pair(n, cr) \/ CutInactive(n, cr)
             \/ Finish(n, cr)
      PROVE  NoLossInv'
  <2>1. node[n] \in Node BY <1>1 DEF TypeOK
  <2>2. UNCHANGED <<server, publishing, sends, sessions, conn>>
    BY <1>5 DEF Authorize, Record, Pair, CutInactive, Finish
  <2>3. node'[n].cache = node[n].cache /\ node'[n].applied = node[n].applied
    <3>1. CASE Authorize(n, cr) BY <1>1, <2>1, <3>1 DEF Authorize, TypeOK, Node
    <3>2. CASE Record(n, cr) BY <1>1, <2>1, <3>2 DEF Record, TypeOK, Node
    <3>3. CASE Pair(n, cr) BY <1>1, <2>1, <3>3 DEF Pair, TypeOK, Node
    <3>4. CASE CutInactive(n, cr) BY <1>1, <2>1, <3>4 DEF CutInactive, TypeOK, Node
    <3>5. CASE Finish(n, cr) BY <1>1, <2>1, <3>5 DEF Finish, TypeOK, Node
    <3> QED BY <1>5, <3>1, <3>2, <3>3, <3>4, <3>5
  <2>4. \A m \in Nodes : m # n => node'[m] = node[m]
    BY <1>1, <1>5 DEF Authorize, Record, Pair, CutInactive, Finish, TypeOK
  <2> QED BY <1>2, <2>2, <2>3, <2>4, InvLocal
<1>6. ASSUME NEW c \in Conns, PeerEnds(c) PROVE NoLossInv'
  BY <1>2, <1>6, InvPeerCloses DEF PeerEnds
<1>7. CASE ServerNext
  BY <1>2, <1>4, <1>7, InvBroadcast, InvEnqueue, InvSetup, InvWrite, InvTaskEnds DEF ServerNext
<1>8. CASE NodeNext
  BY <1>2, <1>5, <1>6, <1>8, InvConnect, InvReceive, InvApplies DEF NodeNext
<1>9. CASE Next
  BY <1>2, <1>7, <1>8, <1>9, InvCut, InvRestart, InvServerRestart DEF Next
<1> QED BY <1>3, <1>9

\* For every node that dials the Server, the others being whatever they are.
THEOREM NoLossInvariant == Spec => []NoLossInv
  BY NoLossInit, NoLossNext, PTL DEF Spec

\* A node never permits a credential that it has stored as revoked: memory agrees
\* with the cache unless apply_authorization_snapshot is at work.  Of a Relay that
\* the Server dials it does not hold, and the run auth_passive shows how.
THEOREM StoredRevocationHoldsThm ==
  ASSUME Passive = {}
  PROVE  Spec => []StoredRevocationHolds
<1>1. NoLossInv => StoredRevocationHolds
  <2> SUFFICES ASSUME NoLossInv, NEW n \in Nodes, node[n].cache # NoSnapshot,
                      \A c \in Of(n) : conn[c].stage = "idle",
                      NEW cr \in node[n].cache.revocations
               PROVE  ~Permits(n, cr)
    BY DEF StoredRevocationHolds
  <2>1. node[n].applied = NoSnapshot \/ node[n].applied = node[n].cache
    BY DEF NoLossInv, StoredInv, AppliedOK
  <2> QED BY <2>1 DEF Permits, IsActive
<1> QED BY <1>1, NoLossInvariant, PTL

\* An update is not lost between the initial snapshot of a session and its
\* registration: current_snapshot is read again after the registration
\* (run_relay_session, handle_home), and broadcasts read the registry.
THEOREM NoLostUpdateThm ==
  ASSUME Passive = {}
  PROVE  Spec => []NoLostUpdate
<1>1. NoLossInv => NoLostUpdate
  <2> SUFFICES ASSUME NoLossInv, NEW c \in Conns, AtRest(c), ~conn[c].missed
               PROVE  node[c[1]].applied = server
    BY DEF NoLostUpdate
  <2>1. Told(c) BY DEF NoLossInv, SessionsTold, InForce, AtRest
  <2>2. node[c[1]].cache = server /\ c[1] \in Nodes
    BY <2>1, EmptySeq, ConnNode DEF Told, AtRest
  <2>3. Attends(c) /\ conn[c].acked /\ node[c[1]].applied # NoSnapshot
    BY DEF NoLossInv, InitialOK, InitialOne, AtRest
  <2>4. \A d \in Of(c[1]) : conn[d].stage = "idle"
    <3> SUFFICES ASSUME NEW d \in Of(c[1]), conn[d].stage # "idle" PROVE FALSE
      OBVIOUS
    <3>1. d \in Conns /\ d[1] = c[1] BY DEF Of
    <3>2. Attends(d) BY <3>1 DEF NoLossInv, StoredInv, ApplyOK
    <3>3. d = c BY <2>3, <3>1, <3>2 DEF NoLossInv, StoredInv, OneAttended
    <3> QED BY <3>3 DEF AtRest
  <2> QED BY <2>2, <2>3, <2>4 DEF NoLossInv, StoredInv, AppliedOK
<1> QED BY <1>1, NoLossInvariant, PTL

\* AuthorizationCache::accept: the durable cache of a node goes back in neither its
\* generation nor its revocations, at any node and whatever restarts.
THEOREM CacheNeverRegressesThm == Spec => CacheNeverRegresses
<1>1. ASSUME TypeOK, [Next]_vars PROVE [CacheKept]_vars
  <2> SUFFICES ASSUME NEW n \in Nodes, node[n].cache # NoSnapshot, Next
               PROVE  /\ node'[n].cache # NoSnapshot
                      /\ node'[n].cache.generation >= node[n].cache.generation
                      /\ node[n].cache.revocations \subseteq node'[n].cache.revocations
    BY <1>1 DEF CacheKept
  <2>1. node[n].cache \in Snapshot /\ node[n] \in Node BY <1>1 DEF TypeOK, Node
  <2>2. node[n].cache.generation \in Nat BY <2>1 DEF Snapshot
  <2>3. CASE node'[n].cache = node[n].cache BY <2>2, <2>3
  <2>4. ASSUME NEW c \in Conns, Receive(c), c[1] = n, node'[n].cache = node[n].cache \/ node'[n].cache = Head(conn[c].wire)
        PROVE  \/ node'[n].cache = node[n].cache
               \/ /\ node'[n].cache # NoSnapshot
                  /\ node'[n].cache.generation >= node[n].cache.generation
                  /\ node[n].cache.revocations \subseteq node'[n].cache.revocations
    <3>1. conn[c].wire \in Seq(Snapshot) BY <1>1 DEF TypeOK, Conn
    <3>2. Head(conn[c].wire) \in Snapshot BY <2>4, <3>1, HeadAndTail DEF Receive
    <3> QED BY <2>4, <3>2, AuthorizationConstants DEF Receive, Accepts
  <2>5. CASE \E c \in Conns : Receive(c)
    <3>1. PICK c \in Conns : Receive(c) BY <2>5
    <3>2. CASE c[1] = n
      <4>1. UNCHANGED node \/ node' = [node EXCEPT ![n].cache = Head(conn[c].wire)]
        BY <3>1, <3>2 DEF Receive
      <4>2. node'[n].cache = node[n].cache \/ node'[n].cache = Head(conn[c].wire)
        BY <1>1, <2>1, <4>1 DEF TypeOK, Node
      <4> QED BY <2>3, <2>4, <3>1, <3>2, <4>2
    <3>3. CASE c[1] # n
      <4>1. node'[n] = node[n] BY <1>1, <3>1, <3>3 DEF Receive, TypeOK
      <4> QED BY <2>3, <4>1
    <3> QED BY <3>2, <3>3
  <2>6. CASE ServerNext \/ ServerRestart \/ \E c \in Conns : Cut(c)
    <3>1. UNCHANGED node
      BY <2>6 DEF ServerNext, ImportCredential, RevokeCredential, Changes, Broadcast, Enqueue,
         EnqueueTimesOut, Register, CatchUp, Write, TaskEnds, ServerRestart, Cut
    <3> QED BY <2>3, <3>1
  <2>7. ASSUME NEW m \in Nodes, Restart(m) PROVE node'[n].cache = node[n].cache
    BY <1>1, <2>1, <2>7 DEF Restart, TypeOK, NewNode
  <2>8. ASSUME NEW c \in Conns, Sweep(c) \/ Publish(c) \/ PeerEnds(c)
        PROVE  node'[n].cache = node[n].cache
    <3>1. CASE Sweep(c) BY <1>1, <2>1, <3>1 DEF Sweep, TypeOK, Node
    <3>2. CASE Publish(c) BY <1>1, <2>1, <3>2 DEF Publish, TypeOK, Node
    <3>3. CASE PeerEnds(c) BY <3>3 DEF PeerEnds
    <3> QED BY <2>8, <3>1, <3>2, <3>3
  <2>9. ASSUME NEW m \in Nodes, NEW cr \in Credentials,
               \/ Authorize(m, cr) \/ Record(m, cr) \/ Pair(m, cr) \/ CutInactive(m, cr)
               \/ Finish(m, cr)
        PROVE  node'[n].cache = node[n].cache
    <3>1. CASE Authorize(m, cr) BY <1>1, <2>1, <3>1 DEF Authorize, TypeOK, Node
    <3>2. CASE Record(m, cr) BY <1>1, <2>1, <3>2 DEF Record, TypeOK, Node
    <3>3. CASE Pair(m, cr) BY <1>1, <2>1, <3>3 DEF Pair, TypeOK, Node
    <3>4. CASE CutInactive(m, cr) BY <1>1, <2>1, <3>4 DEF CutInactive, TypeOK, Node
    <3>5. CASE Finish(m, cr) BY <1>1, <2>1, <3>5 DEF Finish, TypeOK, Node
    <3> QED BY <2>9, <3>1, <3>2, <3>3, <3>4, <3>5
  <2>10. ASSUME NEW m \in Nodes, NEW c \in Conns, Connect(m, c)
         PROVE  node'[n].cache = node[n].cache
    BY <2>10 DEF Connect
  <2> QED BY <2>3, <2>5, <2>6, <2>7, <2>8, <2>9, <2>10 DEF Next, NodeNext
<1> QED BY <1>1, AuthorizationTypeCorrect, PTL DEF Spec, CacheNeverRegresses

=============================================================================
