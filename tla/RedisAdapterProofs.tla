------------------------- MODULE RedisAdapterProofs -------------------------
(* The hash of a room over Redis, for any number of nodes, clients and         *)
(* sessions.                                                                   *)
EXTENDS RedisAdapter, SequenceTheorems, TLAPS

Connected(c) == stage[c] \in {"in", "ready", "met"}

\* What a node has still to read about a client, and how that ends.
About(q, c) == \E i \in 1..Len(q) : q[i].client = c
EndsWith(q, c, type) ==
  \A i \in 1..Len(q) :
    q[i].client = c /\ (\A j \in 1..Len(q) : j > i => q[j].client # c) => q[i].type = type

\* Only a node with a client has something to read.
ReaderInv == \A n \in Nodes : queue[n] # <<>> => Subscribed(n)

ClientInv == \A c \in Clients : c \in clients[NodeOf[c]] <=> Connected(c)

\* The hash is behind the room channel: what every node will read last about a
\* client says whether it is connected, and so does the hash when no node has
\* anything to read about it. A client that is leaving has still to publish it.
HashInv(c) ==
  /\ Connected(c) => \A n \in Nodes : EndsWith(queue[n], c, "join")
  /\ stage[c] = "out" => \A n \in Nodes : EndsWith(queue[n], c, "leave")
  /\ (\A n \in Nodes : ~About(queue[n], c)) =>
       /\ Connected(c) => roomClients[c] # "absent"
       /\ stage[c] = "out" => roomClients[c] = "absent"

MeshInv == /\ handler = "mesh" => \A c \in Clients : hangUp[c] = {}
           /\ handler = "mesh" /\ ~lost => \A c \in Clients : HashInv(c)

SessionInv == \A c \in Clients : stage[c] # "out" => sessions[c] # 0

RedisInv == NicknameIsReady /\ SessionInv /\ ReaderInv /\ ClientInv /\ MeshInv

-----------------------------------------------------------------------------
(* Queues                                                                     *)

\* A message is published.
LEMMA AppendQueue ==
  ASSUME NEW q \in Seq(Message), NEW m \in Message, NEW c, NEW type
  PROVE  /\ About(Append(q, m), c) <=> About(q, c) \/ m.client = c
         /\ EndsWith(q, c, type) /\ m.client # c => EndsWith(Append(q, m), c, type)
         /\ m.client = c /\ m.type = type => EndsWith(Append(q, m), c, type)
         /\ Append(q, m) \in Seq(Message)
<1> DEFINE n == Len(q) + 1
           r == Append(q, m)
<1>1. /\ Len(q) \in Nat /\ n \in Nat /\ Len(r) = n /\ r \in Seq(Message) /\ r[n] = m
      /\ \A i \in 1..Len(q) : r[i] = q[i]
  OBVIOUS
<1>2. \A i \in 1..n : i = n \/ i \in 1..Len(q)
  BY <1>1
<1>3. n \in 1..n /\ \A i \in 1..Len(q) : i \in 1..n /\ n > i /\ i # n
  BY <1>1
<1> HIDE DEF n, r
<1>4. About(r, c) <=> About(q, c) \/ m.client = c
  BY <1>1, <1>2, <1>3 DEF About
<1>5. ASSUME EndsWith(q, c, type), m.client # c PROVE EndsWith(r, c, type)
  <2> SUFFICES ASSUME NEW i \in 1..n, r[i].client = c, \A j \in 1..n : j > i => r[j].client # c
               PROVE  r[i].type = type
    BY <1>1 DEF EndsWith
  <2>1. i \in 1..Len(q)
    BY <1>1, <1>2, <1>5
  <2>2. \A j \in 1..Len(q) : j > i => q[j].client # c
    BY <1>1, <1>3
  <2> QED BY <1>1, <1>5, <2>1, <2>2 DEF EndsWith
<1>6. ASSUME m.client = c, m.type = type PROVE EndsWith(r, c, type)
  <2> SUFFICES ASSUME NEW i \in 1..n, r[i].client = c, \A j \in 1..n : j > i => r[j].client # c
               PROVE  r[i].type = type
    BY <1>1 DEF EndsWith
  <2>1. i = n
    BY <1>1, <1>2, <1>3, <1>6
  <2> QED BY <1>1, <1>6, <2>1
<1> QED BY <1>1, <1>4, <1>5, <1>6 DEF r

\* A message is read.
LEMMA TailQueue ==
  ASSUME NEW q \in Seq(Message), q # <<>>, NEW c, NEW type
  PROVE  /\ About(q, c) <=> About(Tail(q), c) \/ Head(q).client = c
         /\ EndsWith(q, c, type) => EndsWith(Tail(q), c, type)
         /\ EndsWith(q, c, type) /\ Head(q).client = c /\ ~About(Tail(q), c) => Head(q).type = type
         /\ Tail(q) \in Seq(Message) /\ Head(q) \in Message
<1> DEFINE r == Tail(q)
<1>1. /\ Len(q) \in Nat /\ Len(q) >= 1 /\ r \in Seq(Message) /\ Len(r) = Len(q) - 1 /\ Head(q) = q[1]
      /\ Head(q) \in Message
  OBVIOUS
<1>2. \A i \in 1..Len(r) : i + 1 \in 1..Len(q) /\ r[i] = q[i + 1]
  BY <1>1
<1>3. \A j \in 1..Len(q) : j = 1 \/ (j - 1 \in 1..Len(r) /\ r[j - 1] = q[j])
  <2> SUFFICES ASSUME NEW j \in 1..Len(q), j # 1 PROVE j - 1 \in 1..Len(r) /\ r[j - 1] = q[j]
    OBVIOUS
  <2>1. j - 1 \in 1..Len(r) /\ (j - 1) + 1 = j
    BY <1>1
  <2> QED BY <1>2, <2>1
<1>4. 1 \in 1..Len(q)
  BY <1>1
<1> HIDE DEF r
<1>5. About(q, c) <=> About(r, c) \/ Head(q).client = c
  BY <1>1, <1>2, <1>3, <1>4 DEF About
<1>6. ASSUME EndsWith(q, c, type) PROVE EndsWith(r, c, type)
  <2> SUFFICES ASSUME NEW i \in 1..Len(r), r[i].client = c, \A j \in 1..Len(r) : j > i => r[j].client # c
               PROVE  r[i].type = type
    BY DEF EndsWith
  <2>1. i + 1 \in 1..Len(q) /\ q[i + 1] = r[i]
    BY <1>2
  <2>2. ASSUME NEW j \in 1..Len(q), j > i + 1 PROVE q[j].client # c
    <3>1. j # 1 /\ j - 1 > i
      BY <1>1, <2>2
    <3> QED BY <1>3, <3>1
  <2> QED BY <1>6, <2>1, <2>2 DEF EndsWith
<1>7. ASSUME EndsWith(q, c, type), Head(q).client = c, ~About(r, c) PROVE Head(q).type = type
  <2>1. ASSUME NEW j \in 1..Len(q), j > 1 PROVE q[j].client # c
    <3>1. j # 1
      BY <2>1
    <3> QED BY Zenon, <1>3, <1>7, <3>1 DEF About
  <2> QED BY <1>1, <1>4, <1>7, <2>1 DEF EndsWith
<1> QED BY <1>1, <1>5, <1>6, <1>7 DEF r

\* A node that has read everything.
LEMMA EmptyQueue ==
  ASSUME NEW c, NEW type
  PROVE  ~About(<<>>, c) /\ EndsWith(<<>>, c, type)
BY DEF About, EndsWith

\* What is published reaches every queue that says something, and the client's node.
LEMMA PublishedQueue ==
  ASSUME TypeOK, ReaderInv, NEW c \in Clients, NEW type \in {"join", "leave"}
  PROVE  /\ Published(type, c) \in [Nodes -> Seq(Message)]
         /\ About(Published(type, c)[NodeOf[c]], c)
         /\ \A n \in Nodes : /\ EndsWith(Published(type, c)[n], c, type)
                             /\ Published(type, c)[n] # <<>> => n = NodeOf[c] \/ Subscribed(n)
         /\ \A n \in Nodes, d \in Clients, t \in {"join", "leave"} : d # c =>
              /\ About(Published(type, c)[n], d) <=> About(queue[n], d)
              /\ EndsWith(queue[n], d, t) => EndsWith(Published(type, c)[n], d, t)
<1> DEFINE m == [type |-> type, client |-> c]
           p == Published(type, c)
<1>1. m \in Message /\ m.client = c /\ m.type = type
  BY DEF Message
<1>2. \A n \in Nodes : queue[n] \in Seq(Message)
  BY DEF TypeOK
<1>3. \A n \in Nodes : p[n] = IF n = NodeOf[c] \/ Subscribed(n) THEN Append(queue[n], m) ELSE queue[n]
  BY DEF Published
<1>4. p = [n \in Nodes |-> p[n]]
  BY DEF Published
<1>5. NodeOf[c] \in Nodes
  BY RedisAssumption
<1> HIDE DEF m, p
<1>6. \A n \in Nodes : p[n] \in Seq(Message)
  <2>1. \A n \in Nodes : Append(queue[n], m) \in Seq(Message)
    BY <1>1, <1>2
  <2> QED BY Zenon, <1>2, <1>3, <2>1
<1>7. About(p[NodeOf[c]], c)
  <2>1. p[NodeOf[c]] = Append(queue[NodeOf[c]], m) /\ queue[NodeOf[c]] \in Seq(Message)
    BY Zenon, <1>2, <1>3, <1>5
  <2>2. About(Append(queue[NodeOf[c]], m), c) <=> About(queue[NodeOf[c]], c) \/ m.client = c
    BY Zenon, <1>1, <2>1, AppendQueue
  <2> QED BY <1>1, <2>1, <2>2
<1>8. ASSUME NEW n \in Nodes PROVE EndsWith(p[n], c, type) /\ (p[n] # <<>> => n = NodeOf[c] \/ Subscribed(n))
  <2>1. CASE n = NodeOf[c] \/ Subscribed(n)
    BY <1>1, <1>2, <1>3, <2>1, AppendQueue
  <2>2. CASE ~(n = NodeOf[c] \/ Subscribed(n))
    BY <1>3, <2>2, EmptyQueue DEF ReaderInv
  <2> QED BY <2>1, <2>2
<1>9. ASSUME NEW n \in Nodes, NEW d \in Clients, NEW t \in {"join", "leave"}, d # c
      PROVE  /\ About(p[n], d) <=> About(queue[n], d)
             /\ EndsWith(queue[n], d, t) => EndsWith(p[n], d, t)
  BY <1>1, <1>2, <1>3, <1>9, AppendQueue
<1>10. p \in [Nodes -> Seq(Message)]
  BY <1>4, <1>6
<1> QED BY <1>7, <1>8, <1>9, <1>10 DEF p

-----------------------------------------------------------------------------
(* The invariant                                                              *)

\* At the start nothing was published, and the clients that stay are listed.
LEMMA InitRedis == Init => RedisInv
<1> SUFFICES ASSUME Init PROVE RedisInv
  OBVIOUS
<1>1. NicknameIsReady /\ SessionInv
  <2>1. /\ clients \in [Nodes -> SUBSET Clients] /\ hangUp \in [Clients -> SUBSET (1..MaxSessions)]
        /\ roomClients \in [Clients -> {"absent", ""}] /\ stage \in [Clients -> {"out", "in"}]
    BY RedisAssumption DEF Init
  <2>2. queue \in [Nodes -> Seq(Message)]
    BY EmptySeq DEF Init
  <2>3. MaxSessions \in 0..MaxSessions /\ 0 \in 0..MaxSessions /\ MaxSessions # 0
    BY RedisAssumption
  <2>4. sessions \in [Clients -> 0..MaxSessions] /\ SessionInv
    BY <2>3 DEF Init, SessionInv
  <2> QED BY <2>1, <2>2, <2>4 DEF Init, NicknameIsReady, TypeOK
<1>2. \A n \in Nodes : queue[n] = <<>>
  BY DEF Init
<1>3. \A c \in Clients : NodeOf[c] \in Nodes /\ (c \in clients[NodeOf[c]] <=> c \in Stay) /\ (Connected(c) <=> c \in Stay)
  BY RedisAssumption DEF Init, Connected
<1>4. ReaderInv /\ ClientInv
  BY <1>2, <1>3 DEF ReaderInv, ClientInv
<1>5. ASSUME NEW c \in Clients PROVE HashInv(c)
  <2>1. \A n \in Nodes, type \in {"join", "leave"} : EndsWith(queue[n], c, type)
    BY <1>2, EmptyQueue
  <2>2. (Connected(c) => roomClients[c] # "absent") /\ (stage[c] = "out" => roomClients[c] = "absent")
    BY <1>3 DEF Init
  <2> QED BY <2>1, <2>2 DEF HashInv
<1>6. \A c \in Clients : hangUp[c] = {}
  BY DEF Init
<1> QED BY <1>1, <1>4, <1>5, <1>6 DEF RedisInv, MeshInv

\* What the second half of a ready message leaves alone.
LEMMA UsersStep ==
  ASSUME NEW c, Users(c)
  PROVE  /\ stage[c] = "ready" /\ stage' = [stage EXCEPT ![c] = "met"]
         /\ hangUp' = [hangUp EXCEPT ![c] = IF handler = "sfu" THEN @ \cup {sessions[c]} ELSE @]
         /\ UNCHANGED <<clients, roomClients, queue, sessions, handler, lost>>
BY Zenon DEF Users

\* A nickname is written by a client that is ready, and by nobody else: another
\* step leaves the entry, or writes one without a nickname.
LEMMA NicknameStep ==
  ASSUME NicknameIsReady, [Next]_vars
  PROVE  /\ roomClients' \in [Clients -> {"absent", "", "nickname"}]
         /\ stage' \in [Clients -> {"out", "in", "ready", "met", "leaving"}]
         /\ \A c \in Clients : roomClients'[c] = "nickname" => stage'[c] \in {"ready", "met"}
<1> DEFINE P == /\ roomClients' \in [Clients -> {"absent", "", "nickname"}]
                /\ stage' \in [Clients -> {"out", "in", "ready", "met", "leaving"}]
                /\ \A c \in Clients : roomClients'[c] = "nickname" => stage'[c] \in {"ready", "met"}
<1>0. /\ roomClients \in [Clients -> {"absent", "", "nickname"}]
      /\ stage \in [Clients -> {"out", "in", "ready", "met", "leaving"}]
      /\ \A c \in Clients : roomClients[c] = "nickname" => stage[c] \in {"ready", "met"}
  BY DEF NicknameIsReady, TypeOK
<1>1. ASSUME NEW c \in Clients, Join(c) \/ Users(c) \/ PublishLeave(c) PROVE P
  BY <1>0, <1>1, UsersStep DEF Join, PublishLeave
<1>2. ASSUME NEW c \in Clients, Ready(c) \/ Leave(c) \/ HangUp(c) PROVE P
  BY <1>0, <1>2 DEF Ready, Leave, HangUp
<1>3. ASSUME NEW c \in Clients, NEW s, SignalsEnd(c, s) PROVE P
  BY <1>0, <1>3 DEF SignalsEnd
<1>4. ASSUME NEW n \in Nodes, HandleMessage(n) PROVE P
  <2>1. UNCHANGED stage
    BY <1>4 DEF HandleMessage
  <2> DEFINE d == Head(queue[n]).client
  <2>2. \/ roomClients' = roomClients
        \/ roomClients' = [roomClients EXCEPT ![d] = ""]
        \/ roomClients' = [roomClients EXCEPT ![d] = "absent"]
    BY <1>4 DEF HandleMessage
  <2> HIDE DEF d
  <2>3. /\ roomClients' \in [Clients -> {"absent", "", "nickname"}]
        /\ \A e \in Clients : roomClients'[e] = "nickname" => roomClients[e] = "nickname"
    <3>1. roomClients' = [e \in Clients |-> roomClients'[e]]
      BY <1>0, <2>2
    <3>2. \A e \in Clients : roomClients'[e] \in {roomClients[e], "", "absent"}
      BY <1>0, <2>2
    <3> QED BY <1>0, <3>1, <3>2
  <2> QED BY <1>0, <2>1, <2>3
<1>5. CASE UNCHANGED vars
  BY <1>0, <1>5 DEF vars
<1> QED BY <1>1, <1>2, <1>3, <1>4, <1>5 DEF Next

\* A client that is there has begun a session.
LEMMA SessionStep ==
  ASSUME TypeOK, SessionInv, [Next]_vars
  PROVE  sessions' \in [Clients -> 0..MaxSessions] /\ SessionInv'
<1>0. /\ sessions \in [Clients -> 0..MaxSessions] /\ MaxSessions \in Nat
      /\ stage \in [Clients -> {"out", "in", "ready", "met", "leaving"}]
  BY RedisAssumption DEF TypeOK
<1>1. ASSUME NEW c \in Clients, Join(c) PROVE sessions' \in [Clients -> 0..MaxSessions] /\ SessionInv'
  <2>1. sessions[c] < MaxSessions /\ sessions[c] \in 0..MaxSessions
    BY <1>0, <1>1 DEF Join
  <2>2. sessions[c] + 1 \in 0..MaxSessions /\ sessions[c] + 1 # 0
    BY <1>0, <2>1
  <2>3. sessions' = [sessions EXCEPT ![c] = sessions[c] + 1] /\ stage' = [stage EXCEPT ![c] = "in"]
    BY <1>1 DEF Join
  <2> QED BY <1>0, <2>2, <2>3 DEF SessionInv
<1>2. ASSUME UNCHANGED sessions, \A c \in Clients : stage'[c] # "out" => stage[c] # "out"
      PROVE  sessions' \in [Clients -> 0..MaxSessions] /\ SessionInv'
  BY <1>0, <1>2 DEF SessionInv
<1>3. ASSUME NEW c \in Clients, Ready(c) \/ Users(c) \/ Leave(c) \/ PublishLeave(c) \/ HangUp(c)
      PROVE  UNCHANGED sessions /\ \A d \in Clients : stage'[d] # "out" => stage[d] # "out"
  BY <1>0, <1>3, UsersStep DEF Ready, Leave, PublishLeave, HangUp
<1>4. ASSUME NEW c \in Clients, NEW s, SignalsEnd(c, s)
      PROVE  UNCHANGED sessions /\ \A d \in Clients : stage'[d] # "out" => stage[d] # "out"
  BY <1>0, <1>4 DEF SignalsEnd
<1>5. ASSUME NEW n \in Nodes, HandleMessage(n)
      PROVE  UNCHANGED sessions /\ \A d \in Clients : stage'[d] # "out" => stage[d] # "out"
  BY <1>5 DEF HandleMessage
<1>6. CASE UNCHANGED vars
  BY <1>2, <1>6 DEF vars
<1> QED BY <1>1, <1>2, <1>3, <1>4, <1>5, <1>6 DEF Next

\* The queues hold messages, and only those of nodes with a client.
LEMMA QueueStep ==
  ASSUME TypeOK, ReaderInv, [Next]_vars
  PROVE  queue' \in [Nodes -> Seq(Message)] /\ ReaderInv'
<1>0. /\ queue \in [Nodes -> Seq(Message)] /\ \A c \in Clients : NodeOf[c] \in Nodes
      /\ stage \in [Clients -> {"out", "in", "ready", "met", "leaving"}]
  BY RedisAssumption DEF TypeOK
<1>1. ASSUME NEW c \in Clients, Join(c) PROVE queue' \in [Nodes -> Seq(Message)] /\ ReaderInv'
  <2>1. /\ queue' \in [Nodes -> Seq(Message)]
        /\ \A n \in Nodes : queue'[n] # <<>> => n = NodeOf[c] \/ Subscribed(n)
    BY <1>1, PublishedQueue DEF Join
  <2>2. stage'[c] = "in" /\ \A d \in Clients : d # c => stage'[d] = stage[d]
    BY <1>0, <1>1 DEF Join
  <2>3. \A n \in Nodes : n = NodeOf[c] \/ Subscribed(n) => Subscribed(n)'
    BY <2>2 DEF Subscribed
  <2> QED BY <2>1, <2>3 DEF ReaderInv
<1>2. ASSUME NEW c \in Clients, PublishLeave(c) PROVE queue' \in [Nodes -> Seq(Message)] /\ ReaderInv'
  <2> DEFINE p == Published("leave", c)
             last == \A d \in Clients \ {c} : NodeOf[d] = NodeOf[c] => stage[d] = "out"
  <2>1. /\ p \in [Nodes -> Seq(Message)]
        /\ \A n \in Nodes : p[n] # <<>> => n = NodeOf[c] \/ Subscribed(n)
    BY PublishedQueue
  <2>2. queue' = IF last THEN [p EXCEPT ![NodeOf[c]] = <<>>] ELSE p
    BY <1>2 DEF PublishLeave
  <2>3. \A d \in Clients : d # c => stage'[d] = stage[d]
    BY <1>0, <1>2 DEF PublishLeave
  <2> HIDE DEF p
  <2>4. \A n \in Nodes : queue'[n] = IF last /\ n = NodeOf[c] THEN <<>> ELSE p[n]
    BY <2>1, <2>2
  <2>5. queue' \in [Nodes -> Seq(Message)]
    <3>1. queue' = [n \in Nodes |-> queue'[n]]
      BY Zenon, <2>1, <2>2
    <3>2. \A n \in Nodes : queue'[n] \in Seq(Message)
      BY Zenon, <2>1, <2>4, EmptySeq
    <3> QED BY <3>1, <3>2
  <2>6. ASSUME NEW n \in Nodes, queue'[n] # <<>> PROVE Subscribed(n)'
    <3>1. CASE n = NodeOf[c]
      <4>1. ~last
        BY <2>4, <2>6, <3>1
      <4> QED BY <2>3, <3>1, <4>1 DEF Subscribed
    <3>2. CASE n # NodeOf[c]
      <4>1. Subscribed(n)
        BY <2>1, <2>4, <2>6, <3>2
      <4> QED BY <2>3, <3>2, <4>1 DEF Subscribed
    <3> QED BY <3>1, <3>2
  <2> QED BY <2>5, <2>6 DEF ReaderInv
<1>3. ASSUME UNCHANGED queue, \A c \in Clients : stage[c] # "out" => stage'[c] # "out"
      PROVE  queue' \in [Nodes -> Seq(Message)] /\ ReaderInv'
  BY <1>0, <1>3 DEF ReaderInv, Subscribed
<1>4. ASSUME NEW c \in Clients, Ready(c) \/ Users(c) \/ Leave(c) \/ HangUp(c)
      PROVE  UNCHANGED queue /\ \A d \in Clients : stage[d] # "out" => stage'[d] # "out"
  BY <1>0, <1>4, UsersStep DEF Ready, Leave, HangUp
<1>5. ASSUME NEW c \in Clients, NEW s, SignalsEnd(c, s)
      PROVE  UNCHANGED queue /\ \A d \in Clients : stage[d] # "out" => stage'[d] # "out"
  BY <1>0, <1>5 DEF SignalsEnd
<1>6. ASSUME NEW n \in Nodes, HandleMessage(n) PROVE queue' \in [Nodes -> Seq(Message)] /\ ReaderInv'
  <2>1. /\ queue[n] \in Seq(Message) /\ queue[n] # <<>> /\ UNCHANGED stage
        /\ queue' = [queue EXCEPT ![n] = Tail(queue[n])]
    BY <1>0, <1>6 DEF HandleMessage
  <2>2. Tail(queue[n]) \in Seq(Message)
    BY <2>1, HeadTailProperties
  <2>3. queue' \in [Nodes -> Seq(Message)] /\ \A k \in Nodes : queue'[k] # <<>> => queue[k] # <<>>
    BY <1>0, <2>1, <2>2
  <2> QED BY <2>1, <2>3 DEF ReaderInv, Subscribed
<1>7. CASE UNCHANGED vars
  BY <1>3, <1>7 DEF vars
<1> QED BY <1>1, <1>2, <1>3, <1>4, <1>5, <1>6, <1>7 DEF Next

\* A node has the clients that are connected to it.
LEMMA ClientStep ==
  ASSUME TypeOK, ClientInv, [Next]_vars
  PROVE  clients' \in [Nodes -> SUBSET Clients] /\ ClientInv'
<1> DEFINE P == clients' \in [Nodes -> SUBSET Clients] /\ ClientInv'
<1>0. /\ clients \in [Nodes -> SUBSET Clients] /\ \A c \in Clients : NodeOf[c] \in Nodes
      /\ stage \in [Clients -> {"out", "in", "ready", "met", "leaving"}]
  BY RedisAssumption DEF TypeOK
<1>1. ASSUME NEW c \in Clients, Join(c) PROVE P
  BY <1>0, <1>1 DEF Join, ClientInv, Connected
<1>2. ASSUME NEW c \in Clients, Leave(c) PROVE P
  BY <1>0, <1>2 DEF Leave, ClientInv, Connected
<1>3. ASSUME UNCHANGED clients, \A c \in Clients : Connected(c)' <=> Connected(c) PROVE P
  BY <1>0, <1>3 DEF ClientInv
<1>4. ASSUME NEW c \in Clients, Ready(c) \/ Users(c) \/ PublishLeave(c) \/ HangUp(c)
      PROVE  UNCHANGED clients /\ \A d \in Clients : Connected(d)' <=> Connected(d)
  BY <1>0, <1>4, UsersStep DEF Ready, PublishLeave, HangUp, Connected
<1>5. ASSUME NEW c \in Clients, NEW s, SignalsEnd(c, s)
      PROVE  UNCHANGED clients /\ \A d \in Clients : Connected(d)' <=> Connected(d)
  BY <1>0, <1>5 DEF SignalsEnd, Connected
<1>6. ASSUME NEW n \in Nodes, HandleMessage(n)
      PROVE  UNCHANGED clients /\ \A d \in Clients : Connected(d)' <=> Connected(d)
  BY <1>6 DEF HandleMessage, Connected
<1>7. CASE UNCHANGED vars
  BY <1>3, <1>7 DEF vars, Connected
<1> QED BY <1>1, <1>2, <1>3, <1>4, <1>5, <1>6, <1>7 DEF Next

\* The rest of the types, and that only the SFU handler has peer connections.
LEMMA OtherTypes ==
  ASSUME TypeOK, SessionInv, handler = "mesh" => \A c \in Clients : hangUp[c] = {}, [Next]_vars
  PROVE  /\ hangUp' \in [Clients -> SUBSET (1..MaxSessions)] /\ met' \subseteq SUBSET Clients
         /\ handler' \in Handlers /\ lost' \in BOOLEAN
         /\ handler' = "mesh" => \A c \in Clients : hangUp'[c] = {}
<1> DEFINE P == /\ hangUp' \in [Clients -> SUBSET (1..MaxSessions)] /\ met' \subseteq SUBSET Clients
                /\ handler' \in Handlers /\ lost' \in BOOLEAN
                /\ handler' = "mesh" => \A c \in Clients : hangUp'[c] = {}
<1>0. /\ hangUp \in [Clients -> SUBSET (1..MaxSessions)] /\ met \subseteq SUBSET Clients
      /\ handler \in Handlers /\ lost \in BOOLEAN
      /\ sessions \in [Clients -> 0..MaxSessions] /\ MaxSessions \in Nat
  BY RedisAssumption DEF TypeOK
<1>1. ASSUME UNCHANGED <<hangUp, handler>>, met' \subseteq met, lost' \in BOOLEAN PROVE P
  BY <1>0, <1>1
<1>2. ASSUME NEW c \in Clients, Join(c) \/ Ready(c) \/ Leave(c) \/ PublishLeave(c) \/ HangUp(c)
      PROVE  UNCHANGED <<hangUp, handler>> /\ met' \subseteq met /\ lost' \in BOOLEAN
  BY <1>0, <1>2 DEF Join, Ready, Leave, PublishLeave, HangUp
<1>3. ASSUME NEW c \in Clients, Users(c) PROVE P
  <2>1. met' \subseteq SUBSET Clients
    BY <1>0, <1>3 DEF Users
  <2>2. sessions[c] \in 1..MaxSessions
    <3>1. sessions[c] \in 0..MaxSessions /\ sessions[c] # 0
      BY <1>0, <1>3, UsersStep DEF SessionInv
    <3> QED BY <1>0, <3>1
  <2>3. /\ hangUp' = [hangUp EXCEPT ![c] = IF handler = "sfu" THEN @ \cup {sessions[c]} ELSE @]
        /\ UNCHANGED <<handler, lost>>
    BY <1>3, UsersStep
  <2>4. /\ hangUp' \in [Clients -> SUBSET (1..MaxSessions)]
        /\ handler = "mesh" => hangUp' = hangUp
    BY <1>0, <2>2, <2>3
  <2> QED BY <1>0, <2>1, <2>3, <2>4
<1>4. ASSUME NEW c \in Clients, NEW s, SignalsEnd(c, s) PROVE P
  BY <1>0, <1>4 DEF SignalsEnd
<1>5. ASSUME NEW n \in Nodes, HandleMessage(n) PROVE P
  <2>1. UNCHANGED <<hangUp, handler>> /\ met' \subseteq met /\ lost' \in BOOLEAN
    BY <1>0, <1>5 DEF HandleMessage
  <2> QED BY <1>1, <2>1
<1>6. CASE UNCHANGED vars
  BY <1>0, <1>1, <1>6 DEF vars
<1> QED BY <1>1, <1>2, <1>3, <1>4, <1>5, <1>6 DEF Next

-----------------------------------------------------------------------------
(* The hash of the mesh handler                                               *)

\* A step that publishes nothing and leaves the connections, and an entry for it.
LEMMA HashStays ==
  ASSUME NEW c \in Clients, HashInv(c), UNCHANGED queue, Connected(c)' <=> Connected(c),
         stage'[c] = "out" <=> stage[c] = "out",
         roomClients'[c] = roomClients[c] \/ (Connected(c) /\ roomClients'[c] # "absent")
  PROVE  HashInv(c)'
<1>1. Connected(c) => stage[c] # "out"
  BY DEF Connected
<1> QED BY <1>1 DEF HashInv

\* A client's own steps.
LEMMA HashClient ==
  ASSUME TypeOK, handler = "mesh", NEW c \in Clients, \A d \in Clients : HashInv(d),
         Ready(c) \/ Users(c) \/ HangUp(c)
  PROVE  \A d \in Clients : HashInv(d)'
<1> SUFFICES ASSUME NEW d \in Clients PROVE HashInv(d)'
  OBVIOUS
<1>0. /\ stage \in [Clients -> {"out", "in", "ready", "met", "leaving"}]
      /\ roomClients \in [Clients -> {"absent", "", "nickname"}]
  BY DEF TypeOK
<1>1. UNCHANGED queue
  BY UsersStep DEF Ready, HangUp
<1>2. /\ stage[c] \in {"in", "ready", "met"} /\ stage'[c] \in {"in", "ready", "met"}
      /\ d # c => stage'[d] = stage[d] /\ roomClients'[d] = roomClients[d]
      /\ roomClients'[c] \in {roomClients[c], "", "nickname"}
  BY <1>0, UsersStep DEF Ready, HangUp
<1> QED BY <1>1, <1>2, HashStays DEF Connected

\* A client enters: its join is behind everything else that is read about it.
LEMMA HashJoin ==
  ASSUME TypeOK, ReaderInv, NEW c \in Clients, \A d \in Clients : HashInv(d), Join(c)
  PROVE  \A d \in Clients : HashInv(d)'
<1> SUFFICES ASSUME NEW d \in Clients PROVE HashInv(d)'
  OBVIOUS
<1>0. /\ stage \in [Clients -> {"out", "in", "ready", "met", "leaving"}]
      /\ queue' = Published("join", c) /\ roomClients' = roomClients
      /\ stage' = [stage EXCEPT ![c] = "in"] /\ NodeOf[c] \in Nodes
  BY RedisAssumption DEF TypeOK, Join
<1>1. /\ About(queue'[NodeOf[c]], c)
      /\ \A n \in Nodes : EndsWith(queue'[n], c, "join")
  BY <1>0, PublishedQueue
<1>2. CASE d = c
  BY <1>0, <1>1, <1>2 DEF HashInv, Connected
<1>3. CASE d # c
  <2>1. \A n \in Nodes : /\ About(queue'[n], d) <=> About(queue[n], d)
                         /\ EndsWith(queue[n], d, "join") => EndsWith(queue'[n], d, "join")
                         /\ EndsWith(queue[n], d, "leave") => EndsWith(queue'[n], d, "leave")
    BY <1>0, <1>3, PublishedQueue
  <2>2. stage'[d] = stage[d]
    BY <1>0, <1>3
  <2> QED BY <1>0, <2>1, <2>2 DEF HashInv, Connected
<1> QED BY <1>2, <1>3

\* A client has left: the same of its leave, unless its node stops reading.
LEMMA HashLeft ==
  ASSUME TypeOK, ReaderInv, NEW c \in Clients, \A d \in Clients : HashInv(d), PublishLeave(c), ~lost'
  PROVE  \A d \in Clients : HashInv(d)'
<1> SUFFICES ASSUME NEW d \in Clients PROVE HashInv(d)'
  OBVIOUS
<1>0. /\ stage \in [Clients -> {"out", "in", "ready", "met", "leaving"}]
      /\ queue' = Published("leave", c) /\ roomClients' = roomClients
      /\ stage' = [stage EXCEPT ![c] = "out"] /\ NodeOf[c] \in Nodes
  BY RedisAssumption DEF TypeOK, PublishLeave
<1>1. /\ About(queue'[NodeOf[c]], c)
      /\ \A n \in Nodes : EndsWith(queue'[n], c, "leave")
  BY <1>0, PublishedQueue
<1>2. CASE d = c
  BY <1>0, <1>1, <1>2 DEF HashInv, Connected
<1>3. CASE d # c
  <2>1. \A n \in Nodes : /\ About(queue'[n], d) <=> About(queue[n], d)
                         /\ EndsWith(queue[n], d, "join") => EndsWith(queue'[n], d, "join")
                         /\ EndsWith(queue[n], d, "leave") => EndsWith(queue'[n], d, "leave")
    BY <1>0, <1>3, PublishedQueue
  <2>2. stage'[d] = stage[d]
    BY <1>0, <1>3
  <2> QED BY <1>0, <2>1, <2>2 DEF HashInv, Connected
<1> QED BY <1>2, <1>3

\* A client is leaving: nothing is said of it, and nothing changes for others.
LEMMA HashLeave ==
  ASSUME TypeOK, NEW c \in Clients, \A d \in Clients : HashInv(d), Leave(c)
  PROVE  \A d \in Clients : HashInv(d)'
<1> SUFFICES ASSUME NEW d \in Clients PROVE HashInv(d)'
  OBVIOUS
<1>0. /\ stage \in [Clients -> {"out", "in", "ready", "met", "leaving"}]
      /\ roomClients \in [Clients -> {"absent", "", "nickname"}]
      /\ queue' = queue /\ stage' = [stage EXCEPT ![c] = "leaving"]
      /\ roomClients' = [roomClients EXCEPT ![c] = "absent"]
  BY DEF TypeOK, Leave
<1>1. CASE d = c
  <2>1. stage'[d] = "leaving"
    BY <1>0, <1>1
  <2> QED BY <2>1 DEF HashInv, Connected
<1>2. CASE d # c
  <2>1. stage'[d] = stage[d] /\ roomClients'[d] = roomClients[d]
    BY <1>0, <1>2
  <2> QED BY <1>0, <2>1 DEF HashInv, Connected
<1> QED BY <1>1, <1>2

\* A node reads a message. The one that leaves nothing to read about its client
\* has the last word on the entry, and the channel ends as the client stands.
LEMMA HashRead ==
  ASSUME TypeOK, NEW n \in Nodes, \A d \in Clients : HashInv(d), HandleMessage(n), ~lost'
  PROVE  \A d \in Clients : HashInv(d)'
<1> SUFFICES ASSUME NEW d \in Clients PROVE HashInv(d)'
  OBVIOUS
<1> DEFINE msg == Head(queue[n])
<1>0. /\ roomClients \in [Clients -> {"absent", "", "nickname"}]
      /\ queue \in [Nodes -> Seq(Message)] /\ queue[n] \in Seq(Message) /\ queue[n] # <<>>
      /\ queue' = [queue EXCEPT ![n] = Tail(@)] /\ stage' = stage
  BY DEF TypeOK, HandleMessage
<1>1. queue'[n] = Tail(queue[n]) /\ \A m \in Nodes : m # n => queue'[m] = queue[m]
  BY <1>0
<1>2. msg \in Message
  BY <1>0, TailQueue
<1>3. \/ msg.type = "join" /\ roomClients' = [roomClients EXCEPT ![msg.client] = ""]
      \/ msg.type = "leave" /\ roomClients' = [roomClients EXCEPT ![msg.client] = "absent"]
  BY DEF HandleMessage
<1> HIDE DEF msg
<1>4. /\ About(queue[n], d) <=> About(queue'[n], d) \/ msg.client = d
      /\ EndsWith(queue[n], d, "join") => EndsWith(queue'[n], d, "join")
      /\ EndsWith(queue[n], d, "leave") => EndsWith(queue'[n], d, "leave")
      /\ EndsWith(queue[n], d, "join") /\ msg.client = d /\ ~About(queue'[n], d) => msg.type = "join"
      /\ EndsWith(queue[n], d, "leave") /\ msg.client = d /\ ~About(queue'[n], d) => msg.type = "leave"
  BY <1>0, <1>1, TailQueue DEF msg
<1>5. HashInv(d) /\ (Connected(d)' <=> Connected(d)) /\ stage'[d] = stage[d]
  BY <1>0 DEF Connected
<1>6. /\ Connected(d) => \A m \in Nodes : EndsWith(queue'[m], d, "join")
      /\ stage[d] = "out" => \A m \in Nodes : EndsWith(queue'[m], d, "leave")
  BY <1>1, <1>4, <1>5 DEF HashInv
<1>7. ASSUME \A m \in Nodes : ~About(queue'[m], d)
      PROVE  /\ Connected(d) => roomClients'[d] # "absent"
             /\ stage[d] = "out" => roomClients'[d] = "absent"
  <2>1. CASE msg.client = d
    <3>1. /\ Connected(d) => msg.type = "join"
          /\ stage[d] = "out" => msg.type = "leave"
      BY <1>4, <1>5, <1>7, <2>1 DEF HashInv
    <3>2. /\ msg.type = "join" => roomClients'[d] = ""
          /\ msg.type = "leave" => roomClients'[d] = "absent"
      BY <1>0, <1>3, <2>1
    <3> QED BY <3>1, <3>2
  <2>2. CASE msg.client # d
    <3>1. roomClients'[d] = roomClients[d]
      BY <1>0, <1>3, <2>2
    <3>2. \A m \in Nodes : ~About(queue[m], d)
      BY <1>1, <1>4, <1>7, <2>2
    <3> QED BY <1>5, <3>1, <3>2 DEF HashInv
  <2> QED BY <2>1, <2>2
<1> QED BY <1>5, <1>6, <1>7 DEF HashInv

\* MeshInv is kept: one step per action of the mesh handler.
LEMMA MeshStep ==
  ASSUME RedisInv, [Next]_vars
  PROVE  MeshInv'
<1>0. /\ TypeOK /\ SessionInv /\ ReaderInv
      /\ handler = "mesh" => \A c \in Clients : hangUp[c] = {}
      /\ handler = "mesh" /\ ~lost => \A c \in Clients : HashInv(c)
  BY DEF RedisInv, NicknameIsReady, MeshInv
<1>1. handler' = "mesh" => \A c \in Clients : hangUp'[c] = {}
  BY <1>0, OtherTypes
<1>2. handler' = handler /\ (lost => lost')
  <2>1. ASSUME NEW c \in Clients, Users(c) PROVE handler' = handler /\ lost' = lost
    BY <2>1, UsersStep
  <2>2. ASSUME NEW c \in Clients, Join(c) \/ Ready(c) \/ Leave(c) \/ HangUp(c)
        PROVE  handler' = handler /\ lost' = lost
    BY <2>2 DEF Join, Ready, Leave, HangUp
  <2>3. ASSUME NEW c \in Clients, PublishLeave(c) PROVE handler' = handler /\ (lost => lost')
    BY Zenon, <2>3 DEF PublishLeave
  <2>4. ASSUME NEW c \in Clients, NEW s, SignalsEnd(c, s) PROVE handler' = handler /\ lost' = lost
    BY <2>4 DEF SignalsEnd
  <2>5. ASSUME NEW n \in Nodes, HandleMessage(n) PROVE handler' = handler /\ (lost => lost')
    <3>1. handler' = handler /\ (lost' = lost \/ lost' = TRUE)
      BY <2>5 DEF HandleMessage
    <3>2. CASE lost' = lost
      BY <3>1, <3>2
    <3>3. CASE lost' = TRUE
      BY <3>1, <3>3
    <3> QED BY <3>1, <3>2, <3>3
  <2>6. CASE UNCHANGED vars
    BY <2>6 DEF vars
  <2> QED BY <2>1, <2>2, <2>3, <2>4, <2>5, <2>6 DEF Next
<1>3. ASSUME handler = "mesh", ~lost' PROVE \A c \in Clients : HashInv(c)'
  <2>0. \A c \in Clients : HashInv(c)
    BY <1>0, <1>2, <1>3
  <2>1. ASSUME NEW c \in Clients, Join(c) PROVE \A d \in Clients : HashInv(d)'
    BY <1>0, <2>0, <2>1, HashJoin
  <2>2. ASSUME NEW c \in Clients, Ready(c) \/ Users(c) \/ HangUp(c) PROVE \A d \in Clients : HashInv(d)'
    BY <1>0, <1>3, <2>0, <2>2, HashClient
  <2>3. ASSUME NEW c \in Clients, Leave(c) PROVE \A d \in Clients : HashInv(d)'
    BY <1>0, <2>0, <2>3, HashLeave
  <2>4. ASSUME NEW c \in Clients, PublishLeave(c) PROVE \A d \in Clients : HashInv(d)'
    BY <1>0, <1>3, <2>0, <2>4, HashLeft
  <2>5. ASSUME NEW c \in Clients, NEW s, SignalsEnd(c, s) PROVE FALSE
    BY <1>0, <1>3, <2>5 DEF SignalsEnd
  <2>6. ASSUME NEW n \in Nodes, HandleMessage(n) PROVE \A d \in Clients : HashInv(d)'
    BY <1>0, <1>3, <2>0, <2>6, HashRead
  <2>7. CASE UNCHANGED vars
    <3>1. UNCHANGED <<queue, stage, roomClients>>
      BY <2>7 DEF vars
    <3> QED BY <2>0, <3>1 DEF HashInv, Connected
  <2> QED BY <2>1, <2>2, <2>3, <2>4, <2>5, <2>6, <2>7 DEF Next
<1> QED BY <1>1, <1>2, <1>3 DEF MeshInv

-----------------------------------------------------------------------------
\* Every step of a client, a goroutine or a node keeps the invariant.
LEMMA RedisStep == RedisInv /\ [Next]_vars => RedisInv'
<1> SUFFICES ASSUME RedisInv, [Next]_vars PROVE RedisInv'
  OBVIOUS
<1>0. /\ NicknameIsReady /\ TypeOK /\ SessionInv /\ ReaderInv /\ ClientInv
      /\ handler = "mesh" => \A c \in Clients : hangUp[c] = {}
  BY DEF RedisInv, NicknameIsReady, MeshInv
<1>1. /\ roomClients' \in [Clients -> {"absent", "", "nickname"}]
      /\ stage' \in [Clients -> {"out", "in", "ready", "met", "leaving"}]
      /\ \A c \in Clients : roomClients'[c] = "nickname" => stage'[c] \in {"ready", "met"}
  BY <1>0, NicknameStep
<1>2. sessions' \in [Clients -> 0..MaxSessions] /\ SessionInv'
  BY <1>0, SessionStep
<1>3. queue' \in [Nodes -> Seq(Message)] /\ ReaderInv'
  BY <1>0, QueueStep
<1>4. clients' \in [Nodes -> SUBSET Clients] /\ ClientInv'
  BY <1>0, ClientStep
<1>5. /\ hangUp' \in [Clients -> SUBSET (1..MaxSessions)] /\ met' \subseteq SUBSET Clients
      /\ handler' \in Handlers /\ lost' \in BOOLEAN
  BY <1>0, OtherTypes
<1>6. NicknameIsReady'
  BY <1>1, <1>2, <1>3, <1>4, <1>5 DEF NicknameIsReady, TypeOK
<1> QED BY <1>2, <1>3, <1>4, <1>6, MeshStep DEF RedisInv

\* The invariant holds throughout.
LEMMA RedisAlways == Spec => []RedisInv
<1> QED BY InitRedis, RedisStep, PTL DEF Spec

\* getReadyClients: for any number of nodes, clients and sessions, and with both
\* handlers, a client that the hash gives a nickname is connected and has said
\* that it is ready.
THEOREM ReadyInHash == Spec => []NicknameIsReady
<1>1. RedisInv => NicknameIsReady
  BY DEF RedisInv
<1> QED BY <1>1, RedisAlways, PTL

\* Clients: for any number of nodes, clients and sessions of the mesh handler, once
\* every node has read the room channel the hash lists exactly the clients that
\* are connected, in whatever order the nodes have read.
THEOREM HashConverges == Spec => []ListsConnected
<1>1. RedisInv => ListsConnected
  <2> SUFFICES ASSUME RedisInv, handler = "mesh", ~lost, \A n \in Nodes : queue[n] = <<>>,
                      \A c \in Clients : stage[c] # "leaving",
                      NEW c \in Clients
               PROVE  roomClients[c] # "absent" <=> c \in clients[NodeOf[c]]
    BY DEF ListsConnected
  <2>1. HashInv(c) /\ (c \in clients[NodeOf[c]] <=> Connected(c))
    BY DEF RedisInv, MeshInv, ClientInv
  <2>2. stage[c] \in {"out", "in", "ready", "met", "leaving"}
    BY DEF RedisInv, NicknameIsReady, TypeOK
  <2>3. \A n \in Nodes : ~About(queue[n], c)
    BY EmptyQueue
  <2>4. Connected(c) <=> stage[c] # "out"
    BY <2>2 DEF Connected
  <2> QED BY <2>1, <2>3, <2>4 DEF HashInv
<1> QED BY <1>1, RedisAlways, PTL
=============================================================================
