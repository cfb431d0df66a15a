---------------------------- MODULE FactoryProofs ----------------------------
(***************************************************************************)
(* Factory, for any number of links and streams: type correctness, the     *)
(* shapes its steps can have, what each loop knows about its own streams,  *)
(* and the safety properties that follow.                                  *)
(***************************************************************************)
EXTENDS FactoryInv, SequenceTheorems, TLAPS

\* The other end of a link.
LEMMA PeerOf ==
  ASSUME NEW n \in Nodes
  PROVE  Peer[n] \in Nodes /\ Peer[n] # n /\ Peer[Peer[n]] = n
  BY PeerAssumption

-----------------------------------------------------------------------------
(* Typing.                                                                 *)

\* The tracker operators stay within Tracker.
LEMMA TrackerTyped ==
  ASSUME NEW t \in Tracker
  PROVE  /\ NewTracker \in Tracker
         /\ WantCreate(t).tracker \in Tracker
         /\ WantCreate(t).send \in {"none", "create"}
         /\ WantClose(t).tracker \in Tracker
         /\ WantClose(t).send \in {"none", "close"}
         /\ \A event \in RemoteEvent :
              /\ HandleRemoteEvent(t, event).tracker \in Tracker
              /\ HandleRemoteEvent(t, event).send \in {"none", "create_ack", "close_ack"}
  BY DEF Tracker, NewTracker, WantCreate, WantClose, HandleRemoteEvent,
         NextState, Response, ControlState, PendingEvent, RemoteEvent

\* What controlTransport.Send puts on the wires is well typed.
LEMMA SentTyped ==
  ASSUME NEW w \in [Nodes -> Seq(Message)], NEW n \in Nodes, NEW s \in Streams,
         NEW event \in RemoteEvent \cup {"none"}
  PROVE  Sent(w, n, s, event) \in [Nodes -> Seq(Message)]
<1>1. event # "none" => [stream |-> s, type |-> event] \in Message
  BY DEF Message
<1> QED
  BY <1>1, PeerOf DEF Sent

\* The deferred function of the loop keeps the types.
LEMMA TeardownTyped ==
  ASSUME TypeOK, NEW n \in Nodes, Teardown(n)
  PROVE  TypeOK'
<1>1. PICK k \in 0..Len(wire[Peer[n]]) :
        wire' = [m \in Nodes |-> CASE m = n       -> <<>>
                                   [] m = Peer[n] -> SubSeq(wire[m], 1, k)
                                   [] OTHER       -> wire[m]]
  BY DEF Teardown
<1>2. SubSeq(wire[Peer[n]], 1, k) \in Seq(Message)
  BY SubSeqProperties, PeerOf DEF TypeOK
<1>3. wire' \in [Nodes -> Seq(Message)]
  BY <1>1, <1>2 DEF TypeOK
<1>4. NewTracker \in Tracker
  BY DEF NewTracker, Tracker, ControlState, PendingEvent
<1> QED
  BY <1>3, <1>4, PingAssumption DEF TypeOK, Teardown

\* Every step keeps the types.
LEMMA TypeStep == TypeOK /\ [Next]_vars => TypeOK'
<1> SUFFICES ASSUME TypeOK, [Next]_vars PROVE TypeOK'
  OBVIOUS
<1> DEFINE Wires == [Nodes -> Seq(Message)]
<1>a. ASSUME NEW n \in Nodes, NEW s \in Streams,
             NEW event \in RemoteEvent \cup {"none"}
      PROVE  Sent(wire, n, s, event) \in Wires
  BY Zenon, SentTyped DEF TypeOK
<1>b. ASSUME NEW n \in Nodes, wire[n] # <<>>
      PROVE  /\ Head(wire[n]).stream \in Streams
             /\ Head(wire[n]).type \in RemoteEvent
             /\ Received(n) \in Wires
  <2>1. Head(wire[n]) \in Message /\ Tail(wire[n]) \in Seq(Message)
    BY <1>b DEF TypeOK
  <2> QED
    BY Zenon, <2>1 DEF TypeOK, Message, Received
<1>c. ASSUME NEW n \in Nodes, NEW s \in Streams, wire[n] # <<>>,
             NEW event \in RemoteEvent \cup {"none"}
      PROVE  Sent(Received(n), n, s, event) \in Wires
  BY <1>b, <1>c, SentTyped
<1>d. ASSUME NEW n \in Nodes, NEW s \in Streams
      PROVE  tracker[n][s] \in Tracker
  BY DEF TypeOK
<1>e. ASSUME NEW n \in Nodes, NEW s \in Streams, NEW t \in Tracker, SetTracker(n, s, t)
      PROVE  tracker' \in [Nodes -> [Streams -> Tracker]]
  BY <1>e DEF TypeOK, SetTracker
<1>f. ASSUME NEW n \in Nodes, NEW s \in Streams,
             NEW t \in {"nil", "open", "write_closed"}, SetTransport(n, s, t)
      PROVE  transport' \in [Nodes -> [Streams -> {"nil", "open", "write_closed"}]]
  BY <1>f DEF TypeOK, SetTransport
<1>g. ASSUME NEW n \in Nodes, NEW s \in Streams, NEW event \in {"create_ack", "none"},
             handing' = [handing EXCEPT ![n] = {<<s, event>>}]
      PROVE  handing' \in [Nodes -> SUBSET (Streams \X {"create_ack", "none"})]
  BY <1>g DEF TypeOK
<1>h. ASSUME NEW n \in Nodes, NEW S \in SUBSET Streams, room' = [room EXCEPT ![n] = S]
      PROVE  room' \in [Nodes -> SUBSET Streams]
  BY <1>h DEF TypeOK
<1> HIDE DEF Wires
<1>1. ASSUME NEW n \in Nodes, NEW s \in Streams, CreateTransport(n, s)
      PROVE  TypeOK'
  <2> DEFINE r == WantCreate(tracker[n][s])
  <2>1. r.tracker \in Tracker /\ r.send \in RemoteEvent \cup {"none"}
    BY <1>d, TrackerTyped DEF RemoteEvent
  <2>2. CASE Teardown(n)
    BY <2>2, TeardownTyped
  <2> HIDE DEF r
  <2>3. Sent(wire, n, s, r.send) \in Wires
    BY <2>1, <1>a
  <2>4. CASE ~Teardown(n)
    <3>1. SetTracker(n, s, r.tracker) /\ UNCHANGED <<up, room, handing, pings, age>>
      BY <1>1, <2>4 DEF CreateTransport, r
    <3>2. SetTransport(n, s, "open") \/ UNCHANGED transport
      BY <1>1, <2>4 DEF CreateTransport
    <3>3. wire' \in Wires
      BY <1>1, <2>3, <2>4 DEF CreateTransport, r, TypeOK, Wires
    <3> QED
      BY Zenon, <2>1, <3>1, <3>2, <3>3, <1>e, <1>f DEF TypeOK, Wires
  <2> QED
    BY <2>2, <2>4
<1>2. ASSUME NEW n \in Nodes, NEW s \in Streams, CloseTransport(n, s)
      PROVE  TypeOK'
  <2> DEFINE r == WantClose(tracker[n][s])
  <2>1. r.tracker \in Tracker /\ r.send \in RemoteEvent \cup {"none"}
    BY <1>d, TrackerTyped DEF RemoteEvent
  <2> HIDE DEF r
  <2>3. Sent(wire, n, s, r.send) \in Wires
    BY <2>1, <1>a
  <2>4. SetTracker(n, s, r.tracker) /\ UNCHANGED <<up, room, handing, pings, age>>
    BY <1>2 DEF CloseTransport, r
  <2>5. SetTransport(n, s, "write_closed") \/ UNCHANGED transport
    BY <1>2 DEF CloseTransport
  <2>6. wire' \in Wires
    BY <1>2, <2>3 DEF CloseTransport, r, TypeOK, Wires
  <2> QED
    BY Zenon, <2>1, <2>4, <2>5, <2>6, <1>e, <1>f DEF TypeOK, Wires
<1>3. ASSUME NEW n \in Nodes, HandleRemote(n)
      PROVE  TypeOK'
  <2>1. CASE UnexpectedEvent(n)
    BY <2>1, TeardownTyped DEF UnexpectedEvent
  <2> SUFFICES ASSUME ~UnexpectedEvent(n) PROVE TypeOK'
    BY <2>1
  <2>2. wire[n] # <<>>
    BY Zenon, <1>3 DEF HandleRemote, HandleCreate, HandleCreateAck, HandleClose,
                HandleCloseAck, Receives
  <2> DEFINE s == Head(wire[n]).stream
             r(event) == HandleRemoteEvent(tracker[n][s], event)
  <2>3. s \in Streams /\ Received(n) \in Wires
    BY <2>2, <1>b
  <2>4. ASSUME NEW event \in RemoteEvent
        PROVE  /\ r(event).tracker \in Tracker
               /\ r(event).send \in {"none", "create_ack", "close_ack"}
    BY <1>d, <2>3, TrackerTyped
  <2>5. ASSUME NEW event \in RemoteEvent
        PROVE  Sent(Received(n), n, s, r(event).send) \in Wires
    BY Zenon, <2>2, <2>3, <2>4, <1>c DEF RemoteEvent
  <2>6. {"create", "create_ack", "close", "close_ack"} \subseteq RemoteEvent
    BY DEF RemoteEvent
  <2>7. NewTracker \in Tracker
    BY DEF NewTracker, Tracker, ControlState, PendingEvent
  <2>8. r("create").send = "create_ack" /\ r("create_ack").send = "none"
    BY DEF HandleRemoteEvent, Response
  <2> HIDE DEF s, r
  <2>9. CASE HandleCreate(n)
    <3>1. SetTracker(n, s, r("create").tracker) /\ UNCHANGED <<up, room, pings, age>>
      BY Zenon, <2>9 DEF HandleCreate, s, r
    <3>2. SetTransport(n, s, "open") \/ SetTransport(n, s, "nil") \/ UNCHANGED transport
      BY Zenon, <2>9 DEF HandleCreate, s
    <3>3. wire' \in Wires
      BY Zenon, <2>3, <2>5, <2>6, <2>9 DEF HandleCreate, s, r
    <3>4. \/ handing' = [handing EXCEPT ![n] = {<<s, r("create").send>>}]
          \/ UNCHANGED handing
      BY Zenon, <2>9 DEF HandleCreate, s, r
    <3>5. handing' \in [Nodes -> SUBSET (Streams \X {"create_ack", "none"})]
      BY Zenon, <2>3, <2>8, <3>4, <1>g DEF TypeOK
    <3> QED
      BY Zenon, <2>3, <2>4, <2>6, <3>1, <3>2, <3>3, <3>5, <1>e, <1>f DEF TypeOK, Wires
  <2>10. CASE HandleCreateAck(n)
    <3>1. SetTracker(n, s, r("create_ack").tracker) /\ UNCHANGED <<up, transport, room, pings, age>>
      BY Zenon, <2>10 DEF HandleCreateAck, s, r
    <3>2. wire' \in Wires
      BY Zenon, <2>3, <2>10 DEF HandleCreateAck
    <3>3. handing' = [handing EXCEPT ![n] = {<<s, r("create_ack").send>>}]
      BY Zenon, <2>10 DEF HandleCreateAck, s, r
    <3>4. handing' \in [Nodes -> SUBSET (Streams \X {"create_ack", "none"})]
      BY Zenon, <2>3, <2>8, <3>3, <1>g
    <3> QED
      BY <2>3, <2>4, <2>6, <3>1, <3>2, <3>4, <1>e DEF TypeOK, Wires
  <2>11. CASE HandleClose(n)
    <3>1. UNCHANGED <<up, handing, pings, age>>
      BY <2>11 DEF HandleClose
    <3>2. \/ /\ SetTracker(n, s, NewTracker)
             /\ SetTransport(n, s, "nil")
             /\ room' = [room EXCEPT ![n] = @ \ {s}]
          \/ UNCHANGED <<tracker, transport, room>>
      BY <2>11 DEF HandleClose, s
    <3>3. wire' \in Wires
      BY Zenon, <2>5, <2>6, <2>11 DEF HandleClose, s, r
    <3>4. room[n] \ {s} \in SUBSET Streams
      BY DEF TypeOK
    <3> QED
      BY Zenon, <2>3, <2>7, <3>1, <3>2, <3>3, <3>4, <1>e, <1>f, <1>h DEF TypeOK, Wires
  <2>12. CASE HandleCloseAck(n)
    BY Zenon, <2>12, <2>3, <2>7
       DEF HandleCloseAck, SetTracker, SetTransport, TypeOK, s, Wires
  <2> QED
    BY <1>3, <2>9, <2>10, <2>11, <2>12 DEF HandleRemote
<1>4. ASSUME NEW n \in Nodes, TakeTransport(n)
      PROVE  TypeOK'
  <2>1. CASE Teardown(n)
    BY <2>1, TeardownTyped
  <2>2. PICK h \in handing[n] :
          \/ Teardown(n)
          \/ /\ room' = [room EXCEPT ![n] = @ \cup {h[1]}]
             /\ handing' = [handing EXCEPT ![n] = {}]
             /\ wire' = Sent(wire, n, h[1], h[2])
             /\ UNCHANGED <<up, tracker, transport, pings, age>>
    BY <1>4 DEF TakeTransport
  <2>3. h[1] \in Streams /\ h[2] \in RemoteEvent \cup {"none"}
    BY DEF TypeOK, RemoteEvent
  <2>4. Sent(wire, n, h[1], h[2]) \in Wires
    BY <2>3, <1>a
  <2>5. room[n] \cup {h[1]} \in SUBSET Streams
    BY <2>3 DEF TypeOK
  <2>6. [handing EXCEPT ![n] = {}] \in [Nodes -> SUBSET (Streams \X {"create_ack", "none"})]
    BY DEF TypeOK
  <2>7. CASE ~Teardown(n)
    <3>1. UNCHANGED <<up, tracker, transport, pings, age>>
      BY <2>2, <2>7
    <3>2. room' \in [Nodes -> SUBSET Streams]
      BY Zenon, <2>2, <2>5, <2>7, <1>h
    <3>3. handing' \in [Nodes -> SUBSET (Streams \X {"create_ack", "none"})]
      BY <2>2, <2>6, <2>7
    <3>4. wire' \in Wires
      BY <2>2, <2>4, <2>7
    <3> QED
      BY <3>1, <3>2, <3>3, <3>4 DEF TypeOK, Wires
  <2> QED
    BY <2>1, <2>7
<1>5. ASSUME NEW n \in Nodes, Close(n) PROVE TypeOK'
  BY <1>5, TeardownTyped DEF Close
<1>6. ASSUME NEW n \in Nodes, Tick(n) PROVE TypeOK'
  <2>1. CASE Teardown(n)
    BY <2>1, TeardownTyped
  <2>2. CASE ~Teardown(n)
    <3>1. UNCHANGED <<up, tracker, transport, room, handing, wire>>
      BY <1>6, <2>2 DEF Tick
    <3>2. age' \in [Nodes -> 0..DestroyTimeout]
      <4>1. age' = [age EXCEPT ![n] = IF DestroyTimeout > 0 THEN @ + 1 ELSE 0]
        BY <1>6, <2>2 DEF Tick
      <4>2. ~(DestroyTimeout > 0 /\ age[n] = DestroyTimeout)
        BY <1>6, <2>2 DEF Tick
      <4>3. age \in [Nodes -> 0..DestroyTimeout]
        BY DEF TypeOK
      <4> QED
        BY <4>1, <4>2, <4>3, PingAssumption
    <3>3. pings' \in [Nodes -> 0..MaxPings]
      <4>1. pings' = [pings EXCEPT ![Peer[n]] =
                        IF up[Peer[n]] /\ @ < MaxPings THEN @ + 1 ELSE @]
        BY <1>6, <2>2 DEF Tick
      <4>2. pings \in [Nodes -> 0..MaxPings] /\ Peer[n] \in Nodes
        BY PeerOf DEF TypeOK
      <4> QED
        BY <4>1, <4>2, PingAssumption
    <3> QED
      BY <3>1, <3>2, <3>3 DEF TypeOK
  <2> QED
    BY <2>1, <2>2
<1>7. ASSUME NEW n \in Nodes, ReceivePing(n) PROVE TypeOK'
  BY <1>7, PingAssumption DEF ReceivePing, TypeOK
<1>8. CASE UNCHANGED vars
  BY <1>8 DEF vars, TypeOK
<1> QED
  BY <1>1, <1>2, <1>3, <1>4, <1>5, <1>6, <1>7, <1>8 DEF Next

\* Every variable keeps its type, for any number of links and streams.
THEOREM TypeCorrect == Spec => []TypeOK
<1>1. Init => TypeOK
  BY PingAssumption DEF Init, TypeOK, NewTracker, Tracker, ControlState, PendingEvent
<1> QED
  BY <1>1, TypeStep, PTL DEF Spec

-----------------------------------------------------------------------------
(* Events on a wire.                                                       *)

\* Sending an event that may follow those of its stream keeps a wire ordered
\* and adds just that event.
LEMMA AppendWire ==
  ASSUME NEW w \in Seq(Message), Ordered(w), NEW m \in Message,
         \A i \in 1..Len(w) : w[i].stream = m.stream => Follows(w[i].type, m.type)
  PROVE  /\ Ordered(Append(w, m))
         /\ \A s \in Streams, event \in RemoteEvent :
              On(Append(w, m), s, event)
                <=> On(w, s, event) \/ (m.stream = s /\ m.type = event)
<1>1. /\ Len(Append(w, m)) = Len(w) + 1
      /\ \A i \in 1..Len(w) : Append(w, m)[i] = w[i]
      /\ Append(w, m)[Len(w) + 1] = m
      /\ Len(w) \in Nat
  OBVIOUS
<1> DEFINE v == Append(w, m)
<1> HIDE DEF v
<1>2. /\ Len(v) = Len(w) + 1
      /\ \A i \in 1..Len(w) : v[i] = w[i]
      /\ v[Len(w) + 1] = m
  BY <1>1 DEF v
<1>3. Ordered(v)
  BY <1>1, <1>2 DEF Ordered
<1>4. ASSUME NEW s \in Streams, NEW event \in RemoteEvent
      PROVE  On(v, s, event) <=> On(w, s, event) \/ (m.stream = s /\ m.type = event)
  BY <1>1, <1>2 DEF On
<1> QED
  BY <1>3, <1>4 DEF v

\* Receiving takes exactly the first event; nothing of its stream is behind a
\* request, and only the matching request is behind an acknowledgement.
LEMMA TailWire ==
  ASSUME NEW w \in Seq(Message), Ordered(w), w # <<>>
  PROVE  /\ Ordered(Tail(w))
         /\ On(w, Head(w).stream, Head(w).type)
         /\ \A event \in RemoteEvent :
              On(w, Head(w).stream, event)
                => event = Head(w).type \/ Follows(Head(w).type, event)
         /\ \A s \in Streams, event \in RemoteEvent :
              On(Tail(w), s, event)
                <=> On(w, s, event) /\ ~(Head(w).stream = s /\ Head(w).type = event)
<1> DEFINE v == Tail(w)
<1>1. /\ Len(w) \in Nat /\ Len(w) > 0
      /\ Len(v) = Len(w) - 1
      /\ \A i \in 1..Len(v) : v[i] = w[i + 1]
      /\ Head(w) = w[1]
  OBVIOUS
<1> HIDE DEF v
<1>2. Ordered(v)
  BY <1>1 DEF Ordered
<1>3. On(w, Head(w).stream, Head(w).type)
  BY <1>1 DEF On
<1>4. ASSUME NEW event \in RemoteEvent, On(w, Head(w).stream, event)
      PROVE  event = Head(w).type \/ Follows(Head(w).type, event)
  BY <1>1, <1>4 DEF On, Ordered
<1>5. ASSUME NEW s \in Streams, NEW event \in RemoteEvent
      PROVE  On(v, s, event)
               <=> On(w, s, event) /\ ~(Head(w).stream = s /\ Head(w).type = event)
  <2>1. ASSUME On(v, s, event)
        PROVE  On(w, s, event) /\ ~(Head(w).stream = s /\ Head(w).type = event)
    <3>1. PICK i \in 1..Len(v) : v[i].stream = s /\ v[i].type = event
      BY <2>1 DEF On
    <3>2. i + 1 \in 1..Len(w) /\ 1 < i + 1 /\ w[i + 1].stream = s /\ w[i + 1].type = event
      BY <3>1, <1>1
    <3>3. ~Follows(event, event)
      BY DEF Follows
    <3> QED
      BY <3>2, <3>3, <1>1 DEF On, Ordered
  <2>2. ASSUME On(w, s, event), ~(Head(w).stream = s /\ Head(w).type = event)
        PROVE  On(v, s, event)
    <3>1. PICK i \in 1..Len(w) : w[i].stream = s /\ w[i].type = event
      BY <2>2 DEF On
    <3>2. i # 1
      BY <3>1, <2>2, <1>1
    <3>3. i - 1 \in 1..Len(v) /\ v[i - 1] = w[i]
      BY <3>1, <3>2, <1>1
    <3> QED
      BY <3>1, <3>3 DEF On
  <2> QED
    BY <2>1, <2>2
<1> QED
  BY <1>2, <1>3, <1>4, <1>5 DEF v

\* Losing the last events of a wire keeps it ordered and adds no event.
LEMMA PrefixWire ==
  ASSUME NEW w \in Seq(Message), Ordered(w), NEW k \in 0..Len(w)
  PROVE  /\ Ordered(SubSeq(w, 1, k))
         /\ \A s, event : On(SubSeq(w, 1, k), s, event) => On(w, s, event)
<1> DEFINE v == SubSeq(w, 1, k)
<1>1. Len(v) = k /\ \A i \in 1..k : v[i] = w[i]
  BY SubSeqProperties
<1> HIDE DEF v
<1>2. Ordered(v)
  BY <1>1 DEF Ordered
<1>3. \A s, event : On(v, s, event) => On(w, s, event)
  BY <1>1 DEF On
<1> QED
  BY <1>2, <1>3 DEF v

-----------------------------------------------------------------------------
(* A node alone.                                                           *)

USE DEF State

\* A node that takes no step keeps its invariant.
LEMMA LocalFrame ==
  ASSUME NEW n \in Nodes, LocalInv(n),
         tracker'[n] = tracker[n], transport'[n] = transport[n],
         room'[n] = room[n], handing'[n] = handing[n], up'[n] = up[n],
         ~up[n] => wire'[n] = wire[n]
  PROVE  LocalInv(n)'
  BY DEF LocalInv, State

\* A step of k that is not a teardown leaves the other nodes and the wire to
\* a factory that is down alone.
LEMMA SentFrame ==
  ASSUME NEW w \in [Nodes -> Seq(Message)], NEW k \in Nodes, NEW s \in Streams,
         NEW event \in RemoteEvent \cup {"none"}, NEW n \in Nodes,
         n # Peer[k] \/ ~up[n]
  PROVE  Sent(w, k, s, event)[n] = w[n]
  BY PeerOf DEF Sent

\* The deferred function leaves every node's own streams consistent.
LEMMA LocalTeardown ==
  ASSUME TypeOK, \A n \in Nodes : LocalInv(n), NEW k \in Nodes, Teardown(k)
  PROVE  \A n \in Nodes : LocalInv(n)'
<1> SUFFICES ASSUME NEW n \in Nodes PROVE LocalInv(n)'
  OBVIOUS
<1>1. PICK i \in 0..Len(wire[Peer[k]]) :
        wire' = [m \in Nodes |-> CASE m = k       -> <<>>
                                   [] m = Peer[k] -> SubSeq(wire[m], 1, i)
                                   [] OTHER       -> wire[m]]
  BY DEF Teardown
<1>2. CASE n = k
  <2>1. /\ wire'[k] = <<>> /\ handing'[k] = {} /\ room'[k] = {}
        /\ tracker'[k] = [s \in Streams |-> NewTracker]
        /\ transport'[k] = [s \in Streams |-> "nil"]
    BY <1>1, PeerOf DEF Teardown, TypeOK
  <2>2. \A s \in Streams : State(k, s)' = "closed" /\ transport'[k][s] = "nil"
    BY <2>1 DEF State, NewTracker
  <2> QED
    BY <1>2, <2>1, <2>2 DEF LocalInv
<1>3. CASE n # k
  <2>1. ~up[n] => wire'[n] = wire[n]
    <3>1. n = Peer[k] /\ ~up[n] => wire[n] = <<>> /\ i = 0
      BY <1>1 DEF LocalInv
    <3>2. n = Peer[k] /\ ~up[n] => wire'[n] = <<>>
      BY <1>1, <1>3, <3>1, SubSeqEmpty
    <3> QED
      BY Zenon, <1>1, <1>3, <3>1, <3>2
  <2>2. /\ tracker'[n] = tracker[n] /\ transport'[n] = transport[n]
        /\ room'[n] = room[n] /\ handing'[n] = handing[n] /\ up'[n] = up[n]
    BY <1>3 DEF Teardown, TypeOK
  <2> QED
    BY <2>1, <2>2, LocalFrame
<1> QED
  BY <1>2, <1>3

\* The node k whose loop takes a step: it changes what it keeps about one
\* stream, and perhaps starts or ends a handover of that stream.
LEMMA LocalUpdate ==
  ASSUME NEW k \in Nodes, NEW s \in Streams, LocalInv(k),
         up[k], up'[k],
         \A z \in Streams : z # s => tracker'[k][z] = tracker[k][z],
         \A z \in Streams : z # s => transport'[k][z] = transport[k][z],
         \A z \in Streams : z # s => ((z \in room'[k]) <=> (z \in room[k])),
         \A h \in handing[k] : h[1] = s,
         \/ /\ handing'[k] = {}
            /\ (transport'[k][s] = "nil") <=> (State(k, s)' = "closed")
            /\ (transport'[k][s] = "write_closed") <=> (State(k, s)' = "write_closed")
            /\ (s \in room'[k]) <=> (State(k, s)' \in {"added", "write_closed"})
         \/ \E event : /\ handing'[k] = {<<s, event>>}
                       /\ State(k, s)' = "added"
                       /\ s \notin room'[k]
                       /\ transport'[k][s] # "write_closed"
                       /\ event = "none" => transport'[k][s] = "open"
  PROVE  LocalInv(k)'
<1>1. ASSUME NEW z \in Streams, z # s
      PROVE  /\ (transport'[k][z] = "nil") <=> (State(k, z)' = "closed")
             /\ (transport'[k][z] = "write_closed") <=> (State(k, z)' = "write_closed")
             /\ (z \in room'[k]) <=> (State(k, z)' \in {"added", "write_closed"})
  <2>1. \A h \in handing[k] : h[1] # z
    BY <1>1
  <2>2. /\ (transport[k][z] = "nil") <=> (State(k, z) = "closed")
        /\ (transport[k][z] = "write_closed") <=> (State(k, z) = "write_closed")
        /\ (z \in room[k]) <=> (State(k, z) \in {"added", "write_closed"})
    BY <2>1 DEF LocalInv
  <2>3. State(k, z)' = State(k, z) /\ transport'[k][z] = transport[k][z]
    BY <1>1
  <2>4. (z \in room'[k]) <=> (z \in room[k])
    BY <1>1
  <2> QED
    BY <2>2, <2>3, <2>4
<1>2. CASE handing'[k] = {}
  <2>1. ~\E h \in handing'[k] : TRUE
    BY <1>2
  <2>2. \A z \in Streams :
          /\ (transport'[k][z] = "nil") <=> (State(k, z)' = "closed")
          /\ (transport'[k][z] = "write_closed") <=> (State(k, z)' = "write_closed")
          /\ (z \in room'[k]) <=> (State(k, z)' \in {"added", "write_closed"})
    BY Zenon, <1>1, <2>1
  <2> QED BY Zenon, <2>1, <2>2 DEF LocalInv
<1>3. ASSUME NEW event, handing'[k] = {<<s, event>>}, State(k, s)' = "added",
             s \notin room'[k], transport'[k][s] # "write_closed",
             event = "none" => transport'[k][s] = "open"
      PROVE  LocalInv(k)'
  BY <1>1, <1>3 DEF LocalInv
<1> QED
  BY <1>2, <1>3

-----------------------------------------------------------------------------
(* Every step of the system is idle, a teardown, or a step of one node's   *)
(* loop about one stream that has one of nine shapes .                     *)

Idle == UNCHANGED <<up, tracker, transport, room, handing, wire>>

\* k's loop takes a step about s: everything else stays.
StepOf(k, s) ==
  /\ up[k] /\ up' = up
  /\ \A n \in Nodes : n # k => tracker'[n] = tracker[n] /\ transport'[n] = transport[n]
  /\ \A n \in Nodes : n # k => room'[n] = room[n] /\ handing'[n] = handing[n]
  /\ \A z \in Streams : z # s => tracker'[k][z] = tracker[k][z]
  /\ \A z \in Streams : z # s => transport'[k][z] = transport[k][z]
  /\ \A z \in Streams : z # s => ((z \in room'[k]) <=> (z \in room[k]))
  /\ \A h \in handing[k] : h[1] = s
  /\ \A h \in handing'[k] : h[1] = s

Move(k, s, from, to) ==
  tracker[k][s].state = from /\ tracker'[k][s].state = to

Reads(k, s, event) ==
  wire[k] # <<>> /\ Head(wire[k]).stream = s /\ Head(wire[k]).type = event

Keeps(k, s) == transport'[k][s] = transport[k][s] /\ ((s \in room'[k]) <=> (s \in room[k]))

Removes(k, s) == transport'[k][s] = "nil" /\ s \notin room'[k]

AsksCreate(k, s) ==
  /\ <<k, s>> \in Initiators
  /\ Move(k, s, "closed", "created") /\ handing[k] = {} /\ handing'[k] = {}
  /\ transport'[k][s] = "open" /\ ((s \in room'[k]) <=> (s \in room[k]))
  /\ wire' = Sent(wire, k, s, "create")

AsksClose(k, s) ==
  /\ <<k, s>> \in Initiators
  /\ Move(k, s, "added", "write_closed") /\ handing[k] = {} /\ handing'[k] = {}
  /\ transport'[k][s] = "write_closed" /\ ((s \in room'[k]) <=> (s \in room[k]))
  /\ wire' = Sent(wire, k, s, "close")

Postpones(k, s) ==
  /\ tracker'[k][s].state = tracker[k][s].state /\ handing[k] = {} /\ handing'[k] = {}
  /\ Keeps(k, s) /\ wire' = wire

TakesCreate(k, s) ==
  /\ Reads(k, s, "create") /\ wire' = Received(k) /\ handing[k] = {}
  /\ Move(k, s, "closed", "added") /\ handing'[k] = {<<s, "create_ack">>}
  /\ transport'[k][s] # "write_closed" /\ ((s \in room'[k]) <=> (s \in room[k]))

TakesCreateAck(k, s) ==
  /\ Reads(k, s, "create_ack") /\ wire' = Received(k) /\ handing[k] = {}
  /\ Move(k, s, "created", "added") /\ handing'[k] = {<<s, "none">>} /\ Keeps(k, s)

TakesClose(k, s) ==
  /\ Reads(k, s, "close") /\ wire' = Sent(Received(k), k, s, "close_ack")
  /\ Move(k, s, "added", "closed") /\ handing[k] = {} /\ handing'[k] = {}
  /\ Removes(k, s)

TakesCloseAck(k, s) ==
  /\ Reads(k, s, "close_ack") /\ wire' = Received(k) /\ handing[k] = {}
  /\ Move(k, s, "write_closed", "closed") /\ handing'[k] = {} /\ Removes(k, s)

\* A request the tracker takes without a change of state.
Repeats(k, s) ==
  /\ handing[k] = {} /\ handing'[k] = {} /\ Keeps(k, s)
  /\ \/ /\ Reads(k, s, "create") /\ Move(k, s, "added", "added")
        /\ wire' = Sent(Received(k), k, s, "create_ack")
     \/ /\ Reads(k, s, "close") /\ Move(k, s, "closed", "closed")
        /\ wire' = Sent(Received(k), k, s, "close_ack")

HandsOver(k, s) ==
  \E event \in {"create_ack", "none"} :
    /\ <<s, event>> \in handing[k] /\ handing'[k] = {}
    /\ tracker'[k][s] = tracker[k][s] /\ transport'[k][s] = transport[k][s]
    /\ transport[k][s] # "nil" /\ s \in room'[k]
    /\ wire' = Sent(wire, k, s, event)

Shape(k, s) ==
  \/ AsksCreate(k, s) \/ AsksClose(k, s) \/ Postpones(k, s)
  \/ TakesCreate(k, s) \/ TakesCreateAck(k, s) \/ TakesClose(k, s)
  \/ TakesCloseAck(k, s) \/ Repeats(k, s) \/ HandsOver(k, s)

\* CreateTransport has one of the shapes.
LEMMA CreateShape ==
  ASSUME TypeOK, NEW k \in Nodes, NEW s \in Streams, CreateTransport(k, s), ~Teardown(k)
  PROVE  StepOf(k, s) /\ Shape(k, s)
<1> DEFINE r == WantCreate(tracker[k][s])
<1>1. /\ tracker' = [tracker EXCEPT ![k][s] = r.tracker]
      /\ up' = up /\ room' = room /\ handing' = handing /\ up[k] /\ handing[k] = {}
      /\ <<k, s>> \in Initiators
      /\ \/ /\ r.send = "create"
            /\ transport' = [transport EXCEPT ![k][s] = "open"]
            /\ wire' = Sent(wire, k, s, "create")
         \/ r.send = "none" /\ transport' = transport /\ wire' = wire
  BY DEF CreateTransport, SetTracker, SetTransport, Selecting
<1>2. \/ /\ r.send = "create" /\ tracker[k][s].state = "closed"
         /\ r.tracker.state = "created"
      \/ r.send = "none" /\ r.tracker.state = tracker[k][s].state
  BY DEF WantCreate, TypeOK, Tracker, ControlState
<1> HIDE DEF r
<1>3. /\ tracker'[k][s] = r.tracker
      /\ \A n \in Nodes : n # k => tracker'[n] = tracker[n]
      /\ \A z \in Streams : z # s => tracker'[k][z] = tracker[k][z]
  BY <1>1 DEF TypeOK
<1>4. /\ \A n \in Nodes : n # k => transport'[n] = transport[n]
      /\ \A z \in Streams : z # s => transport'[k][z] = transport[k][z]
      /\ r.send = "create" => transport'[k][s] = "open"
      /\ r.send = "none" => transport'[k][s] = transport[k][s]
  BY <1>1 DEF TypeOK
<1>5. StepOf(k, s)
  BY <1>1, <1>3, <1>4 DEF StepOf
<1>6. AsksCreate(k, s) \/ Postpones(k, s)
  BY <1>1, <1>2, <1>3, <1>4 DEF AsksCreate, Postpones, Move, Keeps
<1> QED
  BY <1>5, <1>6 DEF Shape

\* So has CloseTransport.
LEMMA CloseShape ==
  ASSUME TypeOK, NEW k \in Nodes, NEW s \in Streams, CloseTransport(k, s)
  PROVE  StepOf(k, s) /\ Shape(k, s)
<1> DEFINE r == WantClose(tracker[k][s])
<1>1. /\ tracker' = [tracker EXCEPT ![k][s] = r.tracker]
      /\ up' = up /\ room' = room /\ handing' = handing /\ up[k] /\ handing[k] = {}
      /\ <<k, s>> \in Initiators
      /\ \/ /\ r.send = "close"
            /\ transport' = [transport EXCEPT ![k][s] = "write_closed"]
            /\ wire' = Sent(wire, k, s, "close")
         \/ r.send = "none" /\ transport' = transport /\ wire' = wire
  BY DEF CloseTransport, SetTracker, SetTransport, Selecting
<1>2. \/ /\ r.send = "close" /\ tracker[k][s].state = "added"
         /\ r.tracker.state = "write_closed"
      \/ r.send = "none" /\ r.tracker.state = tracker[k][s].state
  BY DEF WantClose, TypeOK, Tracker, ControlState
<1> HIDE DEF r
<1>3. /\ tracker'[k][s] = r.tracker
      /\ \A n \in Nodes : n # k => tracker'[n] = tracker[n]
      /\ \A z \in Streams : z # s => tracker'[k][z] = tracker[k][z]
  BY <1>1 DEF TypeOK
<1>4. /\ \A n \in Nodes : n # k => transport'[n] = transport[n]
      /\ \A z \in Streams : z # s => transport'[k][z] = transport[k][z]
      /\ r.send = "close" => transport'[k][s] = "write_closed"
      /\ r.send = "none" => transport'[k][s] = transport[k][s]
  BY <1>1 DEF TypeOK
<1>5. StepOf(k, s)
  BY <1>1, <1>3, <1>4 DEF StepOf
<1>6. AsksClose(k, s) \/ Postpones(k, s)
  BY <1>1, <1>2, <1>3, <1>4 DEF AsksClose, Postpones, Move, Keeps
<1> QED
  BY <1>5, <1>6 DEF Shape

\* So has each handler of a remote event that is expected.
LEMMA RemoteShape ==
  ASSUME TypeOK, NEW k \in Nodes,
         HandleCreate(k) \/ HandleCreateAck(k) \/ HandleClose(k) \/ HandleCloseAck(k)
  PROVE  \E s \in Streams : StepOf(k, s) /\ Shape(k, s)
<1> DEFINE s == Head(wire[k]).stream
           t == tracker[k][s]
<1>1. up[k] /\ handing[k] = {} /\ wire[k] # <<>> /\ up' = up
  BY Zenon DEF HandleCreate, HandleCreateAck, HandleClose, HandleCloseAck, Receives, Selecting
<1>2. s \in Streams
  <2>1. wire[k] \in Seq(Message)
    BY DEF TypeOK
  <2>2. Head(wire[k]) \in Message
    BY <1>1, <2>1
  <2> QED
    BY <2>2 DEF Message
<1>3. t \in Tracker
  BY <1>2 DEF TypeOK
<1> HIDE DEF s
<1> SUFFICES StepOf(k, s) /\ Shape(k, s)
  BY <1>2
<1>4. CASE HandleCreate(k)
  <2> DEFINE r == HandleRemoteEvent(t, "create")
  <2>1. /\ Reads(k, s, "create") /\ t.state \in {"closed", "added"}
        /\ tracker' = [tracker EXCEPT ![k][s] = r.tracker] /\ room' = room
        /\ r.send = "create_ack" /\ r.changed = (t.state # "added")
        /\ r.tracker.state = "added"
    BY Zenon, <1>3, <1>4 DEF HandleCreate, Receives, Reads, Expected, SetTracker, s,
       HandleRemoteEvent, NextState, Response, Tracker
  <2>2. \/ /\ r.changed
           /\ \/ transport' = [transport EXCEPT ![k][s] = "open"]
              \/ transport' = [transport EXCEPT ![k][s] = "nil"]
           /\ handing' = [handing EXCEPT ![k] = {<<s, r.send>>}]
           /\ wire' = Received(k)
        \/ /\ ~r.changed /\ transport' = transport /\ handing' = handing
           /\ wire' = Sent(Received(k), k, s, r.send)
    BY Zenon, <1>4 DEF HandleCreate, SetTransport, s
  <2> HIDE DEF r
  <2>3. /\ tracker'[k][s] = r.tracker
        /\ \A n \in Nodes : n # k => tracker'[n] = tracker[n]
        /\ \A z \in Streams : z # s => tracker'[k][z] = tracker[k][z]
    BY <1>2, <2>1 DEF TypeOK
  <2>4. /\ \A n \in Nodes : n # k => transport'[n] = transport[n]
        /\ \A z \in Streams : z # s => transport'[k][z] = transport[k][z]
        /\ r.changed => transport'[k][s] \in {"open", "nil"}
    BY <1>2, <2>2 DEF TypeOK
  <2>5. /\ \A n \in Nodes : n # k => handing'[n] = handing[n]
        /\ r.changed => handing'[k] = {<<s, "create_ack">>}
    BY <2>1, <2>2 DEF TypeOK
  <2>6. StepOf(k, s)
    BY <1>1, <2>1, <2>2, <2>3, <2>4, <2>5 DEF StepOf
  <2>7. CASE r.changed
    BY Zenon, <1>1, <2>1, <2>2, <2>3, <2>4, <2>5, <2>6, <2>7 DEF TakesCreate, Move, Shape
  <2>8. CASE ~r.changed
    BY Zenon, <1>1, <2>1, <2>2, <2>3, <2>6, <2>8 DEF Repeats, Move, Keeps, Shape
  <2> QED
    BY <2>6, <2>7, <2>8
<1>5. CASE HandleCreateAck(k)
  <2> DEFINE r == HandleRemoteEvent(t, "create_ack")
  <2>1. /\ Reads(k, s, "create_ack") /\ t.state = "created"
        /\ tracker' = [tracker EXCEPT ![k][s] = r.tracker] /\ room' = room
        /\ transport' = transport /\ wire' = Received(k)
        /\ handing' = [handing EXCEPT ![k] = {<<s, r.send>>}]
    BY <1>5 DEF HandleCreateAck, Receives, Reads, Expected, SetTracker, s
  <2>2. r.tracker.state = "added" /\ r.send = "none"
    BY <1>3 DEF HandleRemoteEvent, NextState, Response, Tracker
  <2> HIDE DEF r
  <2>3. /\ tracker'[k][s] = r.tracker
        /\ \A n \in Nodes : n # k => tracker'[n] = tracker[n]
        /\ \A z \in Streams : z # s => tracker'[k][z] = tracker[k][z]
    BY <1>2, <2>1 DEF TypeOK
  <2>4. /\ \A n \in Nodes : n # k => handing'[n] = handing[n]
        /\ handing'[k] = {<<s, "none">>}
    BY <2>1, <2>2 DEF TypeOK
  <2>5. StepOf(k, s)
    BY <1>1, <2>1, <2>3, <2>4 DEF StepOf
  <2> QED
    <3>1. TakesCreateAck(k, s)
      BY Zenon, <1>1, <2>1, <2>2, <2>3, <2>4 DEF TakesCreateAck, Move, Keeps
    <3> QED
      BY Zenon, <2>5, <3>1 DEF Shape
<1>6. CASE HandleClose(k)
  <2> DEFINE r == HandleRemoteEvent(t, "close")
  <2>1. /\ Reads(k, s, "close") /\ t.state \in {"added", "closed"}
        /\ wire' = Sent(Received(k), k, s, "close_ack") /\ handing' = handing
    BY <1>6 DEF HandleClose, Receives, Reads, Expected, s, HandleRemoteEvent, Response
  <2>2. \/ /\ t.state = "added"
           /\ tracker' = [tracker EXCEPT ![k][s] = NewTracker]
           /\ transport' = [transport EXCEPT ![k][s] = "nil"]
           /\ room' = [room EXCEPT ![k] = @ \ {s}]
        \/ /\ t.state = "closed"
           /\ tracker' = tracker /\ transport' = transport /\ room' = room
    BY Zenon, <1>3, <1>6, <2>1 DEF HandleClose, SetTracker, SetTransport, s,
       HandleRemoteEvent, NextState
  <2>3. /\ t.state = "added" => tracker'[k][s] = NewTracker
        /\ \A n \in Nodes : n # k => tracker'[n] = tracker[n]
        /\ \A z \in Streams : z # s => tracker'[k][z] = tracker[k][z]
    BY <1>2, <2>2 DEF TypeOK
  <2>4. /\ t.state = "added" => transport'[k][s] = "nil" /\ s \notin room'[k]
        /\ \A n \in Nodes : n # k => transport'[n] = transport[n]
        /\ \A z \in Streams : z # s => transport'[k][z] = transport[k][z]
    BY <1>2, <2>2 DEF TypeOK
  <2>5. /\ \A n \in Nodes : n # k => room'[n] = room[n]
        /\ \A z \in Streams : z # s => ((z \in room'[k]) <=> (z \in room[k]))
    BY <1>2, <2>2 DEF TypeOK
  <2>6. StepOf(k, s)
    BY <1>1, <2>1, <2>3, <2>4, <2>5 DEF StepOf
  <2>7. CASE t.state = "added"
    <3>1. tracker'[k][s].state = "closed"
      BY <2>3, <2>7 DEF NewTracker
    <3>2. TakesClose(k, s)
      BY Zenon, <1>1, <2>1, <2>4, <2>7, <3>1 DEF TakesClose, Move, Removes
    <3> QED
      BY Zenon, <2>6, <3>2 DEF Shape
  <2>8. CASE t.state = "closed"
    <3>1. tracker' = tracker /\ transport' = transport /\ room' = room
      BY Zenon, <2>2, <2>8
    <3>2. Repeats(k, s)
      BY Zenon, <1>1, <2>1, <2>8, <3>1 DEF Repeats, Move, Keeps
    <3> QED
      BY Zenon, <2>6, <3>2 DEF Shape
  <2> QED
    BY <2>1, <2>6, <2>7, <2>8
<1>7. CASE HandleCloseAck(k)
  <2>1. /\ Reads(k, s, "close_ack") /\ t.state = "write_closed"
        /\ tracker' = [tracker EXCEPT ![k][s] = NewTracker]
        /\ transport' = [transport EXCEPT ![k][s] = "nil"]
        /\ room' = [room EXCEPT ![k] = @ \ {s}]
        /\ wire' = Received(k) /\ handing' = handing
    BY <1>7 DEF HandleCloseAck, Receives, Reads, Expected, SetTracker, SetTransport, s
  <2>3. /\ tracker'[k][s] = NewTracker
        /\ \A n \in Nodes : n # k => tracker'[n] = tracker[n]
        /\ \A z \in Streams : z # s => tracker'[k][z] = tracker[k][z]
    BY <1>2, <2>1 DEF TypeOK
  <2>4. /\ transport'[k][s] = "nil" /\ s \notin room'[k]
        /\ \A n \in Nodes : n # k => transport'[n] = transport[n]
        /\ \A z \in Streams : z # s => transport'[k][z] = transport[k][z]
    BY <1>2, <2>1 DEF TypeOK
  <2>5. /\ \A n \in Nodes : n # k => room'[n] = room[n]
        /\ \A z \in Streams : z # s => ((z \in room'[k]) <=> (z \in room[k]))
    BY <1>2, <2>1 DEF TypeOK
  <2>6. StepOf(k, s)
    BY <1>1, <2>1, <2>3, <2>4, <2>5 DEF StepOf
  <2> QED
    <3>1. tracker'[k][s].state = "closed"
      BY <2>3 DEF NewTracker
    <3>2. TakesCloseAck(k, s)
      BY Zenon, <1>1, <2>1, <2>4, <3>1 DEF TakesCloseAck, Move, Removes
    <3> QED
      BY Zenon, <2>6, <3>2 DEF Shape
<1> QED
  BY <1>4, <1>5, <1>6, <1>7

\* So has the end of a handover.
LEMMA TakeShape ==
  ASSUME TypeOK, NEW k \in Nodes, LocalInv(k), TakeTransport(k), ~Teardown(k)
  PROVE  \E s \in Streams : StepOf(k, s) /\ Shape(k, s)
<1>1. PICK h \in handing[k] :
        /\ transport[k][h[1]] # "nil"
        /\ room' = [room EXCEPT ![k] = @ \cup {h[1]}]
        /\ handing' = [handing EXCEPT ![k] = {}]
        /\ wire' = Sent(wire, k, h[1], h[2])
        /\ up' = up /\ tracker' = tracker /\ transport' = transport
  BY DEF TakeTransport
<1> DEFINE s == h[1]
<1>2. s \in Streams /\ h[2] \in {"create_ack", "none"} /\ h = <<s, h[2]>>
  BY DEF TypeOK
<1>3. /\ \A g \in handing[k] : g[1] = s
      /\ up[k]
  BY DEF LocalInv
<1>4. /\ \A n \in Nodes : n # k => room'[n] = room[n] /\ handing'[n] = handing[n]
      /\ \A z \in Streams : z # s => ((z \in room'[k]) <=> (z \in room[k]))
      /\ s \in room'[k] /\ handing'[k] = {}
  BY <1>1 DEF TypeOK
<1> HIDE DEF s
<1>5. StepOf(k, s)
  BY <1>1, <1>3, <1>4 DEF StepOf
<1>6. HandsOver(k, s)
  BY <1>1, <1>2, <1>4 DEF HandsOver, s
<1> QED
  BY <1>2, <1>5, <1>6 DEF Shape

\* The case split of every invariance proof below.
LEMMA StepCases ==
  ASSUME TypeOK, \A n \in Nodes : LocalInv(n), [Next]_vars
  PROVE  \/ Idle
         \/ \E k \in Nodes : Teardown(k)
         \/ \E k \in Nodes, s \in Streams : StepOf(k, s) /\ Shape(k, s)
<1>1. CASE UNCHANGED vars
  BY <1>1 DEF vars, Idle
<1>2. ASSUME NEW k \in Nodes, NEW s \in Streams,
             CreateTransport(k, s) \/ CloseTransport(k, s)
      PROVE  Teardown(k) \/ (StepOf(k, s) /\ Shape(k, s))
  BY <1>2, CreateShape, CloseShape
<1>3. ASSUME NEW k \in Nodes, HandleRemote(k)
      PROVE  Teardown(k) \/ \E s \in Streams : StepOf(k, s) /\ Shape(k, s)
  BY <1>3, RemoteShape DEF HandleRemote, UnexpectedEvent
<1>4. ASSUME NEW k \in Nodes, TakeTransport(k)
      PROVE  Teardown(k) \/ \E s \in Streams : StepOf(k, s) /\ Shape(k, s)
  BY <1>4, TakeShape
<1>5. ASSUME NEW k \in Nodes, Close(k) \/ Tick(k) \/ ReceivePing(k)
      PROVE  Teardown(k) \/ Idle
  BY <1>5 DEF Close, Tick, ReceivePing, Idle
<1> QED
  BY <1>1, <1>2, <1>3, <1>4, <1>5 DEF Next

\* Every step keeps what each loop knows about its own streams.
LEMMA LocalStep ==
  ASSUME TypeOK, \A n \in Nodes : LocalInv(n), [Next]_vars
  PROVE  \A n \in Nodes : LocalInv(n)'
<1>1. CASE Idle
  BY <1>1, LocalFrame DEF Idle
<1>2. ASSUME NEW k \in Nodes, Teardown(k)
      PROVE  \A n \in Nodes : LocalInv(n)'
  BY <1>2, LocalTeardown
<1>3. ASSUME NEW k \in Nodes, NEW s \in Streams, StepOf(k, s), Shape(k, s),
             NEW n \in Nodes
      PROVE  LocalInv(n)'
  <2>1. CASE n # k
    <3>1. wire \in [Nodes -> Seq(Message)]
      BY DEF TypeOK
    <3>2. \/ \E event \in RemoteEvent \cup {"none"} : wire' = Sent(wire, k, s, event)
          \/ /\ wire[k] # <<>>
             /\ \E event \in RemoteEvent \cup {"none"} :
                  wire' = Sent(Received(k), k, s, event)
      BY Zenon, <1>3 DEF Shape, AsksCreate, AsksClose, Postpones, TakesCreate, TakesCreateAck,
         TakesClose, TakesCloseAck, Repeats, HandsOver, Reads, Sent, RemoteEvent
    <3>3. wire[k] # <<>> =>
            Received(k) \in [Nodes -> Seq(Message)] /\ Received(k)[n] = wire[n]
      BY <2>1, <3>1 DEF Received
    <3>4. ~up[n] => wire'[n] = wire[n]
      <4>1. ASSUME NEW event \in RemoteEvent \cup {"none"}, ~up[n],
                   wire' = Sent(wire, k, s, event)
            PROVE  wire'[n] = wire[n]
        BY <3>1, <4>1, SentFrame
      <4>2. ASSUME NEW event \in RemoteEvent \cup {"none"}, ~up[n], wire[k] # <<>>,
                   wire' = Sent(Received(k), k, s, event)
            PROVE  wire'[n] = wire[n]
        BY <3>3, <4>2, SentFrame
      <4> QED
        BY <3>2, <4>1, <4>2
    <3> QED
      BY <1>3, <2>1, <3>4, LocalFrame DEF StepOf
  <2>2. CASE n = k
    <3>1. /\ \A z \in Streams : z # s => tracker'[k][z] = tracker[k][z]
          /\ \A z \in Streams : z # s => transport'[k][z] = transport[k][z]
          /\ \A z \in Streams : z # s => ((z \in room'[k]) <=> (z \in room[k]))
          /\ \A h \in handing[k] : h[1] = s
          /\ up[k] /\ up'[k] /\ LocalInv(k)
      BY <1>3 DEF StepOf
    <3>2. handing[k] = {} =>
            /\ (transport[k][s] = "nil") <=> (State(k, s) = "closed")
            /\ (transport[k][s] = "write_closed") <=> (State(k, s) = "write_closed")
            /\ (s \in room[k]) <=> (State(k, s) \in {"added", "write_closed"})
      BY Zenon DEF LocalInv
    <3>3. CASE AsksCreate(k, s) \/ AsksClose(k, s) \/ Postpones(k, s)
      <4>1. /\ handing'[k] = {}
            /\ (transport'[k][s] = "nil") <=> (State(k, s)' = "closed")
            /\ (transport'[k][s] = "write_closed") <=> (State(k, s)' = "write_closed")
            /\ (s \in room'[k]) <=> (State(k, s)' \in {"added", "write_closed"})
        BY <3>2, <3>3 DEF AsksCreate, AsksClose, Postpones, Move, Keeps
      <4> QED BY Zenon, <2>2, <3>1, <4>1, LocalUpdate
    <3>4. CASE TakesCreate(k, s)
      <4>1. \E event : /\ handing'[k] = {<<s, event>>}
                       /\ State(k, s)' = "added"
                       /\ s \notin room'[k]
                       /\ transport'[k][s] # "write_closed"
                       /\ event = "none" => transport'[k][s] = "open"
        <5> WITNESS "create_ack"
        <5> QED
          BY Zenon, <3>2, <3>4 DEF TakesCreate, Move
      <4> QED
        BY Zenon, <2>2, <3>1, <4>1, LocalUpdate
    <3>5. CASE TakesCreateAck(k, s)
      <4>1. transport'[k][s] = "open"
        BY <3>2, <3>5 DEF TakesCreateAck, Move, Keeps, TypeOK
      <4> QED
        BY Zenon, <2>2, <3>1, <3>2, <3>5, <4>1, LocalUpdate DEF TakesCreateAck, Move, Keeps
    <3>6. CASE TakesClose(k, s) \/ TakesCloseAck(k, s)
      BY Zenon, <2>2, <3>1, <3>6, LocalUpdate DEF TakesClose, TakesCloseAck, Move, Removes
    <3>7. CASE Repeats(k, s)
      BY <2>2, <3>1, <3>2, <3>7, LocalUpdate DEF Repeats, Move, Keeps
    <3>8. CASE HandsOver(k, s)
      <4>1. /\ State(k, s) = "added" /\ transport[k][s] # "write_closed"
            /\ State(k, s)' = "added"
        <5>1. PICK event : <<s, event>> \in handing[k] /\ tracker'[k][s] = tracker[k][s]
          BY Zenon, <3>8 DEF HandsOver
        <5>2. \A h \in handing[k] :
                tracker[k][h[1]].state = "added" /\ transport[k][h[1]] # "write_closed"
          BY Zenon DEF LocalInv
        <5> QED
          BY <5>1, <5>2
      <4> QED
        BY Zenon, <2>2, <3>1, <3>8, <4>1, LocalUpdate DEF HandsOver
    <3> QED
      BY Zenon, <1>3, <3>3, <3>4, <3>5, <3>6, <3>7, <3>8 DEF Shape
  <2> QED
    BY <2>1, <2>2
<1> QED
  BY <1>1, <1>2, <1>3, StepCases

-----------------------------------------------------------------------------
USE DEF State

-----------------------------------------------------------------------------
(* The two ends of a link.                                                 *)

\* Where an event of controlTransport.Send arrives: last on the peer's wire.
LEMMA SentWire ==
  ASSUME NEW w \in [Nodes -> Seq(Message)], NEW k \in Nodes, NEW s \in Streams,
         NEW event \in RemoteEvent, up[Peer[k]], Ordered(w[Peer[k]]),
         \A e \in RemoteEvent : On(w[Peer[k]], s, e) => Follows(e, event)
  PROVE  /\ Ordered(Sent(w, k, s, event)[Peer[k]])
         /\ \A z \in Streams, e \in RemoteEvent :
              On(Sent(w, k, s, event)[Peer[k]], z, e)
                <=> On(w[Peer[k]], z, e) \/ (z = s /\ e = event)
         /\ \A n \in Nodes : n # Peer[k] => Sent(w, k, s, event)[n] = w[n]
<1> DEFINE p == Peer[k]
           m == [stream |-> s, type |-> event]
<1>1. p \in Nodes
  BY PeerOf
<1>2. Sent(w, k, s, event)[p] = Append(w[p], m)
  BY <1>1 DEF Sent, RemoteEvent
<1>3. m \in Message /\ m.stream = s /\ m.type = event
  BY DEF Message
<1>4. \A n \in Nodes : n # p => Sent(w, k, s, event)[n] = w[n]
  BY <1>1 DEF Sent
<1>5. w[p] \in Seq(Message)
  BY <1>1
<1> HIDE DEF p, m
<1>6. \A i \in 1..Len(w[p]) : w[p][i].stream = m.stream => Follows(w[p][i].type, m.type)
  <2> SUFFICES ASSUME NEW i \in 1..Len(w[p]), w[p][i].stream = s
               PROVE  Follows(w[p][i].type, event)
    BY <1>3
  <2>1. w[p][i] \in Message
    BY <1>5
  <2>2. w[p][i].type \in RemoteEvent
    BY <2>1 DEF Message
  <2>3. On(w[p], s, w[p][i].type)
    BY DEF On
  <2> QED
    BY <2>2, <2>3 DEF p
<1>7. Ordered(w[p])
  BY DEF p
<1>8. /\ Ordered(Append(w[p], m))
      /\ \A z \in Streams, e \in RemoteEvent :
           On(Append(w[p], m), z, e) <=> On(w[p], z, e) \/ (m.stream = z /\ m.type = e)
  BY Zenon, <1>3, <1>5, <1>6, <1>7, AppendWire
<1> QED
  BY <1>2, <1>3, <1>4, <1>8 DEF p

USE DEF Has, Owes

\* A step about s leaves the events of other streams and the other links alone.
WireStep(k, s) ==
  /\ Ordered(wire'[k]) /\ Ordered(wire'[Peer[k]])
  /\ \A n \in Nodes : n # k /\ n # Peer[k] => wire'[n] = wire[n]
  /\ \A z \in Streams, e \in RemoteEvent :
       z # s => (On(wire'[k], z, e) <=> On(wire[k], z, e))
  /\ \A z \in Streams, e \in RemoteEvent :
       z # s => (On(wire'[Peer[k]], z, e) <=> On(wire[Peer[k]], z, e))

\* The events of s at both ends: k took one event, or none, and sent one, or
\* none.
Events(k, s, taken, sent) ==
  \A e \in RemoteEvent :
    /\ On(wire'[k], s, e) <=> On(wire[k], s, e) /\ e # taken
    /\ On(wire'[Peer[k]], s, e) <=> On(wire[Peer[k]], s, e) \/ e = sent

\* k sends, having received nothing.
LEMMA SendEffect ==
  ASSUME TypeOK, NEW k \in Nodes, NEW s \in Streams, NEW event \in RemoteEvent,
         Ordered(wire[k]), Ordered(wire[Peer[k]]), up[Peer[k]],
         \A e \in RemoteEvent : On(wire[Peer[k]], s, e) => Follows(e, event),
         wire' = Sent(wire, k, s, event)
  PROVE  WireStep(k, s) /\ Events(k, s, "none", event)
<1>1. wire \in [Nodes -> Seq(Message)] /\ "none" \notin RemoteEvent
  BY DEF TypeOK, RemoteEvent
<1>2. k # Peer[k] /\ Peer[k] \in Nodes
  BY PeerOf
<1>3. /\ Ordered(wire'[Peer[k]])
      /\ \A z \in Streams, e \in RemoteEvent :
           On(wire'[Peer[k]], z, e) <=> On(wire[Peer[k]], z, e) \/ (z = s /\ e = event)
      /\ \A n \in Nodes : n # Peer[k] => wire'[n] = wire[n]
  BY <1>1, SentWire
<1> QED
  BY <1>1, <1>2, <1>3 DEF WireStep, Events

\* k receives and sends nothing.
LEMMA ReceiveEffect ==
  ASSUME TypeOK, NEW k \in Nodes, NEW s \in Streams, NEW event \in RemoteEvent,
         Ordered(wire[k]), Ordered(wire[Peer[k]]), Reads(k, s, event)
  PROVE  /\ Received(k) \in [Nodes -> Seq(Message)]
         /\ \A n \in Nodes : n # k => Received(k)[n] = wire[n]
         /\ On(wire[k], s, event)
         /\ wire' = Received(k) => WireStep(k, s) /\ Events(k, s, event, "none")
         /\ Ordered(Received(k)[k])
         /\ \A z \in Streams, e \in RemoteEvent :
              On(Received(k)[k], z, e) <=> On(wire[k], z, e) /\ ~(z = s /\ e = event)
<1>1. wire \in [Nodes -> Seq(Message)] /\ wire[k] \in Seq(Message) /\ wire[k] # <<>>
  BY DEF TypeOK, Reads
<1>2. k # Peer[k] /\ Peer[k] \in Nodes
  BY PeerOf
<1>3. /\ Ordered(Tail(wire[k])) /\ On(wire[k], s, event)
      /\ \A z \in Streams, e \in RemoteEvent :
           On(Tail(wire[k]), z, e) <=> On(wire[k], z, e) /\ ~(s = z /\ event = e)
  BY <1>1, TailWire DEF Reads
<1>4. /\ Received(k) \in [Nodes -> Seq(Message)] /\ Received(k)[k] = Tail(wire[k])
      /\ \A n \in Nodes : n # k => Received(k)[n] = wire[n]
  BY <1>1 DEF Received
<1>5. "none" \notin RemoteEvent
  BY DEF RemoteEvent
<1> QED
  BY Zenon, <1>2, <1>3, <1>4, <1>5 DEF WireStep, Events

\* k receives a request and sends the response.
LEMMA ReplyEffect ==
  ASSUME TypeOK, NEW k \in Nodes, NEW s \in Streams, NEW event \in RemoteEvent,
         NEW reply \in RemoteEvent,
         Ordered(wire[k]), Ordered(wire[Peer[k]]), Reads(k, s, event), up[Peer[k]],
         \A e \in RemoteEvent : On(wire[Peer[k]], s, e) => Follows(e, reply),
         wire' = Sent(Received(k), k, s, reply)
  PROVE  WireStep(k, s) /\ Events(k, s, event, reply) /\ On(wire[k], s, event)
<1>1. k # Peer[k] /\ Peer[k] \in Nodes
  BY PeerOf
<1> DEFINE w == Received(k)
<1>2. /\ w \in [Nodes -> Seq(Message)]
      /\ \A n \in Nodes : n # k => w[n] = wire[n]
      /\ Ordered(w[k]) /\ On(wire[k], s, event)
      /\ \A z \in Streams, e \in RemoteEvent :
           On(w[k], z, e) <=> On(wire[k], z, e) /\ ~(z = s /\ e = event)
  <2>1. w \in [Nodes -> Seq(Message)] /\ \A n \in Nodes : n # k => w[n] = wire[n]
    BY Zenon, ReceiveEffect
  <2>2. Ordered(w[k]) /\ On(wire[k], s, event)
    BY Zenon, ReceiveEffect
  <2>3. ASSUME NEW z \in Streams, NEW e \in RemoteEvent
        PROVE  On(w[k], z, e) <=> On(wire[k], z, e) /\ ~(z = s /\ e = event)
    BY ReceiveEffect
  <2> QED BY Zenon, <2>1, <2>2, <2>3
<1> HIDE DEF w
<1>3. wire' = Sent(w, k, s, reply)
  BY DEF w
<1>4. /\ w[Peer[k]] = wire[Peer[k]] /\ Ordered(w[Peer[k]])
      /\ \A e \in RemoteEvent : On(w[Peer[k]], s, e) => Follows(e, reply)
  BY <1>1, <1>2
<1> DEFINE v == Sent(w, k, s, reply)
<1>5. w \in [Nodes -> Seq(Message)]
  BY <1>2
<1>6. /\ Ordered(v[Peer[k]])
      /\ \A z \in Streams, e \in RemoteEvent :
           On(v[Peer[k]], z, e) <=> On(w[Peer[k]], z, e) \/ (z = s /\ e = reply)
      /\ \A n \in Nodes : n # Peer[k] => v[n] = w[n]
  BY <1>4, <1>5, SentWire
<1> HIDE DEF v
<1>7. wire' = v
  BY <1>3 DEF v
<1> QED
  BY Zenon, <1>1, <1>2, <1>4, <1>6, <1>7 DEF WireStep, Events

\* k's own part of a step when the other end is down: nothing is sent.
LEMMA AloneWire ==
  ASSUME NEW k \in Nodes, NEW s \in Streams, Shape(k, s), ~up[Peer[k]]
  PROVE  \/ wire' = wire
         \/ \E event \in RemoteEvent : Reads(k, s, event) /\ wire' = Received(k)
<1>1. ASSUME NEW w, NEW event PROVE Sent(w, k, s, event) = w
  BY Zenon DEF Sent
<1>2. /\ "create" \in RemoteEvent /\ "create_ack" \in RemoteEvent
      /\ "close" \in RemoteEvent /\ "close_ack" \in RemoteEvent
  BY DEF RemoteEvent
<1>3. CASE AsksCreate(k, s) \/ AsksClose(k, s) \/ Postpones(k, s) \/ HandsOver(k, s)
  BY Zenon, <1>1, <1>3 DEF AsksCreate, AsksClose, Postpones, HandsOver
<1>4. CASE TakesCreate(k, s) \/ TakesCreateAck(k, s) \/ TakesCloseAck(k, s)
  BY Zenon, <1>2, <1>4 DEF TakesCreate, TakesCreateAck, TakesCloseAck
<1>5. CASE TakesClose(k, s) \/ Repeats(k, s)
  BY Zenon, <1>1, <1>2, <1>5 DEF TakesClose, Repeats
<1> QED
  BY Zenon, <1>3, <1>4, <1>5 DEF Shape

\* What LinkInv says of both ends of k's link.
BothEnds(k, s) == LinkInv(k, s) /\ LinkInv(Peer[k], s)

\* A step of k about s keeps the agreement of the two ends about s.
LEMMA LinkShape ==
  ASSUME TypeOK, NEW k \in Nodes, NEW s \in Streams, StepOf(k, s), Shape(k, s),
         LocalInv(k), Ordered(wire[k]), Ordered(wire[Peer[k]]), up[Peer[k]],
         BothEnds(k, s)
  PROVE  WireStep(k, s) /\ BothEnds(k, s)'
<1> DEFINE p == Peer[k]
<1>1. p \in Nodes /\ p # k /\ Peer[p] = k /\ Peer[k] = p
  BY PeerOf
<1>2. tracker'[p][s].state = tracker[p][s].state /\ handing'[p] = handing[p]
  BY <1>1 DEF StepOf
<1>3. tracker[p][s].state \in ControlState /\ tracker[k][s].state \in ControlState
  BY <1>1 DEF TypeOK, Tracker
<1>4. {"create", "create_ack", "close", "close_ack"} = RemoteEvent
  BY DEF RemoteEvent
<1>5. LinkInv(k, s) /\ LinkInv(p, s)
  BY DEF BothEnds
<1> SUFFICES WireStep(k, s) /\ LinkInv(k, s)' /\ LinkInv(p, s)'
  BY DEF BothEnds
<1> HIDE DEF p
<1>a. CASE AsksCreate(k, s)
  <2>1. /\ tracker[k][s].state = "closed" /\ tracker'[k][s].state = "created"
        /\ handing[k] = {} /\ handing'[k] = {} /\ wire' = Sent(wire, k, s, "create")
    BY <1>a DEF AsksCreate, Move
  <2>2. \A e \in RemoteEvent : On(wire[p], s, e) => Follows(e, "create")
    BY Zenon, <1>1, <1>5, <2>1 DEF LinkInv, Follows, RemoteEvent
  <2>3. WireStep(k, s) /\ Events(k, s, "none", "create")
    BY <1>1, <1>4, <2>1, <2>2, SendEffect
  <2>4. /\ \A e \in RemoteEvent : On(wire'[k], s, e) <=> On(wire[k], s, e)
        /\ \A e \in RemoteEvent : On(wire'[p], s, e) <=> On(wire[p], s, e) \/ e = "create"
    BY <1>1, <2>3 DEF Events, RemoteEvent
  <2>5. LinkInv(k, s)'
    BY Zenon, <1>1, <1>2, <1>5, <2>1, <2>4 DEF LinkInv, RemoteEvent
  <2>6. LinkInv(p, s)'
    BY Zenon, <1>1, <1>2, <1>3, <1>5, <2>1, <2>4 DEF LinkInv, RemoteEvent, ControlState
  <2> QED
    BY <2>3, <2>5, <2>6
<1>b. CASE AsksClose(k, s)
  <2>1. /\ tracker[k][s].state = "added" /\ tracker'[k][s].state = "write_closed"
        /\ handing[k] = {} /\ handing'[k] = {} /\ wire' = Sent(wire, k, s, "close")
    BY Zenon, <1>b DEF AsksClose, Move
  <2>2. \A e \in RemoteEvent : On(wire[p], s, e) => Follows(e, "close")
    BY Zenon, <1>1, <1>5, <2>1 DEF LinkInv, Follows, RemoteEvent
  <2>3. WireStep(k, s) /\ Events(k, s, "none", "close")
    BY Zenon, <1>1, <1>4, <2>1, <2>2, SendEffect
  <2>4. /\ \A e \in RemoteEvent : On(wire'[k], s, e) <=> On(wire[k], s, e)
        /\ \A e \in RemoteEvent : On(wire'[p], s, e) <=> On(wire[p], s, e) \/ e = "close"
    BY Zenon, <1>1, <2>3 DEF Events, RemoteEvent
  <2>5. LinkInv(k, s)'
    BY Zenon, <1>1, <1>2, <1>3, <1>5, <2>1, <2>4 DEF LinkInv, RemoteEvent, ControlState
  <2>6. LinkInv(p, s)'
    BY Zenon, <1>1, <1>2, <1>3, <1>5, <2>1, <2>4 DEF LinkInv, RemoteEvent, ControlState
  <2> QED
    BY Zenon, <2>3, <2>5, <2>6
<1>c. CASE Postpones(k, s)
  <2>1. /\ tracker'[k][s].state = tracker[k][s].state
        /\ handing[k] = {} /\ handing'[k] = {} /\ wire' = wire
    BY Zenon, <1>c DEF Postpones
  <2>2. WireStep(k, s)
    BY <1>1, <2>1 DEF WireStep
  <2>3. LinkInv(k, s)' /\ LinkInv(p, s)'
    BY <1>1, <1>2, <1>5, <2>1 DEF LinkInv
  <2> QED
    BY Zenon, <2>2, <2>3
<1>d. CASE TakesCreate(k, s)
  <2>1. /\ tracker[k][s].state = "closed" /\ tracker'[k][s].state = "added"
        /\ handing[k] = {} /\ handing'[k] = {<<s, "create_ack">>}
        /\ Reads(k, s, "create") /\ wire' = Received(k)
    BY <1>d DEF TakesCreate, Move
  <2>2. /\ WireStep(k, s) /\ Events(k, s, "create", "none") /\ On(wire[k], s, "create")
    BY Zenon, <1>1, <1>4, <2>1, ReceiveEffect
  <2>3. /\ \A e \in RemoteEvent : On(wire'[k], s, e) <=> On(wire[k], s, e) /\ e # "create"
        /\ \A e \in RemoteEvent : On(wire'[p], s, e) <=> On(wire[p], s, e)
    BY Zenon, <1>1, <2>2 DEF Events, RemoteEvent
  <2>4. LinkInv(k, s)'
    BY Zenon, <1>1, <1>2, <1>5, <2>1, <2>2, <2>3 DEF LinkInv, RemoteEvent
  <2>5. LinkInv(p, s)'
    BY Zenon, <1>1, <1>2, <1>5, <2>1, <2>2, <2>3 DEF LinkInv, RemoteEvent
  <2> QED
    BY Zenon, <2>2, <2>4, <2>5
<1>e. CASE TakesCreateAck(k, s)
  <2>1. /\ tracker[k][s].state = "created" /\ tracker'[k][s].state = "added"
        /\ handing[k] = {} /\ handing'[k] = {<<s, "none">>}
        /\ Reads(k, s, "create_ack") /\ wire' = Received(k)
    BY Zenon, <1>e DEF TakesCreateAck, Move
  <2>2. WireStep(k, s) /\ Events(k, s, "create_ack", "none") /\ On(wire[k], s, "create_ack")
    BY <1>1, <1>4, <2>1, ReceiveEffect
  <2>3. /\ \A e \in RemoteEvent :
             On(wire'[k], s, e) <=> On(wire[k], s, e) /\ e # "create_ack"
        /\ \A e \in RemoteEvent : On(wire'[p], s, e) <=> On(wire[p], s, e)
    BY Zenon, <1>1, <2>2 DEF Events, RemoteEvent
  <2>4. <<s, "create_ack">> \notin handing'[k]
    BY Zenon, <2>1
  <2>5. LinkInv(k, s)'
    BY Zenon, <1>1, <1>2, <1>5, <2>1, <2>2, <2>3, <2>4 DEF LinkInv, RemoteEvent
  <2>6. LinkInv(p, s)'
    BY Zenon, <1>1, <1>2, <1>5, <2>1, <2>2, <2>3, <2>4 DEF LinkInv, RemoteEvent
  <2> QED
    BY Zenon, <2>2, <2>5, <2>6
<1>f. CASE TakesClose(k, s)
  <2>1. /\ tracker[k][s].state = "added" /\ tracker'[k][s].state = "closed"
        /\ handing[k] = {} /\ handing'[k] = {}
        /\ Reads(k, s, "close") /\ wire' = Sent(Received(k), k, s, "close_ack")
    BY Zenon, <1>f DEF TakesClose, Move
  <2>2. On(wire[k], s, "close")
    BY Zenon, <1>1, <1>4, <2>1, ReceiveEffect
  <2>3. \A e \in RemoteEvent : On(wire[p], s, e) => Follows(e, "close_ack")
    BY Zenon, <1>1, <1>5, <2>1, <2>2 DEF LinkInv, Follows, RemoteEvent
  <2>4. WireStep(k, s) /\ Events(k, s, "close", "close_ack")
    BY Zenon, <1>1, <1>4, <2>1, <2>3, ReplyEffect
  <2>5. /\ \A e \in RemoteEvent : On(wire'[k], s, e) <=> On(wire[k], s, e) /\ e # "close"
        /\ \A e \in RemoteEvent :
             On(wire'[p], s, e) <=> On(wire[p], s, e) \/ e = "close_ack"
    BY Zenon, <1>1, <2>4 DEF Events, RemoteEvent
  <2>6. LinkInv(k, s)'
    BY Zenon, <1>1, <1>2, <1>5, <2>1, <2>2, <2>5 DEF LinkInv, RemoteEvent
  <2>7. LinkInv(p, s)'
    BY Zenon, <1>1, <1>2, <1>5, <2>1, <2>2, <2>5 DEF LinkInv, RemoteEvent
  <2> QED
    BY Zenon, <2>4, <2>6, <2>7
<1>g. CASE TakesCloseAck(k, s)
  <2>1. /\ tracker[k][s].state = "write_closed" /\ tracker'[k][s].state = "closed"
        /\ handing[k] = {} /\ handing'[k] = {}
        /\ Reads(k, s, "close_ack") /\ wire' = Received(k)
    BY Zenon, <1>g DEF TakesCloseAck, Move
  <2>2. WireStep(k, s) /\ Events(k, s, "close_ack", "none") /\ On(wire[k], s, "close_ack")
    BY Zenon, <1>1, <1>4, <2>1, ReceiveEffect
  <2>3. /\ \A e \in RemoteEvent :
             On(wire'[k], s, e) <=> On(wire[k], s, e) /\ e # "close_ack"
        /\ \A e \in RemoteEvent : On(wire'[p], s, e) <=> On(wire[p], s, e)
    BY <1>1, <2>2 DEF Events, RemoteEvent
  <2>4. LinkInv(k, s)'
    BY Zenon, <1>1, <1>2, <1>5, <2>1, <2>2, <2>3 DEF LinkInv, RemoteEvent
  <2>5. LinkInv(p, s)'
    BY Zenon, <1>1, <1>2, <1>5, <2>1, <2>2, <2>3 DEF LinkInv, RemoteEvent
  <2> QED
    BY Zenon, <2>2, <2>4, <2>5
<1>h. CASE Repeats(k, s)
  <2>1. CASE Reads(k, s, "create") /\ tracker[k][s].state = "added"
    <3>1. On(wire[k], s, "create")
      BY Zenon, <1>1, <1>4, <2>1, ReceiveEffect
    <3> QED
      BY Zenon, <1>5, <2>1, <3>1 DEF LinkInv
  <2>2. CASE Reads(k, s, "close") /\ tracker[k][s].state = "closed"
    <3>1. On(wire[k], s, "close")
      BY Zenon, <1>1, <1>4, <2>2, ReceiveEffect
    <3> QED
      BY Zenon, <1>5, <2>2, <3>1 DEF LinkInv
  <2> QED
    BY Zenon, <1>h, <2>1, <2>2 DEF Repeats, Move
<1>i. CASE HandsOver(k, s)
  <2>1. PICK event \in {"create_ack", "none"} :
          /\ <<s, event>> \in handing[k] /\ handing'[k] = {}
          /\ tracker'[k][s] = tracker[k][s] /\ wire' = Sent(wire, k, s, event)
    BY Zenon, <1>i DEF HandsOver
  <2>2. \A g, h \in handing[k] : g = h
    BY DEF LocalInv
  <2>3. tracker[k][s].state = "added"
    BY <2>1 DEF LocalInv
  <2>4. CASE event = "none"
    <3>1. wire' = wire
      BY Zenon, <2>1, <2>4 DEF Sent
    <3>2. <<s, "create_ack">> \notin handing[k]
      BY <2>1, <2>2, <2>4
    <3>3. LinkInv(k, s)' /\ LinkInv(p, s)'
      BY <1>1, <1>2, <1>5, <2>1, <3>1, <3>2 DEF LinkInv
    <3> QED
      BY Zenon, <1>1, <3>1, <3>3 DEF WireStep
  <2>5. CASE event = "create_ack"
    <3>1. \A e \in RemoteEvent : On(wire[p], s, e) => Follows(e, "create_ack")
      BY <1>1, <1>5, <2>1, <2>3, <2>5 DEF LinkInv, Follows, RemoteEvent
    <3>2. WireStep(k, s) /\ Events(k, s, "none", "create_ack")
      BY Zenon, <1>1, <1>4, <2>1, <2>5, <3>1, SendEffect
    <3>3. /\ \A e \in RemoteEvent : On(wire'[k], s, e) <=> On(wire[k], s, e)
          /\ \A e \in RemoteEvent :
               On(wire'[p], s, e) <=> On(wire[p], s, e) \/ e = "create_ack"
      BY <1>1, <3>2 DEF Events, RemoteEvent
    <3>4. LinkInv(k, s)'
      BY <1>1, <1>2, <1>5, <2>1, <2>3, <2>5, <3>3 DEF LinkInv, RemoteEvent
    <3>5. LinkInv(p, s)'
      BY <1>1, <1>2, <1>5, <2>1, <2>3, <2>5, <3>3 DEF LinkInv, RemoteEvent
    <3> QED
      BY Zenon, <3>2, <3>4, <3>5
  <2> QED
    BY <2>4, <2>5
<1> QED
  BY Zenon, <1>a, <1>b, <1>c, <1>d, <1>e, <1>f, <1>g, <1>h, <1>i DEF Shape

\* An agreement that neither end's part of changes.
LEMMA LinkFrame ==
  ASSUME NEW n \in Nodes, NEW p \in Nodes, p = Peer[n], NEW s \in Streams, LinkInv(n, s),
         tracker'[n][s] = tracker[n][s], tracker'[p][s] = tracker[p][s],
         \A e \in RemoteEvent : On(wire'[n], s, e) <=> On(wire[n], s, e),
         \A e \in RemoteEvent : On(wire'[p], s, e) <=> On(wire[p], s, e),
         (<<s, "create_ack">> \in handing'[n]) <=> (<<s, "create_ack">> \in handing[n]),
         (<<s, "create_ack">> \in handing'[p]) <=> (<<s, "create_ack">> \in handing[p])
  PROVE  LinkInv(n, s)'
  BY Zenon DEF LinkInv, RemoteEvent

\* The ends of a link stay in agreement in every step.
LEMMA LinksStep ==
  ASSUME TypeOK, IInv, [Next]_vars
  PROVE  Links'
<1>1. /\ \A n \in Nodes : LocalInv(n)
      /\ \A n \in Nodes : Ordered(wire[n])
      /\ \A n \in Nodes, s \in Streams : up[n] /\ up[Peer[n]] => LinkInv(n, s)
  BY DEF IInv, Links
<1>2. CASE Idle
  <2>1. up' = up /\ tracker' = tracker /\ handing' = handing /\ wire' = wire
    BY Zenon, <1>2 DEF Idle
  <2>2. ASSUME NEW n \in Nodes, NEW s \in Streams, up'[n], up'[Peer[n]]
        PROVE  LinkInv(n, s)'
    <3>1. LinkInv(n, s) /\ Peer[n] \in Nodes
      BY <1>1, <2>1, <2>2, PeerOf
    <3> QED
      BY Zenon, <2>1, <3>1, LinkFrame
  <2> QED
    BY Zenon, <1>1, <2>1, <2>2 DEF Links
<1>3. ASSUME NEW k \in Nodes, Teardown(k)
      PROVE  Links'
  <2>1. PICK i \in 0..Len(wire[Peer[k]]) :
          wire' = [m \in Nodes |-> CASE m = k       -> <<>>
                                     [] m = Peer[k] -> SubSeq(wire[m], 1, i)
                                     [] OTHER       -> wire[m]]
    BY <1>3 DEF Teardown
  <2>2. Peer[k] \in Nodes /\ Peer[k] # k /\ Peer[Peer[k]] = k
    BY PeerOf
  <2>3. /\ wire'[k] = <<>> /\ wire'[Peer[k]] = SubSeq(wire[Peer[k]], 1, i)
        /\ \A n \in Nodes : n # k /\ n # Peer[k] => wire'[n] = wire[n]
    BY <2>1, <2>2
  <2>4. Ordered(SubSeq(wire[Peer[k]], 1, i))
    BY <1>1, <2>2, PrefixWire DEF TypeOK
  <2>5. Ordered(<<>>)
    BY DEF Ordered
  <2>6. \A n \in Nodes : Ordered(wire'[n])
    BY Zenon, <1>1, <2>3, <2>4, <2>5
  <2>7. ASSUME NEW n \in Nodes, NEW s \in Streams, up'[n], up'[Peer[n]]
        PROVE  LinkInv(n, s)'
    <3>1. Peer[n] \in Nodes /\ Peer[Peer[n]] = n
      BY PeerOf
    <3>2. n # k /\ Peer[n] # k /\ up[n] /\ up[Peer[n]]
      BY <1>3, <2>7, <3>1 DEF Teardown, TypeOK
    <3>3. n # Peer[k] /\ Peer[n] # Peer[k]
      BY <2>2, <3>1, <3>2
    <3>4. /\ tracker'[n] = tracker[n] /\ tracker'[Peer[n]] = tracker[Peer[n]]
          /\ handing'[n] = handing[n] /\ handing'[Peer[n]] = handing[Peer[n]]
      BY <1>3, <3>1, <3>2 DEF Teardown, TypeOK
    <3>5. wire'[n] = wire[n] /\ wire'[Peer[n]] = wire[Peer[n]]
      BY <2>3, <3>1, <3>2, <3>3
    <3>6. LinkInv(n, s)
      BY <1>1, <3>2
    <3> QED
      BY Zenon, <3>1, <3>4, <3>5, <3>6, LinkFrame
  <2> QED
    BY Zenon, <2>6, <2>7 DEF Links
<1>4. ASSUME NEW k \in Nodes, NEW s \in Streams, StepOf(k, s), Shape(k, s)
      PROVE  Links'
  <2> DEFINE p == Peer[k]
  <2>1. p \in Nodes /\ p # k /\ Peer[p] = k /\ Peer[k] = p
    BY PeerOf
  <2>2. /\ up[k] /\ up' = up
        /\ \A n \in Nodes : n # k => tracker'[n] = tracker[n] /\ handing'[n] = handing[n]
        /\ \A z \in Streams : z # s => tracker'[k][z] = tracker[k][z]
        /\ \A z \in Streams : z # s => /\ <<z, "create_ack">> \notin handing[k]
                                       /\ <<z, "create_ack">> \notin handing'[k]
    BY <1>4 DEF StepOf
  <2> HIDE DEF p
  \* The wires of the other links are left alone, and all stay ordered.
  <2>3. /\ \A n \in Nodes : n # k /\ n # p => wire'[n] = wire[n]
        /\ Ordered(wire'[k]) /\ Ordered(wire'[p])
        /\ up[p] => WireStep(k, s) /\ LinkInv(k, s)' /\ LinkInv(p, s)'
    <3>1. CASE up[p]
      <4>1. BothEnds(k, s)
        BY <1>1, <2>1, <2>2, <3>1 DEF BothEnds
      <4>2. WireStep(k, s) /\ BothEnds(k, s)'
        BY <1>1, <1>4, <2>1, <3>1, <4>1, LinkShape
      <4> QED
        BY Zenon, <2>1, <4>2 DEF WireStep, BothEnds
    <3>2. CASE ~up[p]
      <4>2. \/ wire' = wire
            \/ \E event \in RemoteEvent : Reads(k, s, event) /\ wire' = Received(k)
        BY Zenon, <2>1, <1>4, <3>2, AloneWire
      <4>3. CASE wire' = wire
        BY <1>1, <2>1, <3>2, <4>3
      <4>4. ASSUME NEW event \in RemoteEvent, Reads(k, s, event), wire' = Received(k)
            PROVE  WireStep(k, s)
        BY Zenon, <1>1, <2>1, <4>4, ReceiveEffect
      <4> QED
        BY Zenon, <2>1, <3>2, <4>2, <4>3, <4>4 DEF WireStep
    <3> QED
      BY <3>1, <3>2
  <2>4. \A n \in Nodes : Ordered(wire'[n])
    BY Zenon, <1>1, <2>3
  <2>5. ASSUME NEW n \in Nodes, NEW z \in Streams, up'[n], up'[Peer[n]]
        PROVE  LinkInv(n, z)'
    <3>1. Peer[n] \in Nodes /\ Peer[n] # n /\ Peer[Peer[n]] = n
      BY PeerOf
    <3>2. LinkInv(n, z) /\ up[n] /\ up[Peer[n]]
      BY <1>1, <2>2, <2>5
    <3>3. CASE n # k /\ n # p
      <4>1. Peer[n] # k /\ Peer[n] # p
        BY <2>1, <3>1, <3>3
      <4>2. /\ tracker'[n] = tracker[n] /\ tracker'[Peer[n]] = tracker[Peer[n]]
            /\ handing'[n] = handing[n] /\ handing'[Peer[n]] = handing[Peer[n]]
            /\ wire'[n] = wire[n] /\ wire'[Peer[n]] = wire[Peer[n]]
        BY <2>2, <2>3, <3>1, <3>3, <4>1
      <4> QED
        BY Zenon, <3>1, <3>2, <4>2, LinkFrame
    <3>4. CASE n \in {k, p} /\ z = s
      BY <2>1, <2>3, <3>2, <3>4
    <3>5. CASE n \in {k, p} /\ z # s
      <4>1. WireStep(k, s)
        BY <2>1, <2>3, <3>2, <3>5
      <4>2. /\ \A e \in RemoteEvent : On(wire'[k], z, e) <=> On(wire[k], z, e)
            /\ \A e \in RemoteEvent : On(wire'[p], z, e) <=> On(wire[p], z, e)
        BY <2>1, <3>5, <4>1 DEF WireStep
      <4>3. /\ tracker'[k][z] = tracker[k][z] /\ tracker'[p][z] = tracker[p][z]
            /\ (<<z, "create_ack">> \in handing'[k]) <=> (<<z, "create_ack">> \in handing[k])
            /\ (<<z, "create_ack">> \in handing'[p]) <=> (<<z, "create_ack">> \in handing[p])
        BY <2>1, <2>2, <3>5
      <4>4. CASE n = k
        BY Zenon, <2>1, <3>2, <4>2, <4>3, <4>4, LinkFrame
      <4>5. CASE n = p
        BY Zenon, <2>1, <3>2, <4>2, <4>3, <4>5, LinkFrame
      <4> QED
        BY <3>5, <4>4, <4>5
    <3> QED
      BY <3>3, <3>4, <3>5
  <2> QED
    BY <2>4, <2>5 DEF Links
<1> QED
  BY Zenon, <1>1, <1>2, <1>3, <1>4, StepCases

-----------------------------------------------------------------------------
(* The safety properties.                                                  *)

\* The loops of factory.go keep their own streams consistent and the two ends
\* of every link in agreement about what is still on its way between them.
THEOREM Invariance == Spec => []IInv
<1>1. Init => IInv
  <2> SUFFICES ASSUME Init PROVE IInv
    OBVIOUS
  <2>1. \A n \in Nodes : /\ wire[n] = <<>> /\ handing[n] = {} /\ room[n] = {}
                         /\ \A s \in Streams : tracker[n][s].state = "closed"
                         /\ \A s \in Streams : transport[n][s] = "nil"
    BY DEF Init, NewTracker
  <2>2. ASSUME NEW n \in Nodes PROVE LocalInv(n)
    <3>2. handing[n] = {} /\ wire[n] = <<>> /\ room[n] = {}
      BY <2>1
    <3>3. \A s \in Streams : transport[n][s] = "nil" /\ tracker[n][s].state = "closed"
      BY <2>1
    <3>4. ASSUME NEW s \in Streams
          PROVE  /\ (transport[n][s] = "nil") <=> (tracker[n][s].state = "closed")
                 /\ (transport[n][s] = "write_closed") <=> (tracker[n][s].state = "write_closed")
                 /\ (s \in room[n]) <=> (tracker[n][s].state \in {"added", "write_closed"})
      BY <3>2, <3>3
    <3> QED
      BY <3>2, <3>3, <3>4 DEF LocalInv
  <2>3. \A n \in Nodes : Ordered(wire[n])
    BY <2>1 DEF Ordered
  <2>4. \A n \in Nodes, s \in Streams, e \in RemoteEvent : ~On(wire[n], s, e)
    BY <2>1 DEF On
  <2>5. ASSUME NEW n \in Nodes, NEW s \in Streams PROVE LinkInv(n, s)
    BY <2>1, <2>4, PeerOf DEF LinkInv, RemoteEvent
  <2> QED
    BY <2>2, <2>3, <2>5 DEF IInv, Links
<1>2. TypeOK /\ IInv /\ [Next]_vars => IInv'
  <2> SUFFICES ASSUME TypeOK, IInv, [Next]_vars PROVE IInv'
    OBVIOUS
  <2>1. \A n \in Nodes : LocalInv(n)
    BY DEF IInv
  <2> QED
    BY <2>1, LocalStep, LinksStep DEF IInv
<1> QED
  BY <1>1, <1>2, TypeCorrect, PTL DEF Spec

\* The transport a loop dereferences exists in the states in which it does so.
THEOREM Matching == Spec => []TransportMatchesTracker
<1>1. IInv => TransportMatchesTracker
  BY DEF IInv, LocalInv, TransportMatchesTracker
<1> QED
  BY <1>1, Invariance, PTL

\* What IInv says of an added stream at the far end.
LEMMA AddedFar ==
  ASSUME TypeOK, IInv, NEW n \in Nodes, NEW s \in Streams,
         up[n], up[Peer[n]], tracker[n][s].state = "added"
  PROVE  transport[Peer[n]][s] # "nil"
<1> DEFINE p == Peer[n]
<1>1. p \in Nodes /\ Peer[p] = n
  BY PeerOf
<1>2. LocalInv(p) /\ LinkInv(n, s) /\ LinkInv(p, s)
  BY <1>1 DEF IInv, Links
<1>3. tracker[p][s].state # "closed" /\ <<s, "create_ack">> \notin handing[p]
  BY Zenon, <1>1, <1>2 DEF LinkInv
<1> HIDE DEF p
<1>4. CASE \A h \in handing[p] : h[1] # s
  BY Zenon, <1>2, <1>3, <1>4 DEF LocalInv, p
<1>5. ASSUME NEW h \in handing[p], h[1] = s
      PROVE  transport[p][s] # "nil"
  <2>1. h = <<s, "create_ack">> \/ h[2] = "none"
    BY <1>1, <1>5 DEF TypeOK
  <2> QED
    BY <1>2, <1>3, <1>5, <2>1 DEF LocalInv
<1> QED
  BY <1>4, <1>5 DEF p

\* Transports are added to the rooms only when both ends have created theirs.
THEOREM BothSides == Spec => []AddedOnBothSides
<1>1. TypeOK /\ IInv => AddedOnBothSides
  BY AddedFar DEF AddedOnBothSides
<1> QED
  BY <1>1, TypeCorrect, Invariance, PTL

\* The end that asked to close gives its transport up after the other end did.
THEOREM RemovedFirst == Spec => RemoteRemovedFirst
<1> DEFINE A == \A n \in Nodes, s \in Streams :
                  (/\ tracker[n][s].state = "write_closed"
                   /\ tracker'[n][s].state = "closed"
                   /\ up'[n])
                    => ~up[Peer[n]] \/ s \notin room[Peer[n]]
<1>1. ASSUME TypeOK, IInv, [Next]_vars PROVE A
  <2> SUFFICES ASSUME NEW n \in Nodes, NEW s \in Streams,
                      tracker[n][s].state = "write_closed",
                      tracker'[n][s].state = "closed", up'[n], up[Peer[n]]
               PROVE  s \notin room[Peer[n]]
    OBVIOUS
  <2>1. \A k \in Nodes : LocalInv(k)
    BY <1>1 DEF IInv
  <2>2. ~Idle
    BY DEF Idle
  <2>3. ~Teardown(n)
    BY <1>1 DEF Teardown, TypeOK
  <2>4. ASSUME NEW k \in Nodes, k # n, Teardown(k) PROVE FALSE
    BY <1>1, <2>4 DEF Teardown, TypeOK
  <2>5. PICK k \in Nodes, z \in Streams : StepOf(k, z) /\ Shape(k, z)
    BY <1>1, <2>1, <2>2, <2>3, <2>4, StepCases
  <2>6. k = n /\ z = s
    BY <2>5 DEF StepOf
  <2>7. TakesCloseAck(n, s)
    <3>1. ~HandsOver(n, s)
      BY Zenon DEF HandsOver
    <3> QED
      BY Zenon, <2>5, <2>6, <3>1 DEF Shape, AsksCreate, AsksClose, Postpones, TakesCreate,
         TakesCreateAck, TakesClose, Repeats, Move
  <2>8. On(wire[n], s, "close_ack") /\ up[n]
    <3>1. Reads(n, s, "close_ack") /\ up[n] /\ Ordered(wire[n]) /\ Ordered(wire[Peer[n]])
      BY Zenon, <1>1, <2>5, <2>6, <2>7, PeerOf DEF TakesCloseAck, StepOf, IInv, Links
    <3>2. "close_ack" \in RemoteEvent
      BY DEF RemoteEvent
    <3> QED
      BY Zenon, <1>1, <3>1, <3>2, ReceiveEffect
  <2>9. tracker[Peer[n]][s].state \in {"closed", "created"}
    BY Zenon, <1>1, <2>8 DEF IInv, Links, LinkInv
  <2>10. LocalInv(Peer[n])
    BY Zenon, <2>1, PeerOf
  <2> QED
    BY Zenon, <2>9, <2>10 DEF LocalInv
<1>2. TypeOK /\ IInv /\ [Next]_vars => A
  BY <1>1
<1>3. TypeOK /\ IInv /\ [Next]_vars => [A]_vars
  BY <1>2
<1> QED
  BY <1>3, TypeCorrect, Invariance, PTL DEF Spec, RemoteRemovedFirst

-----------------------------------------------------------------------------
(* Streams with one initiator: no remote event is unexpected.              *)

\* A step of k about s keeps OneSided for s at both ends of the link.
LEMMA OneSidedShape ==
  ASSUME TypeOK, IInv, NEW k \in Nodes, NEW s \in Streams, OneInitiator(s),
         StepOf(k, s), Shape(k, s), up[Peer[k]],
         OneSided(k, s), OneSided(Peer[k], s)
  PROVE  OneSided(k, s)' /\ OneSided(Peer[k], s)'
<1> DEFINE p == Peer[k]
<1>1. p \in Nodes /\ p # k /\ Peer[p] = k /\ Peer[k] = p
  BY Zenon, PeerOf
<1>2. tracker'[p][s].state = tracker[p][s].state
  BY <1>1 DEF StepOf
<1>3. tracker[p][s].state \in ControlState /\ tracker[k][s].state \in ControlState
  BY <1>1 DEF TypeOK, Tracker
<1>4. {"create", "create_ack", "close", "close_ack"} = RemoteEvent
  BY DEF RemoteEvent
<1>5. /\ LocalInv(k) /\ LinkInv(k, s) /\ LinkInv(p, s)
      /\ Ordered(wire[k]) /\ Ordered(wire[p]) /\ BothEnds(k, s)
  BY <1>1 DEF IInv, Links, BothEnds, StepOf
<1>6. ~(<<k, s>> \in Initiators /\ <<p, s>> \in Initiators)
  BY DEF OneInitiator
<1>7. OneSided(k, s) /\ OneSided(p, s) /\ up[p]
  OBVIOUS
<1> SUFFICES OneSided(k, s)' /\ OneSided(p, s)'
  OBVIOUS
<1> HIDE DEF p
<1>a. CASE AsksCreate(k, s)
  <2>1. /\ tracker[k][s].state = "closed" /\ tracker'[k][s].state = "created"
        /\ wire' = Sent(wire, k, s, "create") /\ <<k, s>> \in Initiators
    BY <1>a DEF AsksCreate, Move
  <2>2. tracker[p][s].state = "closed"
    BY Zenon, <1>1, <1>3, <1>5, <1>6, <1>7, <2>1 DEF LinkInv, OneSided, ControlState
  <2>3. \A e \in RemoteEvent : On(wire[p], s, e) => Follows(e, "create")
    BY Zenon, <1>1, <1>5, <2>1 DEF LinkInv, Follows, RemoteEvent
  <2>4. Events(k, s, "none", "create")
    BY Zenon, <1>1, <1>4, <1>5, <1>7, <2>1, <2>3, SendEffect
  <2>5. /\ \A e \in RemoteEvent : On(wire'[k], s, e) <=> On(wire[k], s, e)
        /\ \A e \in RemoteEvent : On(wire'[p], s, e) <=> On(wire[p], s, e) \/ e = "create"
    BY Zenon, <1>1, <2>4 DEF Events, RemoteEvent
  <2>6. OneSided(k, s)'
    BY Zenon, <1>1, <1>6, <1>7, <2>1, <2>5 DEF OneSided, RemoteEvent
  <2>7. OneSided(p, s)'
    BY Zenon, <1>1, <1>2, <1>7, <2>1, <2>2, <2>5 DEF OneSided, RemoteEvent
  <2> QED
    BY <2>6, <2>7
<1>b. CASE AsksClose(k, s)
  <2>1. /\ tracker[k][s].state = "added" /\ tracker'[k][s].state = "write_closed"
        /\ wire' = Sent(wire, k, s, "close") /\ <<k, s>> \in Initiators
    BY Zenon, <1>b DEF AsksClose, Move
  <2>2. tracker[p][s].state = "added"
    BY Zenon, <1>1, <1>3, <1>5, <1>6, <1>7, <2>1 DEF LinkInv, OneSided, ControlState
  <2>3. \A e \in RemoteEvent : On(wire[p], s, e) => Follows(e, "close")
    BY Zenon, <1>1, <1>5, <2>1 DEF LinkInv, Follows, RemoteEvent
  <2>4. Events(k, s, "none", "close")
    BY Zenon, <1>1, <1>4, <1>5, <1>7, <2>1, <2>3, SendEffect
  <2>5. /\ \A e \in RemoteEvent : On(wire'[k], s, e) <=> On(wire[k], s, e)
        /\ \A e \in RemoteEvent : On(wire'[p], s, e) <=> On(wire[p], s, e) \/ e = "close"
    BY Zenon, <1>1, <2>4 DEF Events, RemoteEvent
  <2>6. OneSided(k, s)'
    BY Zenon, <1>1, <1>6, <1>7, <2>1, <2>5 DEF OneSided, RemoteEvent
  <2>7. OneSided(p, s)'
    BY Zenon, <1>1, <1>2, <1>7, <2>1, <2>2, <2>5 DEF OneSided, RemoteEvent
  <2> QED
    BY Zenon, <2>6, <2>7
<1>c. CASE Postpones(k, s)
  BY Zenon, <1>1, <1>2, <1>7, <1>c DEF Postpones, OneSided
<1>d. ASSUME NEW event \in RemoteEvent, Reads(k, s, event), wire' = Received(k),
             tracker'[k][s].state \in {"added", "closed"}
      PROVE  OneSided(k, s)' /\ OneSided(p, s)'
  <2>1. Events(k, s, event, "none") /\ On(wire[k], s, event)
    BY Zenon, <1>1, <1>5, <1>d, ReceiveEffect
  <2>2. /\ \A e \in RemoteEvent : On(wire'[k], s, e) <=> On(wire[k], s, e) /\ e # event
        /\ \A e \in RemoteEvent : On(wire'[p], s, e) <=> On(wire[p], s, e)
    BY Zenon, <1>1, <2>1 DEF Events, RemoteEvent
  <2>3. \A e \in RemoteEvent : ~On(wire'[k], s, e)
    BY Zenon, <1>1, <1>6, <1>7, <2>1, <2>2 DEF OneSided, RemoteEvent
  <2>4. OneSided(k, s)'
    BY Zenon, <1>d, <2>3 DEF OneSided, RemoteEvent
  <2>5. OneSided(p, s)'
    BY Zenon, <1>1, <1>2, <1>7, <2>2 DEF OneSided, RemoteEvent
  <2> QED
    BY Zenon, <2>4, <2>5
<1>e. CASE TakesCreate(k, s) \/ TakesCreateAck(k, s) \/ TakesCloseAck(k, s)
  BY Zenon, <1>4, <1>d, <1>e DEF TakesCreate, TakesCreateAck, TakesCloseAck, Move
<1>f. CASE TakesClose(k, s)
  <2>1. /\ tracker[k][s].state = "added" /\ tracker'[k][s].state = "closed"
        /\ Reads(k, s, "close") /\ wire' = Sent(Received(k), k, s, "close_ack")
    BY Zenon, <1>f DEF TakesClose, Move
  <2>2. On(wire[k], s, "close")
    BY Zenon, <1>1, <1>4, <1>5, <2>1, ReceiveEffect
  <2>3. tracker[p][s].state = "write_closed"
    BY Zenon, <1>1, <1>5, <2>2 DEF LinkInv
  <2>4. \A e \in RemoteEvent : On(wire[p], s, e) => Follows(e, "close_ack")
    BY Zenon, <1>1, <1>5, <2>1, <2>2 DEF LinkInv, Follows, RemoteEvent
  <2>5. Events(k, s, "close", "close_ack")
    BY Zenon, <1>1, <1>4, <1>5, <1>7, <2>1, <2>4, ReplyEffect
  <2>6. /\ \A e \in RemoteEvent : On(wire'[k], s, e) <=> On(wire[k], s, e) /\ e # "close"
        /\ \A e \in RemoteEvent :
             On(wire'[p], s, e) <=> On(wire[p], s, e) \/ e = "close_ack"
    BY Zenon, <1>1, <2>5 DEF Events, RemoteEvent
  <2>7. OneSided(k, s)'
    BY Zenon, <1>1, <1>6, <1>7, <2>1, <2>2, <2>6 DEF OneSided, RemoteEvent
  <2>8. OneSided(p, s)'
    BY Zenon, <1>1, <1>2, <1>7, <2>3, <2>6 DEF OneSided, RemoteEvent
  <2> QED
    BY <2>7, <2>8
<1>g. CASE Repeats(k, s)
  <2>1. CASE Reads(k, s, "create") /\ tracker[k][s].state = "added"
    <3>1. On(wire[k], s, "create")
      BY Zenon, <1>1, <1>4, <1>5, <2>1, ReceiveEffect
    <3> QED
      BY Zenon, <1>5, <2>1, <3>1 DEF LinkInv
  <2>2. CASE Reads(k, s, "close") /\ tracker[k][s].state = "closed"
    <3>1. On(wire[k], s, "close")
      BY Zenon, <1>1, <1>4, <1>5, <2>2, ReceiveEffect
    <3> QED
      BY Zenon, <1>5, <2>2, <3>1 DEF LinkInv
  <2> QED
    BY Zenon, <1>g, <2>1, <2>2 DEF Repeats, Move
<1>h. CASE HandsOver(k, s)
  <2>1. PICK event \in {"create_ack", "none"} :
          /\ <<s, event>> \in handing[k]
          /\ tracker'[k][s] = tracker[k][s] /\ wire' = Sent(wire, k, s, event)
    BY Zenon, <1>h DEF HandsOver
  <2>2. tracker[k][s].state = "added"
    BY Zenon, <1>5, <2>1 DEF LocalInv
  <2>3. CASE event = "none"
    <3>1. wire' = wire
      BY Zenon, <2>1, <2>3 DEF Sent
    <3> QED
      BY Zenon, <1>1, <1>2, <1>7, <2>1, <3>1 DEF OneSided
  <2>4. CASE event = "create_ack"
    <3>1. \A e \in RemoteEvent : On(wire[p], s, e) => Follows(e, "create_ack")
      BY Zenon, <1>1, <1>5, <2>1, <2>2, <2>4 DEF LinkInv, Follows, RemoteEvent
    <3>2. tracker[p][s].state = "created"
      BY Zenon, <1>1, <1>5, <2>1, <2>4 DEF LinkInv
    <3>3. Events(k, s, "none", "create_ack")
      BY Zenon, <1>1, <1>4, <1>5, <1>7, <2>1, <2>4, <3>1, SendEffect
    <3>4. /\ \A e \in RemoteEvent : On(wire'[k], s, e) <=> On(wire[k], s, e)
          /\ \A e \in RemoteEvent :
               On(wire'[p], s, e) <=> On(wire[p], s, e) \/ e = "create_ack"
      BY Zenon, <1>1, <3>3 DEF Events, RemoteEvent
    <3>5. OneSided(k, s)'
      BY Zenon, <1>1, <1>7, <2>1, <3>4 DEF OneSided, RemoteEvent
    <3>6. OneSided(p, s)'
      BY Zenon, <1>1, <1>2, <1>7, <3>2, <3>4 DEF OneSided, RemoteEvent
    <3> QED
      BY <3>5, <3>6
  <2> QED
    BY <2>3, <2>4
<1> QED
  BY Zenon, <1>a, <1>b, <1>c, <1>e, <1>f, <1>g, <1>h DEF Shape

\* A step of k about s when the other end is down: what is still on k's wire
\* is all there will be.
LEMMA OneSidedAlone ==
  ASSUME TypeOK, NEW k \in Nodes, NEW s \in Streams, OneInitiator(s),
         StepOf(k, s), Shape(k, s), ~up[Peer[k]], LocalInv(k),
         Ordered(wire[k]), Ordered(wire[Peer[k]]), OneSided(k, s)
  PROVE  OneSided(k, s)'
<1>1. ASSUME NEW w, NEW event PROVE Sent(w, k, s, event) = w
  BY Zenon DEF Sent
<1>2. ~(<<k, s>> \in Initiators /\ <<Peer[k], s>> \in Initiators)
  BY DEF OneInitiator
<1>3. ASSUME NEW event \in RemoteEvent, Reads(k, s, event), wire' = Received(k),
             tracker'[k][s].state \in {"added", "closed"}
      PROVE  OneSided(k, s)'
  <2>1. Events(k, s, event, "none") /\ On(wire[k], s, event)
    BY Zenon, <1>3, ReceiveEffect
  <2>2. \A e \in RemoteEvent : On(wire'[k], s, e) <=> On(wire[k], s, e) /\ e # event
    BY Zenon, <2>1 DEF Events
  <2>3. \A e \in RemoteEvent : ~On(wire'[k], s, e)
    BY Zenon, <1>2, <2>1, <2>2 DEF OneSided, RemoteEvent
  <2> QED
    BY Zenon, <1>3, <2>3 DEF OneSided, RemoteEvent
<1>4. {"create", "create_ack", "close", "close_ack"} = RemoteEvent
  BY DEF RemoteEvent
<1>5. CASE TakesCreate(k, s) \/ TakesCreateAck(k, s) \/ TakesCloseAck(k, s) \/ TakesClose(k, s)
  BY Zenon, <1>1, <1>3, <1>4, <1>5
  DEF TakesCreate, TakesCreateAck, TakesCloseAck, TakesClose, Move
<1>6. CASE AsksCreate(k, s) \/ AsksClose(k, s)
  BY Zenon, <1>1, <1>2, <1>6 DEF AsksCreate, AsksClose, Move, OneSided
<1>7. CASE Postpones(k, s)
  BY Zenon, <1>7 DEF Postpones, OneSided
<1>8. CASE Repeats(k, s)
  BY Zenon, <1>1, <1>3, <1>4, <1>8 DEF Repeats, Move
<1>9. CASE HandsOver(k, s)
  BY Zenon, <1>1, <1>9 DEF HandsOver, OneSided
<1> QED
  BY Zenon, <1>5, <1>6, <1>7, <1>8, <1>9 DEF Shape

\* A node and stream that a step does not concern.
LEMMA OneSidedFrame ==
  ASSUME NEW n \in Nodes, NEW s \in Streams, OneSided(n, s),
         tracker'[n][s] = tracker[n][s],
         \A e \in RemoteEvent : On(wire'[n], s, e) => On(wire[n], s, e)
  PROVE  OneSided(n, s)'
  BY Zenon DEF OneSided, RemoteEvent

\* With one initiator per stream every step leaves each event on the wire
\* with a receiver in the state that expects it.
LEMMA SplitStep ==
  ASSUME TypeOK, IInv, SplitInv, [Next]_vars
  PROVE  SplitInv'
<1> SUFFICES ASSUME NEW n \in Nodes, NEW s \in Streams, OneInitiator(s)
             PROVE  OneSided(n, s)'
  BY DEF SplitInv, OneInitiator
<1>1. \A k \in Nodes : OneSided(k, s)
  BY DEF SplitInv
<1>2. /\ \A k \in Nodes : LocalInv(k)
      /\ \A k \in Nodes : Ordered(wire[k])
  BY DEF IInv, Links
<1>3. CASE Idle
  BY <1>1, <1>3, OneSidedFrame DEF Idle
<1>4. ASSUME NEW k \in Nodes, Teardown(k) PROVE OneSided(n, s)'
  <2>1. PICK i \in 0..Len(wire[Peer[k]]) :
          wire' = [m \in Nodes |-> CASE m = k       -> <<>>
                                     [] m = Peer[k] -> SubSeq(wire[m], 1, i)
                                     [] OTHER       -> wire[m]]
    BY <1>4 DEF Teardown
  <2>2. Peer[k] \in Nodes /\ Peer[k] # k
    BY PeerOf
  <2>3. /\ wire'[k] = <<>> /\ wire'[Peer[k]] = SubSeq(wire[Peer[k]], 1, i)
        /\ \A m \in Nodes : m # k /\ m # Peer[k] => wire'[m] = wire[m]
    BY <2>1, <2>2
  <2>4. CASE n = k
    <3>1. tracker'[k][s].state = "closed"
      BY <1>4 DEF Teardown, TypeOK, NewTracker
    <3>2. \A e \in RemoteEvent : ~On(wire'[k], s, e)
      BY <2>3 DEF On
    <3> QED
      BY <2>4, <3>1, <3>2 DEF OneSided, RemoteEvent
  <2>5. CASE n # k
    <3>1. tracker'[n] = tracker[n]
      BY <1>4, <2>5 DEF Teardown, TypeOK
    <3>2. \A e : On(SubSeq(wire[Peer[k]], 1, i), s, e) => On(wire[Peer[k]], s, e)
      BY <1>2, <2>2, PrefixWire DEF TypeOK
    <3>3. \A e \in RemoteEvent : On(wire'[n], s, e) => On(wire[n], s, e)
      BY Zenon, <2>3, <2>5, <3>2
    <3> QED
      BY <1>1, <3>1, <3>3, OneSidedFrame
  <2> QED
    BY <2>4, <2>5
<1>5. ASSUME NEW k \in Nodes, NEW z \in Streams, StepOf(k, z), Shape(k, z)
      PROVE  OneSided(n, s)'
  <2> DEFINE p == Peer[k]
  <2>1. p \in Nodes /\ p # k /\ Peer[p] = k /\ Peer[k] = p
    BY PeerOf
  <2>2. n # k \/ s # z => tracker'[n][s] = tracker[n][s]
    BY <1>5 DEF StepOf
  <2>3. CASE up[p]
    <3>1. BothEnds(k, z) /\ LocalInv(k) /\ Ordered(wire[k]) /\ Ordered(wire[p])
      BY <1>2, <1>5, <2>1, <2>3 DEF BothEnds, IInv, Links, StepOf
    <3>2. WireStep(k, z)
      BY Zenon, <1>5, <2>3, <3>1, LinkShape
    <3>3. CASE n \in {k, p} /\ s = z
      BY <1>1, <1>5, <2>1, <2>3, <3>3, OneSidedShape
    <3>4. CASE ~(n \in {k, p} /\ s = z)
      <4>1. \A e \in RemoteEvent : On(wire'[n], s, e) => On(wire[n], s, e)
        BY <3>2, <3>4 DEF WireStep
      <4> QED
        BY <1>1, <2>2, <3>4, <4>1, OneSidedFrame
    <3> QED
      BY <3>3, <3>4
  <2>4. CASE ~up[p]
    <3>1. CASE n = k /\ s = z
      BY <1>1, <1>2, <1>5, <2>1, <2>4, <3>1, OneSidedAlone
    <3>2. CASE ~(n = k /\ s = z)
      <4>2. \/ wire' = wire
            \/ \E event \in RemoteEvent : Reads(k, z, event) /\ wire' = Received(k)
        BY Zenon, <2>1, <1>5, <2>4, AloneWire
      <4>3. ASSUME NEW event \in RemoteEvent, Reads(k, z, event), wire' = Received(k)
            PROVE  \A e \in RemoteEvent : On(wire'[n], s, e) => On(wire[n], s, e)
        <5>1. /\ \A m \in Nodes : m # k => Received(k)[m] = wire[m]
              /\ \A x \in Streams, e \in RemoteEvent :
                   On(Received(k)[k], x, e) => On(wire[k], x, e)
          BY Zenon, <1>2, <2>1, <4>3, ReceiveEffect
        <5> QED
          BY Zenon, <4>3, <5>1
      <4>4. \A e \in RemoteEvent : On(wire'[n], s, e) => On(wire[n], s, e)
        BY <4>2, <4>3
      <4> QED
        BY Zenon, <1>1, <2>2, <3>2, <4>4, OneSidedFrame
    <3> QED
      BY <3>1, <3>2
  <2> QED
    BY Zenon, <2>3, <2>4
<1> QED
  BY <1>2, <1>3, <1>4, <1>5, StepCases

\* If the ends never both make calls for a stream, "something weird" never
\* happens to it: no event of that stream tears a factory down.
THEOREM AlwaysExpected == Spec => []NoUnexpectedEvent
<1>1. Init => SplitInv
  <2> SUFFICES ASSUME Init, NEW n \in Nodes, NEW s \in Streams PROVE OneSided(n, s)
    BY DEF SplitInv
  <2>1. wire[n] = <<>> /\ tracker[n][s].state = "closed"
    BY DEF Init, NewTracker
  <2> QED
    BY <2>1 DEF OneSided, On
<1>2. TypeOK /\ IInv /\ SplitInv /\ [Next]_vars => SplitInv'
  BY SplitStep
<1>3. TypeOK /\ IInv /\ SplitInv => NoUnexpectedEvent
  <2> SUFFICES ASSUME TypeOK, IInv, SplitInv, NEW n \in Nodes, wire[n] # <<>>,
                      OneInitiator(Head(wire[n]).stream)
               PROVE  Expected(tracker[n][Head(wire[n]).stream], Head(wire[n]).type)
    BY DEF NoUnexpectedEvent
  <2> DEFINE s == Head(wire[n]).stream
             e == Head(wire[n]).type
  <2>1. wire[n] \in Seq(Message)
    BY DEF TypeOK
  <2>2. Head(wire[n]) \in Message
    BY <2>1
  <2>3. s \in Streams /\ e \in RemoteEvent
    BY <2>2 DEF Message
  <2>4. Ordered(wire[n])
    BY DEF IInv, Links
  <2>5. On(wire[n], s, e)
    BY <2>1, <2>4, TailWire
  <2>6. OneSided(n, s)
    BY <2>3 DEF SplitInv
  <2> HIDE DEF s, e
  <2>7. Expected(tracker[n][s], e)
    BY Zenon, <2>3, <2>5, <2>6 DEF OneSided, RemoteEvent, Expected
  <2> QED
    BY <2>7 DEF s, e
<1> QED
  BY <1>1, <1>2, <1>3, TypeCorrect, Invariance, PTL DEF Spec
==============================================================================
