------------------------------- MODULE Factory -------------------------------
(***************************************************************************)
(* Factories at the two ends of node-to-node links, each running the       *)
(* control loop of server/udptransport2/factory.go over the ordered SCTP   *)
(* control stream of its link.                                             *)
(*                                                                         *)
(* A factory creates the server transport of a room (a "stream") when its  *)
(* node wants it or when the other end asks for it, hands it to the node   *)
(* through transportsChannel once both ends have one, and closes it after  *)
(* the close handshake.  Anything unexpected tears the whole factory down. *)
(* The other end is not told (sctp.Association.Close sends nothing); it    *)
(* finds out when no ping arrives for DestroyTimeout.                      *)
(***************************************************************************)
EXTENDS Naturals, Sequences, ControlStateTracker

CONSTANTS
  Nodes,           \* the factories
  Peer,            \* the factory at the other end of each factory's link
  Streams,         \* room identifiers
  Initiators,      \* the <<node, stream>> pairs whose node makes local calls
  GetConnMayFail,  \* whether a stringmux may refuse a connection
  DestroyTimeout,  \* in periods of the ping ticker; 0 disables it
  MaxPings         \* pings in flight that the model tells apart

ASSUME PeerAssumption ==
  /\ Peer \in [Nodes -> Nodes]
  /\ \A n \in Nodes : Peer[n] # n /\ Peer[Peer[n]] = n

ASSUME CallAssumption ==
  Initiators \subseteq Nodes \X Streams /\ GetConnMayFail \in BOOLEAN

ASSUME PingAssumption == DestroyTimeout \in Nat /\ MaxPings \in Nat

VARIABLES
  up,         \* the control loop is running
  tracker,    \* transports[stream].tracker; a missing entry is NewTracker
  transport,  \* transports[stream].transport
  room,       \* streams whose transport the node took and was not closed
  handing,    \* the transport the loop is blocked sending on
              \* transportsChannel, with the response it owes: {} or one pair
  wire,       \* control events on their way to each factory
  pings,      \* pings on their way to each factory
  age         \* ticks since lastRecvPingTime

vars == <<up, tracker, transport, room, handing, wire, pings, age>>

Message == [stream: Streams, type: RemoteEvent]

TypeOK ==
  /\ up \in [Nodes -> BOOLEAN]
  /\ tracker \in [Nodes -> [Streams -> Tracker]]
  /\ transport \in [Nodes -> [Streams -> {"nil", "open", "write_closed"}]]
  /\ room \in [Nodes -> SUBSET Streams]
  /\ handing \in [Nodes -> SUBSET (Streams \X {"create_ack", "none"})]
  /\ wire \in [Nodes -> Seq(Message)]
  /\ pings \in [Nodes -> 0..MaxPings]
  /\ age \in [Nodes -> 0..DestroyTimeout]

Init ==
  /\ up = [n \in Nodes |-> TRUE]
  /\ tracker = [n \in Nodes |-> [s \in Streams |-> NewTracker]]
  /\ transport = [n \in Nodes |-> [s \in Streams |-> "nil"]]
  /\ room = [n \in Nodes |-> {}]
  /\ handing = [n \in Nodes |-> {}]
  /\ wire = [n \in Nodes |-> <<>>]
  /\ pings = [n \in Nodes |-> 0]
  /\ age = [n \in Nodes |-> 0]

-----------------------------------------------------------------------------
(* The loop waits in its select.                                           *)
Selecting(n) == up[n] /\ handing[n] = {}

\* controlTransport.Send: the wires w after n sent an event.  Nothing
\* reaches a factory that is down.
Sent(w, n, s, event) ==
  IF event = "none" \/ ~up[Peer[n]] THEN w
  ELSE [w EXCEPT ![Peer[n]] = Append(@, [stream |-> s, type |-> event])]

\* The loop returns: its deferred function closes every transport and the
\* association.  Events not yet received by n are gone, and those it sent
\* last may never arrive.
Teardown(n) ==
  /\ up' = [up EXCEPT ![n] = FALSE]
  /\ tracker' = [tracker EXCEPT ![n] = [s \in Streams |-> NewTracker]]
  /\ transport' = [transport EXCEPT ![n] = [s \in Streams |-> "nil"]]
  /\ room' = [room EXCEPT ![n] = {}]
  /\ handing' = [handing EXCEPT ![n] = {}]
  /\ \E k \in 0..Len(wire[Peer[n]]) :
       wire' = [m \in Nodes |-> CASE m = n       -> <<>>
                                  [] m = Peer[n] -> SubSeq(wire[m], 1, k)
                                  [] OTHER       -> wire[m]]
  /\ pings' = [pings EXCEPT ![n] = 0]
  /\ age' = [age EXCEPT ![n] = 0]

SetTracker(n, s, t) == tracker' = [tracker EXCEPT ![n][s] = t]

SetTransport(n, s, t) == transport' = [transport EXCEPT ![n][s] = t]

-----------------------------------------------------------------------------
(* Local calls, received by the loop on localControlEvents.                *)

CreateTransport(n, s) ==
  /\ Selecting(n)
  /\ <<n, s>> \in Initiators
  /\ LET r == WantCreate(tracker[n][s])
     IN \/ /\ r.send = "create"
           /\ SetTracker(n, s, r.tracker)
           /\ SetTransport(n, s, "open")
           /\ wire' = Sent(wire, n, s, r.send)
           /\ UNCHANGED <<up, room, handing, pings, age>>
        \/ /\ r.send = "create"
           /\ GetConnMayFail
           /\ Teardown(n)
        \/ /\ r.send = "none"
           /\ SetTracker(n, s, r.tracker)
           /\ UNCHANGED <<up, transport, room, handing, wire, pings, age>>

CloseTransport(n, s) ==
  /\ Selecting(n)
  /\ <<n, s>> \in Initiators
  /\ LET r == WantClose(tracker[n][s])
     IN \/ /\ r.send = "close"
           /\ SetTracker(n, s, r.tracker)
           /\ SetTransport(n, s, "write_closed")
           /\ wire' = Sent(wire, n, s, r.send)
           /\ UNCHANGED <<up, room, handing, pings, age>>
        \/ /\ r.send = "none"
           /\ SetTracker(n, s, r.tracker)
           /\ UNCHANGED <<up, transport, room, handing, wire, pings, age>>

-----------------------------------------------------------------------------
(* Remote events, in the order they were sent.                             *)

Receives(n, event) ==
  /\ Selecting(n)
  /\ wire[n] # <<>>
  /\ Head(wire[n]).type = event

Received(n) == [wire EXCEPT ![n] = Tail(@)]

\* "Something weird is going on, teardown."
UnexpectedEvent(n) ==
  /\ Selecting(n)
  /\ wire[n] # <<>>
  /\ LET m == Head(wire[n]) IN ~Expected(tracker[n][m.stream], m.type)
  /\ Teardown(n)

\* A failed createTransport is only logged: the nil transport is stored and
\* sent to the node all the same.
HandleCreate(n) ==
  /\ Receives(n, "create")
  /\ LET s == Head(wire[n]).stream
         r == HandleRemoteEvent(tracker[n][s], "create")
     IN /\ Expected(tracker[n][s], "create")
        /\ SetTracker(n, s, r.tracker)
        /\ IF r.changed
             THEN /\ \/ SetTransport(n, s, "open")
                     \/ GetConnMayFail /\ SetTransport(n, s, "nil")
                  /\ handing' = [handing EXCEPT ![n] = {<<s, r.send>>}]
                  /\ wire' = Received(n)
             ELSE /\ wire' = Sent(Received(n), n, s, r.send)
                  /\ UNCHANGED <<transport, handing>>
  /\ UNCHANGED <<up, room, pings, age>>

HandleCreateAck(n) ==
  /\ Receives(n, "create_ack")
  /\ LET s == Head(wire[n]).stream
         r == HandleRemoteEvent(tracker[n][s], "create_ack")
     IN /\ Expected(tracker[n][s], "create_ack")
        /\ SetTracker(n, s, r.tracker)
        /\ handing' = [handing EXCEPT ![n] = {<<s, r.send>>}]
  /\ wire' = Received(n)
  /\ UNCHANGED <<up, transport, room, pings, age>>

\* A fault: the acknowledgement leaves before the transport is closed.
HandleClose_AckFirst(n) ==
  /\ Receives(n, "close")
  /\ LET s == Head(wire[n]).stream
     IN /\ Expected(tracker[n][s], "close")
        /\ SetTracker(n, s, NewTracker)
        /\ wire' = Sent(Received(n), n, s, "close_ack")
  /\ UNCHANGED <<up, transport, room, handing, pings, age>>

\* CloseWrite, Close, delete the entry; then acknowledge.
HandleClose(n) ==
  /\ Receives(n, "close")
  /\ LET s == Head(wire[n]).stream
         r == HandleRemoteEvent(tracker[n][s], "close")
     IN /\ Expected(tracker[n][s], "close")
        /\ IF r.changed
             THEN /\ SetTracker(n, s, NewTracker)
                  /\ SetTransport(n, s, "nil")
                  /\ room' = [room EXCEPT ![n] = @ \ {s}]
             ELSE UNCHANGED <<tracker, transport, room>>
        /\ wire' = Sent(Received(n), n, s, r.send)
  /\ UNCHANGED <<up, handing, pings, age>>

HandleCloseAck(n) ==
  /\ Receives(n, "close_ack")
  /\ LET s == Head(wire[n]).stream
     IN /\ Expected(tracker[n][s], "close_ack")
        /\ SetTracker(n, s, NewTracker)
        /\ SetTransport(n, s, "nil")
        /\ room' = [room EXCEPT ![n] = @ \ {s}]
  /\ wire' = Received(n)
  /\ UNCHANGED <<up, handing, pings, age>>

\* A fault: the response is forgotten once the transport is taken.
TakeTransport_NoResponse(n) ==
  \E h \in handing[n] :
    /\ room' = [room EXCEPT ![n] = @ \cup {h[1]}]
    /\ handing' = [handing EXCEPT ![n] = {}]
    /\ UNCHANGED <<up, tracker, transport, wire, pings, age>>

\* The node takes the transport the loop is offering (NodeManager's
\* handleTransport); only then is the response sent.  A nil transport is
\* dereferenced there, which takes the process down.
TakeTransport(n) ==
  \E h \in handing[n] :
    LET s == h[1] IN
    IF transport[n][s] = "nil" THEN Teardown(n)
    ELSE /\ room' = [room EXCEPT ![n] = @ \cup {s}]
         /\ handing' = [handing EXCEPT ![n] = {}]
         /\ wire' = Sent(wire, n, s, h[2])
         /\ UNCHANGED <<up, tracker, transport, pings, age>>

-----------------------------------------------------------------------------
(* Close, which the loop also obeys while it is handing over a transport.  *)
Close(n) == up[n] /\ Teardown(n)

\* A fault: a silent peer is never given up.
Tick_NoTimeout(n) ==
  /\ Selecting(n)
  /\ pings' = [pings EXCEPT ![Peer[n]] = IF up[Peer[n]] /\ @ < MaxPings THEN @ + 1 ELSE @]
  /\ UNCHANGED <<up, tracker, transport, room, handing, wire, age>>

\* A fault: sending a ping counts as having received one.
Tick_SentCounts(n) ==
  /\ Selecting(n)
  /\ age' = [age EXCEPT ![n] = 0]
  /\ pings' = [pings EXCEPT ![Peer[n]] = IF up[Peer[n]] /\ @ < MaxPings THEN @ + 1 ELSE @]
  /\ UNCHANGED <<up, tracker, transport, room, handing, wire>>

\* One tick of pingTicker: give up on a silent peer, else send a ping.
Tick(n) ==
  /\ Selecting(n)
  /\ IF DestroyTimeout > 0 /\ age[n] = DestroyTimeout
       THEN Teardown(n)
       ELSE /\ age' = [age EXCEPT ![n] = IF DestroyTimeout > 0 THEN @ + 1 ELSE 0]
            /\ pings' = [pings EXCEPT ![Peer[n]] =
                           IF up[Peer[n]] /\ @ < MaxPings THEN @ + 1 ELSE @]
            /\ UNCHANGED <<up, tracker, transport, room, handing, wire>>

ReceivePing(n) ==
  /\ Selecting(n)
  /\ pings[n] > 0
  /\ pings' = [pings EXCEPT ![n] = @ - 1]
  /\ age' = [age EXCEPT ![n] = 0]
  /\ UNCHANGED <<up, tracker, transport, room, handing, wire>>

-----------------------------------------------------------------------------
HandleRemote(n) ==
  \/ UnexpectedEvent(n)
  \/ HandleCreate(n)
  \/ HandleCreateAck(n)
  \/ HandleClose(n)
  \/ HandleCloseAck(n)

Next ==
  \E n \in Nodes :
    \/ \E s \in Streams : CreateTransport(n, s) \/ CloseTransport(n, s)
    \/ HandleRemote(n)
    \/ TakeTransport(n)
    \/ Close(n)
    \/ Tick(n)
    \/ ReceivePing(n)

Spec == Init /\ [][Next]_vars

\* Go's select picks among ready cases at random, so a case that stays ready
\* is taken.  The node's goroutine keeps ranging over transportsChannel.
Fairness ==
  \A n \in Nodes :
    /\ WF_vars(HandleRemote(n))
    /\ WF_vars(TakeTransport(n))
    /\ WF_vars(Tick(n))

FairSpec == Spec /\ Fairness

-----------------------------------------------------------------------------
(* Safety.                                                                 *)

\* What the loop relies on where it dereferences t.transport: outside a
\* handover, the transport exists exactly in the states other than closed,
\* stopped writing exactly in write_closed, and is in the room exactly from
\* added until the entry is deleted.
TransportMatchesTracker ==
  \A n \in Nodes, s \in Streams :
    (\A h \in handing[n] : h[1] # s) =>
      /\ (transport[n][s] = "nil") <=> (tracker[n][s].state = "closed")
      /\ (transport[n][s] = "write_closed") <=> (tracker[n][s].state = "write_closed")
      /\ (s \in room[n]) <=> (tracker[n][s].state \in {"added", "write_closed"})

\* "controlStateTracker ensures that local and remote transports are both
\* created before adding them to the rooms": while both loops run, a
\* transport that is added at one end has a counterpart at the other.
AddedOnBothSides ==
  \A n \in Nodes, s \in Streams :
    up[n] /\ up[Peer[n]] /\ tracker[n][s].state = "added"
      => transport[Peer[n]][s] # "nil"

\* "It also ensures that the remote one is removed before closing the
\* transport": the end that asked to close gives its transport up only when
\* the other end has taken its own out of the room, or is down.
RemoteRemovedFirst ==
  [][\A n \in Nodes, s \in Streams :
       (/\ tracker[n][s].state = "write_closed"
        /\ tracker'[n][s].state = "closed"
        /\ up'[n])
         => ~up[Peer[n]] \/ s \notin room[Peer[n]]]_vars

OneInitiator(s) ==
  \A n \in Nodes : ~(<<n, s>> \in Initiators /\ <<Peer[n], s>> \in Initiators)

\* If the two ends never both make local calls for a stream, no event of it is
\* ever unexpected, whatever happens to the other streams of the link: when it
\* is the next to be received, the tracker takes it.
NoUnexpectedEvent ==
  \A n \in Nodes :
    up[n] /\ wire[n] # <<>> =>
      LET m == Head(wire[n])
      IN OneInitiator(m.stream) => Expected(tracker[n][m.stream], m.type)

\* "Receiving init event after init event was sent, but before init_ack was
\* received. Results with init_ack sent, but still wait init_ack", and likewise
\* for destroy: a request that crosses one's own is not an error.
CrossingIsAcked ==
  \A n \in Nodes :
    Selecting(n) /\ wire[n] # <<>> =>
      LET m == Head(wire[n])
          state == tracker[n][m.stream].state
      IN <<state, m.type>> \in {<<"created", "create">>, <<"write_closed", "close">>}
           => Expected(tracker[n][m.stream], m.type)

-----------------------------------------------------------------------------
(* Liveness, under FairSpec with a DestroyTimeout.                         *)

\* A handshake does not hang: the tracker leaves created and write_closed, or
\* the factory goes down (its peer being gone).
HandshakeEnds ==
  \A n \in Nodes, s \in Streams :
    /\ (tracker[n][s].state = "created") ~> (tracker[n][s].state # "created")
    /\ (tracker[n][s].state = "write_closed")
         ~> (tracker[n][s].state # "write_closed")

\* DestroyTimeout compensates for "sctp.Association.Close leaves the other
\* side hanging": a factory whose peer is gone goes down too.
PeerFollows == \A n \in Nodes : ~up[n] ~> ~up[Peer[n]]

\* "Local events received during the waiting for acknowledgement are stored
\* and should be retried afterwards": a close wanted while created is
\* eventually started.
PendingIsRetried ==
  \A n \in Nodes, s \in Streams :
    (tracker[n][s].pending = "close") ~> (tracker[n][s].pending # "close")
=============================================================================
