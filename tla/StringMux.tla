----------------------------- MODULE StringMux -----------------------------
(* stringmux.StringMux: one goroutine owns the connections of all streams and  *)
(* hands them the packets another goroutine reads. It waits for somebody to    *)
(* accept a new connection and for room in the channel of a connection, and    *)
(* does nothing else meanwhile. Users call GetConn, AcceptConn, Read, and      *)
(* Close of a connection or of the mux.                                        *)
EXTENDS Naturals, Sequences, FiniteSets

CONSTANTS Keys,          \* stream ids
          MaxConns,      \* how many connections are ever created
          MaxPackets,    \* how many packets ever arrive
          ReadChanSize,  \* Params.ReadChanSize
          None

ASSUME MuxAssumption ==
  /\ MaxConns \in Nat /\ MaxPackets \in Nat
  /\ None \notin Keys \cup Nat

Conns == 1..MaxConns
Packets == [n : 1..MaxPackets, key : Keys]

VARIABLES
  conns,     \* the map of the loop
  keyOf,     \* conn.streamID, None before createConn
  inbox,     \* everything put into conn.readChan so far
  read,      \* how much of it was read
  torndown,  \* the connections whose close was called
  held,      \* the connections a user was given
  loop,      \* where the loop is, with the connection and the packet it handles
  reader,    \* startReading "reads", "holds" a packet or has "ended"
  sent,      \* how many packets have arrived
  asking,    \* keys of GetConn calls that wait for the loop
  closing,   \* connections whose Close waits
  closer     \* Close of the mux: "no", "sent" the token, "returned"

vars == <<conns, keyOf, inbox, read, torndown, held, loop, reader, sent, asking, closing, closer>>
connVars == <<conns, keyOf, inbox, read, torndown, held>>

Idle == [pc |-> "select"]
Created == {c \in Conns : keyOf[c] # None}
Fresh == CHOOSE c \in Conns : c \notin Created

Init ==
  /\ conns = [k \in Keys |-> None]
  /\ keyOf = [c \in Conns |-> None]
  /\ inbox = [c \in Conns |-> <<>>]
  /\ read = [c \in Conns |-> 0]
  /\ torndown = {} /\ held = {}
  /\ loop = Idle
  /\ reader = [pc |-> "reads"] /\ sent = 0
  /\ asking = {} /\ closing = {} /\ closer = "no"

-----------------------------------------------------------------------------
(* startReading                                                               *)

ReadPacket(k) ==
  /\ reader.pc = "reads" /\ sent < MaxPackets
  /\ sent' = sent + 1
  /\ reader' = [pc |-> "holds", packet |-> [n |-> sent + 1, key |-> k]]
  /\ UNCHANGED <<connVars, loop, asking, closing, closer>>

\* The connection fails or a packet does not parse, or the loop has closed the
\* connection and cancelled the context.
EndReading ==
  /\ reader.pc = "reads" \/ (loop.pc = "teardown" /\ reader.pc # "ended")
  /\ reader' = [pc |-> "ended"]
  /\ UNCHANGED <<connVars, loop, sent, asking, closing, closer>>

-----------------------------------------------------------------------------
(* The loop                                                                   *)

\* Mutant: an existing connection is replaced.
getNewConn_Replaces(k) ==
  /\ k \in asking /\ Created # Conns
  /\ loop.pc = "select" \/ (loop.pc = "accept" /\ keyOf[loop.conn] # k)
  /\ asking' = asking \ {k}
  /\ keyOf' = [keyOf EXCEPT ![Fresh] = k]
  /\ conns' = [conns EXCEPT ![k] = Fresh]
  /\ held' = held \cup {Fresh}
  /\ UNCHANGED <<inbox, read, torndown, loop, reader, sent, closing, closer>>

\* getNewConn, also for another stream while a new connection is advertised: the
\* caller gets a new connection, or an error when there is one.
getNewConn(k) ==
  /\ k \in asking
  /\ loop.pc = "select" \/ (loop.pc = "accept" /\ keyOf[loop.conn] # k)
  /\ asking' = asking \ {k}
  /\ IF conns[k] # None
     THEN UNCHANGED <<keyOf, conns, held>>
     ELSE /\ Created # Conns
          /\ keyOf' = [keyOf EXCEPT ![Fresh] = k]
          /\ conns' = [conns EXCEPT ![k] = Fresh]
          /\ held' = held \cup {Fresh}
  /\ UNCHANGED <<inbox, read, torndown, loop, reader, sent, closing, closer>>

\* handlePacket up to the point where it waits.
handlePacket ==
  LET pkt == reader.packet
  IN /\ loop.pc = "select" /\ reader.pc = "holds"
     /\ IF conns[pkt.key] # None
        THEN /\ loop' = [pc |-> "deliver", conn |-> conns[pkt.key], packet |-> pkt]
             /\ UNCHANGED keyOf
        ELSE /\ Created # Conns
             /\ loop' = [pc |-> "accept", conn |-> Fresh, packet |-> pkt]
             /\ keyOf' = [keyOf EXCEPT ![Fresh] = pkt.key]
     /\ reader' = [pc |-> "reads"]
     /\ UNCHANGED <<conns, inbox, read, torndown, held, sent, asking, closing, closer>>

\* acceptOrGet ends: the connection goes to the map and to whoever takes it.
Register ==
  /\ loop.pc = "accept"
  /\ conns' = [conns EXCEPT ![keyOf[loop.conn]] = loop.conn]
  /\ loop' = [loop EXCEPT !.pc = "deliver"]

AcceptConn ==
  /\ Register
  /\ held' = held \cup {loop.conn}
  /\ UNCHANGED <<keyOf, inbox, read, torndown, reader, sent, asking, closing, closer>>

GetAdvertised ==
  /\ Register
  /\ keyOf[loop.conn] \in asking
  /\ asking' = asking \ {keyOf[loop.conn]}
  /\ held' = held \cup {loop.conn}
  /\ UNCHANGED <<keyOf, inbox, read, torndown, reader, sent, closing, closer>>

\* Mutant: a full channel is never looked at again.
Deliver_Stuck ==
  /\ loop.pc = "deliver"
  /\ inbox[loop.conn] = <<>>
  /\ inbox' = [inbox EXCEPT ![loop.conn] = Append(@, loop.packet)]
  /\ loop' = Idle
  /\ UNCHANGED <<conns, keyOf, read, torndown, held, reader, sent, asking, closing, closer>>

\* The last select of handlePacket: there is room in the channel.
Deliver ==
  /\ loop.pc = "deliver"
  /\ Len(inbox[loop.conn]) - read[loop.conn] < ReadChanSize
  /\ inbox' = [inbox EXCEPT ![loop.conn] = Append(@, loop.packet)]
  /\ loop' = Idle
  /\ UNCHANGED <<conns, keyOf, read, torndown, held, reader, sent, asking, closing, closer>>

\* Mutant: the closed connection stays in the map.
handleClose_Keeps(c) ==
  /\ loop.pc = "select" /\ c \in closing
  /\ closing' = closing \ {c}
  /\ torndown' = torndown \cup {c}
  /\ UNCHANGED <<conns, keyOf, inbox, read, held, loop, reader, sent, asking, closer>>

\* handleClose: a connection that is no longer in the map is left alone.
handleClose(c) ==
  LET mine == conns[keyOf[c]] = c
  IN /\ loop.pc = "select" /\ c \in closing
     /\ closing' = closing \ {c}
     /\ conns' = IF mine THEN [conns EXCEPT ![keyOf[c]] = None] ELSE conns
     /\ torndown' = IF mine THEN torndown \cup {c} ELSE torndown
     /\ UNCHANGED <<keyOf, inbox, read, held, loop, reader, sent, asking, closer>>

\* The token of Close is taken wherever the loop waits; the end of the reader is
\* noticed between two packets.
TakeTeardown ==
  /\ \/ loop.pc \in {"select", "accept", "deliver"} /\ closer = "sent"
     \/ loop.pc = "select" /\ reader.pc = "ended"
  /\ loop' = [pc |-> "teardown"]
  /\ UNCHANGED <<connVars, reader, sent, asking, closing, closer>>

\* The deferred function, after the reader has ended: every connection in the map
\* is closed.
TearDown ==
  /\ loop.pc = "teardown" /\ reader.pc = "ended"
  /\ torndown' = torndown \cup {conns[k] : k \in {j \in Keys : conns[j] # None}}
  /\ loop' = [pc |-> "down"]
  /\ UNCHANGED <<conns, keyOf, inbox, read, held, reader, sent, asking, closing, closer>>

-----------------------------------------------------------------------------
(* Users                                                                      *)

GetConn(k) ==
  /\ k \notin asking
  /\ asking' = asking \cup {k}
  /\ UNCHANGED <<connVars, loop, reader, sent, closing, closer>>

GetConnFails(k) ==
  /\ k \in asking /\ loop.pc = "down"
  /\ asking' = asking \ {k}
  /\ UNCHANGED <<connVars, loop, reader, sent, closing, closer>>

\* A closed channel still gives what is in it.
Read(c) ==
  /\ c \in held /\ read[c] < Len(inbox[c])
  /\ read' = [read EXCEPT ![c] = @ + 1]
  /\ UNCHANGED <<conns, keyOf, inbox, torndown, held, loop, reader, sent, asking, closing, closer>>

CloseConn(c) ==
  /\ c \in held /\ c \notin closing
  /\ closing' = closing \cup {c}
  /\ UNCHANGED <<connVars, loop, reader, sent, asking, closer>>

\* conn.Close finds that the connection is torn down already.
CloseConnReturns(c) ==
  /\ c \in closing /\ c \in torndown
  /\ closing' = closing \ {c}
  /\ UNCHANGED <<connVars, loop, reader, sent, asking, closer>>

\* The channel of the token has room for one.
CloseMux ==
  /\ closer = "no"
  /\ closer' = "sent"
  /\ UNCHANGED <<connVars, loop, reader, sent, asking, closing>>

CloseMuxReturns ==
  /\ closer = "sent" /\ loop.pc = "down"
  /\ closer' = "returned"
  /\ UNCHANGED <<connVars, loop, reader, sent, asking, closing>>

-----------------------------------------------------------------------------
Loop ==
  \/ handlePacket \/ Deliver \/ TakeTeardown \/ TearDown \/ GetAdvertised
  \/ \E k \in Keys : getNewConn(k)
  \/ \E c \in Conns : handleClose(c)

Next ==
  \/ Loop \/ EndReading \/ AcceptConn \/ CloseMux \/ CloseMuxReturns
  \/ \E k \in Keys : ReadPacket(k) \/ GetConn(k) \/ GetConnFails(k)
  \/ \E c \in Conns : Read(c) \/ CloseConn(c) \/ CloseConnReturns(c)

\* The goroutines run, and the select of the loop chooses at random, so that no
\* request is passed over for ever.
LoopFairness ==
  /\ WF_vars(handlePacket) /\ WF_vars(Deliver) /\ WF_vars(TakeTeardown) /\ WF_vars(TearDown)
  /\ WF_vars(GetAdvertised) /\ WF_vars(EndReading /\ loop.pc = "teardown")
  /\ WF_vars(CloseMuxReturns)
  /\ \A k \in Keys : SF_vars(getNewConn(k)) /\ WF_vars(GetConnFails(k))
  /\ \A c \in Conns : SF_vars(handleClose(c)) /\ WF_vars(CloseConnReturns(c))

Spec == Init /\ [][Next]_vars
FairSpec == Spec /\ LoopFairness

-----------------------------------------------------------------------------
\* Every variable keeps its type.
TypeOK ==
  /\ conns \in [Keys -> Conns \cup {None}]
  /\ keyOf \in [Conns -> Keys \cup {None}]
  /\ inbox \in [Conns -> Seq(Packets)]
  /\ read \in [Conns -> 0..MaxPackets]
  /\ torndown \subseteq Created /\ held \subseteq Created /\ closing \subseteq held
  /\ loop \in [pc : {"select", "teardown", "down"}]
              \cup [pc : {"accept", "deliver"}, conn : Conns, packet : Packets]
  /\ reader \in [pc : {"reads", "ended"}] \cup [pc : {"holds"}, packet : Packets]
  /\ sent \in 0..MaxPackets
  /\ asking \subseteq Keys
  /\ closer \in {"no", "sent", "returned"}

\* A connection that is only advertised is not open yet.
Registered == held \cup {conns[k] : k \in Keys}

\* The loop, its maps and its channels implement the promise of a mux: one open
\* connection per stream, packets in order and only to the connection of their
\* stream, and a Close that closes the connection it was called on and no other.
Promise == INSTANCE Mux WITH
  owner <- IF loop.pc = "down" THEN [k \in Keys |-> None] ELSE conns,
  keyOf <- [c \in Conns |-> IF c \in Registered THEN keyOf[c] ELSE None],
  up <- loop.pc # "down"

KeepsPromise == Promise!Spec

\* The loop never closes a connection that was closed before (close of a closed
\* channel would panic), and what waits for it in the map or in its hands is open.
OpenInMap ==
  /\ loop.pc # "down" => \A k \in Keys : conns[k] \notin torndown
  /\ loop.pc \in {"accept", "deliver"} => loop.conn \notin torndown

\* Somebody accepts connections and reads every connection.
UsersRead == WF_vars(AcceptConn) /\ \A c \in Conns : WF_vars(Read(c))

\* Close of a connection returns, also while the loop waits for room in that very
\* connection, as long as connections are accepted and read.
CloseConnEnds == UsersRead => \A c \in Conns : c \in closing ~> c \notin closing

\* Close of the mux returns whatever its users do: the loop takes the token
\* wherever it waits.
CloseMuxEnds == closer = "sent" ~> closer = "returned"

\* The loop and its map are consistent: no connection is closed twice.
NoDoubleClose == TypeOK /\ OpenInMap

\* Close of a connection and Close of the mux return, although the loop they need
\* may be waiting for a user.
CloseEnds == CloseMuxEnds /\ CloseConnEnds
=============================================================================
