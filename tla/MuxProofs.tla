----------------------------- MODULE MuxProofs -----------------------------
(* The loop of a mux, for any number of keys, connections and packets. A UDP   *)
(* mux takes the steps of a string mux and one more; the theorems are about    *)
(* both.                                                                       *)
EXTENDS StringMux, TLAPS

U == INSTANCE UDPMux

\* The Close of UDPMux takes a connection that is advertised.
Drain ==
  /\ Register
  /\ UNCHANGED <<keyOf, inbox, read, torndown, held, reader, sent, asking, closing, closer>>

\* The map has a connection under its own key; the one that is advertised is new
\* to everybody, and nothing else takes its key meanwhile; the packet in the hands
\* of the loop is for the connection that is in the map.
MapInv ==
  /\ \A k \in Keys : conns[k] # None => keyOf[conns[k]] = k
  /\ loop.pc = "accept" =>
       /\ keyOf[loop.conn] = loop.packet.key
       /\ conns[loop.packet.key] = None
       /\ loop.conn \notin held
  /\ loop.pc = "deliver" => conns[loop.packet.key] = loop.conn

\* Packets are handed on in the order in which they were read: from the reader to
\* the loop, from the loop to a connection.
OrderInv ==
  /\ \A c \in Conns : \A i \in DOMAIN inbox[c] :
       /\ i <= inbox[c][i].n /\ inbox[c][i].n <= sent
       /\ loop.pc \in {"accept", "deliver"} => inbox[c][i].n < loop.packet.n
       /\ reader.pc = "holds" => inbox[c][i].n < reader.packet.n
  /\ loop.pc \in {"accept", "deliver"} => loop.packet.n <= sent
  /\ reader.pc = "holds" => reader.packet.n <= sent
  /\ loop.pc \in {"accept", "deliver"} /\ reader.pc = "holds" => loop.packet.n < reader.packet.n
  /\ \A c \in Conns : read[c] <= Len(inbox[c])

MuxInv == TypeOK /\ MapInv /\ OrderInv /\ OpenInMap

-----------------------------------------------------------------------------
\* The steps of a UDP mux are those of a string mux and the one of its Close.
LEMMA UDPSteps == U!Next => Next \/ Drain
<1> USE DEF U!S!Conns, Conns, U!S!Created, Created, U!S!Fresh, Fresh, U!S!Idle, Idle,
            U!S!connVars, connVars, U!S!Register, Register
<1>1. U!S!handlePacket => handlePacket
  BY DEF U!S!handlePacket, handlePacket
<1>2. U!S!Deliver => Deliver
  BY DEF U!S!Deliver, Deliver
<1>3. U!S!TakeTeardown => TakeTeardown
  BY DEF U!S!TakeTeardown, TakeTeardown
<1>4. U!S!TearDown => TearDown
  BY DEF U!S!TearDown, TearDown
<1>5. U!S!GetAdvertised => GetAdvertised
  BY DEF U!S!GetAdvertised, GetAdvertised
<1>6. U!S!EndReading => EndReading
  BY DEF U!S!EndReading, EndReading
<1>7. U!S!AcceptConn => AcceptConn
  BY DEF U!S!AcceptConn, AcceptConn
<1>8. U!S!CloseMux => CloseMux
  BY DEF U!S!CloseMux, CloseMux
<1>9. U!S!CloseMuxReturns => CloseMuxReturns
  BY DEF U!S!CloseMuxReturns, CloseMuxReturns
<1>10. ASSUME NEW k \in Keys, U!S!ReadPacket(k) PROVE ReadPacket(k)
  BY <1>10 DEF U!S!ReadPacket, ReadPacket
<1>11. ASSUME NEW k \in Keys, U!S!GetConn(k) PROVE GetConn(k)
  BY <1>11 DEF U!S!GetConn, GetConn
<1>12. ASSUME NEW k \in Keys, U!S!GetConnFails(k) PROVE GetConnFails(k)
  BY <1>12 DEF U!S!GetConnFails, GetConnFails
<1>13. ASSUME NEW k \in Keys, U!S!getNewConn(k) PROVE getNewConn(k)
  BY <1>13 DEF U!S!getNewConn, getNewConn
<1>14. ASSUME NEW c \in Conns, U!S!Read(c) PROVE Read(c)
  BY <1>14 DEF U!S!Read, Read
<1>15. ASSUME NEW c \in Conns, U!S!CloseConn(c) PROVE CloseConn(c)
  BY <1>15 DEF U!S!CloseConn, CloseConn
<1>16. ASSUME NEW c \in Conns, U!S!CloseConnReturns(c) PROVE CloseConnReturns(c)
  BY <1>16 DEF U!S!CloseConnReturns, CloseConnReturns
<1>17. ASSUME NEW c \in Conns, U!S!handleClose(c) PROVE handleClose(c)
  BY <1>17 DEF U!S!handleClose, handleClose
<1>18. U!CloseDrains => Drain
  BY DEF U!CloseDrains, Drain
<1> QED
  BY <1>1, <1>2, <1>3, <1>4, <1>5, <1>6, <1>7, <1>8, <1>9, <1>10, <1>11, <1>12, <1>13, <1>14, <1>15, <1>16, <1>17, <1>18
     DEF U!Next, U!handlePacket, U!handlePacketEnds, U!TakeTeardown, U!TearDown, U!acceptOrGet, U!EndReading,
         U!AcceptConn, U!Close, U!ReadFrom, U!GetConn, U!getNewConn, U!Read, U!CloseConn, U!handleClose, U!Conns,
         Next, Loop

\* What the loop and the reader hold.
LEMMA HoldType ==
  ASSUME TypeOK
  PROVE  /\ loop.pc \in {"select", "teardown", "down", "accept", "deliver"}
         /\ reader.pc \in {"reads", "ended", "holds"}
         /\ loop.pc \in {"accept", "deliver"} =>
              /\ loop \in [pc : {"accept", "deliver"}, conn : Conns, packet : Packets]
              /\ loop.conn \in Conns /\ loop.packet \in Packets
              /\ loop.packet.n \in 1..MaxPackets /\ loop.packet.key \in Keys
         /\ reader.pc = "holds" =>
              /\ reader.packet \in Packets
              /\ reader.packet.n \in 1..MaxPackets /\ reader.packet.key \in Keys
BY DEF TypeOK, Packets

\* What is in a connection.
LEMMA InboxType ==
  ASSUME TypeOK, NEW c \in Conns
  PROVE  /\ inbox[c] \in Seq(Packets) /\ Len(inbox[c]) \in Nat
         /\ \A i \in DOMAIN inbox[c] : i \in 1..Len(inbox[c]) /\ i \in Nat /\ inbox[c][i].n \in Nat
<1>1. inbox[c] \in Seq(Packets)
  BY DEF TypeOK
<1>2. Len(inbox[c]) \in Nat /\ DOMAIN inbox[c] = 1..Len(inbox[c])
  BY <1>1
<1>3. \A i \in 1..Len(inbox[c]) : inbox[c][i] \in Packets
  BY <1>1
<1> QED BY <1>1, <1>2, <1>3 DEF Packets

\* The next connection is one that nobody has seen.
LEMMA FreshConn ==
  ASSUME TypeOK, Created # Conns
  PROVE  /\ Fresh \in Conns /\ Fresh \notin Created /\ Fresh # None
         /\ keyOf[Fresh] = None /\ Fresh \notin torndown /\ Fresh \notin held
BY MuxAssumption DEF Fresh, Created, Conns, TypeOK

\* A key and a connection are never mistaken for the absence of one.
LEMMA NotNone == (\A k \in Keys : k # None) /\ (\A c \in Conns : c # None)
BY MuxAssumption DEF Conns

\* A mux starts without connections.
LEMMA MuxInit == Init => MuxInv
<1> SUFFICES ASSUME Init PROVE MuxInv
  OBVIOUS
<1>1. TypeOK
  BY MuxAssumption DEF Init, TypeOK, Idle, Created
<1>2. MapInv /\ OrderInv /\ OpenInMap
  BY NotNone DEF Init, Idle, MapInv, OrderInv, OpenInMap
<1> QED BY <1>1, <1>2 DEF MuxInv

\* Steps that touch neither the connections nor the loop.
LEMMA QuietInv ==
  ASSUME MuxInv, UNCHANGED <<connVars, loop, sent>>,
         reader' = reader \/ reader' = [pc |-> "ended"],
         asking' \subseteq Keys, closing' \subseteq held, closer' \in {"no", "sent", "returned"}
  PROVE  MuxInv'
<1>1. TypeOK'
  BY DEF MuxInv, TypeOK, Created, connVars
<1>2. MapInv' /\ OpenInMap'
  BY DEF MuxInv, MapInv, OpenInMap, connVars
<1>3. OrderInv'
  BY DEF MuxInv, OrderInv, connVars
<1> QED BY <1>1, <1>2, <1>3 DEF MuxInv

\* A packet that arrives comes after all others.
LEMMA ReadPacketInv ==
  ASSUME MuxInv, NEW k \in Keys, ReadPacket(k)
  PROVE  MuxInv'
<1>1. /\ UNCHANGED <<connVars, loop, asking, closing, closer>> /\ sent' = sent + 1
      /\ reader' = [pc |-> "holds", packet |-> [n |-> sent + 1, key |-> k]]
      /\ sent \in Nat /\ sent < MaxPackets
  BY MuxAssumption DEF ReadPacket, MuxInv, TypeOK
<1>2. TypeOK'
  <2> DEFINE pkt == [n |-> sent + 1, key |-> k]
  <2>1. pkt \in Packets /\ sent + 1 \in 0..MaxPackets
    BY <1>1, MuxAssumption DEF Packets
  <2>2. reader' = [pc |-> "holds", packet |-> pkt]
    BY <1>1
  <2> HIDE DEF pkt
  <2>3. reader' \in [pc : {"holds"}, packet : Packets]
    BY <2>1, <2>2
  <2> QED BY <1>1, <2>1, <2>3 DEF MuxInv, TypeOK, Created, connVars
<1>3. MapInv' /\ OpenInMap'
  BY <1>1 DEF MuxInv, MapInv, OpenInMap, connVars
<1>4. OrderInv'
  <2>1. /\ inbox' = inbox /\ loop' = loop /\ read' = read
        /\ reader'.pc = "holds" /\ reader'.packet.n = sent + 1
    BY <1>1 DEF connVars
  <2>2. \A c \in Conns : \A i \in DOMAIN inbox[c] : inbox[c][i].n \in Nat /\ i \in Nat
    BY InboxType DEF MuxInv
  <2>3. loop.pc \in {"accept", "deliver"} => loop.packet.n \in Nat
    BY HoldType DEF MuxInv
  <2> QED BY <1>1, <2>1, <2>2, <2>3 DEF MuxInv, OrderInv
<1> QED BY <1>2, <1>3, <1>4 DEF MuxInv

\* A connection is made for a key that has none.
LEMMA getNewConnInv ==
  ASSUME MuxInv, NEW k \in Keys, getNewConn(k)
  PROVE  MuxInv'
<1>1. CASE conns[k] # None
  BY <1>1, QuietInv DEF getNewConn, connVars, MuxInv, TypeOK
<1>2. CASE conns[k] = None
  <2> DEFINE c == Fresh
  <2>1. /\ c \in Conns /\ c \notin Created /\ c # None /\ keyOf[c] = None
        /\ c \notin torndown /\ c \notin held
    BY <1>2, FreshConn DEF getNewConn, MuxInv
  <2>2. /\ keyOf' = [keyOf EXCEPT ![c] = k] /\ conns' = [conns EXCEPT ![k] = c]
        /\ held' = held \cup {c} /\ asking' = asking \ {k}
        /\ UNCHANGED <<inbox, read, torndown, loop, reader, sent, closing, closer>>
        /\ loop.pc = "select" \/ (loop.pc = "accept" /\ keyOf[loop.conn] # k)
    BY <1>2 DEF getNewConn
  <2> HIDE DEF c
  <2>3. Created' = Created \cup {c}
    BY <2>1, <2>2, NotNone DEF Created, MuxInv, TypeOK
  <2>4. TypeOK'
    BY <2>1, <2>2, <2>3 DEF MuxInv, TypeOK
  <2>5. /\ \A j \in Keys : conns'[j] = IF j = k THEN c ELSE conns[j]
        /\ \A d \in Conns : keyOf'[d] = IF d = c THEN k ELSE keyOf[d]
    BY <2>1, <2>2 DEF MuxInv, TypeOK
  <2>6. \A j \in Keys : conns[j] # None => conns[j] # c /\ conns[j] \in Conns
    BY <2>1, NotNone DEF MuxInv, MapInv, TypeOK
  <2>7. MapInv'
    <3>1. \A j \in Keys : conns'[j] # None => keyOf'[conns'[j]] = j
      BY <2>1, <2>5, <2>6 DEF MuxInv, MapInv
    <3>2. loop.pc = "accept" => /\ loop.conn \in Conns /\ loop.packet.key \in Keys /\ loop.conn # c
                                /\ loop.packet.key # k
      BY <2>1, <2>2, HoldType, NotNone DEF MuxInv, MapInv
    <3> QED BY <2>2, <2>5, <3>1, <3>2 DEF MuxInv, MapInv
  <2>8. OpenInMap'
    BY <2>1, <2>2, <2>5 DEF MuxInv, OpenInMap
  <2>9. OrderInv'
    BY <2>2 DEF MuxInv, OrderInv
  <2> QED BY <2>4, <2>7, <2>8, <2>9 DEF MuxInv
<1> QED BY <1>1, <1>2

\* The loop takes a packet from the reader, for a connection that is in the map or
\* for a new one.
LEMMA handlePacketInv ==
  ASSUME MuxInv, handlePacket
  PROVE  MuxInv'
<1> DEFINE pkt == reader.packet
<1>1. /\ loop.pc = "select" /\ reader.pc = "holds" /\ reader' = [pc |-> "reads"]
      /\ UNCHANGED <<conns, inbox, read, torndown, held, sent, asking, closing, closer>>
  BY DEF handlePacket
<1>2. pkt \in Packets /\ pkt.key \in Keys /\ pkt.n \in Nat
  BY <1>1, HoldType DEF MuxInv
<1> HIDE DEF pkt
<1>3. ASSUME NEW c, NEW pc \in {"accept", "deliver"}, loop' = [pc |-> pc, conn |-> c, packet |-> pkt]
      PROVE  OrderInv'
  BY <1>1, <1>2, <1>3 DEF MuxInv, OrderInv, pkt
<1>4. CASE conns[pkt.key] # None
  <2>1. loop' = [pc |-> "deliver", conn |-> conns[pkt.key], packet |-> pkt] /\ keyOf' = keyOf
    BY <1>4 DEF handlePacket, pkt
  <2>2. conns[pkt.key] \in Conns
    BY <1>2, <1>4 DEF MuxInv, TypeOK
  <2>3. TypeOK'
    BY <1>1, <1>2, <2>1, <2>2 DEF MuxInv, TypeOK, Created
  <2>4. MapInv' /\ OpenInMap'
    BY <1>1, <1>2, <2>1 DEF MuxInv, MapInv, OpenInMap
  <2> QED BY Zenon, <1>3, <2>1, <2>3, <2>4 DEF MuxInv
<1>5. CASE conns[pkt.key] = None
  <2> DEFINE c == Fresh
  <2>1. /\ c \in Conns /\ c \notin Created /\ c # None /\ keyOf[c] = None
        /\ c \notin torndown /\ c \notin held
    BY <1>5, FreshConn DEF handlePacket, MuxInv, pkt
  <2>2. /\ loop' = [pc |-> "accept", conn |-> c, packet |-> pkt]
        /\ keyOf' = [keyOf EXCEPT ![c] = pkt.key]
    BY <1>5 DEF handlePacket, pkt
  <2> HIDE DEF c
  <2>3. Created' = Created \cup {c}
    BY <1>2, <2>1, <2>2, NotNone DEF Created, MuxInv, TypeOK
  <2>4. TypeOK'
    BY <1>1, <1>2, <2>1, <2>2, <2>3 DEF MuxInv, TypeOK
  <2>5. \A d \in Conns : keyOf'[d] = IF d = c THEN pkt.key ELSE keyOf[d]
    BY <2>1, <2>2 DEF MuxInv, TypeOK
  <2>6. \A j \in Keys : conns[j] # None => conns[j] # c /\ conns[j] \in Conns
    BY <2>1, NotNone DEF MuxInv, MapInv, TypeOK
  <2>7. MapInv' /\ OpenInMap'
    BY <1>1, <1>2, <1>5, <2>1, <2>2, <2>5, <2>6 DEF MuxInv, MapInv, OpenInMap
  <2> QED BY Zenon, <1>3, <2>2, <2>4, <2>7 DEF MuxInv
<1> QED BY <1>4, <1>5

\* The connection that was advertised goes to the map.
LEMMA RegisterInv ==
  ASSUME MuxInv, Register, UNCHANGED <<keyOf, inbox, read, torndown, reader, sent, closing, closer>>,
         held' \in {held, held \cup {loop.conn}}, asking' \subseteq Keys
  PROVE  MuxInv'
<1> DEFINE c == loop.conn
           k == loop.packet.key
<1>1. /\ loop.pc = "accept" /\ c \in Conns /\ k \in Keys /\ loop.packet \in Packets /\ loop.packet.n \in Nat
      /\ keyOf[c] = k /\ conns[k] = None /\ c \notin torndown /\ c # None
      /\ loop \in [pc : {"accept", "deliver"}, conn : Conns, packet : Packets]
  BY HoldType, NotNone DEF MuxInv, Register, MapInv, OpenInMap
<1>2. /\ conns' = [conns EXCEPT ![k] = c] /\ loop' = [loop EXCEPT !.pc = "deliver"]
      /\ loop'.pc = "deliver" /\ loop'.conn = c /\ loop'.packet = loop.packet
      /\ loop' \in [pc : {"accept", "deliver"}, conn : Conns, packet : Packets]
  BY <1>1 DEF Register
<1>3. c \in Created /\ Created' = Created
  BY <1>1, NotNone DEF Created
<1> HIDE DEF c, k
<1>4. TypeOK'
  BY <1>1, <1>2, <1>3 DEF MuxInv, TypeOK, c
<1>5. \A j \in Keys : conns'[j] = IF j = k THEN c ELSE conns[j]
  BY <1>1, <1>2 DEF MuxInv, TypeOK
<1>6. MapInv'
  BY <1>1, <1>2, <1>5 DEF MuxInv, MapInv, k
<1>7. OpenInMap'
  BY <1>1, <1>2, <1>5 DEF MuxInv, OpenInMap
<1>8. OrderInv'
  BY <1>1, <1>2 DEF MuxInv, OrderInv
<1> QED BY <1>4, <1>6, <1>7, <1>8 DEF MuxInv

\* The packet comes after everything that was ever put into a connection.
LEMMA DeliverInv ==
  ASSUME MuxInv, Deliver
  PROVE  MuxInv'
<1> DEFINE c == loop.conn
           p == loop.packet
<1>1. /\ loop.pc = "deliver" /\ c \in Conns /\ p \in Packets /\ p.n \in 1..MaxPackets
      /\ loop' = [pc |-> "select"] /\ inbox' = [inbox EXCEPT ![c] = Append(inbox[c], p)]
      /\ UNCHANGED <<conns, keyOf, read, torndown, held, reader, sent, asking, closing, closer>>
  BY HoldType DEF MuxInv, Deliver, Idle
<1> HIDE DEF c
<1>2. /\ inbox[c] \in Seq(Packets) /\ Len(inbox[c]) \in Nat
      /\ Append(inbox[c], p) \in Seq(Packets) /\ Len(Append(inbox[c], p)) = Len(inbox[c]) + 1
      /\ DOMAIN Append(inbox[c], p) = 1..(Len(inbox[c]) + 1)
      /\ DOMAIN inbox[c] = 1..Len(inbox[c])
      /\ \A i \in 1..Len(inbox[c]) : Append(inbox[c], p)[i] = inbox[c][i]
      /\ Append(inbox[c], p)[Len(inbox[c]) + 1] = p
  BY <1>1, InboxType DEF MuxInv
<1>3. Len(inbox[c]) + 1 <= p.n
  <2>1. CASE Len(inbox[c]) = 0
    BY <1>1, <2>1
  <2>2. CASE Len(inbox[c]) # 0
    <3>1. Len(inbox[c]) \in DOMAIN inbox[c]
      BY <1>2, <2>2
    <3>2. Len(inbox[c]) <= inbox[c][Len(inbox[c])].n /\ inbox[c][Len(inbox[c])].n < p.n
      BY <1>1, <3>1 DEF MuxInv, OrderInv
    <3>3. inbox[c][Len(inbox[c])].n \in Nat
      BY <1>1, <3>1, InboxType DEF MuxInv
    <3> QED BY <1>1, <1>2, <3>2, <3>3
  <2> QED BY <2>1, <2>2
<1>4. \A d \in Conns : inbox'[d] = IF d = c THEN Append(inbox[c], p) ELSE inbox[d]
  BY <1>1 DEF MuxInv, TypeOK
<1>5. TypeOK'
  <2>1. inbox' \in [Conns -> Seq(Packets)]
    BY <1>1, <1>2 DEF MuxInv, TypeOK
  <2> QED BY <1>1, <2>1 DEF MuxInv, TypeOK, Created
<1>6. MapInv' /\ OpenInMap'
  BY <1>1 DEF MuxInv, MapInv, OpenInMap
<1>7. OrderInv'
  <2>1. loop'.pc = "select" /\ p.n <= sent /\ (reader.pc = "holds" => p.n < reader.packet.n)
    BY <1>1 DEF MuxInv, OrderInv
  <2>2. ASSUME NEW d \in Conns, NEW i \in DOMAIN inbox'[d]
        PROVE  /\ i <= inbox'[d][i].n /\ inbox'[d][i].n <= sent
               /\ reader.pc = "holds" => inbox'[d][i].n < reader.packet.n
    <3>1. CASE d = c /\ i = Len(inbox[c]) + 1
      BY Zenon, <1>2, <1>3, <1>4, <2>1, <3>1
    <3>2. CASE ~(d = c /\ i = Len(inbox[c]) + 1)
      <4>1. i \in DOMAIN inbox[d] /\ inbox'[d][i] = inbox[d][i]
        <5>1. CASE d # c
          BY <1>4, <5>1
        <5>2. CASE d = c
          <6>1. inbox'[d] = Append(inbox[c], p)
            BY Zenon, <1>4, <5>2
          <6>2. i \in 1..(Len(inbox[c]) + 1) /\ i # Len(inbox[c]) + 1
            BY <1>2, <3>2, <5>2, <6>1
          <6>3. i \in 1..Len(inbox[c])
            BY <1>2, <6>2
          <6> QED BY <1>2, <5>2, <6>1, <6>3
        <5> QED BY <5>1, <5>2
      <4>2. /\ i <= inbox[d][i].n /\ inbox[d][i].n <= sent
            /\ reader.pc = "holds" => inbox[d][i].n < reader.packet.n
        BY <4>1 DEF MuxInv, OrderInv
      <4> QED BY <4>1, <4>2
    <3> QED BY <3>1, <3>2
  <2>3. \A d \in Conns : read[d] <= Len(inbox'[d])
    <3>1. \A d \in Conns : read[d] <= Len(inbox[d]) /\ read[d] \in Nat
      BY DEF MuxInv, OrderInv, TypeOK
    <3> QED BY <1>1, <1>2, <1>4, <3>1
  <2> QED BY <1>1, <2>1, <2>2, <2>3 DEF MuxInv, OrderInv
<1> QED BY <1>5, <1>6, <1>7 DEF MuxInv

\* A connection that is closed leaves the map, unless it had left it.
LEMMA handleCloseInv ==
  ASSUME MuxInv, NEW c \in Conns, handleClose(c)
  PROVE  MuxInv'
<1> DEFINE mine == conns[keyOf[c]] = c
<1>1. /\ loop.pc = "select" /\ c \in Created /\ keyOf[c] \in Keys /\ c # None
      /\ closing' = closing \ {c}
      /\ UNCHANGED <<keyOf, inbox, read, held, loop, reader, sent, asking, closer>>
  BY NotNone DEF handleClose, MuxInv, TypeOK, Created
<1>2. /\ conns' = IF mine THEN [conns EXCEPT ![keyOf[c]] = None] ELSE conns
      /\ torndown' = IF mine THEN torndown \cup {c} ELSE torndown
  BY DEF handleClose
<1>3. TypeOK'
  BY <1>1, <1>2 DEF MuxInv, TypeOK, Created
<1>4. \A k \in Keys : conns'[k] = IF mine /\ k = keyOf[c] THEN None ELSE conns[k]
  BY <1>1, <1>2 DEF MuxInv, TypeOK
<1>5. MapInv'
  BY <1>1, <1>4 DEF MuxInv, MapInv
<1>6. OpenInMap'
  <2>1. \A k \in Keys : conns'[k] # c \/ ~mine
    BY <1>1, <1>4 DEF MuxInv, MapInv
  <2>2. None \notin torndown'
    BY <1>3, NotNone DEF TypeOK, Created
  <2> QED BY <1>1, <1>2, <1>4, <2>1, <2>2 DEF MuxInv, OpenInMap
<1>7. OrderInv'
  BY <1>1 DEF MuxInv, OrderInv
<1> QED BY <1>3, <1>5, <1>6, <1>7 DEF MuxInv

\* The loop ends, and closes what is in its map.
LEMMA EndInv ==
  ASSUME MuxInv, TakeTeardown \/ TearDown
  PROVE  MuxInv'
<1>1. CASE TakeTeardown
  <2>1. loop' = [pc |-> "teardown"] /\ UNCHANGED <<connVars, reader, sent, asking, closing, closer>>
        /\ loop.pc # "down"
    BY <1>1 DEF TakeTeardown
  <2>2. TypeOK'
    BY <2>1 DEF MuxInv, TypeOK, Created, connVars
  <2>3. MapInv' /\ OpenInMap' /\ OrderInv'
    BY <2>1 DEF MuxInv, MapInv, OpenInMap, OrderInv, connVars
  <2> QED BY <2>2, <2>3 DEF MuxInv
<1>2. CASE TearDown
  <2>1. loop' = [pc |-> "down"] /\ UNCHANGED <<conns, keyOf, inbox, read, held, reader, sent, asking, closing, closer>>
    BY <1>2 DEF TearDown
  <2>2. torndown' \subseteq Created
    BY <1>2, NotNone DEF TearDown, MuxInv, MapInv, TypeOK, Created
  <2>3. TypeOK'
    BY <2>1, <2>2 DEF MuxInv, TypeOK, Created
  <2>4. MapInv' /\ OpenInMap' /\ OrderInv'
    BY <2>1 DEF MuxInv, MapInv, OpenInMap, OrderInv
  <2> QED BY <2>3, <2>4 DEF MuxInv
<1> QED BY <1>1, <1>2

\* A user reads what was put into the connection, and no more.
LEMMA ReadInv ==
  ASSUME MuxInv, NEW c \in Conns, Read(c)
  PROVE  MuxInv'
<1>1. /\ read[c] < Len(inbox[c]) /\ read' = [read EXCEPT ![c] = read[c] + 1]
      /\ UNCHANGED <<conns, keyOf, inbox, torndown, held, loop, reader, sent, asking, closing, closer>>
      /\ read[c] \in Nat /\ Len(inbox[c]) \in Nat
  BY InboxType DEF Read, MuxInv, TypeOK
<1>2. read[c] + 1 <= Len(inbox[c]) /\ read[c] + 1 \in 0..MaxPackets
  <2>1. Len(inbox[c]) \in DOMAIN inbox[c]
    BY <1>1, InboxType DEF MuxInv, TypeOK
  <2>2. Len(inbox[c]) <= inbox[c][Len(inbox[c])].n /\ inbox[c][Len(inbox[c])].n <= sent
    BY <2>1 DEF MuxInv, OrderInv
  <2>3. inbox[c][Len(inbox[c])].n \in Nat /\ sent \in 0..MaxPackets
    BY <2>1, InboxType DEF MuxInv, TypeOK
  <2> QED BY <1>1, <2>2, <2>3, MuxAssumption
<1>3. TypeOK'
  BY <1>1, <1>2 DEF MuxInv, TypeOK, Created
<1>4. \A d \in Conns : read'[d] <= Len(inbox[d])
  BY <1>1, <1>2 DEF MuxInv, OrderInv, TypeOK
<1>5. OrderInv'
  BY <1>1, <1>4 DEF MuxInv, OrderInv
<1>6. MapInv' /\ OpenInMap'
  BY <1>1 DEF MuxInv, MapInv, OpenInMap
<1> QED BY <1>3, <1>5, <1>6 DEF MuxInv

\* No step of the loop, the reader or a user breaks the invariant.
LEMMA MuxStep == MuxInv /\ [Next \/ Drain]_vars => MuxInv'
<1> SUFFICES ASSUME MuxInv, [Next \/ Drain]_vars PROVE MuxInv'
  OBVIOUS
<1>1. CASE Loop
  <2>1. ASSUME GetAdvertised PROVE MuxInv'
    BY <2>1, RegisterInv DEF GetAdvertised, MuxInv, TypeOK
  <2> QED BY <1>1, <2>1, handlePacketInv, DeliverInv, EndInv, getNewConnInv, handleCloseInv DEF Loop
<1>2. CASE AcceptConn \/ Drain
  BY <1>2, RegisterInv DEF AcceptConn, Drain, MuxInv, TypeOK
<1>3. CASE EndReading \/ CloseMux \/ CloseMuxReturns
  BY <1>3, QuietInv DEF EndReading, CloseMux, CloseMuxReturns, MuxInv, TypeOK
<1>4. ASSUME NEW k \in Keys, ReadPacket(k) \/ GetConn(k) \/ GetConnFails(k) PROVE MuxInv'
  <2>1. ASSUME GetConn(k) \/ GetConnFails(k) PROVE MuxInv'
    BY <2>1, QuietInv DEF GetConn, GetConnFails, MuxInv, TypeOK
  <2> QED BY <1>4, <2>1, ReadPacketInv
<1>5. ASSUME NEW c \in Conns, Read(c) \/ CloseConn(c) \/ CloseConnReturns(c) PROVE MuxInv'
  <2>1. ASSUME CloseConn(c) \/ CloseConnReturns(c) PROVE MuxInv'
    BY <2>1, QuietInv DEF CloseConn, CloseConnReturns, MuxInv, TypeOK, connVars
  <2> QED BY <1>5, <2>1, ReadInv
<1>6. CASE UNCHANGED vars
  BY <1>6, QuietInv DEF vars, connVars, MuxInv, TypeOK
<1> QED BY <1>1, <1>2, <1>3, <1>4, <1>5, <1>6 DEF Next

\* A connection that the loop closes, when its user asks for it or when the mux
\* ends, was not closed before; this holds for both muxes.
THEOREM NeverClosedTwice == Init /\ [][Next \/ U!Next]_vars => []NoDoubleClose
<1>1. MuxInv => NoDoubleClose
  BY DEF MuxInv, NoDoubleClose
<1> QED BY <1>1, MuxInit, MuxStep, UDPSteps, PTL

-----------------------------------------------------------------------------
(* The promise of a mux, with the refinement mapping of Promise                *)

Owner == IF loop.pc = "down" THEN [k \in Keys |-> None] ELSE conns
Key == [c \in Conns |-> IF c \in Registered THEN keyOf[c] ELSE None]

\* The first state of a mux is one of the promise.
LEMMA PromiseInit == Init => Promise!Init
BY DEF Init, Idle, Promise!Init, Registered

\* A connection that was registered stays so: it may leave the map, but only when
\* a user has it. One that is created is not registered yet.
LEMMA RegisteredType ==
  ASSUME MuxInv, NEW c \in Conns, c \in Registered
  PROVE  c \in Created /\ keyOf[c] \in Keys
<1>1. /\ keyOf \in [Conns -> Keys \cup {None}] /\ held \subseteq Created
      /\ \A k \in Keys : conns[k] # None => keyOf[conns[k]] = k
  BY DEF MuxInv, TypeOK, MapInv
<1>2. CASE c \in held
  BY <1>1, <1>2 DEF Created
<1>3. CASE \E k \in Keys : c = conns[k]
  BY <1>1, <1>3, NotNone DEF Created
<1> QED BY <1>2, <1>3 DEF Registered

\* Steps that the users of the promise do not see.
LEMMA Hidden ==
  ASSUME UNCHANGED <<connVars, closing>>, (loop.pc = "down") = (loop'.pc = "down")
  PROVE  UNCHANGED Promise!vars
BY DEF connVars, Promise!vars, Registered

\* A connection that nobody had becomes the connection of a key without one.
LEMMA Opens ==
  ASSUME MuxInv, NEW k \in Keys, NEW c \in Conns,
         conns[k] = None, c \notin Registered, loop.pc # "down", loop'.pc # "down",
         conns' = [conns EXCEPT ![k] = c], held' \in {held, held \cup {c}},
         keyOf' = [keyOf EXCEPT ![c] = k], UNCHANGED <<inbox, read, closing>>
  PROVE  Promise!Next
<1>1. Owner[k] = None /\ Owner' = [Owner EXCEPT ![k] = c]
  BY DEF Owner
<1>2. c \in Registered' /\ \A d \in Conns \ {c} : d \in Registered' <=> d \in Registered
  <2>1. \A j \in Keys : conns'[j] = IF j = k THEN c ELSE conns[j]
    BY DEF MuxInv, TypeOK
  <2> QED BY <2>1, NotNone DEF Registered
<1>3. \A d \in Conns : keyOf'[d] = IF d = c THEN k ELSE keyOf[d]
  BY DEF MuxInv, TypeOK
<1>4. Key[c] = None /\ Key' = [Key EXCEPT ![c] = k]
  BY Zenon, <1>2, <1>3 DEF Key
<1>5. Promise!Open(k, c)
  BY <1>1, <1>4 DEF Promise!Open, Owner, Key
<1> QED BY <1>5 DEF Promise!Next

\* getNewConn opens a connection, or nobody notices it.
LEMMA getNewConnPromise ==
  ASSUME MuxInv, NEW k \in Keys, getNewConn(k)
  PROVE  [Promise!Next]_(Promise!vars)
<1>1. CASE conns[k] # None
  BY <1>1, Hidden DEF getNewConn, connVars
<1>2. CASE conns[k] = None
  <2>1. Fresh \in Conns /\ Fresh \notin Registered
    BY <1>2, FreshConn, RegisteredType DEF getNewConn, MuxInv
  <2> QED BY <1>2, <2>1, Opens DEF getNewConn
<1> QED BY <1>1, <1>2

\* So does whoever takes the connection that is advertised.
LEMMA RegisterPromise ==
  ASSUME MuxInv, Register, UNCHANGED <<keyOf, inbox, read, closing>>,
         held' \in {held, held \cup {loop.conn}}
  PROVE  Promise!Next
<1> DEFINE c == loop.conn
           k == loop.packet.key
<1>1. /\ loop.pc = "accept" /\ c \in Conns /\ k \in Keys /\ keyOf[c] = k /\ conns[k] = None
      /\ c \notin held /\ c # None
      /\ loop \in [pc : {"accept", "deliver"}, conn : Conns, packet : Packets]
  BY HoldType, NotNone DEF MuxInv, Register, MapInv
<1>2. c \notin Registered
  BY <1>1 DEF Registered, MuxInv, MapInv
<1>3. conns' = [conns EXCEPT ![k] = c] /\ loop'.pc = "deliver"
  BY <1>1 DEF Register
<1>4. keyOf' = [keyOf EXCEPT ![c] = k]
  BY <1>1 DEF MuxInv, TypeOK
<1> QED BY Zenon, <1>1, <1>2, <1>3, <1>4, Opens

\* A connection that is only advertised is not seen.
LEMMA handlePacketPromise ==
  ASSUME MuxInv, handlePacket
  PROVE  UNCHANGED Promise!vars
<1>1. /\ loop.pc # "down" /\ loop'.pc # "down"
      /\ UNCHANGED <<conns, inbox, read, held, closing>>
  BY DEF handlePacket
<1>2. Registered' = Registered
  BY <1>1 DEF Registered
<1>3. \A c \in Conns : c \in Registered => keyOf'[c] = keyOf[c]
  <2>1. CASE keyOf' = keyOf
    BY <2>1
  <2>2. CASE Created # Conns /\ keyOf' = [keyOf EXCEPT ![Fresh] = reader.packet.key]
    <3>1. Fresh \in Conns /\ Fresh \notin Registered
      BY <2>2, FreshConn, RegisteredType DEF MuxInv
    <3> QED BY <2>2, <3>1 DEF MuxInv, TypeOK
  <2> QED BY <2>1, <2>2 DEF handlePacket
<1>4. Key' = Key
  BY <1>2, <1>3 DEF Key
<1> QED BY <1>1, <1>4 DEF Promise!vars, Key

\* The loop puts a packet into the connection of its key, after all packets of
\* that key that any connection ever got.
LEMMA DeliverPromise ==
  ASSUME MuxInv, Deliver
  PROVE  Promise!Next
<1> DEFINE p == loop.packet
           c == loop.conn
<1>1. /\ loop.pc = "deliver" /\ c \in Conns /\ p \in Packets /\ p.key \in Keys
      /\ conns[p.key] = c /\ c # None
      /\ loop'.pc = "select" /\ inbox' = [inbox EXCEPT ![c] = Append(inbox[c], p)]
      /\ UNCHANGED <<conns, keyOf, read, held, closing>>
  BY HoldType, NotNone DEF MuxInv, MapInv, Deliver, Idle
<1>2. Owner = conns /\ Owner' = Owner /\ Key' = Key
  BY <1>1 DEF Owner, Key, Registered
<1>3. \A n \in Promise!Delivered(p.key) : n < p.n
  <2>1. \A d \in Conns : \A i \in DOMAIN inbox[d] : inbox[d][i].n < p.n
    BY <1>1 DEF MuxInv, OrderInv
  <2>2. \A k, n : n \in Promise!Delivered(k) => \E d \in Conns : \E i \in DOMAIN inbox[d] : n = inbox[d][i].n
    BY Zenon DEF Promise!Delivered
  <2> QED BY <2>1, <2>2
<1>4. Promise!Deliver(p)
  BY Zenon, <1>1, <1>2, <1>3 DEF Promise!Deliver, Owner, Key
<1> QED BY <1>1, <1>4 DEF Promise!Next

\* Close of a connection closes it, or finds that it is closed.
LEMMA ClosePromise ==
  ASSUME MuxInv, NEW c \in Conns, handleClose(c) \/ CloseConnReturns(c)
  PROVE  Promise!Next
<1>1. /\ c \in closing /\ closing' = closing \ {c} /\ UNCHANGED <<inbox, read, loop, keyOf, held>>
  BY DEF handleClose, CloseConnReturns, connVars
<1>2. c \in held /\ keyOf[c] \in Keys /\ c # None
  BY <1>1, NotNone DEF MuxInv, TypeOK, Created
<1>3. Owner' = [k \in Keys |-> IF Owner[k] = c THEN None ELSE Owner[k]]
  <2>1. CASE handleClose(c)
    <3>1. conns' \in [Keys -> Conns \cup {None}] /\ loop.pc = "select"
      BY Zenon, <2>1 DEF handleClose, MuxInv, TypeOK
    <3>2. \A k \in Keys : conns'[k] = IF conns[k] = c THEN None ELSE conns[k]
      BY <1>2, <2>1 DEF handleClose, MuxInv, MapInv, TypeOK
    <3> QED BY <1>1, <3>1, <3>2 DEF Owner
  <2>2. CASE CloseConnReturns(c)
    <3>1. \A k \in Keys : Owner[k] # c
      BY <1>2, <2>2 DEF CloseConnReturns, Owner, MuxInv, OpenInMap
    <3>2. Owner' = Owner /\ Owner \in [Keys -> Conns \cup {None}]
      BY <2>2 DEF CloseConnReturns, connVars, Owner, MuxInv, TypeOK
    <3> QED BY <3>1, <3>2
  <2> QED BY <2>1, <2>2
<1>4. \A d \in Conns : d \in Registered' <=> d \in Registered
  <2>1. CASE handleClose(c)
    <3>1. \A k \in Keys : conns'[k] = conns[k] \/ (conns[k] = c /\ conns'[k] = None)
      BY <1>2, <2>1 DEF handleClose, MuxInv, TypeOK
    <3> QED BY <1>1, <1>2, <3>1, NotNone DEF Registered
  <2>2. CASE CloseConnReturns(c)
    BY <2>2 DEF CloseConnReturns, connVars, Registered
  <2> QED BY <2>1, <2>2
<1>5. Key' = Key
  BY <1>1, <1>4 DEF Key
<1>6. Promise!Close(c)
  BY <1>1, <1>3, <1>5 DEF Promise!Close, Owner, Key
<1> QED BY <1>6 DEF Promise!Next

\* The end of the mux closes every connection.
LEMMA TearDownPromise ==
  ASSUME MuxInv, TearDown
  PROVE  Promise!Next
<1>1. loop.pc # "down" /\ loop'.pc = "down" /\ UNCHANGED <<conns, keyOf, held, inbox, read, closing>>
  BY DEF TearDown
<1>2. Key' = Key /\ Owner' = [k \in Keys |-> None]
  BY <1>1 DEF Key, Owner, Registered
<1>3. Promise!TearDown
  BY <1>1, <1>2 DEF Promise!TearDown, Owner, Key
<1> QED BY <1>3 DEF Promise!Next

\* A user reads from a connection.
LEMMA ReadPromise ==
  ASSUME MuxInv, NEW c \in Conns, Read(c)
  PROVE  Promise!Next
<1>1. UNCHANGED <<Owner, Key>>
  BY DEF Read, Owner, Key, Registered
<1>2. Promise!Read(c)
  BY <1>1 DEF Read, Promise!Read, Owner, Key
<1> QED BY <1>2 DEF Promise!Next

\* A user closes a connection it was given.
LEMMA CloseConnPromise ==
  ASSUME MuxInv, NEW c \in Conns, CloseConn(c)
  PROVE  Promise!Next
<1>1. UNCHANGED <<Owner, Key>> /\ c \in Registered
  BY DEF CloseConn, connVars, Owner, Key, Registered
<1>2. Key[c] # None
  BY <1>1, RegisteredType, NotNone DEF Key
<1>3. Promise!AskClose(c)
  BY <1>1, <1>2 DEF CloseConn, connVars, Promise!AskClose, Promise!Opened, Owner, Key
<1> QED BY <1>3 DEF Promise!Next

\* Every step of a mux is a step of the promise, or hidden from it.
LEMMA PromiseStep == MuxInv /\ [Next \/ Drain]_vars => [Promise!Next]_(Promise!vars)
<1> SUFFICES ASSUME MuxInv, [Next \/ Drain]_vars PROVE [Promise!Next]_(Promise!vars)
  OBVIOUS
<1>1. CASE Loop
  <2>1. ASSUME TakeTeardown PROVE UNCHANGED Promise!vars
    BY <2>1, Hidden DEF TakeTeardown
  <2>2. ASSUME GetAdvertised PROVE Promise!Next
    BY <2>2, RegisterPromise DEF GetAdvertised
  <2> QED BY <1>1, <2>1, <2>2, handlePacketPromise, DeliverPromise, TearDownPromise, getNewConnPromise,
             ClosePromise DEF Loop
<1>2. CASE AcceptConn \/ Drain
  BY <1>2, RegisterPromise DEF AcceptConn, Drain
<1>3. CASE EndReading \/ CloseMux \/ CloseMuxReturns
  BY <1>3, Hidden DEF EndReading, CloseMux, CloseMuxReturns
<1>4. ASSUME NEW k \in Keys, ReadPacket(k) \/ GetConn(k) \/ GetConnFails(k)
      PROVE  UNCHANGED Promise!vars
  BY <1>4, Hidden DEF ReadPacket, GetConn, GetConnFails
<1>5. ASSUME NEW c \in Conns, Read(c) \/ CloseConn(c) \/ CloseConnReturns(c)
      PROVE  Promise!Next
  BY <1>5, ReadPromise, CloseConnPromise, ClosePromise
<1>6. CASE UNCHANGED vars
  BY <1>6, Hidden DEF vars, connVars
<1> QED BY <1>1, <1>2, <1>3, <1>4, <1>5, <1>6 DEF Next

\* Both muxes implement the promise: one open connection per key, packets of a key
\* in order and only to its connection, and Close closes the connection it was
\* called on and no other, even when its key was used again meanwhile.
THEOREM PromiseKept == Init /\ [][Next \/ U!Next]_vars => KeepsPromise
<1>1. Init /\ [][Next \/ U!Next]_vars => []MuxInv
  BY MuxInit, MuxStep, UDPSteps, PTL
<1>2. QED
  BY <1>1, PromiseInit, PromiseStep, UDPSteps, PTL DEF KeepsPromise, Promise!Spec
=============================================================================
