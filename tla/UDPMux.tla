------------------------------- MODULE UDPMux -------------------------------
(* udpmux.UDPMux is the loop of StringMux with the remote address of a packet  *)
(* as its key. Its Close differs: after it sent the token it takes and drops   *)
(* every connection that is advertised until the loop has ended.               *)
EXTENDS Naturals, Sequences

CONSTANTS Keys, MaxConns, MaxPackets, ReadChanSize, None

VARIABLES conns, keyOf, inbox, read, torndown, held, loop, reader, sent, asking, closing, closer

S == INSTANCE StringMux

vars == S!vars
Conns == S!Conns

Init == S!Init

\* startReading; a packet is never refused, its sender is the key.
ReadFrom(raddr) == S!ReadPacket(raddr)
EndReading == S!EndReading

\* startLoop
getNewConn(raddr) == S!getNewConn(raddr)
handlePacket == S!handlePacket
acceptOrGet == S!GetAdvertised
handlePacketEnds == S!Deliver
handleClose(c) == S!handleClose(c)
TakeTeardown == S!TakeTeardown
TearDown == S!TearDown

\* Users
AcceptConn == S!AcceptConn
GetConn(raddr) == S!GetConn(raddr) \/ S!GetConnFails(raddr)
Read(c) == S!Read(c)
CloseConn(c) == S!CloseConn(c) \/ S!CloseConnReturns(c)
Close == S!CloseMux \/ S!CloseMuxReturns

\* Close ranges over the channel of new connections.
CloseDrains ==
  /\ closer = "sent"
  /\ S!Register
  /\ UNCHANGED <<keyOf, inbox, read, torndown, held, reader, sent, asking, closing, closer>>

Next ==
  \/ handlePacket \/ handlePacketEnds \/ TakeTeardown \/ TearDown \/ acceptOrGet
  \/ EndReading \/ AcceptConn \/ Close \/ CloseDrains
  \/ \E raddr \in Keys : ReadFrom(raddr) \/ GetConn(raddr) \/ getNewConn(raddr)
  \/ \E c \in Conns : Read(c) \/ CloseConn(c) \/ handleClose(c)
=============================================================================
