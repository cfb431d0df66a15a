----------------------------- MODULE NackBuffer -----------------------------
(* sfu.Buffer and sfu.NackHandler: the ring of recent packets of one track,    *)
(* the negative acknowledgements (NACKs) it asks the sender with, and the      *)
(* answers it gives to those of the receivers. The environment is a sender     *)
(* whose packets arrive in order, with single losses, except that a missing    *)
(* packet may still arrive late or be retransmitted.                           *)
EXTENDS Integers, Sequences, FiniteSets, FiniteSetsExt, SequencesExt

CONSTANTS MaxSN,             \* the largest sequence number
          MaxNackPairSize,   \* 1 + the width of the bitmap, also nackWindowSize
          MaxBufferTSDelta,  \* in the time between two packets
          Starts,            \* sequence numbers of the first packet
          Length,            \* how many packets are sent
          MaxLate,           \* how late a packet may arrive, in packets
          None

SeqNums == 0..MaxSN
Sent == 1..Length

VARIABLES
  first,    \* the sequence number before that of packet 1
  high,     \* the newest packet that arrived
  since,    \* the first packet pushed into the buffer
  arrived,  \* the packets pushed into it
  buffer,   \* the Buffer in JitterBuffer.buffers, None without one
  nack,     \* the pairs of the NACK returned by the last Push
  asked,    \* the packets some NACK has asked for
  late,     \* whether a packet was overtaken
  spurious  \* whether a NACK asked for a packet that had arrived or was never sent

vars == <<first, high, since, arrived, buffer, nack, asked, late, spurious>>

SN(i) == (first + i) % (MaxSN + 1)
Add(a, k) == (a + k) % (MaxSN + 1)
Sub(a, b) == (a - b) % (MaxSN + 1)
\* Timestamps count packets: one time unit passes from one to the next.
tsDelta(a, b) == IF a > b THEN a - b ELSE b - a

Init ==
  /\ first \in Starts
  /\ high = 0 /\ since = 1 /\ arrived = {} /\ buffer = None
  /\ nack = <<>> /\ asked = {} /\ late = FALSE /\ spurious = FALSE

-----------------------------------------------------------------------------
(* A pair names a first lost packet and, in a bitmap, the lost ones among the  *)
(* following. A bitmap is the set of its bits.                                 *)

Bits == 0..(MaxNackPairSize - 2)
Pairs == [packetID : SeqNums, lostPackets : SUBSET Bits]

\* rtcp.NackPair.PacketList of pion/rtcp: the packet and the ones in the bitmap.
PacketList(pair) ==
  LET bits == SelectSeq([n \in 1..MaxNackPairSize - 1 |-> n - 1], LAMBDA b : b \in pair.lostPackets)
  IN <<pair.packetID>> \o [n \in 1..Len(bits) |-> Add(pair.packetID, bits[n] + 1)]

\* A shift past the width of the bitmap leaves nothing.
calcBLP(fsn, sn) == {Sub(Sub(sn, fsn), 1)} \cap Bits

CreateNackPair(sns) ==
  [packetID |-> Head(sns),
   lostPackets |-> UNION {calcBLP(Head(sns), sn) : sn \in ToSet(Tail(sns))}]

\* The sequence numbers from start to before end that hold no packet.
Missing(packets, start, end) ==
  SelectSeq([n \in 1..Sub(end, start) |-> Add(start, n - 1)], LAMBDA sn : packets[sn] = None)

getNackPairs_FromNext(packets, start, end) ==
  LET sns == Missing(packets, Add(start, 1), end)
  IN IF sns = <<>> THEN <<>> ELSE <<CreateNackPair(sns)>>

\* One pair for each MaxNackPairSize numbers and one for the rest, without the
\* pairs that name no packet.
getNackPairs(packets, start, end) ==
  LET size == (Sub(end, start) + MaxNackPairSize - 1) \div MaxNackPairSize
      from(k) == Add(start, (k - 1) * MaxNackPairSize)
      to(k) == IF k < size \/ Sub(end, from(k)) >= MaxNackPairSize
               THEN Add(from(k), MaxNackPairSize) ELSE end
      lost == [k \in 1..size |-> Missing(packets, from(k), to(k))]
      some == SelectSeq(lost, LAMBDA sns : sns # <<>>)
  IN [k \in 1..Len(some) |-> CreateNackPair(some[k])]

-----------------------------------------------------------------------------
(* Buffer.Push                                                                *)

NewBuffer(i) ==
  [packets |-> [sn \in SeqNums |-> None],
   lastNackSN |-> SN(i), lastClearTS |-> i, lastClearSN |-> Sub(SN(i), 1)]

\* The packets after the last one cleared, up to the first that is recent.
clearOldPackets(b, ts, sn) ==
  LET at(k) == Add(b.lastClearSN, k)
      held == {k \in 1..Sub(Sub(sn, b.lastClearSN), 1) : b.packets[at(k)] # None}
      recent == {k \in held : tsDelta(ts, b.packets[at(k)]) < MaxBufferTSDelta}
      old == {k \in held : \A r \in recent : k < r}
  IN IF tsDelta(ts, b.lastClearTS) < MaxBufferTSDelta \/ old = {} THEN b
     ELSE [b EXCEPT !.packets = [s \in SeqNums |-> IF s \in {at(k) : k \in old} THEN None ELSE @[s]],
                    !.lastClearTS = b.packets[at(Max(old))],
                    !.lastClearSN = at(Max(old))]

\* PushRTP of packet i; what the NACK asks for is recorded.
Push(i) ==
  LET sn == SN(i)
      ring == IF buffer = None THEN NewBuffer(i) ELSE buffer
      cleared == clearOldPackets([ring EXCEPT !.packets[sn] = i], i, sn)
      report == Sub(sn, cleared.lastNackSN) >= MaxNackPairSize
      pairs == IF report THEN getNackPairs(cleared.packets, Sub(sn, MaxNackPairSize), sn) ELSE <<>>
      \* How far behind packet i the ones asked for are.
      behind == UNION {{Sub(sn, s) : s \in ToSet(PacketList(pairs[n]))} : n \in DOMAIN pairs}
  IN /\ buffer' = [cleared EXCEPT !.lastNackSN = IF report THEN sn ELSE @]
     /\ nack' = pairs
     /\ since' = IF buffer = None THEN i ELSE since
     /\ arrived' = arrived \union {i}
     /\ asked' = asked \union {i - d : d \in {d \in behind : d < i}}
     /\ spurious' = (spurious \/ \E d \in behind : d >= i \/ (i - d) \in arrived)
     /\ UNCHANGED first

\* The next packet, or the one after it, or the newest once more.
Arrive(i) ==
  /\ i \in {high, high + 1, high + 2} \cap Sent
  /\ Push(i) /\ high' = i /\ UNCHANGED late

Overtaken(i) ==
  /\ buffer # None /\ i \in Sent \ arrived /\ i < high /\ i + MaxLate >= high
  /\ Push(i) /\ late' = TRUE /\ UNCHANGED high

RemoveBuffer ==
  /\ buffer # None /\ buffer' = None
  /\ nack' = <<>> /\ arrived' = {} /\ asked' = {} /\ late' = FALSE /\ spurious' = FALSE
  /\ UNCHANGED <<first, high, since>>

Next ==
  \/ \E i \in Sent : Arrive(i) \/ Overtaken(i)
  \/ RemoveBuffer

Spec == Init /\ [][Next]_vars

-----------------------------------------------------------------------------
(* NackHandler.HandleNack for one pair                                        *)

GetPacket(sn) == IF buffer = None THEN None ELSE buffer.packets[sn]

\* The packets that are sent again, and the pairs that go on to the sender.
HandleNack(pair) ==
  LET sns == PacketList(pair)
      notFound == SelectSeq(sns, LAMBDA sn : GetPacket(sn) = None)
  IN [packets |-> SelectSeq(sns, LAMBDA sn : GetPacket(sn) # None),
      nacks |-> IF notFound = <<>> THEN <<>> ELSE <<CreateNackPair(notFound)>>]

-----------------------------------------------------------------------------
(* Every slot of the ring is empty or holds the packet with its number.        *)
TypeOK ==
  /\ first \in Starts /\ high \in 0..Length /\ since \in Sent /\ arrived \subseteq Sent /\ asked \subseteq Sent
  /\ \A n \in DOMAIN nack : nack[n] \in Pairs
  /\ buffer # None =>
       /\ {buffer.lastNackSN, buffer.lastClearSN} \subseteq SeqNums /\ buffer.lastClearTS \in Sent
       /\ \A sn \in SeqNums : buffer.packets[sn] # None =>
            SN(buffer.packets[sn]) = sn /\ buffer.packets[sn] \in arrived

(* "keep only packets relevant to last 2s of video" (buffer.go:18): a packet  *)
(* that arrived can be sent again for two seconds, however the sequence        *)
(* numbers wrap and whichever packets come late, and no packet that came in    *)
(* order is kept for longer.                                                  *)
RecentAreKept ==
  buffer # None =>
    /\ \A i \in arrived : high - i < MaxBufferTSDelta => buffer.packets[SN(i)] = i
    /\ ~late => \A sn \in SeqNums : buffer.packets[sn] # None =>
                  high - buffer.packets[sn] < MaxBufferTSDelta

(* Push, "returns a Nack RTCP packet if the buffer determines that there is a  *)
(* missing packet" (jitter_buffer.go:22): with no two losses in a row, a       *)
(* packet that has not come within one report window and one packet has been   *)
(* asked for.                                                                 *)
EveryLossIsAskedFor ==
  buffer # None =>
    \A i \in since..high : i + MaxNackPairSize < high => i \in arrived \union asked

(* As long as no packet is overtaken, a NACK asks only for packets that were   *)
(* sent and did not arrive.                                                   *)
NoSpuriousNack == ~late => ~spurious

(* HandleNack, "tries to find the missing packet in JitterBuffer and send it,  *)
(* otherwise it will send the nack packet to the original sender"              *)
(* (jitter.go:42): each packet a receiver asks for is either sent again or     *)
(* asked for from the sender, not both, and no other one is.                   *)
NackIsSplit ==
  \A pair \in Pairs :
    LET answer == HandleNack(pair)
        onward == UNION {ToSet(PacketList(answer.nacks[n])) : n \in DOMAIN answer.nacks}
    IN /\ ToSet(answer.packets) \union onward = ToSet(PacketList(pair))
       /\ ToSet(answer.packets) \cap onward = {}

(* The buffer asks for what is missing and for nothing else, answers from what *)
(* it has, and keeps what it may be asked for.                                 *)
NacksAreExact ==
  TypeOK /\ RecentAreKept /\ EveryLossIsAskedFor /\ NoSpuriousNack /\ NackIsSplit
=============================================================================
