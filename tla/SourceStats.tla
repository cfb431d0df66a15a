---------------------------- MODULE SourceStats ----------------------------
(* stats.Source: what a receiver knows of a sender from the 16-bit sequence    *)
(* numbers of its packets (RFC 3550, appendices A.1 and A.3). Packets are      *)
(* lost, duplicated and reordered within the bounds the algorithm tolerates,   *)
(* and the sender may restart at another sequence number.                      *)
EXTENDS Integers

CONSTANTS RtpSeqMod,    \* 2^16
          WordMod,      \* 2^32
          Byte,         \* 2^8, the scale of the fraction
          MaxDropout, MaxMisorder,
          LostMod,      \* 2^24, what the report has room for
          Starts,       \* sequence numbers before that of the first packet of a sender
          Length,       \* how many packets one sender sends
          MaxPackets,   \* how many packets of one sender arrive
          MaxReports    \* how many reports are made of one sender

VARIABLES
  \* of Source
  maxSeq, cycles, baseSeq, badSeq, received, expectedPrior, receivedPrior,
  \* of the sender, whose packets are numbered from 1 on
  first,     \* the sequence number before that of its packet 1
  follows,   \* the source has synchronized with it
  base,      \* the packet the source then counts from
  high,      \* the newest packet that arrived
  count,     \* how many of the packets that arrived count
  clean,     \* no packet since the last report was late or came twice
  prior,     \* the newest packet and the count at the last report
  reports,   \* how many reports were made
  restarts,  \* the sender has restarted
  report     \* the report just made: what it says and what is true

source == <<maxSeq, cycles, baseSeq, badSeq, received, expectedPrior, receivedPrior>>
sender == <<first, follows, base, high, count, clean, prior, reports, restarts>>
vars == <<source, sender, report>>

Word(n) == n % WordMod
SN(i) == (first + i) % RtpSeqMod

\* The packets of a sender that starts out of the range of the numbers the
\* source tolerates, seen from the highest number seq.
Far(start, seq) == (start - seq) % RtpSeqMod \in MaxDropout..(RtpSeqMod - MaxMisorder - 3)

NoReport == [made |-> FALSE]

\* A Source as it is made: nothing calls InitSeq for the first packet. A sender
\* that starts far from number 0 is taken for one that has restarted. One that
\* starts near it is followed at once, counted from number 0 on.
Init ==
  /\ maxSeq = 0 /\ baseSeq = 0 /\ cycles = 0 /\ badSeq = 0
  /\ received = 0 /\ expectedPrior = 0 /\ receivedPrior = 0
  /\ first \in Starts
  /\ \/ Far(first, 0) /\ follows = FALSE /\ base = 0
     \/ first < MaxDropout - 1 /\ follows = TRUE /\ base = 0 - first
  /\ high = base /\ count = 0 /\ clean = TRUE /\ prior = [high |-> base - 1, count |-> 0]
  /\ reports = 0 /\ restarts = FALSE
  /\ report = NoReport

InitSeq_KeepsPrior(seq) ==
  /\ baseSeq' = seq /\ maxSeq' = seq /\ badSeq' = RtpSeqMod + 1 /\ cycles' = 0
  /\ UNCHANGED <<receivedPrior, expectedPrior>>

InitSeq(seq) ==
  /\ baseSeq' = seq /\ maxSeq' = seq /\ badSeq' = RtpSeqMod + 1 /\ cycles' = 0
  /\ receivedPrior' = 0 /\ expectedPrior' = 0

\* In order, with a permissible gap.
InOrder(seq) ==
  /\ (seq - maxSeq) % RtpSeqMod < MaxDropout
  /\ cycles' = IF seq < maxSeq THEN Word(cycles + RtpSeqMod) ELSE cycles
  /\ maxSeq' = seq /\ received' = Word(received + 1)
  /\ UNCHANGED <<baseSeq, badSeq, expectedPrior, receivedPrior>>

\* A very large jump: the second of two consecutive numbers starts anew.
Jump(seq) ==
  /\ (seq - maxSeq) % RtpSeqMod \in MaxDropout..(RtpSeqMod - MaxMisorder)
  /\ IF seq = badSeq
     THEN InitSeq(seq) /\ received' = 1
     ELSE /\ badSeq' = (seq + 1) % RtpSeqMod
          /\ UNCHANGED <<maxSeq, cycles, baseSeq, received, expectedPrior, receivedPrior>>

Reordered(seq) ==
  /\ (seq - maxSeq) % RtpSeqMod > RtpSeqMod - MaxMisorder
  /\ received' = Word(received + 1)
  /\ UNCHANGED <<maxSeq, cycles, baseSeq, badSeq, expectedPrior, receivedPrior>>

\* probation is zero in every Source, so its case is never taken.
updateSeq(seq) == InOrder(seq) \/ Jump(seq) \/ Reordered(seq)

-----------------------------------------------------------------------------
(* The sender                                                                 *)

\* A packet of a sender that the source counts from packet base on.
Packet(i) ==
  /\ follows /\ count < MaxPackets
  /\ i \in 1..Length /\ i < high + MaxDropout /\ i + MaxMisorder > high
  /\ updateSeq(SN(i))
  /\ high' = IF i > high THEN i ELSE high
  /\ count' = count + 1 /\ clean' = (clean /\ i > high)
  /\ report' = NoReport
  /\ UNCHANGED <<first, follows, base, prior, reports, restarts>>

\* The sender restarts, out of the range of the numbers the source tolerates.
Restart(start) ==
  /\ ~restarts /\ restarts' = TRUE
  /\ Far(start, maxSeq)
  /\ first' = start /\ follows' = FALSE /\ base' = 0 /\ high' = 0 /\ count' = 0 /\ clean' = TRUE
  /\ prior' = [high |-> 0, count |-> 0] /\ reports' = 0
  /\ report' = NoReport
  /\ UNCHANGED source

\* Its first packets, in order and with losses, until two are consecutive. The
\* first one will do if a lone packet before it, or the zero value of badSeq,
\* left its number there.
Resync(i) ==
  /\ ~follows /\ i \in {high + 1, high + 2} \cap 1..3
  /\ updateSeq(SN(i))
  /\ high' = i
  /\ IF (high > 0 /\ i = high + 1) \/ SN(i) = badSeq
     THEN /\ follows' = TRUE /\ base' = i /\ count' = 1
          /\ clean' = TRUE /\ prior' = [high |-> i - 1, count |-> 0]
     ELSE UNCHANGED <<follows, base, count, clean, prior>>
  /\ report' = NoReport
  /\ UNCHANGED <<first, reports, restarts>>

-----------------------------------------------------------------------------
(* ReceptionReport                                                            *)

Fraction(lost, expected) == IF expected = 0 \/ lost = 0 THEN 0 ELSE (Word(lost * Byte) \div expected) % Byte

ReceptionReport ==
  LET extendedMax == Word(cycles + maxSeq)
      expected == Word(extendedMax - baseSeq + 1)
      lost == Word(expected - received)
      expectedInterval == Word(expected - expectedPrior)
      receivedInterval == Word(received - receivedPrior)
      lostInterval == Word(expectedInterval - receivedInterval)
      fraction == Fraction(lostInterval, expectedInterval)
      \* By the sender's own count, the packets since the last report.
      sent == high - prior.high
  IN /\ reports < MaxReports
     /\ expectedPrior' = expected /\ receivedPrior' = received
     /\ report' = [made |-> TRUE, lost |-> lost, fraction |-> fraction, clean |-> clean, follows |-> follows,
                   trueLost |-> high - base + 1 - count,
                   sent |-> sent, missing |-> sent - (count - prior.count)]
     /\ prior' = [high |-> high, count |-> count]
     /\ clean' = TRUE /\ reports' = reports + 1
     /\ UNCHANGED <<maxSeq, cycles, baseSeq, badSeq, received, first, follows, base, high, count, restarts>>

Next ==
  \/ \E i \in 1..Length : Packet(i) \/ Resync(i)
  \/ \E start \in Starts : Restart(start)
  \/ ReceptionReport

Spec == Init /\ [][Next]_vars

-----------------------------------------------------------------------------
TypeOK ==
  /\ {maxSeq, baseSeq} \subseteq 0..(RtpSeqMod - 1) /\ badSeq \in 0..(RtpSeqMod + 1)
  /\ {cycles, received, expectedPrior, receivedPrior} \subseteq 0..(WordMod - 1)
  /\ {base, high} \subseteq (0 - MaxDropout)..Length /\ count \in 0..MaxPackets

(* updateSeq, "Sequence number wrapped - count another 64K cycle"              *)
(* (source.go:95) and "the other side restarted without telling us so just     *)
(* re-sync" (source.go:102): once the source follows a sender, the extended    *)
(* sequence numbers count its packets, through wraps, losses, reordering and   *)
(* a restart.                                                                 *)
ExtendedIsExact == follows => cycles + maxSeq = baseSeq + (high - base)

(* ReceptionReport, "The number of packets lost is defined to be the number    *)
(* of packets expected less the number of packets actually received"           *)
(* (source.go:144): once the source follows the sender, that is the number of  *)
(* packets the sender sent from packet base on and that did not arrive, unless *)
(* duplicates make it negative; and the fraction is the share, in units of     *)
(* 1/Byte, of those missing among the packets since the last report, as long   *)
(* as none of them was late or came twice and not all are missing (a whole     *)
(* does not fit in the byte).                                                  *)
LossesAreExact ==
  report.made /\ report.follows =>
    /\ report.trueLost >= 0 => report.lost = report.trueLost
    /\ report.clean /\ report.missing < report.sent =>
         /\ report.fraction * report.sent <= report.missing * Byte
         /\ (report.fraction + 1) * report.sent > report.missing * Byte

ReportIsExact == TypeOK /\ ExtendedIsExact /\ LossesAreExact

(* "Since this signed number is carried in 24 bits, it should be clamped at    *)
(* 0x7fffff for positive loss or 0x800000 for negative loss rather than        *)
(* wrapping around" (source.go:148): what the report carries is the loss as a  *)
(* signed number. It is not: once more packets arrived than were expected, the *)
(* difference of two uint32 has wrapped around and has no place in 24 bits.    *)
LossIsSigned ==
  report.made /\ report.follows =>
    report.lost = (IF report.trueLost >= 0 THEN report.trueLost ELSE LostMod + report.trueLost)
=============================================================================
