---------------------------- MODULE MCAlgorithms ----------------------------
(* The clients of a room on two nodes that share a Redis, the algorithms of    *)
(* the media path and three small ones: the first state says which moves.      *)
(*                                                                             *)
(*   redis      two nodes and three clients, of which one stays.               *)
(*   nacks      sequence numbers of three bits, report windows of three        *)
(*              packets, packets kept for five: every window wraps.            *)
(*   estimates  two subscribers, three bitrates, two publications.             *)
(*   requests   the same without bitrates, over three seconds.                 *)
(*   source     sequence numbers of four bits, wrapped by one sender, and one  *)
(*              restart.                                                       *)
(*   pure       inputs of the pure functions: all configurations of two        *)
(*              patterns of up to three parts and namespaces of up to four,    *)
(*              and all short sequences of bytes.                              *)
EXTENDS Integers, MCRedisAdapter, FiniteSetsExt

CONSTANTS
  None,
  Receivers, Rates, Second, MaxTime, Readers, MaxPubs,
  MaxSN, MaxNackPairSize, MaxBufferTSDelta, NackStarts, NackLength, MaxLate,
  RtpSeqMod, WordMod, LostMod, Byte, MaxDropout, MaxMisorder, Starts, Length, MaxPackets, MaxReports,
  ByteMod, StringMuxByte, MaxLenStreamID, Bases

VARIABLES part,
  nfirst, nhigh, since, arrived, buffer, nack, asked, late, spurious,
  now, pubs, tickers, subs, estimator, reader, live, pliTime, plis, remb, strays,
  maxSeq, cycles, baseSeq, badSeq, received, expectedPrior, receivedPrior,
  first, follows, base, high, count, clean, prior, reports, restarts, report,
  input

F == INSTANCE RtcpFeedback WITH Clients <- Receivers
N == INSTANCE NackBuffer WITH Starts <- NackStarts, Length <- NackLength, first <- nfirst, high <- nhigh
S == INSTANCE SourceStats
W == INSTANCE Wildcard WITH Unknown <- None
E == INSTANCE Encodings WITH Error <- None

nackVars == <<nfirst, nhigh, since, arrived, buffer, nack, asked, late, spurious>>
feedbackVars == <<now, pubs, tickers, subs, estimator, reader, live, pliTime, plis, remb, strays>>
sourceVars ==
  <<maxSeq, cycles, baseSeq, badSeq, received, expectedPrior, receivedPrior,
    first, follows, base, high, count, clean, prior, reports, restarts, report>>

-----------------------------------------------------------------------------
(* Inputs of the pure functions                                               *)

Upto(n, S1) == UNION {[1..k -> S1] : k \in 0..n}
Parts == {"a", "b"}
Patterns == Upto(3, Parts \union {"*", "**"})
Namespaces == Upto(4, Parts)
Strings == Upto(MaxLenStreamID + 2, E!Bytes)

Nothing == [of |-> "nothing"]

Choose ==
  \/ /\ input = Nothing
     /\ \/ \E pattern \in Patterns : input' = [of |-> "pattern", pattern |-> pattern]
        \/ \E s \in Strings : input' = [of |-> "bytes", bytes |-> s]
  \/ /\ input.of = "pattern"
     /\ \E pattern \in Patterns, names \in Namespaces :
          input' = [of |-> "config", config |-> {input.pattern, pattern}, names |-> names]
  \/ /\ input.of = "bytes"
     /\ \/ \E radix \in Bases : input' = [of |-> "number", bytes |-> input.bytes, base |-> radix]
        \/ \E k \in 0..Len(input.bytes) :
             input' = [of |-> "frame", streamID |-> SubSeq(input.bytes, 1, k),
                       data |-> SubSeq(input.bytes, k + 1, Len(input.bytes))]

-----------------------------------------------------------------------------

MCInit ==
  /\ part \in {"redis", "nacks", "estimates", "requests", "source", "pure"}
  /\ Init /\ F!Init /\ N!Init /\ S!Init /\ input = Nothing
  /\ part # "redis" => handler = "mesh"
  /\ part # "source" => first = Min(Starts)

\* With the SFU handler one client comes back.
Sessions == handler = "sfu" => sessions'[b] < MaxSessions

\* The clock matters only to requests. When the track is published again, new
\* estimates are all the same: what matters are the old ones.
Estimates ==
  /\ now' = now
  /\ \A r \in Readers :
       /\ reader'[r].pc # "pli"
       /\ (pubs > 1 /\ reader'[r] # reader[r] /\ reader'[r].pc = "remb") => reader'[r].rate = Min(Rates)
Requests == \A r \in Readers : reader'[r].pc # "remb"

MCNext ==
  /\ UNCHANGED part
  /\ \/ part = "redis" /\ Next /\ Sessions /\ UNCHANGED <<feedbackVars, nackVars, sourceVars, input>>
     \/ part = "estimates" /\ F!Next /\ Estimates /\ UNCHANGED <<vars, nackVars, sourceVars, input>>
     \/ part = "requests" /\ F!Next /\ Requests /\ UNCHANGED <<vars, nackVars, sourceVars, input>>
     \/ part = "nacks" /\ N!Next /\ UNCHANGED <<vars, feedbackVars, sourceVars, input>>
     \/ part = "source" /\ S!Next /\ UNCHANGED <<vars, feedbackVars, nackVars, input>>
     \/ part = "pure" /\ Choose /\ UNCHANGED <<vars, feedbackVars, nackVars, sourceVars>>

MCSpec == MCInit /\ [][MCNext]_<<part, vars, feedbackVars, nackVars, sourceVars, input>>

-----------------------------------------------------------------------------
\* Push asks for the packets that do not come, with no two losses in a row, and for
\* no others while none is overtaken; HandleNack sends again or asks the sender for
\* each packet; and what was seen is kept for two seconds, however the sequence
\* numbers wrap.
NacksAreExact == part = "nacks" => N!NacksAreExact

\* forwardPLI, "Congestion control" (peer_manager.go:328): the requests of all
\* subscribers together reach the publisher at one per second: from the time one of
\* them was read until n more are sent at least n seconds pass.
RequestsAreSpaced == F!RequestsAreSpaced

\* BitrateEstimator and getBitrateEstimate: the publisher is told the least bitrate
\* of those who subscribe to it. The estimator's lazily computed extremes are right,
\* it forgets who leaves, and what is sent is its minimum at that moment.
FeedbackIsExact == F!FeedbackIsExact

\* Once a source follows a sender, updateSeq counts its packets through wraps,
\* losses, reordering and a restart; ReceptionReport tells how many are missing and,
\* when none was late or came twice, their share of those since the last report.
ReportIsExact == part = "source" => S!ReportIsExact

\* The loss that ReceptionReport carries is a signed number that does not wrap around
\* (source.go:148). It does when duplicates make it negative.
LossIsSigned == S!LossIsSigned

\* levelForNamespace: only a pattern that matches the namespace decides its level,
\* one does if any matches (without "*" directly behind "**"), and the namespace
\* itself goes before every wildcard.
LookupMatches == input.of = "config" => W!LookupMatches(input.config, input.names)

\* Unmarshal takes a frame of Marshal apart and accepts nothing else; Decode gives
\* back the bytes Encode has spelled, but for zeros in front.
RoundTrips ==
  /\ input.of = "frame" => E!FrameRoundTrip(input.streamID, input.data)
  /\ input.of = "bytes" => E!OnlyFrames(input.bytes)
  /\ input.of = "number" => E!NumberRoundTrip(input.bytes, input.base)
=============================================================================
