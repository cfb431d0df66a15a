---------------------------- MODULE RtcpFeedback ----------------------------
(* The feedback of the receivers of one track: the goroutine that              *)
(* PeerManager.Sub starts for each subscription reads their bitrate estimates  *)
(* (REMB) and requests for a picture (PLI). The estimates go into the          *)
(* pubsub.BitrateEstimator of the publication, whose minimum is sent to the    *)
(* publisher by the ticker that Add starts. At most one request per second     *)
(* goes on to the publisher.                                                   *)
EXTENDS Naturals, Sequences, FiniteSets, FiniteSetsExt, Functions

CONSTANTS Clients,       \* subscribers
          Rates,         \* the bitrates they estimate, not zero
          Second,        \* in steps of the clock
          MaxTime,       \* bound on the clock
          Readers,       \* ids of the goroutines of Sub
          MaxPubs,       \* how often the track is published
          None

VARIABLES
  now,        \* time.Now, counted from long after the zero time
  pubs,       \* how many publications there were
  tickers,    \* the goroutine with the ticker of each publication
  subs,       \* the subscribers of the publication
  estimator,  \* its BitrateEstimator, None when the track is not published
  reader,     \* the goroutines of Sub
  live,       \* those whose sender is still there
  pliTime,    \* pliTimes[trackID]
  plis,       \* the requests let through: when the clock was read and when they were sent
  remb,       \* the estimate last sent to a publisher
  strays      \* who fed an estimate after the end of their subscription

vars == <<now, pubs, tickers, subs, estimator, reader, live, pliTime, plis, remb, strays>>
trackVars == <<pubs, subs, live>>
pliVars == <<pliTime, plis>>
tickVars == <<tickers, remb>>

-----------------------------------------------------------------------------
(* BitrateEstimator; zero stands for no minimum and no maximum.                *)

NewBitrateEstimator ==
  [min |-> 0, max |-> 0, avg |-> 0, total |-> 0, recalc |-> FALSE, estimates |-> << >>]

Without(f, c) == [x \in DOMAIN f \ {c} |-> f[x]]
With(f, c, v) == [x \in DOMAIN f \union {c} |-> IF x = c THEN v ELSE f[x]]
Average(total, n) == IF n = 0 THEN 0 ELSE total \div n

Feed(e, c, rate) ==
  LET known == c \in DOMAIN e.estimates
      old == IF known THEN e.estimates[c] ELSE 0
      estimates == With(e.estimates, c, rate)
      total == (e.total + rate) - old
  IN [estimates |-> estimates,
      total |-> total,
      recalc |-> e.recalc \/ (known /\ old \in {e.min, e.max}),
      min |-> IF e.min = 0 \/ rate < e.min THEN rate ELSE e.min,
      max |-> IF e.max = 0 \/ rate > e.max THEN rate ELSE e.max,
      avg |-> Average(total, Cardinality(DOMAIN estimates))]

\* What Min, Max and Avg do first. The loop over the estimates finds the least
\* and the greatest of them when none is zero.
maybeRecalculateMinMax(e) ==
  LET rates == Range(e.estimates)
  IN IF e.recalc
     THEN [e EXCEPT !.min = IF rates = {} THEN 0 ELSE Min(rates),
                    !.max = IF rates = {} THEN 0 ELSE Max(rates),
                    !.recalc = FALSE]
     ELSE e

RemoveClientBitrate(e, c) ==
  IF c \notin DOMAIN e.estimates THEN e
  ELSE [e EXCEPT !.estimates = Without(@, c),
                 !.total = @ - e.estimates[c],
                 !.recalc = @ \/ e.estimates[c] \in {e.min, e.max},
                 !.avg = Average(e.total - e.estimates[c], Cardinality(DOMAIN e.estimates) - 1)]

-----------------------------------------------------------------------------

Idle == [pc |-> "none"]
Pubs == 1..MaxPubs

Init ==
  /\ now = Second /\ pubs = 0 /\ tickers = [p \in Pubs |-> "none"]
  /\ subs = {} /\ estimator = None
  /\ reader = [r \in Readers |-> Idle] /\ live = {}
  /\ pliTime = 0 /\ plis = << >> /\ remb = 0 /\ strays = {}

Tick ==
  /\ now < MaxTime /\ now' = now + 1
  /\ UNCHANGED <<trackVars, tickVars, estimator, reader, pliVars, strays>>

\* The publisher's track arrives: Pub, and the goroutine with the ticker.
Pub ==
  /\ estimator = None /\ pubs < MaxPubs
  /\ pubs' = pubs + 1 /\ estimator' = NewBitrateEstimator /\ strays' = {}
  /\ tickers' = [tickers EXCEPT ![pubs + 1] = "waits"]
  /\ UNCHANGED <<now, subs, live, remb, reader, pliVars>>

\* The track ends: done is closed, and Unpub unsubscribes everybody.
Unpub ==
  /\ estimator # None
  /\ estimator' = None /\ subs' = {} /\ live' = {}
  /\ tickers' = [tickers EXCEPT ![pubs] = IF @ = "waits" THEN "done" ELSE @]
  /\ UNCHANGED <<now, pubs, remb, reader, pliVars, strays>>

Sub(c, r) ==
  /\ estimator # None /\ c \notin subs /\ reader[r] = Idle
  /\ subs' = subs \union {c} /\ live' = live \union {r}
  /\ reader' = [reader EXCEPT ![r] = [pc |-> "reads", client |-> c]]
  /\ UNCHANGED <<now, pubs, tickVars, estimator, pliVars, strays>>

Of(c) == {r \in live : reader[r].client = c}

Unsub_KeepsEstimate(c) ==
  /\ c \in subs /\ subs' = subs \ {c} /\ live' = live \ Of(c)
  /\ UNCHANGED <<now, pubs, tickVars, estimator, reader, pliVars, strays>>

Unsub(c) ==
  /\ c \in subs /\ subs' = subs \ {c} /\ live' = live \ Of(c)
  /\ estimator' = RemoveClientBitrate(estimator, c)
  /\ UNCHANGED <<now, pubs, tickVars, reader, pliVars, strays>>

-----------------------------------------------------------------------------
(* The goroutine of Sub. Between reading a packet and taking the mutex the     *)
(* subscription may end and the track may be published again.                  *)

Handled(r) == reader' = [reader EXCEPT ![r] = [pc |-> "reads", client |-> @.client]]

ReadREMB(r, rate) ==
  /\ reader[r].pc = "reads" /\ r \in live
  /\ reader' = [reader EXCEPT ![r] = [pc |-> "remb", client |-> @.client, rate |-> rate]]
  /\ UNCHANGED <<now, trackVars, tickVars, estimator, pliVars, strays>>

feedBitrateEstimate(r) ==
  /\ reader[r].pc = "remb" /\ Handled(r)
  /\ estimator' = IF estimator = None THEN None
                  ELSE Feed(estimator, reader[r].client, reader[r].rate)
  /\ strays' = strays \union ({reader[r].client} \ subs)
  /\ UNCHANGED <<now, trackVars, tickVars, pliVars>>

\* forwardPLI reads the clock before it takes the mutex.
ReadPLI(r) ==
  /\ reader[r].pc = "reads" /\ r \in live
  /\ reader' = [reader EXCEPT ![r] = [pc |-> "pli", client |-> @.client, now |-> now]]
  /\ UNCHANGED <<now, trackVars, tickVars, estimator, pliVars, strays>>

forwardPLI_SetsAlways(r) ==
  /\ reader[r].pc = "pli" /\ Handled(r)
  /\ pliTime' = reader[r].now
  /\ plis' = IF reader[r].now < pliTime + Second \/ estimator = None THEN plis
             ELSE Append(plis, [read |-> reader[r].now, sent |-> now])
  /\ UNCHANGED <<now, trackVars, tickVars, estimator, strays>>

\* The time is recorded whether or not the track is still there; the request
\* is written, after the mutex is released, only when it is.
forwardPLI(r) ==
  LET tooSoon == reader[r].now < pliTime + Second
  IN /\ reader[r].pc = "pli" /\ Handled(r)
     /\ pliTime' = IF tooSoon THEN pliTime ELSE reader[r].now
     /\ plis' = IF tooSoon \/ estimator = None THEN plis
                ELSE Append(plis, [read |-> reader[r].now, sent |-> now])
     /\ UNCHANGED <<now, trackVars, tickVars, estimator, strays>>

\* The sender of the track is gone: ReadRTCP returns an error.
ReaderEnds(r) ==
  /\ reader[r].pc = "reads" /\ r \notin live
  /\ reader' = [reader EXCEPT ![r] = Idle]
  /\ UNCHANGED <<now, trackVars, tickVars, estimator, pliVars, strays>>

-----------------------------------------------------------------------------
(* The goroutine with the ticker. Its select is not in a loop: it sends at     *)
(* most one estimate.                                                         *)

\* The select takes the ticker, also when done is closed at the same time, or
\* it takes done.
TickerFires(p) ==
  /\ tickers[p] \in {"waits", "done"} /\ tickers' = [tickers EXCEPT ![p] = "fired"]
  /\ UNCHANGED <<now, trackVars, estimator, remb, reader, pliVars, strays>>

TickerStops(p) ==
  /\ tickers[p] = "done" /\ tickers' = [tickers EXCEPT ![p] = "ended"]
  /\ UNCHANGED <<now, trackVars, estimator, remb, reader, pliVars, strays>>

SendEstimate(p) ==
  /\ tickers[p] = "fired" /\ tickers' = [tickers EXCEPT ![p] = "ended"]
  /\ IF estimator = None \/ estimator.estimates = << >>
     THEN UNCHANGED <<estimator, remb>>
     ELSE /\ estimator' = maybeRecalculateMinMax(estimator)
          /\ remb' = estimator'.min
  /\ UNCHANGED <<now, trackVars, reader, pliVars, strays>>

Next ==
  \/ Tick \/ Pub \/ Unpub
  \/ \E c \in Clients : Unsub(c) \/ \E r \in Readers : Sub(c, r)
  \/ \E r \in Readers : \/ \E rate \in Rates : ReadREMB(r, rate)
                        \/ feedBitrateEstimate(r) \/ ReadPLI(r) \/ forwardPLI(r) \/ ReaderEnds(r)
  \/ \E p \in Pubs : TickerFires(p) \/ TickerStops(p) \/ SendEstimate(p)

Spec == Init /\ [][Next]_vars

-----------------------------------------------------------------------------
TypeOK ==
  /\ now \in Second..MaxTime /\ pubs \in 0..MaxPubs
  /\ tickers \in [Pubs -> {"none", "waits", "done", "fired", "ended"}]
  /\ subs \subseteq Clients /\ strays \subseteq Clients /\ live \subseteq Readers
  /\ \A r \in Readers : reader[r].pc \in {"none", "reads", "remb", "pli"}
  /\ pliTime \in 0..MaxTime /\ plis \in Seq([read : Second..MaxTime, sent : Second..MaxTime])
  /\ remb \in Rates \union {0}
  /\ estimator # None => {estimator.min, estimator.max} \subseteq Rates \union {0}

(* BitrateEstimator, "estimates minimum, maximum and average bitrate"          *)
(* (remb.go:5): although the extremes are recomputed only when they are read   *)
(* and the total is carried along, Min, Max and Avg return those of the        *)
(* estimates recorded, after any sequence of Feed and RemoveClientBitrate.     *)
EstimatesAreExact ==
  estimator # None =>
    LET e == maybeRecalculateMinMax(estimator)
        rates == Range(e.estimates)
    IN /\ e.total = SumFunction(e.estimates)
       /\ IF rates = {} THEN e.avg = 0
          ELSE e.min = Min(rates) /\ e.max = Max(rates) /\ e.avg = e.total \div Cardinality(DOMAIN e.estimates)

(* getBitrateEstimate: what a publisher is told is the least of the estimates  *)
(* recorded at that moment.                                                    *)
PublisherHearsMinimum ==
  [][remb' # remb => remb' = Min(Range(estimator.estimates))]_vars

(* unsub removes the estimate of the subscriber: the publisher is held down    *)
(* only by subscribers, except by one whose packet was read before the end of  *)
(* its subscription and recorded after it.                                     *)
EstimatesAreOfSubscribers ==
  estimator # None => DOMAIN estimator.estimates \subseteq subs \union strays

(* forwardPLI, "Congestion control" (peer_manager.go:328): the requests of     *)
(* all subscribers together reach the publisher at one per second. Two of them *)
(* may reach it at the same moment, since a goroutine reads the clock before   *)
(* it takes the mutex and may wait for it; but from the time one of them was   *)
(* read until n more are sent at least n seconds pass.                         *)
RequestsAreSpaced ==
  \A i, j \in 1..Len(plis) :
    i < j => plis[i].read + (j - i) * Second <= plis[j].sent

(* The publisher is told the least bitrate of those who subscribe to it: the   *)
(* estimator's lazily computed extremes are right, it forgets who leaves, and  *)
(* what is sent is its minimum at that moment.                                 *)
FeedbackIsExact ==
  [](TypeOK /\ EstimatesAreExact /\ EstimatesAreOfSubscribers) /\ PublisherHearsMinimum
=============================================================================
