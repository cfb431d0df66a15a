-------------------------- MODULE SignallerProofs --------------------------
(* Close of a signaller against the goroutines that send for it, candidates    *)
(* against descriptions, and offers against answers, for any tracks and calls. *)
EXTENDS Signaller, FunctionTheorems, FiniteSetTheorems, TLAPS

\* What may wait for signalMu: every signal but a candidate, which is held back by
\* handleICECandidate.
Waiting == {signal \in SignalSet : signal.type # "candidate"}

\* The variables of the invariant are functions on the ends.
Shape ==
  /\ smu = [e \in Ends |-> smu[e]] /\ nmu = [e \in Ends |-> nmu[e]]
  /\ closer \in [Ends -> {"no", "closing", "closed"}]
  /\ descSent \in [Ends -> BOOLEAN] /\ described \in [Ends -> BOOLEAN]

CallShape == call = [e \in Ends |-> [th \in Threads |-> call[e][th]]]

\* What an offer is made of.
OfferInv ==
  /\ local \in [Ends -> SUBSET AllTracks]
  /\ transceivers \in [Ends -> Nat] /\ requests \in [Ends -> Nat]

\* The negotiator and the threads of an end wait with signals that are no candidates.
NegotiatorInv(e) == nmu[e] # None => nmu[e].signal \in Waiting
CallInv(e) == \A th \in Threads : call[e][th].pc = "signal" => call[e][th].signal \in Waiting

\* What is being sent: the channel was found open exactly if it is open still, and
\* descriptionSent is closed only by a description that was sent or is still held.
SenderInv(e) ==
  /\ smu[e] # None => (smu[e].open <=> closer[e] # "closed")
  /\ smu[e] # None /\ smu[e].signal.type = "candidate" => described[e] \/ closer[e] # "no"
  /\ descSent[e] => \/ described[e] \/ closer[e] # "no"
                    \/ smu[e] # None /\ smu[e].signal.type \in {"offer", "answer"}

\* Neither property is inductive alone: that the channel is not closed under a
\* sender rests on the mutex being free when it is closed, and that candidates
\* follow rests on what descriptionSent stands for.
SignalInv ==
  /\ Shape /\ CallShape /\ OfferInv
  /\ \A e \in Ends : NegotiatorInv(e) /\ CallInv(e) /\ SenderInv(e)

-----------------------------------------------------------------------------
(* Signals                                                                    *)

\* A request is no candidate.
LEMMA Requests ==
  \A type \in {"renegotiate", "transceiver"} : Signal(type) \in Waiting
BY DEF Signal, Waiting, SignalSet

\* Nor is a description.
LEMMA Descriptions ==
  ASSUME NEW tracks \in SUBSET AllTracks, NEW n \in Nat
  PROVE  /\ [type |-> "offer", tracks |-> tracks, transceivers |-> n] \in Waiting
         /\ [type |-> "answer", tracks |-> tracks] \in Waiting
BY DEF Waiting, SignalSet

\* A thread goes on with a call that waits with no candidate.
LEMMA ThenWaits ==
  ASSUME CallShape, NEW e \in Ends, NEW th \in Threads, NEW next,
         \A f \in Ends : CallInv(f),
         Then(e, th, next), next.pc = "signal" => next.signal \in Waiting
  PROVE  CallShape' /\ \A f \in Ends : CallInv(f)'
<1>1. /\ call' = [f \in Ends |-> [t \in Threads |-> IF f = e /\ t = th THEN next ELSE call[f][t]]]
  BY Zenon DEF Then, CallShape
<1>2. CallShape'
  BY <1>1 DEF CallShape
<1>3. ASSUME NEW f \in Ends, NEW t \in Threads, call'[f][t].pc = "signal"
      PROVE  call'[f][t].signal \in Waiting
  <2>1. CASE f = e /\ t = th
    BY <2>1, <1>1, <1>3
  <2>2. CASE ~(f = e /\ t = th)
    BY <2>2, <1>1, <1>3 DEF CallInv
  <2> QED BY <2>1, <2>2
<1> QED BY <1>2, <1>3 DEF CallInv

\* A signal that is no candidate is handed to the goroutine that sends it.
LEMMA SenderTakes ==
  ASSUME SignalInv, NEW e \in Ends, NEW signal \in Waiting,
         onSignal(e, signal), closeDescriptionSent(e, signal),
         UNCHANGED <<described, closer>>
  PROVE  \A f \in Ends : SenderInv(f)'
<1> SUFFICES ASSUME NEW f \in Ends PROVE SenderInv(f)'
  OBVIOUS
<1>1. CASE f # e
  <2>1. smu'[f] = smu[f] /\ descSent'[f] = descSent[f]
    BY <1>1 DEF SignalInv, Shape, onSignal, closeDescriptionSent
  <2>2. closer'[f] = closer[f] /\ described'[f] = described[f]
    OBVIOUS
  <2> QED BY <2>1, <2>2 DEF SignalInv, SenderInv
<1>2. CASE f = e
  <2> DEFINE sent == [signal |-> signal, open |-> closer[e] # "closed"]
  <2>1. smu'[e] = sent
    BY DEF SignalInv, Shape, onSignal
  <2>2. sent \in [signal : SignalSet, open : BOOLEAN]
    BY DEF Waiting
  <2>3. smu'[e] # None
    BY Zenon, <2>1, <2>2, NoneAssumption
  <2>4. smu'[e].signal = signal /\ smu'[e].open = (closer[e] # "closed")
    BY <2>1
  <2>5. signal.type # "candidate"
    BY DEF Waiting
  <2>6. descSent'[e] => descSent[e] \/ signal.type \in {"offer", "answer"}
    BY DEF SignalInv, Shape, closeDescriptionSent
  <2>7. smu[e] = None
    BY DEF onSignal
  <2> HIDE DEF sent
  <2> QED BY Zenon, <1>2, <2>3, <2>4, <2>5, <2>6, <2>7 DEF SignalInv, SenderInv
<1> QED BY <1>1, <1>2

\* negotiate leaves the mutex free, or to a signal that is no candidate.
LEMMA NegotiateWaits ==
  ASSUME SignalInv, NEW e \in Ends, NEW th, negotiate(e, th)
  PROVE  /\ nmu' = [f \in Ends |-> nmu'[f]]
         /\ transceivers' \in [Ends -> Nat] /\ requests' \in [Ends -> Nat]
         /\ \A f \in Ends : NegotiatorInv(f)'
<1>1. transceivers' \in [Ends -> Nat] /\ requests' \in [Ends -> Nat]
  BY DEF SignalInv, OfferInv, negotiate
<1>2. Offer(e) \in Waiting
  <2>1. local[e] \in SUBSET AllTracks /\ transceivers[e] + requests[e] \in Nat
    BY DEF SignalInv, OfferInv
  <2> QED BY ONLY Zenon, <2>1, Descriptions DEF Offer
<1>3. PICK signal \in Waiting :
        nmu' = nmu \/ nmu' = [nmu EXCEPT ![e] = [by |-> th, signal |-> signal]]
  BY <1>2, Requests DEF negotiate
<1> QED BY <1>1, <1>3 DEF SignalInv, Shape, NegotiatorInv

-----------------------------------------------------------------------------
(* The invariant                                                              *)

\* The ends start with nothing to signal.
LEMMA InitInv == Init => SignalInv
BY DEF Init, SignalInv, Shape, CallShape, OfferInv, NegotiatorInv, CallInv, SenderInv, Idle

\* The steps that hand a signal to the goroutine, or take it from it.
LEMMA SignallingInv ==
  ASSUME SignalInv, NEW e \in Ends, Signalling(e)
  PROVE  SignalInv'
<1>1. CASE SignalNegotiation(e)
  <2> USE <1>1 DEF SignalNegotiation
  <2>1. nmu[e].signal \in Waiting
    BY DEF SignalInv, NegotiatorInv
  <2>2. \A f \in Ends : SenderInv(f)'
    BY <2>1, SenderTakes
  <2>3. Shape' /\ \A f \in Ends : NegotiatorInv(f)'
    BY Zenon DEF SignalInv, Shape, NegotiatorInv, onSignal, closeDescriptionSent
  <2>4. OfferInv'
    BY DEF SignalInv, OfferInv, peerVars
  <2>5. CallShape' /\ \A f \in Ends : CallInv(f)'
    BY Zenon DEF SignalInv, CallShape, CallInv, Idle
  <2> QED BY <2>2, <2>3, <2>4, <2>5 DEF SignalInv
<1>2. ASSUME NEW th \in Threads, SignalCall(e, th)
      PROVE  SignalInv'
  <2> USE <1>2 DEF SignalCall
  <2>1. call[e][th].signal \in Waiting
    BY DEF SignalInv, CallInv
  <2>2. \A f \in Ends : SenderInv(f)'
    BY <2>1, SenderTakes
  <2>3. Shape' /\ \A f \in Ends : NegotiatorInv(f)'
    BY Zenon DEF SignalInv, Shape, NegotiatorInv, onSignal, closeDescriptionSent, negotiatorVars
  <2>4. OfferInv'
    BY DEF SignalInv, OfferInv, peerVars, negotiatorVars
  <2>5. CallShape' /\ \A f \in Ends : CallInv(f)'
    BY ThenWaits DEF SignalInv, Idle
  <2> QED BY <2>2, <2>3, <2>4, <2>5 DEF SignalInv
<1>3. CASE handleICECandidate(e)
  <2> USE <1>3 DEF handleICECandidate
  <2>1. described[e] \/ closer[e] # "no"
    BY DEF SignalInv, SenderInv, onSignal
  <2>2. \A f \in Ends : SenderInv(f)'
    BY Zenon, <2>1 DEF SignalInv, Shape, SenderInv, onSignal, Signal
  <2>3. Shape' /\ CallShape' /\ OfferInv' /\ \A f \in Ends : NegotiatorInv(f)' /\ CallInv(f)'
    BY Zenon DEF SignalInv, Shape, CallShape, OfferInv, NegotiatorInv, CallInv, onSignal,
           peerVars, negotiatorVars
  <2> QED BY <2>2, <2>3 DEF SignalInv
<1>4. CASE SendSignal(e)
  BY Zenon, <1>4 DEF SignalInv, Shape, CallShape, OfferInv, NegotiatorInv, CallInv, SenderInv,
              SendSignal, peerVars, negotiatorVars
<1>5. CASE DropSignal(e)
  BY Zenon, <1>5 DEF SignalInv, Shape, CallShape, OfferInv, NegotiatorInv, CallInv, SenderInv,
              DropSignal, peerVars, negotiatorVars
<1> QED BY <1>1, <1>2, <1>3, <1>4, <1>5 DEF Signalling

\* What comes from the other end changes what the socket's thread does, no more.
LEMMA SocketInv ==
  ASSUME SignalInv, NEW e \in Ends, Socket(e)
  PROVE  SignalInv'
<1> USE DEF Threads
<1>1. UNCHANGED <<nmu, local, transceivers, signalVars>> /\ requests' \in [Ends -> Nat]
  BY DEF Socket, RemoteCandidate, RemoteRenegotiate, handleTransceiverRequest, handleRemoteOffer,
         handleRemoteAnswer, AddTransceiverFromKind, peerVars, negotiatorVars, SignalInv, OfferInv
<1>2. \/ UNCHANGED call
      \/ \E next : /\ Then(e, "socket", next)
                   /\ next.pc = "signal" => next.signal \in Waiting
  <2>1. CASE handleRemoteOffer(e)
    <3>1. local[e] \in SUBSET AllTracks
      BY DEF SignalInv, OfferInv
    <3> DEFINE answer == [type |-> "answer", tracks |-> local[e]]
               next == [pc |-> "signal", signal |-> answer]
    <3>2. answer \in Waiting
      BY Zenon, <3>1, 0 \in Nat, Descriptions
    <3>3. next.signal = answer
      OBVIOUS
    <3>4. UNCHANGED call \/ Then(e, "socket", next)
      BY <2>1 DEF handleRemoteOffer
    <3> HIDE DEF answer, next
    <3> QED BY <3>2, <3>3, <3>4
  <2>2. CASE RemoteRenegotiate(e) \/ AddTransceiverFromKind(e)
    <3>1. Then(e, "socket", [pc |-> "negotiate"])
      BY <2>2 DEF RemoteRenegotiate, AddTransceiverFromKind
    <3> QED BY <3>1
  <2>3. CASE handleTransceiverRequest(e)
    <3>1. Then(e, "socket", [pc |-> "queue"])
      BY <2>3 DEF handleTransceiverRequest
    <3> QED BY <3>1
  <2>4. CASE RemoteCandidate(e) \/ handleRemoteAnswer(e)
    BY <2>4 DEF RemoteCandidate, handleRemoteAnswer
  <2> QED BY <2>1, <2>2, <2>3, <2>4 DEF Socket
<1>3. CallShape' /\ \A f \in Ends : CallInv(f)'
  <2>1. CASE UNCHANGED call
    BY <2>1 DEF SignalInv, CallShape, CallInv
  <2>2. ASSUME NEW next, Then(e, "socket", next), next.pc = "signal" => next.signal \in Waiting
        PROVE  CallShape' /\ \A f \in Ends : CallInv(f)'
    BY <2>2, ThenWaits DEF SignalInv
  <2> QED BY <1>2, <2>1, <2>2
<1>4. Shape' /\ OfferInv' /\ \A f \in Ends : NegotiatorInv(f)' /\ SenderInv(f)'
  BY <1>1 DEF SignalInv, Shape, OfferInv, NegotiatorInv, SenderInv, signalVars
<1> QED BY <1>3, <1>4 DEF SignalInv

\* A negotiation, begun by a call or by the callback about the state stable.
LEMMA NegotiatingInv ==
  ASSUME SignalInv, NEW e \in Ends, handleStable(e) \/ \E th \in Threads : Negotiate(e, th)
  PROVE  SignalInv'
<1>1. /\ nmu' = [f \in Ends |-> nmu'[f]]
      /\ transceivers' \in [Ends -> Nat] /\ requests' \in [Ends -> Nat]
      /\ \A f \in Ends : NegotiatorInv(f)'
  <2>1. CASE UNCHANGED <<nmu, transceivers, requests>>
    BY <2>1 DEF SignalInv, Shape, OfferInv, NegotiatorInv
  <2>2. ASSUME NEW th, negotiate(e, th)
        PROVE  /\ nmu' = [f \in Ends |-> nmu'[f]]
               /\ transceivers' \in [Ends -> Nat] /\ requests' \in [Ends -> Nat]
               /\ \A f \in Ends : NegotiatorInv(f)'
    BY <2>2, NegotiateWaits
  <2> QED BY <2>1, <2>2 DEF handleStable, Negotiate
<1>2. CallShape' /\ \A f \in Ends : CallInv(f)'
  <2>1. CASE handleStable(e)
    BY <2>1 DEF handleStable, SignalInv, CallShape, CallInv
  <2>2. ASSUME NEW th \in Threads, Negotiate(e, th)
        PROVE  CallShape' /\ \A f \in Ends : CallInv(f)'
    <3>1. Then(e, th, Idle) \/ Then(e, th, [pc |-> "waits"])
      BY <2>2 DEF Negotiate
    <3> QED BY <3>1, ThenWaits DEF SignalInv, Idle
  <2> QED BY <2>1, <2>2
<1>3. UNCHANGED <<local, smu, descSent, described, closer>>
  BY DEF handleStable, Negotiate, signalVars
<1>4. Shape' /\ OfferInv' /\ \A f \in Ends : SenderInv(f)'
  BY <1>1, <1>3 DEF SignalInv, Shape, OfferInv, SenderInv
<1> QED BY <1>1, <1>2, <1>4 DEF SignalInv

\* The calls of the transport.
LEMMA TrackInv ==
  ASSUME SignalInv, NEW e \in Ends, NEW t \in Offers[e], AddTrack(e, t) \/ RemoveTrack(e, t)
  PROVE  SignalInv'
<1> DEFINE negotiates == [pc |-> "negotiate"]
           asks == [pc |-> "signal", signal |-> Signal("transceiver")]
<1>1. Then(e, "room", negotiates) \/ Then(e, "room", asks)
  BY DEF AddTrack, RemoveTrack
<1>2. negotiates.pc # "signal" /\ asks.signal \in Waiting
  BY Requests
<1>3. CallShape' /\ \A f \in Ends : CallInv(f)'
  <2> HIDE DEF negotiates, asks
  <2> QED BY <1>1, <1>2, ThenWaits DEF SignalInv, Threads
<1>4. local' \in [Ends -> SUBSET AllTracks]
  <2>1. t \in AllTracks
    BY DEF AllTracks
  <2> QED BY <2>1 DEF AddTrack, RemoveTrack, SignalInv, OfferInv
<1>5. Shape' /\ OfferInv' /\ \A f \in Ends : NegotiatorInv(f)' /\ SenderInv(f)'
  <2>1. UNCHANGED <<transceivers, negotiatorVars, signalVars>>
    BY DEF AddTrack, RemoveTrack
  <2> QED BY <1>4, <2>1 DEF SignalInv, Shape, OfferInv, NegotiatorInv, SenderInv, signalVars,
                            negotiatorVars
<1> QED BY <1>3, <1>5 DEF SignalInv

\* Close, and what the peer connection does on its own.
LEMMA ClosingInv ==
  ASSUME SignalInv, NEW e \in Ends,
         handleClosed(e) \/ Gather(e) \/ Close(e) \/ CloseChannels(e)
  PROVE  SignalInv'
<1>1. UNCHANGED <<call, local, transceivers, requests, nmu, smu, described>>
  BY DEF handleClosed, Gather, Close, CloseChannels, peerVars, negotiatorVars
<1>2. Shape' /\ \A f \in Ends : SenderInv(f)'
  <2>1. CASE handleClosed(e) \/ Gather(e)
    BY <1>1, <2>1 DEF SignalInv, Shape, SenderInv, handleClosed, Gather
  <2>2. CASE Close(e)
    BY <1>1, <2>2 DEF SignalInv, Shape, SenderInv, Close
  <2>3. CASE CloseChannels(e)
    BY <1>1, <2>3 DEF SignalInv, Shape, SenderInv, CloseChannels
  <2> QED BY <2>1, <2>2, <2>3
<1>3. CallShape' /\ OfferInv' /\ \A f \in Ends : NegotiatorInv(f)' /\ CallInv(f)'
  BY <1>1 DEF SignalInv, CallShape, OfferInv, NegotiatorInv, CallInv
<1> QED BY <1>2, <1>3 DEF SignalInv

\* Every step keeps the invariant.
LEMMA NextInv == SignalInv /\ [Next]_vars => SignalInv'
<1> SUFFICES ASSUME SignalInv, [Next]_vars PROVE SignalInv'
  OBVIOUS
<1>1. CASE UNCHANGED vars
  BY <1>1 DEF vars, peerVars, negotiatorVars, signalVars, SignalInv, Shape, CallShape, OfferInv,
              NegotiatorInv, CallInv, SenderInv
<1>2. CASE Next
  BY <1>2, SignallingInv, SocketInv, NegotiatingInv, TrackInv, ClosingInv DEF Next
<1> QED BY <1>1, <1>2

\* The invariant holds however the goroutines of the ends interleave.
THEOREM SignallerInvariant == Spec => []SignalInv
BY InitInv, NextInv, PTL DEF Spec

\* Close never closes the channel a goroutine of onSignal is about to send on.
THEOREM ChannelStaysOpen == Spec => []NoSendOnClosedChannel
<1>1. SignalInv => NoSendOnClosedChannel
  BY DEF SignalInv, SenderInv, NoSendOnClosedChannel
<1> QED BY <1>1, SignallerInvariant, PTL

\* handleICECandidate sends no candidate before the offer or answer it belongs to.
THEOREM CandidatesComeAfter == Spec => []CandidatesFollow
<1>1. SignalInv => CandidatesFollow
  BY DEF SignalInv, SenderInv, CandidatesFollow
<1> QED BY <1>1, SignallerInvariant, PTL

-----------------------------------------------------------------------------
(* Offers and answers                                                         *)

Bit(b) == IF b THEN 1 ELSE 0
Count(s, type) == Cardinality({i \in DOMAIN s : s[i].type = type})

\* Counts of signals of a type under way to an end.
LEMMA CountType ==
  ASSUME NEW S, NEW s \in Seq(S), NEW type
  PROVE  IsFiniteSet({i \in DOMAIN s : s[i].type = type}) /\ Count(s, type) \in Nat
<1> DEFINE A == {i \in DOMAIN s : s[i].type = type}
<1>1. Len(s) \in Nat /\ DOMAIN s = 1..Len(s)
  OBVIOUS
<1>2. IsFiniteSet(1..Len(s)) /\ A \in SUBSET (1..Len(s))
  BY <1>1, FS_Interval
<1> HIDE DEF A
<1>3. IsFiniteSet(A)
  BY Zenon, <1>2, FS_Subset
<1>4. Cardinality(A) \in Nat
  BY <1>3, FS_CardinalityType
<1> QED BY <1>3, <1>4 DEF A, Count

\* A signal is sent: its type has one more.
LEMMA CountAppend ==
  ASSUME NEW S, NEW s \in Seq(S), NEW x \in S, NEW type
  PROVE  Count(Append(s, x), type) = Count(s, type) + Bit(x.type = type)
<1> DEFINE n == Len(s) + 1
           A == {i \in DOMAIN s : s[i].type = type}
           B == {i \in DOMAIN Append(s, x) : Append(s, x)[i].type = type}
<1>1. /\ Len(s) \in Nat /\ DOMAIN s = 1..Len(s) /\ DOMAIN Append(s, x) = 1..n
      /\ \A i \in 1..n : Append(s, x)[i] = IF i = n THEN x ELSE s[i]
  OBVIOUS
<1>2. IsFiniteSet(A) /\ Cardinality(A) \in Nat
  BY Zenon, CountType DEF Count
<1>5. n \notin A
  BY <1>1
<1>3. B = IF x.type = type THEN A \cup {n} ELSE A
  BY <1>1
<1> HIDE DEF A, B, n
<1>4. Cardinality(B) = Cardinality(A) + Bit(x.type = type)
  <2>1. CASE x.type = type
    <3>1. Cardinality(A \cup {n}) = Cardinality(A) + 1
      BY Zenon, <1>2, <1>5, FS_AddElement
    <3> QED BY <1>3, <2>1, <3>1 DEF Bit
  <2>2. CASE x.type # type
    BY <1>2, <1>3, <2>2 DEF Bit
  <2> QED BY <2>1, <2>2
<1> QED BY Zenon, <1>4 DEF A, B, Count

\* A signal is taken: its type has one less.
LEMMA CountTail ==
  ASSUME NEW S, NEW s \in Seq(S), s # <<>>, NEW type
  PROVE  Count(s, type) = Count(Tail(s), type) + Bit(Head(s).type = type)
<1> DEFINE A == {i \in DOMAIN s : s[i].type = type}
           B == {i \in DOMAIN Tail(s) : Tail(s)[i].type = type}
           C == A \ {1}
           f == [i \in B |-> i + 1]
<1>1. /\ Len(s) \in Nat /\ Len(s) >= 1 /\ DOMAIN s = 1..Len(s) /\ Tail(s) \in Seq(S) /\ Head(s) = s[1]
      /\ Len(Tail(s)) = Len(s) - 1 /\ DOMAIN Tail(s) = 1..(Len(s) - 1)
  OBVIOUS
<1>2. \A i \in 1..(Len(s) - 1) : Tail(s)[i] = s[i + 1]
  BY <1>1
<1>3. \A i \in B : i \in Nat /\ i + 1 \in C
  BY <1>1, <1>2
<1>4. \A j \in C : j - 1 \in B /\ (j - 1) + 1 = j
  <2> SUFFICES ASSUME NEW j \in C PROVE j - 1 \in B /\ (j - 1) + 1 = j
    OBVIOUS
  <2>1. j \in 1..Len(s) /\ j # 1 /\ s[j].type = type
    BY <1>1
  <2>2. j - 1 \in 1..(Len(s) - 1) /\ (j - 1) + 1 = j
    BY <1>1, <2>1
  <2>3. Tail(s)[j - 1] = s[j]
    BY <1>2, <2>2
  <2> QED BY <1>1, <2>1, <2>2, <2>3
<1>5. /\ IsFiniteSet(A) /\ Cardinality(A) \in Nat /\ IsFiniteSet(B) /\ Cardinality(B) \in Nat
  BY Zenon, <1>1, CountType DEF Count
<1>6. 1 \in A <=> Head(s).type = type
  BY <1>1
<1> HIDE DEF A, B
<1>7. f \in Bijection(B, C)
  <2>1. f \in [B -> C]
    BY <1>3
  <2>2. \A a, b \in B : f[a] = f[b] => a = b
    BY <1>3
  <2>3. \A j \in C : \E i \in B : f[i] = j
    BY <1>4
  <2> HIDE DEF f, C
  <2> QED BY <2>1, <2>2, <2>3, Fun_IsBij
<1>8. Cardinality(C) = Cardinality(B)
  <2> HIDE DEF f, C
  <2>1. ExistsBijection(B, C)
    BY <1>7 DEF ExistsBijection
  <2> QED BY <1>5, <2>1, FS_Bijection
<1>9. Cardinality(C) = IF 1 \in A THEN Cardinality(A) - 1 ELSE Cardinality(A)
  BY Zenon, <1>5, FS_RemoveElement
<1>10. Cardinality(A) = Cardinality(B) + Bit(Head(s).type = type)
  <2> HIDE DEF C
  <2> QED BY <1>5, <1>6, <1>8, <1>9 DEF Bit
<1> QED BY Zenon, <1>10 DEF A, B, Count

Other == Peer[Initiator]
Sends(e, type) == smu[e] # None /\ smu[e].signal.type = type
Waits(e, type) == nmu[e] # None /\ nmu[e].signal.type = type

\* Where an offer or its answer can be.
OfferWaits == Bit(Waits(Initiator, "offer"))
OfferSent == Bit(Sends(Initiator, "offer"))
OfferArrives == Count(wire[Other], "offer")
AnswerMade == Bit(call[Other]["socket"].pc = "signal")
AnswerSent == Bit(Sends(Other, "answer"))
AnswerArrives == Count(wire[Initiator], "answer")

OpenOffers == OfferWaits + OfferSent + OfferArrives + AnswerMade + AnswerSent + AnswerArrives

\* Only the initiator makes offers, and only the thread that takes an offer from
\* the socket answers it.
WireKind ==
  /\ wire \in [Ends -> Seq(SignalSet)]
  /\ \A i \in DOMAIN wire[Initiator] : wire[Initiator][i].type # "offer"
SenderKind == /\ \A e \in Ends : smu[e] # None => smu[e].signal \in SignalSet
              /\ ~Sends(Other, "offer")
NegotiatorKind == nmu[Other] # None => nmu[Other].signal.type = "renegotiate"
CallKind ==
  /\ \A th \in Threads : call[Initiator][th].pc # "signal"
  /\ call[Other]["room"].pc = "signal" => call[Other]["room"].signal.type = "transceiver"
  /\ call[Other]["socket"].pc = "signal" => call[Other]["socket"].signal.type = "answer"

KindInv == WireKind /\ SenderKind /\ NegotiatorKind /\ CallKind

\* The state of the initiator's connection says whether an offer is open, and
\* negotiationDone covers the time until the callback about it has run.
PhaseInv ==
  /\ OpenOffers <= 1
  /\ pc[Initiator] = "stable" =>
       OpenOffers = 0 /\ stable[Initiator] <= 1 /\ (stable[Initiator] = 1 => negotiating[Initiator])
  /\ pc[Initiator] = "have-local-offer" => stable[Initiator] = 0 /\ negotiating[Initiator]

ClosedInv ==
  /\ closedCall = [e \in Ends |-> closedCall[e]]
  /\ \A e \in Ends : closedCall[e] => pc[e] = "closed"

NegotiationInv == TypeOK /\ ClosedInv /\ KindInv /\ PhaseInv

-----------------------------------------------------------------------------
\* The two ends.
LEMMA TwoEnds ==
  /\ Initiator \in Ends /\ Other \in Ends /\ Other # Initiator /\ Peer[Initiator] = Other /\ Peer[Other] = Initiator
  /\ \A e \in Ends : e = Initiator \/ e = Other
BY EndsAssumption DEF Other

\* The parts are numbers.
LEMMA PartTypes ==
  ASSUME KindInv
  PROVE  /\ OfferWaits \in 0..1 /\ OfferSent \in 0..1 /\ AnswerMade \in 0..1 /\ AnswerSent \in 0..1
         /\ OfferArrives \in Nat /\ AnswerArrives \in Nat
<1>1. wire[Other] \in Seq(SignalSet) /\ wire[Initiator] \in Seq(SignalSet)
  BY TwoEnds DEF KindInv, WireKind
<1>2. OfferArrives \in Nat /\ AnswerArrives \in Nat
  BY Zenon, <1>1, CountType DEF OfferArrives, AnswerArrives
<1> QED BY <1>2 DEF OfferWaits, OfferSent, AnswerMade, AnswerSent, Bit

\* And they still are after a step.
LEMMA PartTypesNext ==
  ASSUME KindInv'
  PROVE  /\ OfferWaits' \in 0..1 /\ OfferSent' \in 0..1 /\ AnswerMade' \in 0..1 /\ AnswerSent' \in 0..1
         /\ OfferArrives' \in Nat /\ AnswerArrives' \in Nat
<1>1. wire'[Other] \in Seq(SignalSet) /\ wire'[Initiator] \in Seq(SignalSet)
  BY TwoEnds DEF KindInv, WireKind
<1>2. OfferArrives' \in Nat /\ AnswerArrives' \in Nat
  BY Zenon, <1>1, CountType DEF OfferArrives, AnswerArrives
<1> QED BY <1>2 DEF OfferWaits, OfferSent, AnswerMade, AnswerSent, Bit

\* No part grows: no offer is opened.
LEMMA NoOffer ==
  ASSUME PhaseInv, KindInv, KindInv', OpenOffers' <= OpenOffers,
         pc'[Initiator] \in {pc[Initiator], "closed"}, stable'[Initiator] = stable[Initiator],
         negotiating'[Initiator] = negotiating[Initiator] \/ pc'[Initiator] = "closed"
  PROVE  PhaseInv'
<1>1. OpenOffers \in Nat /\ OpenOffers' \in Nat
  BY PartTypes, PartTypesNext DEF OpenOffers
<1> QED BY <1>1 DEF PhaseInv

\* Nor when what makes them up stays.
LEMMA SameParts ==
  /\ UNCHANGED wire => OfferArrives' = OfferArrives /\ AnswerArrives' = AnswerArrives
  /\ UNCHANGED smu => OfferSent' = OfferSent /\ AnswerSent' = AnswerSent
  /\ nmu'[Initiator] = nmu[Initiator] => OfferWaits' = OfferWaits
  /\ call'[Other]["socket"] = call[Other]["socket"] => AnswerMade' = AnswerMade
BY DEF OfferArrives, AnswerArrives, OfferSent, AnswerSent, OfferWaits, AnswerMade, Sends, Waits

\* What is taken from a wire is no longer under way.
LEMMA TakeParts ==
  ASSUME KindInv, NEW e \in Ends, wire[e] # <<>>, wire' = [wire EXCEPT ![e] = Tail(wire[e])]
  PROVE  /\ WireKind'
         /\ OfferArrives = OfferArrives' + Bit(e = Other /\ Head(wire[e]).type = "offer")
         /\ AnswerArrives = AnswerArrives' + Bit(e = Initiator /\ Head(wire[e]).type = "answer")
         /\ OfferArrives' \in Nat /\ AnswerArrives' \in Nat
         /\ e = Initiator => Head(wire[e]).type # "offer"
         /\ Head(wire[e]) \in SignalSet
<1>1. wire[e] \in Seq(SignalSet) /\ Tail(wire[e]) \in Seq(SignalSet) /\ Head(wire[e]) \in SignalSet
  BY DEF KindInv, WireKind
<1>2. wire' \in [Ends -> Seq(SignalSet)] /\ \A f \in Ends : wire'[f] = IF f = e THEN Tail(wire[e]) ELSE wire[f]
  BY <1>1 DEF KindInv, WireKind
<1>3. wire'[Other] \in Seq(SignalSet) /\ wire'[Initiator] \in Seq(SignalSet)
  BY <1>2, TwoEnds
<1>4. OfferArrives' \in Nat /\ AnswerArrives' \in Nat
  BY Zenon, <1>3, CountType DEF OfferArrives, AnswerArrives
<1>5. OfferArrives = OfferArrives' + Bit(e = Other /\ Head(wire[e]).type = "offer")
  <2>1. CASE e = Other
    <3>1. Count(wire[Other], "offer") = Count(Tail(wire[Other]), "offer") + Bit(Head(wire[Other]).type = "offer")
      BY <1>1, <2>1, CountTail
    <3> QED BY <1>2, <2>1, <3>1, TwoEnds DEF OfferArrives
  <2>2. CASE e # Other
    BY <1>2, <1>4, <2>2, TwoEnds DEF OfferArrives, Bit
  <2> QED BY <2>1, <2>2
<1>6. AnswerArrives = AnswerArrives' + Bit(e = Initiator /\ Head(wire[e]).type = "answer")
  <2>1. CASE e = Initiator
    <3>1. Count(wire[e], "answer") = Count(Tail(wire[e]), "answer") + Bit(Head(wire[e]).type = "answer")
      BY <1>1, <2>1, CountTail
    <3> QED BY <1>2, <2>1, <3>1, TwoEnds DEF AnswerArrives
  <2>2. CASE e # Initiator
    BY <1>2, <1>4, <2>2, TwoEnds DEF AnswerArrives, Bit
  <2> QED BY <2>1, <2>2
<1>7. CASE e = Initiator
  <2>1. Len(wire[e]) \in Nat /\ Len(wire[e]) >= 1 /\ Head(wire[e]) = wire[e][1] /\ 1 \in DOMAIN wire[e]
    BY <1>1
  <2>2. \A i \in DOMAIN Tail(wire[e]) : i + 1 \in DOMAIN wire[e] /\ Tail(wire[e])[i] = wire[e][i + 1]
    BY <1>1, <2>1
  <2>3. wire'[Initiator] = Tail(wire[e])
    BY <1>2, <1>7
  <2> QED BY <1>1, <1>2, <1>4, <1>5, <1>6, <1>7, <2>1, <2>2, <2>3 DEF KindInv, WireKind
<1>8. CASE e # Initiator
  BY <1>1, <1>2, <1>4, <1>5, <1>6, <1>8, TwoEnds DEF KindInv, WireKind
<1> QED BY <1>7, <1>8

\* A signal is emitted.
LEMMA EmitParts ==
  ASSUME KindInv, NEW e \in Ends, NEW x \in SignalSet, e = Other => x.type # "offer",
         wire' = [wire EXCEPT ![Peer[e]] = Append(wire[Peer[e]], x)]
  PROVE  /\ WireKind'
         /\ OfferArrives' = OfferArrives + Bit(e = Initiator /\ x.type = "offer")
         /\ AnswerArrives' = AnswerArrives + Bit(e = Other /\ x.type = "answer")
<1> DEFINE p == Peer[e]
<1>1. p \in Ends /\ (e = Initiator <=> p = Other) /\ (e = Other <=> p = Initiator)
  BY TwoEnds
<1> HIDE DEF p
<1>2. wire[p] \in Seq(SignalSet) /\ Append(wire[p], x) \in Seq(SignalSet)
  BY <1>1 DEF KindInv, WireKind
<1>3. wire' \in [Ends -> Seq(SignalSet)] /\ \A f \in Ends : wire'[f] = IF f = p THEN Append(wire[p], x) ELSE wire[f]
  BY <1>1, <1>2 DEF KindInv, WireKind, p
<1>4. OfferArrives \in Nat /\ AnswerArrives \in Nat
  BY PartTypes
<1>5. \A type \in {"offer", "answer"} : Count(Append(wire[p], x), type) = Count(wire[p], type) + Bit(x.type = type)
  BY <1>2, CountAppend
<1>6. CASE p = Other
  <2>1. wire'[Other] = Append(wire[p], x) /\ wire'[Initiator] = wire[Initiator]
    BY Zenon, <1>3, <1>6, TwoEnds
  <2>2. Count(wire'[Other], "offer") = Count(wire[Other], "offer") + Bit(x.type = "offer")
    BY <1>5, <1>6, <2>1
  <2> QED BY <1>1, <1>3, <1>4, <1>6, <2>1, <2>2, TwoEnds DEF OfferArrives, AnswerArrives, Bit, KindInv, WireKind
<1>7. CASE p = Initiator
  <2>1. wire'[Initiator] = Append(wire[p], x) /\ wire'[Other] = wire[Other]
    BY Zenon, <1>3, <1>7, TwoEnds
  <2>2. Count(wire'[Initiator], "answer") = Count(wire[Initiator], "answer") + Bit(x.type = "answer")
    BY <1>5, <1>7, <2>1
  <2>3. x.type # "offer"
    BY <1>1, <1>7
  <2>4. \A i \in DOMAIN wire'[Initiator] : wire'[Initiator][i].type # "offer"
    <3>1. /\ DOMAIN Append(wire[p], x) = 1..(Len(wire[p]) + 1) /\ DOMAIN wire[p] = 1..Len(wire[p]) /\ Len(wire[p]) \in Nat
          /\ \A i \in 1..(Len(wire[p]) + 1) : Append(wire[p], x)[i] = IF i = Len(wire[p]) + 1 THEN x ELSE wire[p][i]
      BY <1>2
    <3>2. \A i \in 1..Len(wire[p]) : wire[p][i].type # "offer"
      BY <1>7, <3>1 DEF KindInv, WireKind
    <3>3. ASSUME NEW i \in 1..(Len(wire[p]) + 1) PROVE Append(wire[p], x)[i].type # "offer"
      <4>1. CASE i = Len(wire[p]) + 1
        BY <2>3, <3>1, <4>1
      <4>2. CASE i # Len(wire[p]) + 1
        <5>1. i \in 1..Len(wire[p])
          BY <3>1, <4>2
        <5> QED BY <3>1, <3>2, <4>2, <5>1
      <4> QED BY <4>1, <4>2
    <3> QED BY Zenon, <2>1, <3>1, <3>3
  <2> QED BY <1>1, <1>3, <1>4, <1>7, <2>1, <2>2, <2>4, TwoEnds DEF OfferArrives, AnswerArrives, Bit, WireKind
<1> QED BY <1>1, <1>6, <1>7, TwoEnds

-----------------------------------------------------------------------------
(* Types                                                                      *)

\* What a call may be about to do.
CallTypes == \A e \in Ends, th \in Threads :
               call[e][th].pc \in {"idle", "queue", "negotiate", "signal", "waits"}

\* The states of the connections and of their negotiators.
StateTypes ==
  /\ pc \in [Ends -> {"stable", "have-local-offer", "closed"}] /\ stable \in [Ends -> Nat]
  /\ negotiating \in [Ends -> BOOLEAN] /\ queued \in [Ends -> BOOLEAN]
  /\ \A e \in Ends : queued[e] => negotiating[e] \/ pc[e] = "closed"

\* A call goes on.
LEMMA ThenTypes ==
  ASSUME CallShape, CallTypes, NEW e \in Ends, NEW th \in Threads, NEW next, Then(e, th, next),
         next.pc \in {"idle", "queue", "negotiate", "signal", "waits"}
  PROVE  /\ CallTypes'
         /\ \A f \in Ends, t \in Threads : call'[f][t] = IF f = e /\ t = th THEN next ELSE call[f][t]
<1>1. call' = [f \in Ends |-> [t \in Threads |-> IF f = e /\ t = th THEN next ELSE call[f][t]]]
  BY Zenon DEF Then, CallShape
<1>2. \A f \in Ends, t \in Threads : call'[f][t] = IF f = e /\ t = th THEN next ELSE call[f][t]
  BY <1>1
<1> QED BY <1>2 DEF CallTypes

\* Every step of a thread is one of these.
LEMMA CallTypesNext ==
  ASSUME SignalInv, CallTypes, [Next]_vars
  PROVE  CallTypes'
<1>1. CASE UNCHANGED call
  BY <1>1 DEF CallTypes
<1>2. ASSUME NEW e \in Ends, SignalNegotiation(e) PROVE CallTypes'
  BY <1>2 DEF SignalNegotiation, CallTypes, SignalInv, CallShape, Idle
<1>3. ASSUME NEW e \in Ends, NEW th \in Threads,
             \E next : Then(e, th, next) /\ next.pc \in {"idle", "queue", "negotiate", "signal", "waits"}
      PROVE  CallTypes'
  BY <1>3, ThenTypes DEF SignalInv
<1>4. "socket" \in Threads /\ "room" \in Threads /\ Idle.pc = "idle" /\ [pc |-> "negotiate"].pc = "negotiate"
      /\ [pc |-> "queue"].pc = "queue" /\ [pc |-> "waits"].pc = "waits"
      /\ \A x : [pc |-> "signal", signal |-> x].pc = "signal"
  BY DEF Threads, Idle
<1>5. ASSUME NEW e \in Ends, NEW th \in Threads, SignalCall(e, th) \/ Negotiate(e, th) PROVE CallTypes'
  <2>1. Then(e, th, Idle) \/ Then(e, th, [pc |-> "waits"])
    BY <1>5 DEF SignalCall, Negotiate
  <2> QED BY <1>3, <1>4, <2>1
<1>6. ASSUME NEW e \in Ends, Socket(e) PROVE CallTypes'
  <2>1. \/ UNCHANGED call \/ Then(e, "socket", [pc |-> "negotiate"]) \/ Then(e, "socket", [pc |-> "queue"])
        \/ \E x : Then(e, "socket", [pc |-> "signal", signal |-> x])
    BY Zenon, <1>6 DEF Socket, RemoteCandidate, RemoteRenegotiate, handleTransceiverRequest, handleRemoteOffer,
                handleRemoteAnswer, AddTransceiverFromKind
  <2> QED BY Zenon, <1>1, <1>3, <1>4, <2>1
<1>7. ASSUME NEW e \in Ends, NEW t \in Offers[e], AddTrack(e, t) \/ RemoveTrack(e, t) PROVE CallTypes'
  <2>1. \/ Then(e, "room", [pc |-> "negotiate"])
        \/ \E x : Then(e, "room", [pc |-> "signal", signal |-> x])
    BY Zenon, <1>7 DEF AddTrack, RemoveTrack
  <2> QED BY Zenon, <1>3, <1>4, <2>1
<1>8. ASSUME NEW e \in Ends, \/ handleICECandidate(e) \/ SendSignal(e) \/ DropSignal(e) \/ handleStable(e)
                             \/ handleClosed(e) \/ Gather(e) \/ Close(e) \/ CloseChannels(e)
      PROVE  CallTypes'
  BY <1>1, <1>8 DEF handleICECandidate, SendSignal, DropSignal, handleStable, handleClosed, Gather, Close,
                    CloseChannels
<1>9. CASE UNCHANGED vars
  BY <1>1, <1>9 DEF vars
<1> QED BY <1>2, <1>5, <1>6, <1>7, <1>8, <1>9 DEF Next, Signalling

\* A negotiation leaves a closed connection closed.
LEMMA StateTypesNext ==
  ASSUME StateTypes, ClosedInv, [Next]_vars
  PROVE  StateTypes' /\ ClosedInv'
<1>1. CASE UNCHANGED <<pc, stable, negotiating, queued, closedCall>>
  BY <1>1 DEF StateTypes, ClosedInv
<1>2. ASSUME NEW e \in Ends, Signalling(e) PROVE UNCHANGED <<pc, stable, negotiating, queued, closedCall>>
  BY <1>2 DEF Signalling, SignalNegotiation, handleICECandidate, SendSignal, DropSignal, SignalCall, peerVars,
              negotiatorVars
<1>3. ASSUME NEW e \in Ends, \/ RemoteCandidate(e) \/ RemoteRenegotiate(e) \/ handleTransceiverRequest(e)
                             \/ AddTransceiverFromKind(e) \/ Gather(e) \/ Close(e)
                             \/ \E t \in Offers[e] : AddTrack(e, t) \/ RemoveTrack(e, t)
      PROVE  UNCHANGED <<pc, stable, negotiating, queued, closedCall>>
  BY <1>3 DEF RemoteCandidate, RemoteRenegotiate, handleTransceiverRequest, AddTransceiverFromKind, Gather, Close,
              AddTrack, RemoveTrack, peerVars, negotiatorVars, signalVars
<1>4. ASSUME NEW e \in Ends, handleRemoteOffer(e) PROVE StateTypes' /\ ClosedInv'
  BY <1>4 DEF handleRemoteOffer, StateTypes, ClosedInv, signalVars
<1>5. ASSUME NEW e \in Ends, handleRemoteAnswer(e) PROVE StateTypes' /\ ClosedInv'
  BY <1>5 DEF handleRemoteAnswer, StateTypes, ClosedInv, signalVars
<1>6. ASSUME NEW e \in Ends, NEW th \in Threads, Negotiate(e, th) PROVE StateTypes' /\ ClosedInv'
  BY Zenon, <1>6 DEF Negotiate, negotiate, StateTypes, ClosedInv, signalVars
<1>7. ASSUME NEW e \in Ends, handleStable(e) PROVE StateTypes' /\ ClosedInv'
  <2>1. /\ pc' \in [Ends -> {"stable", "have-local-offer", "closed"}]
        /\ \A f \in Ends : pc[f] = "closed" => pc'[f] = "closed"
    BY <1>7 DEF handleStable, negotiate, StateTypes
  <2>2. stable' \in [Ends -> Nat]
    BY <1>7 DEF handleStable, StateTypes
  <2>3. /\ negotiating' \in [Ends -> BOOLEAN] /\ queued' \in [Ends -> BOOLEAN]
        /\ \A f \in Ends : queued'[f] => queued[f] /\ f # e
        /\ \A f \in Ends : f # e => negotiating'[f] = negotiating[f]
    BY Zenon, <1>7 DEF handleStable, StateTypes
  <2>4. UNCHANGED closedCall
    BY <1>7 DEF handleStable, signalVars
  <2> QED BY <2>1, <2>2, <2>3, <2>4 DEF StateTypes, ClosedInv
<1>8. ASSUME NEW e \in Ends, handleClosed(e) PROVE StateTypes' /\ ClosedInv'
  BY Zenon, <1>8 DEF handleClosed, StateTypes, ClosedInv, peerVars
<1>9. ASSUME NEW e \in Ends, CloseChannels(e) PROVE StateTypes' /\ ClosedInv'
  BY Zenon, <1>9 DEF CloseChannels, StateTypes, ClosedInv, negotiatorVars
<1>10. CASE UNCHANGED vars
  BY <1>1, <1>10 DEF vars, peerVars, negotiatorVars, signalVars
<1> QED BY <1>1, <1>2, <1>3, <1>4, <1>5, <1>6, <1>7, <1>8, <1>9, <1>10 DEF Next, Socket

\* The types hold after every step.
LEMMA TypesNext ==
  ASSUME SignalInv, SignalInv', TypeOK, ClosedInv, [Next]_vars
  PROVE  TypeOK' /\ ClosedInv'
<1>1. StateTypes' /\ ClosedInv'
  BY StateTypesNext DEF TypeOK, StateTypes
<1>2. CallTypes'
  BY CallTypesNext DEF TypeOK, CallTypes
<1>3. \A e \in Ends : local'[e] \subseteq Offers[e]
  <2>1. CASE UNCHANGED local
    BY <2>1 DEF TypeOK
  <2>2. ASSUME NEW e \in Ends, NEW t \in Offers[e], AddTrack(e, t) \/ RemoveTrack(e, t)
        PROVE  \A f \in Ends : local'[f] \subseteq Offers[f]
    BY <2>2 DEF AddTrack, RemoveTrack, TypeOK, SignalInv, OfferInv
  <2>3. ASSUME NEW e \in Ends, \/ Signalling(e) \/ Socket(e) \/ handleStable(e) \/ handleClosed(e)
                               \/ \E th \in Threads : Negotiate(e, th)
                               \/ Gather(e) \/ Close(e) \/ CloseChannels(e)
        PROVE  UNCHANGED local
    BY Zenon, <2>3 DEF Signalling, SignalNegotiation, handleICECandidate, SendSignal, DropSignal, SignalCall, Socket,
        RemoteCandidate, RemoteRenegotiate, handleTransceiverRequest, handleRemoteOffer, handleRemoteAnswer,
        AddTransceiverFromKind, handleStable, handleClosed, Negotiate, Gather, Close, CloseChannels, peerVars
  <2>4. CASE UNCHANGED vars
    BY <2>1, <2>4 DEF vars, peerVars
  <2> QED BY <2>1, <2>2, <2>3, <2>4 DEF Next
<1> QED BY <1>1, <1>2, <1>3 DEF TypeOK, StateTypes, CallTypes, SignalInv, OfferInv, Shape

-----------------------------------------------------------------------------
(* What a step does to the signals that are held                               *)

\* A thread goes on with a call that keeps to its kind.
LEMMA CallKinds ==
  ASSUME CallShape, CallKind, NEW e \in Ends, NEW th \in Threads, NEW next, Then(e, th, next),
         next.pc = "signal" => /\ e = Other
                               /\ th = "room" => next.signal.type = "transceiver"
                               /\ th = "socket" => next.signal.type = "answer"
  PROVE  /\ CallKind'
         /\ call'[Other]["socket"] = IF e = Other /\ th = "socket" THEN next ELSE call[Other]["socket"]
<1>1. call' = [f \in Ends |-> [t \in Threads |-> IF f = e /\ t = th THEN next ELSE call[f][t]]]
  BY Zenon DEF Then, CallShape
<1>2. \A f \in Ends, t \in Threads : call'[f][t] = IF f = e /\ t = th THEN next ELSE call[f][t]
  BY <1>1
<1>3. "room" \in Threads /\ "socket" \in Threads
  BY DEF Threads
<1> QED BY <1>2, <1>3, TwoEnds DEF CallKind

\* A signal of the end's own kind is handed to the goroutine that sends it.
LEMMA HandsOver ==
  ASSUME Shape, SenderKind, NEW e \in Ends, NEW signal \in SignalSet, onSignal(e, signal),
         e = Other => signal.type # "offer"
  PROVE  /\ SenderKind'
         /\ OfferSent' <= (IF e = Initiator THEN Bit(signal.type = "offer") ELSE OfferSent)
         /\ AnswerSent' <= (IF e = Other THEN Bit(signal.type = "answer") ELSE AnswerSent)
<1> DEFINE sent == [signal |-> signal, open |-> closer[e] # "closed"]
<1>1. \A f \in Ends : smu'[f] = IF f = e THEN sent ELSE smu[f]
  BY DEF Shape, onSignal
<1>2. sent.signal = signal
  OBVIOUS
<1> HIDE DEF sent
<1>3. SenderKind'
  BY <1>1, <1>2, TwoEnds DEF SenderKind, Sends
<1>4. OfferSent' <= (IF e = Initiator THEN Bit(signal.type = "offer") ELSE OfferSent)
  BY <1>1, <1>2, TwoEnds DEF OfferSent, Sends, Bit
<1>5. AnswerSent' <= (IF e = Other THEN Bit(signal.type = "answer") ELSE AnswerSent)
  BY <1>1, <1>2, TwoEnds DEF AnswerSent, Sends, Bit
<1> QED BY <1>3, <1>4, <1>5

\* negotiate makes an offer at the initiator and a request at the other end.
LEMMA NegotiateKinds ==
  ASSUME SignalInv, StateTypes, NegotiatorKind, NEW e \in Ends, NEW th, negotiate(e, th)
  PROVE  /\ NegotiatorKind'
         /\ e = Other => nmu'[Initiator] = nmu[Initiator] /\ pc' = pc
         /\ e = Initiator /\ pc[e] = "closed" => nmu' = nmu /\ pc' = pc
         /\ e = Initiator /\ pc[e] # "closed" => pc'[e] = "have-local-offer"
<1>1. CASE e = Other
  <2> DEFINE asks == [by |-> th, signal |-> Signal("renegotiate")]
  <2>1. nmu' = [nmu EXCEPT ![e] = asks] /\ pc' = pc
    BY <1>1, TwoEnds DEF negotiate
  <2>2. asks.signal.type = "renegotiate"
    BY DEF Signal
  <2> HIDE DEF asks
  <2> QED BY <1>1, <2>1, <2>2, TwoEnds DEF NegotiatorKind, SignalInv, Shape
<1>2. CASE e = Initiator /\ pc[e] = "closed"
  BY <1>2, TwoEnds DEF negotiate, NegotiatorKind
<1>3. CASE e = Initiator /\ pc[e] # "closed"
  <2>1. nmu' = [nmu EXCEPT ![e] = [by |-> th, signal |-> Offer(e)]] /\ pc' = [pc EXCEPT ![e] = "have-local-offer"]
    BY <1>3 DEF negotiate
  <2> QED BY <1>3, <2>1, TwoEnds DEF NegotiatorKind, SignalInv, Shape, StateTypes
<1> QED BY <1>1, <1>2, <1>3, TwoEnds

\* One negotiation makes one offer.
LEMMA OneMore ==
  ASSUME KindInv, KindInv', UNCHANGED <<wire, smu>>, AnswerMade' <= AnswerMade
  PROVE  OpenOffers' <= OpenOffers + 1
<1>1. OfferArrives' <= OfferArrives /\ AnswerArrives' <= AnswerArrives /\ OfferSent' <= OfferSent /\ AnswerSent' <= AnswerSent
  BY SameParts, PartTypes, PartTypesNext
<1>2. OfferWaits' <= OfferWaits + 1
  BY PartTypes, PartTypesNext
<1> QED BY <1>1, <1>2, PartTypes, PartTypesNext DEF OpenOffers

\* The initiator makes an offer when none is open.
LEMMA OpensOffer ==
  ASSUME KindInv, KindInv', PhaseInv, OpenOffers = 0, UNCHANGED <<wire, smu>>,
         AnswerMade' <= AnswerMade, pc'[Initiator] = "have-local-offer", stable'[Initiator] = 0,
         negotiating'[Initiator]
  PROVE  PhaseInv'
<1>1. OpenOffers' <= 1
  BY OneMore
<1> QED BY <1>1 DEF PhaseInv

-----------------------------------------------------------------------------
(* The steps                                                                  *)

\* A signal goes to the goroutine that sends it: it moves, and opens nothing.
LEMMA SignallingKeeps ==
  ASSUME SignalInv, KindInv, PhaseInv, NEW e \in Ends, Signalling(e)
  PROVE  KindInv' /\ PhaseInv'
<1> USE DEF SignalInv
<1>0. Idle.pc # "signal" /\ "room" \in Threads /\ "socket" \in Threads
  BY DEF Idle, Threads
<1>1. UNCHANGED <<pc, stable, negotiating>>
  BY DEF Signalling, SignalNegotiation, handleICECandidate, SendSignal, DropSignal, SignalCall, peerVars,
         negotiatorVars
<1>2. CASE SignalNegotiation(e)
  <2> DEFINE signal == nmu[e].signal
  <2>1. signal \in SignalSet /\ onSignal(e, signal) /\ UNCHANGED wire
    BY <1>2 DEF SignalNegotiation, NegotiatorInv, Waiting
  <2>2. e = Other => signal.type = "renegotiate"
    BY <1>2 DEF SignalNegotiation, KindInv, NegotiatorKind
  <2>3. e = Initiator => Waits(e, signal.type)
    BY <1>2 DEF SignalNegotiation, Waits
  <2>4. \A f \in Ends : nmu'[f] = IF f = e THEN None ELSE nmu[f]
    BY <1>2 DEF SignalNegotiation, Shape
  <2>5. \A f \in Ends, t \in Threads : call'[f][t] \in {call[f][t], Idle}
    BY <1>2 DEF SignalNegotiation, CallShape
  <2> HIDE DEF signal
  <2>6. /\ SenderKind'
        /\ OfferSent' <= (IF e = Initiator THEN Bit(signal.type = "offer") ELSE OfferSent)
        /\ AnswerSent' <= (IF e = Other THEN Bit(signal.type = "answer") ELSE AnswerSent)
    BY <2>1, <2>2, HandsOver DEF KindInv
  <2>7. NegotiatorKind' /\ WireKind'
    BY <2>1, <2>4, TwoEnds DEF KindInv, NegotiatorKind, WireKind
  <2>8. CallKind'
    BY <1>0, <2>5, TwoEnds DEF KindInv, CallKind
  <2>9. OfferArrives' = OfferArrives /\ AnswerArrives' = AnswerArrives
    BY <2>1, SameParts
  <2>10. AnswerMade' <= AnswerMade
    BY <1>0, <2>5, TwoEnds DEF AnswerMade, Bit
  <2>11. OfferWaits' + OfferSent' <= OfferWaits + OfferSent
    <3>1. CASE e = Initiator
      <4>1. OfferWaits' = 0
        BY <2>4, <3>1 DEF OfferWaits, Waits, Bit
      <4>2. Bit(signal.type = "offer") <= OfferWaits
        BY <2>3, <3>1 DEF OfferWaits, Waits, Bit
      <4> QED BY <2>6, <2>7, <2>8, <3>1, <4>1, <4>2, PartTypes, PartTypesNext DEF KindInv, Bit
    <3>2. CASE e = Other
      <4>1. OfferWaits' = OfferWaits
        BY <2>4, <3>2, TwoEnds, SameParts
      <4>2. OfferSent' <= OfferSent
        BY <2>6, <3>2, TwoEnds
      <4> QED BY <2>6, <2>7, <2>8, <4>1, <4>2, PartTypes, PartTypesNext DEF KindInv
    <3> QED BY <3>1, <3>2, TwoEnds
  <2>13. KindInv'
    BY <2>6, <2>7, <2>8 DEF KindInv
  <2>12. AnswerSent' <= AnswerSent
    <3>1. e = Other => Bit(signal.type = "answer") = 0
      BY <2>2 DEF Bit
    <3> QED BY <2>6, <2>13, <3>1, PartTypes, PartTypesNext
  <2>14. OpenOffers' <= OpenOffers
    BY <2>9, <2>10, <2>11, <2>12, <2>13, PartTypes, PartTypesNext DEF OpenOffers
  <2> QED BY <1>1, <2>13, <2>14, NoOffer
<1>3. ASSUME NEW th \in Threads, SignalCall(e, th) PROVE KindInv' /\ PhaseInv'
  <2> DEFINE signal == call[e][th].signal
  <2>1. signal \in SignalSet /\ onSignal(e, signal) /\ Then(e, th, Idle) /\ UNCHANGED <<wire, nmu>>
    BY <1>3 DEF SignalCall, CallInv, Waiting, negotiatorVars
  <2>2. e = Other /\ (th = "room" => signal.type = "transceiver") /\ (th = "socket" => signal.type = "answer")
        /\ (th = "room" \/ th = "socket") /\ (th = "socket" => AnswerMade = 1)
    BY <1>3, TwoEnds DEF SignalCall, KindInv, CallKind, Threads, AnswerMade, Bit
  <2> HIDE DEF signal
  <2>3. /\ SenderKind' /\ OfferSent' <= OfferSent /\ AnswerSent' <= Bit(signal.type = "answer")
    BY <2>1, <2>2, TwoEnds, HandsOver DEF KindInv
  <2>4. /\ CallKind'
        /\ call'[Other]["socket"] = IF th = "socket" THEN Idle ELSE call[Other]["socket"]
    BY <1>0, <2>1, <2>2, CallKinds DEF KindInv
  <2>5. KindInv'
    BY Zenon, <2>1, <2>3, <2>4 DEF KindInv, WireKind, NegotiatorKind
  <2>6. OfferArrives' = OfferArrives /\ AnswerArrives' = AnswerArrives /\ OfferWaits' = OfferWaits
    BY Zenon, <2>1, SameParts
  <2>7. AnswerMade' + AnswerSent' <= AnswerMade + AnswerSent
    <3>1. CASE th = "socket"
      <4>0. call'[Other]["socket"].pc # "signal"
        BY Zenon, <1>0, <2>4, <3>1
      <4>1. AnswerMade' = 0 /\ AnswerMade = 1
        BY Zenon, <2>2, <3>1, <4>0 DEF AnswerMade, Bit
      <4>2. AnswerMade' <= AnswerMade - 1
        BY <4>1
      <4> QED BY <2>5, <4>2, PartTypes, PartTypesNext
    <3>2. CASE th = "room"
      <4>1. AnswerMade' = AnswerMade
        BY <2>4, <3>2, SameParts
      <4>2. AnswerSent' <= 0
        BY <2>2, <2>3, <3>2 DEF Bit
      <4> QED BY <2>5, <4>1, <4>2, PartTypes, PartTypesNext
    <3> QED BY <2>2, <3>1, <3>2
  <2>8. OpenOffers' <= OpenOffers
    BY <2>3, <2>5, <2>6, <2>7, PartTypes, PartTypesNext DEF OpenOffers
  <2> QED BY <1>1, <2>5, <2>8, NoOffer
<1>4. CASE handleICECandidate(e)
  <2>1. onSignal(e, Signal("candidate")) /\ UNCHANGED <<wire, nmu, call>>
    BY <1>4 DEF handleICECandidate, negotiatorVars
  <2>2. Signal("candidate") \in SignalSet /\ Signal("candidate").type = "candidate"
    BY DEF Signal, SignalSet
  <2>3. /\ SenderKind'
        /\ OfferSent' <= (IF e = Initiator THEN Bit(Signal("candidate").type = "offer") ELSE OfferSent)
        /\ AnswerSent' <= (IF e = Other THEN Bit(Signal("candidate").type = "answer") ELSE AnswerSent)
    BY <2>1, <2>2, HandsOver DEF KindInv
  <2>4. KindInv'
    BY Zenon, <2>1, <2>3 DEF KindInv, WireKind, NegotiatorKind, CallKind
  <2>5. OfferArrives' = OfferArrives /\ AnswerArrives' = AnswerArrives /\ OfferWaits' = OfferWaits
        /\ AnswerMade' = AnswerMade
    BY <2>1, SameParts
  <2>6. OfferSent' <= OfferSent /\ AnswerSent' <= AnswerSent
    <3>1. \A type \in {"offer", "answer"} : Bit(Signal("candidate").type = type) = 0
      BY <2>2 DEF Bit
    <3> QED BY <2>3, <2>4, <3>1, PartTypes, PartTypesNext
  <2>7. OpenOffers' <= OpenOffers
    BY <2>4, <2>5, <2>6, PartTypes, PartTypesNext DEF OpenOffers
  <2> QED BY <1>1, <2>4, <2>7, NoOffer
<1>5. CASE SendSignal(e)
  <2> DEFINE signal == smu[e].signal
  <2>1. /\ signal \in SignalSet /\ (e = Other => signal.type # "offer")
        /\ wire' = [wire EXCEPT ![Peer[e]] = Append(wire[Peer[e]], signal)]
        /\ UNCHANGED <<nmu, call>>
    BY <1>5 DEF SendSignal, KindInv, SenderKind, Sends, negotiatorVars
  <2>2. \A f \in Ends : smu'[f] = IF f = e THEN None ELSE smu[f]
    BY <1>5 DEF SendSignal, Shape
  <2>3. \A type : Sends(e, type) <=> signal.type = type
    BY Zenon, <1>5 DEF SendSignal, Sends
  <2> HIDE DEF signal
  <2>4. /\ WireKind'
        /\ OfferArrives' = OfferArrives + Bit(e = Initiator /\ signal.type = "offer")
        /\ AnswerArrives' = AnswerArrives + Bit(e = Other /\ signal.type = "answer")
    BY Zenon, <2>1, EmitParts
  <2>5. SenderKind'
    BY <2>2, TwoEnds DEF KindInv, SenderKind, Sends
  <2>6. KindInv'
    BY Zenon, <2>1, <2>4, <2>5 DEF KindInv, NegotiatorKind, CallKind
  <2>7. OfferWaits' = OfferWaits /\ AnswerMade' = AnswerMade
    BY Zenon, <2>1, SameParts
  <2>8. OfferSent = OfferSent' + Bit(e = Initiator /\ signal.type = "offer")
    BY <2>2, <2>3, TwoEnds DEF OfferSent, Sends, Bit
  <2>9. AnswerSent = AnswerSent' + Bit(e = Other /\ signal.type = "answer")
    BY <2>2, <2>3, TwoEnds DEF AnswerSent, Sends, Bit
  <2>10. \A b : Bit(b) \in 0..1
    BY DEF Bit
  <2>11. OpenOffers' <= OpenOffers
    <3> DEFINE o == Bit(e = Initiator /\ signal.type = "offer")
               a == Bit(e = Other /\ signal.type = "answer")
    <3>1. o \in Nat /\ a \in Nat
      BY <2>10
    <3> HIDE DEF o, a
    <3>2. OfferArrives' = OfferArrives + o /\ AnswerArrives' = AnswerArrives + a
      BY <2>4 DEF o, a
    <3>3. OfferSent = OfferSent' + o /\ AnswerSent = AnswerSent' + a
      BY <2>8, <2>9 DEF o, a
    <3> QED BY <2>6, <2>7, <3>1, <3>2, <3>3, PartTypes, PartTypesNext DEF OpenOffers
  <2> QED BY <1>1, <2>6, <2>11, NoOffer
<1>6. CASE DropSignal(e)
  <2>1. UNCHANGED <<wire, nmu, call>>
    BY <1>6 DEF DropSignal, negotiatorVars
  <2>2. \A f \in Ends : smu'[f] \in {smu[f], None}
    BY <1>6 DEF DropSignal, Shape
  <2>3. KindInv'
    BY Zenon, <2>1, <2>2, TwoEnds DEF KindInv, WireKind, SenderKind, NegotiatorKind, CallKind, Sends
  <2>4. OfferArrives' = OfferArrives /\ AnswerArrives' = AnswerArrives /\ OfferWaits' = OfferWaits
        /\ AnswerMade' = AnswerMade
    BY <2>1, SameParts
  <2>5. OfferSent' <= OfferSent /\ AnswerSent' <= AnswerSent
    BY <2>2, TwoEnds DEF OfferSent, AnswerSent, Sends, Bit
  <2>6. OpenOffers' <= OpenOffers
    BY <2>3, <2>4, <2>5, PartTypes, PartTypesNext DEF OpenOffers
  <2> QED BY <1>1, <2>3, <2>6, NoOffer
<1> QED BY <1>2, <1>3, <1>4, <1>5, <1>6 DEF Signalling

\* A thread that goes on without a signal makes no answer.
LEMMA GoesOn ==
  ASSUME CallShape, CallKind, NEW e \in Ends, NEW th \in Threads,
         UNCHANGED call \/ \E next : Then(e, th, next) /\ next.pc # "signal"
  PROVE  CallKind' /\ AnswerMade' <= AnswerMade
<1>1. CASE UNCHANGED call
  BY <1>1 DEF CallKind, AnswerMade, Bit
<1>2. ASSUME NEW next, Then(e, th, next), next.pc # "signal" PROVE CallKind' /\ AnswerMade' <= AnswerMade
  <2>1. /\ CallKind'
        /\ call'[Other]["socket"] = IF e = Other /\ th = "socket" THEN next ELSE call[Other]["socket"]
    BY <1>2, CallKinds
  <2>2. call'[Other]["socket"].pc = "signal" => call[Other]["socket"].pc = "signal"
    BY <1>2, <2>1
  <2> QED BY <2>1, <2>2 DEF AnswerMade, Bit
<1> QED BY <1>1, <1>2

\* What the socket brings is applied, and an offer is answered once.
LEMMA SocketKeeps ==
  ASSUME SignalInv, StateTypes, KindInv, PhaseInv, NEW e \in Ends, Socket(e)
  PROVE  KindInv' /\ PhaseInv'
<1> USE DEF SignalInv
<1>0. "socket" \in Threads /\ Idle.pc # "signal" /\ [pc |-> "negotiate"].pc # "signal" /\ [pc |-> "queue"].pc # "signal"
  BY DEF Idle, Threads
<1>1. UNCHANGED <<smu, nmu, negotiating>>
  BY DEF Socket, RemoteCandidate, RemoteRenegotiate, handleTransceiverRequest, handleRemoteOffer,
         handleRemoteAnswer, AddTransceiverFromKind, negotiatorVars, signalVars
<1>2. /\ SenderKind' /\ NegotiatorKind'
      /\ OfferWaits' = OfferWaits /\ OfferSent' = OfferSent /\ AnswerSent' = AnswerSent
  BY <1>1, SameParts DEF KindInv, SenderKind, NegotiatorKind, Sends
<1>3. ASSUME UNCHANGED <<pc, stable, wire>>, Then(e, "socket", [pc |-> "negotiate"])
      PROVE  KindInv' /\ PhaseInv'
  <2>1. CallKind' /\ AnswerMade' <= AnswerMade
    BY <1>0, <1>3, GoesOn DEF KindInv
  <2>2. KindInv' /\ OfferArrives' = OfferArrives /\ AnswerArrives' = AnswerArrives
    BY <1>2, <1>3, <2>1, SameParts DEF KindInv, WireKind
  <2>3. OpenOffers' <= OpenOffers
    BY <1>2, <2>1, <2>2, PartTypes, PartTypesNext DEF OpenOffers
  <2> QED BY <1>1, <1>3, <2>2, <2>3, NoOffer
<1>4. ASSUME NEW type, Take(e, type)
      PROVE  /\ wire[e] # <<>> /\ Head(wire[e]).type = type
             /\ WireKind'
             /\ OfferArrives = OfferArrives' + Bit(e = Other /\ Head(wire[e]).type = "offer")
             /\ AnswerArrives = AnswerArrives' + Bit(e = Initiator /\ Head(wire[e]).type = "answer")
             /\ OfferArrives' \in Nat /\ AnswerArrives' \in Nat
             /\ e = Initiator => Head(wire[e]).type # "offer"
  BY Zenon, <1>4, TakeParts DEF Take
<1>5. ASSUME NEW type, Take(e, type),
             UNCHANGED call \/ \E next : Then(e, "socket", next) /\ next.pc # "signal"
      PROVE  /\ KindInv'
             /\ OpenOffers' <= OpenOffers - Bit(e = Initiator /\ Head(wire[e]).type = "answer")
  <2>1. CallKind' /\ AnswerMade' <= AnswerMade
    BY <1>0, <1>5, GoesOn DEF KindInv
  <2>2. KindInv'
    BY <1>2, <1>4, <1>5, <2>1 DEF KindInv
  <2> DEFINE o == Bit(e = Other /\ Head(wire[e]).type = "offer")
             a == Bit(e = Initiator /\ Head(wire[e]).type = "answer")
  <2>3. o \in Nat /\ a \in Nat
    BY DEF Bit
  <2> HIDE DEF o, a
  <2>4. OfferArrives = OfferArrives' + o /\ AnswerArrives = AnswerArrives' + a
    BY <1>4, <1>5 DEF o, a
  <2>5. OpenOffers' <= OpenOffers - a
    BY <1>2, <2>1, <2>2, <2>3, <2>4, PartTypes, PartTypesNext DEF OpenOffers
  <2> QED BY <2>2, <2>5 DEF a
<1>6. CASE AddTransceiverFromKind(e)
  BY <1>3, <1>6 DEF AddTransceiverFromKind, peerVars
<1>7. ASSUME NEW type, Take(e, type), UNCHANGED <<pc, stable>>,
             UNCHANGED call \/ \E next : Then(e, "socket", next) /\ next.pc # "signal"
      PROVE  KindInv' /\ PhaseInv'
  <2>1. KindInv' /\ OpenOffers' <= OpenOffers - Bit(e = Initiator /\ Head(wire[e]).type = "answer")
    BY <1>5, <1>7
  <2>2. Bit(e = Initiator /\ Head(wire[e]).type = "answer") \in Nat
    BY DEF Bit
  <2>3. OpenOffers' <= OpenOffers
    <3>1. OpenOffers \in Int /\ OpenOffers' \in Int
      BY <2>1, PartTypes, PartTypesNext DEF OpenOffers
    <3> QED BY <2>1, <2>2, <3>1
  <2> QED BY <1>1, <1>7, <2>1, <2>3, NoOffer
<1>8. CASE RemoteCandidate(e) \/ RemoteRenegotiate(e) \/ handleTransceiverRequest(e)
  <2>1. UNCHANGED <<pc, stable>> /\ \E type : Take(e, type)
    BY <1>8 DEF RemoteCandidate, RemoteRenegotiate, handleTransceiverRequest, peerVars, negotiatorVars
  <2>2. UNCHANGED call \/ Then(e, "socket", [pc |-> "negotiate"]) \/ Then(e, "socket", [pc |-> "queue"])
    BY <1>8 DEF RemoteCandidate, RemoteRenegotiate, handleTransceiverRequest
  <2> QED BY <1>0, <1>7, <2>1, <2>2
<1>9. CASE handleRemoteOffer(e)
  <2>1. Take(e, "offer") /\ call[e]["socket"] = Idle
    BY Zenon, <1>9 DEF handleRemoteOffer, Take
  <2>2. e = Other
    BY <1>4, <2>1, TwoEnds
  <2>3. UNCHANGED pc /\ stable'[Initiator] = stable[Initiator]
    BY <1>9, <2>2, TwoEnds DEF handleRemoteOffer, StateTypes
  <2>4. CASE UNCHANGED <<call, stable>>
    BY <1>7, <2>1, <2>3, <2>4
  <2>5. CASE ~ UNCHANGED <<call, stable>>
    <3> DEFINE next == [pc |-> "signal", signal |-> [type |-> "answer", tracks |-> local[e]]]
    <3>1. Then(e, "socket", next)
      BY Zenon, <1>9, <2>5 DEF handleRemoteOffer
    <3>2. next.signal.type = "answer"
      OBVIOUS
    <3> HIDE DEF next
    <3>3. CallKind'
      BY Zenon, <1>0, <2>2, <3>1, <3>2, CallKinds, TwoEnds DEF KindInv
    <3>4. KindInv'
      BY <1>2, <1>4, <2>1, <3>3 DEF KindInv
    <3>5. AnswerMade <= 0
      BY <1>0, <2>1, <2>2 DEF AnswerMade, Bit
    <3>6. OfferArrives = OfferArrives' + 1 /\ AnswerArrives = AnswerArrives'
      BY <1>4, <2>1, <2>2, TwoEnds DEF Bit
    <3>7. AnswerMade' <= AnswerMade + 1
      BY <3>4, <3>5, PartTypes, PartTypesNext
    <3>8. OpenOffers' <= OpenOffers
      BY <1>2, <3>4, <3>6, <3>7, PartTypes, PartTypesNext DEF OpenOffers
    <3> QED BY <1>1, <2>3, <3>4, <3>8, NoOffer
  <2> QED BY <2>4, <2>5
<1>10. CASE handleRemoteAnswer(e)
  <2>1. Take(e, "answer") /\ UNCHANGED call
    BY <1>10 DEF handleRemoteAnswer
  <2>2. CASE UNCHANGED <<pc, stable>>
    BY <1>7, <2>1, <2>2
  <2>3. CASE ~UNCHANGED <<pc, stable>>
    <3>1. /\ pc[e] = "have-local-offer"
          /\ pc' = [pc EXCEPT ![e] = "stable"] /\ stable' = [stable EXCEPT ![e] = @ + 1]
      BY <1>10, <2>3 DEF handleRemoteAnswer
    <3>2. CASE e = Other
      <4>1. pc'[Initiator] = pc[Initiator] /\ stable'[Initiator] = stable[Initiator]
        BY <3>1, <3>2, TwoEnds DEF StateTypes
      <4>2. KindInv' /\ OpenOffers' <= OpenOffers - Bit(e = Initiator /\ Head(wire[e]).type = "answer")
        BY <1>5, <2>1
      <4>3. Bit(e = Initiator /\ Head(wire[e]).type = "answer") = 0
        BY <3>2, TwoEnds DEF Bit
      <4>4. OpenOffers' <= OpenOffers
        <5>1. OpenOffers \in Int /\ OpenOffers' \in Int
          BY <4>2, PartTypes, PartTypesNext DEF OpenOffers
        <5> QED BY <4>2, <4>3, <5>1
      <4> QED BY <1>1, <4>1, <4>2, <4>4, NoOffer
    <3>3. CASE e = Initiator
      <4>1. pc'[Initiator] = "stable" /\ stable'[Initiator] = stable[Initiator] + 1
        BY <3>1, <3>3, TwoEnds DEF StateTypes
      <4>2. stable'[Initiator] = 1 /\ negotiating'[Initiator]
        BY <1>1, <3>1, <3>3, <4>1 DEF PhaseInv
      <4>3. KindInv' /\ OpenOffers' <= OpenOffers - Bit(e = Initiator /\ Head(wire[e]).type = "answer")
        BY <1>5, <2>1
      <4>4. Bit(e = Initiator /\ Head(wire[e]).type = "answer") = 1
        BY <1>4, <2>1, <3>3 DEF Bit
      <4>5. OpenOffers' = 0
        <5>1. OpenOffers \in Nat /\ OpenOffers' \in Nat
          BY <4>3, PartTypes, PartTypesNext DEF OpenOffers
        <5>2. OpenOffers <= 1
          BY DEF PhaseInv
        <5> QED BY <4>3, <4>4, <5>1, <5>2
      <4> QED BY <4>1, <4>2, <4>3, <4>5 DEF PhaseInv
    <3> QED BY <3>2, <3>3, TwoEnds
  <2> QED BY <2>2, <2>3
<1> QED BY <1>6, <1>8, <1>9, <1>10 DEF Socket

\* A closed connection is in no phase of a negotiation.
LEMMA ClosedPhase ==
  ASSUME KindInv, KindInv', PhaseInv, OpenOffers' <= OpenOffers, pc'[Initiator] = "closed"
  PROVE  PhaseInv'
<1>1. OpenOffers \in Nat /\ OpenOffers' \in Nat
  BY PartTypes, PartTypesNext DEF OpenOffers
<1> QED BY <1>1 DEF PhaseInv

\* The callback that finds nothing queued leaves the connection stable.
LEMMA EndsPhase ==
  ASSUME KindInv, KindInv', PhaseInv, OpenOffers' <= OpenOffers, pc[Initiator] = "stable",
         pc'[Initiator] = pc[Initiator], stable'[Initiator] = 0
  PROVE  PhaseInv'
<1>1. OpenOffers \in Nat /\ OpenOffers' \in Nat
  BY PartTypes, PartTypesNext DEF OpenOffers
<1> QED BY <1>1 DEF PhaseInv

\* When the initiator's signals stay and no answer is made, no offer is opened.
LEMMA SameSignals ==
  ASSUME KindInv, KindInv', UNCHANGED <<wire, smu>>, nmu'[Initiator] = nmu[Initiator], AnswerMade' <= AnswerMade
  PROVE  OpenOffers' <= OpenOffers
<1>1. OfferArrives' = OfferArrives /\ AnswerArrives' = AnswerArrives /\ OfferSent' = OfferSent /\ AnswerSent' = AnswerSent
      /\ OfferWaits' = OfferWaits
  BY SameParts
<1> QED BY <1>1, PartTypes, PartTypesNext DEF OpenOffers

\* negotiate makes an offer only in the state stable, and only when the callback
\* about that state has run.
LEMMA NegotiateKeeps ==
  ASSUME SignalInv, StateTypes, KindInv, PhaseInv, NEW e \in Ends, NEW th \in Threads, Negotiate(e, th)
  PROVE  KindInv' /\ PhaseInv'
<1> USE DEF SignalInv
<1>1. UNCHANGED <<wire, smu, stable>>
  BY DEF Negotiate, signalVars
<1>2. CallKind' /\ AnswerMade' <= AnswerMade
  <2>1. Idle.pc # "signal" /\ [pc |-> "waits"].pc # "signal"
    BY DEF Idle
  <2>2. Then(e, th, Idle) \/ Then(e, th, [pc |-> "waits"])
    BY Zenon DEF Negotiate
  <2> QED BY <2>1, <2>2, GoesOn DEF KindInv
<1>3. WireKind' /\ SenderKind'
  BY <1>1 DEF KindInv, WireKind, SenderKind, Sends
<1>4. CASE negotiating[e]
  <2>1. UNCHANGED <<negotiating, nmu, pc>>
    BY Zenon, <1>4 DEF Negotiate
  <2>2. KindInv'
    BY <1>2, <1>3, <2>1 DEF KindInv, NegotiatorKind
  <2>3. OpenOffers' <= OpenOffers
    BY <1>1, <1>2, <2>1, <2>2, SameSignals
  <2> QED BY Zenon, <1>1, <2>1, <2>2, <2>3, NoOffer
<1>5. CASE ~negotiating[e]
  <2>1. negotiate(e, th) /\ negotiating' = [negotiating EXCEPT ![e] = TRUE]
    BY Zenon, <1>5 DEF Negotiate
  <2>2. /\ NegotiatorKind'
        /\ e = Other => nmu'[Initiator] = nmu[Initiator] /\ pc' = pc
        /\ e = Initiator /\ pc[e] = "closed" => nmu' = nmu /\ pc' = pc
        /\ e = Initiator /\ pc[e] # "closed" => pc'[e] = "have-local-offer"
    BY <2>1, NegotiateKinds DEF KindInv
  <2>3. KindInv'
    BY <1>2, <1>3, <2>2 DEF KindInv
  <2>4. CASE e = Other
    <3>1. negotiating'[Initiator] = negotiating[Initiator]
      BY Zenon, <2>1, <2>4, TwoEnds DEF StateTypes
    <3>2. OpenOffers' <= OpenOffers
      BY Zenon, <1>1, <1>2, <2>2, <2>3, <2>4, SameSignals
    <3> QED BY <1>1, <2>2, <2>3, <2>4, <3>1, <3>2, NoOffer
  <2>5. CASE e = Initiator /\ pc[e] = "closed"
    <3>1. OpenOffers' <= OpenOffers
      BY <1>1, <1>2, <2>2, <2>3, <2>5, SameSignals
    <3> QED BY <2>2, <2>3, <2>5, <3>1, ClosedPhase
  <2>6. CASE e = Initiator /\ pc[e] # "closed"
    <3>1. negotiating'[Initiator]
      BY <2>1, <2>6, TwoEnds DEF StateTypes
    <3>2. pc[Initiator] = "stable"
      BY <1>5, <2>6, TwoEnds DEF StateTypes, PhaseInv
    <3>3. OpenOffers = 0 /\ stable[Initiator] = 0
      <4>1. stable[Initiator] \in Nat /\ stable[Initiator] <= 1 /\ stable[Initiator] # 1 /\ OpenOffers = 0
        BY <1>5, <2>6, <3>2, TwoEnds DEF StateTypes, PhaseInv
      <4> QED BY <4>1
    <3> QED BY <1>1, <1>2, <2>2, <2>3, <2>6, <3>1, <3>3, OpensOffer
  <2> QED BY <2>4, <2>5, <2>6, TwoEnds
<1> QED BY <1>4, <1>5

\* The callback about the state stable ends a negotiation, or begins the one that
\* was queued.
LEMMA StableKeeps ==
  ASSUME SignalInv, StateTypes, KindInv, PhaseInv, NEW e \in Ends, handleStable(e)
  PROVE  KindInv' /\ PhaseInv'
<1> USE DEF SignalInv
<1>1. /\ UNCHANGED <<wire, smu, call>> /\ stable[e] > 0
      /\ stable' = [stable EXCEPT ![e] = @ - 1]
  BY DEF handleStable, signalVars
<1>2. CallKind' /\ AnswerMade' <= AnswerMade
  BY <1>1 DEF KindInv, CallKind, AnswerMade, Bit
<1>3. WireKind' /\ SenderKind'
  BY <1>1 DEF KindInv, WireKind, SenderKind, Sends
<1>4. /\ NegotiatorKind'
      /\ e = Other => nmu'[Initiator] = nmu[Initiator] /\ pc' = pc
      /\ e = Initiator /\ pc[e] = "closed" => nmu' = nmu /\ pc' = pc
      /\ queued[e] /\ e = Initiator /\ pc[e] # "closed" => pc'[e] = "have-local-offer"
      /\ ~queued[e] => nmu' = nmu /\ pc' = pc
  <2>1. CASE queued[e]
    <3>1. negotiate(e, "callback")
      BY <2>1 DEF handleStable
    <3> QED BY Zenon, <2>1, <3>1, NegotiateKinds DEF KindInv
  <2>2. CASE ~queued[e]
    BY <2>2 DEF handleStable, KindInv, NegotiatorKind
  <2> QED BY Zenon, <2>1, <2>2
<1>5. KindInv'
  BY <1>2, <1>3, <1>4 DEF KindInv
<1>6. CASE e = Other
  <2>1. negotiating'[Initiator] = negotiating[Initiator] /\ stable'[Initiator] = stable[Initiator]
    BY Zenon, <1>1, <1>6, TwoEnds DEF handleStable, StateTypes
  <2>2. OpenOffers' <= OpenOffers
    BY Zenon, <1>1, <1>2, <1>4, <1>5, <1>6, SameSignals
  <2> QED BY Zenon, <1>4, <1>5, <1>6, <2>1, <2>2, NoOffer
<1>7. CASE e = Initiator /\ pc[e] = "closed"
  <2>1. OpenOffers' <= OpenOffers
    BY <1>1, <1>2, <1>4, <1>5, <1>7, SameSignals
  <2> QED BY Zenon, <1>4, <1>5, <1>7, <2>1, ClosedPhase
<1>8. CASE e = Initiator /\ pc[e] # "closed"
  <2>1. pc[Initiator] = "stable"
    BY <1>1, <1>8, TwoEnds DEF StateTypes, PhaseInv
  <2>2. OpenOffers = 0 /\ stable[Initiator] = 1 /\ negotiating[Initiator]
    <3>1. stable[Initiator] \in Nat /\ stable[Initiator] <= 1 /\ stable[Initiator] > 0 /\ OpenOffers = 0
      BY <1>1, <1>8, <2>1, TwoEnds DEF StateTypes, PhaseInv
    <3>2. stable[Initiator] = 1
      BY <3>1
    <3> QED BY Zenon, <2>1, <3>1, <3>2 DEF PhaseInv
  <2>3. stable'[Initiator] = 0
    BY <1>1, <1>8, <2>2, TwoEnds DEF StateTypes
  <2>4. CASE queued[e]
    <3>1. negotiating'[Initiator]
      BY <2>2, <2>4 DEF handleStable
    <3> QED BY <1>1, <1>2, <1>4, <1>5, <1>8, <2>2, <2>3, <2>4, <3>1, OpensOffer
  <2>5. CASE ~queued[e]
    <3>1. OpenOffers' <= OpenOffers
      BY <1>1, <1>2, <1>4, <1>5, <2>5, SameSignals
    <3>2. pc'[Initiator] = pc[Initiator]
      BY <1>4, <2>5
    <3> QED BY <1>5, <2>1, <2>3, <3>1, <3>2, EndsPhase
  <2> QED BY <2>4, <2>5
<1> QED BY <1>6, <1>7, <1>8, TwoEnds

\* The transport's calls leave what is under way alone, and so does Close.
LEMMA OthersKeep ==
  ASSUME SignalInv, StateTypes, ClosedInv, KindInv, PhaseInv, NEW e \in Ends,
         \/ handleClosed(e) \/ Gather(e) \/ Close(e) \/ CloseChannels(e)
         \/ \E t \in Offers[e] : AddTrack(e, t) \/ RemoveTrack(e, t)
  PROVE  KindInv' /\ PhaseInv'
<1> USE DEF SignalInv
<1>1. UNCHANGED <<wire, smu, nmu, stable>>
  BY DEF handleClosed, Gather, Close, CloseChannels, AddTrack, RemoveTrack, negotiatorVars, signalVars
<1>2. /\ pc'[Initiator] \in {pc[Initiator], "closed"}
      /\ negotiating'[Initiator] = negotiating[Initiator] \/ pc'[Initiator] = "closed"
  <2>1. CASE handleClosed(e)
    BY Zenon, <2>1, TwoEnds DEF handleClosed, StateTypes, ClosedInv, peerVars
  <2>2. CASE CloseChannels(e)
    BY Zenon, <2>2, TwoEnds DEF CloseChannels, StateTypes, negotiatorVars
  <2>3. CASE Gather(e) \/ Close(e)
    BY <2>3 DEF Gather, Close, negotiatorVars, peerVars
  <2>4. CASE \E t \in Offers[e] : AddTrack(e, t) \/ RemoveTrack(e, t)
    BY <2>4 DEF AddTrack, RemoveTrack, negotiatorVars
  <2> QED BY Zenon, <2>1, <2>2, <2>3, <2>4
<1>3. CallKind' /\ AnswerMade' <= AnswerMade
  <2>1. CASE handleClosed(e) \/ Gather(e) \/ Close(e) \/ CloseChannels(e)
    <3>1. UNCHANGED call
      BY <2>1 DEF handleClosed, Gather, Close, CloseChannels
    <3>2. CallKind'
      BY Zenon, <3>1 DEF KindInv, CallKind
    <3>3. AnswerMade' <= AnswerMade
      BY <3>1 DEF AnswerMade, Bit
    <3> QED BY <3>2, <3>3
  <2>2. ASSUME NEW t \in Offers[e], AddTrack(e, t) \/ RemoveTrack(e, t)
        PROVE  CallKind' /\ AnswerMade' <= AnswerMade
    <3>1. "room" \in Threads /\ "room" # "socket" /\ [pc |-> "negotiate"].pc # "signal"
      BY DEF Threads
    <3>2. CASE Then(e, "room", [pc |-> "negotiate"])
      BY <3>1, <3>2, GoesOn DEF KindInv
    <3>3. CASE ~Then(e, "room", [pc |-> "negotiate"])
      <4> DEFINE next == [pc |-> "signal", signal |-> Signal("transceiver")]
      <4>1. e = Other /\ Then(e, "room", next)
        BY <2>2, <3>3, TwoEnds DEF AddTrack, RemoveTrack
      <4>2. next.signal.type = "transceiver"
        BY DEF Signal
      <4> HIDE DEF next
      <4>3. CallKind' /\ call'[Other]["socket"] = call[Other]["socket"]
        BY Zenon, <3>1, <4>1, <4>2, CallKinds DEF KindInv
      <4> QED BY <4>3 DEF AnswerMade, Bit
    <3> QED BY <3>2, <3>3
  <2> QED BY Zenon, <2>1, <2>2
<1>4. KindInv'
  BY Zenon, <1>1, <1>3 DEF KindInv, WireKind, SenderKind, NegotiatorKind, Sends
<1>5. OpenOffers' <= OpenOffers
  BY Zenon, <1>1, <1>3, <1>4, SameSignals
<1> QED BY Zenon, <1>1, <1>2, <1>4, <1>5, NoOffer

-----------------------------------------------------------------------------
\* Nothing is under way at the start.
LEMMA InitNegotiation == Init => NegotiationInv
<1> SUFFICES ASSUME Init PROVE NegotiationInv
  OBVIOUS
<1>0. Idle.pc = "idle" /\ [pc |-> "negotiate"].pc = "negotiate" /\ "room" \in Threads /\ "socket" \in Threads
  BY DEF Idle, Threads
<1>1. \A e \in Ends, th \in Threads : call[e][th].pc \in {"idle", "negotiate"}
  BY <1>0 DEF Init
<1>2. TypeOK /\ ClosedInv
  BY Zenon, <1>1 DEF Init, TypeOK, ClosedInv
<1>3. wire[Initiator] = <<>> /\ wire[Other] = <<>> /\ smu[Initiator] = None /\ smu[Other] = None
      /\ nmu[Initiator] = None /\ nmu[Other] = None /\ pc[Initiator] = "stable" /\ stable[Initiator] = 0
  BY TwoEnds DEF Init
<1>4. WireKind
  <2>1. wire \in [Ends -> Seq(SignalSet)]
    BY DEF Init
  <2> QED BY <1>3, <2>1 DEF WireKind
<1>5. SenderKind
  BY <1>3 DEF Init, SenderKind, Sends
<1>6. NegotiatorKind /\ CallKind
  BY Zenon, <1>0, <1>1, <1>3, TwoEnds DEF NegotiatorKind, CallKind
<1>7. \A type : Count(<<>>, type) = 0
  <2>1. \A type : {i \in DOMAIN <<>> : <<>>[i].type = type} = {}
    OBVIOUS
  <2>2. Cardinality({}) = 0
    BY FS_EmptySet
  <2> QED BY <2>1, <2>2 DEF Count
<1>8. OpenOffers = 0
  <2>1. OfferArrives = 0 /\ AnswerArrives = 0
    BY <1>3, <1>7 DEF OfferArrives, AnswerArrives
  <2>2. OfferWaits = 0 /\ OfferSent = 0 /\ AnswerSent = 0 /\ AnswerMade = 0
    BY <1>0, <1>1, <1>3, TwoEnds DEF OfferWaits, OfferSent, AnswerSent, AnswerMade, Waits, Sends, Bit
  <2> QED BY <2>1, <2>2 DEF OpenOffers
<1>9. PhaseInv
  BY <1>3, <1>8 DEF PhaseInv
<1> QED BY <1>2, <1>4, <1>5, <1>6, <1>9 DEF NegotiationInv, KindInv

\* Every step keeps the order of offers and answers.
LEMMA NextNegotiation ==
  SignalInv /\ SignalInv' /\ NegotiationInv /\ [Next]_vars => NegotiationInv'
<1> SUFFICES ASSUME SignalInv, SignalInv', NegotiationInv, [Next]_vars PROVE NegotiationInv'
  OBVIOUS
<1>1. TypeOK' /\ ClosedInv'
  BY TypesNext DEF NegotiationInv
<1>2. StateTypes /\ ClosedInv /\ KindInv /\ PhaseInv
  BY DEF NegotiationInv, TypeOK, StateTypes
<1>3. CASE UNCHANGED vars
  <2>1. UNCHANGED <<wire, smu, nmu, call, pc, stable, negotiating>>
    BY <1>3 DEF vars, peerVars, negotiatorVars, signalVars
  <2>2. KindInv'
    BY Zenon, <1>2, <2>1 DEF KindInv, WireKind, SenderKind, NegotiatorKind, CallKind, Sends
  <2>3. AnswerMade' <= AnswerMade
    BY <2>1 DEF AnswerMade, Bit
  <2>4. OpenOffers' <= OpenOffers
    BY <1>2, <2>1, <2>2, <2>3, SameSignals
  <2> QED BY <1>1, <1>2, <2>1, <2>2, <2>4, NoOffer DEF NegotiationInv
<1>4. CASE Next
  <2>1. KindInv' /\ PhaseInv'
    BY Zenon, <1>2, <1>4, SignallingKeeps, SocketKeeps, NegotiateKeeps, StableKeeps, OthersKeep DEF Next
  <2> QED BY <1>1, <2>1 DEF NegotiationInv
<1> QED BY <1>3, <1>4

\* The invariant counts the offers and answers that are under way.
LEMMA CountsUnanswered ==
  ASSUME KindInv
  PROVE  Unanswered = OpenOffers
<1> DEFINE Calls(e, type) == {th \in Threads : call[e][th].pc = "signal" /\ call[e][th].signal.type = type}
<1>1. Calls(Initiator, "offer") = {}
  BY DEF KindInv, CallKind
<1>2. Calls(Other, "answer") = IF call[Other]["socket"].pc = "signal" THEN {"socket"} ELSE {}
  BY DEF KindInv, CallKind, Threads
<1>3. Cardinality({}) = 0 /\ Cardinality({"socket"}) = 1
  BY FS_EmptySet, FS_Singleton
<1> HIDE DEF Calls
<1>4. Cardinality(Calls(Initiator, "offer")) = 0
  BY <1>1, <1>3
<1>5. Cardinality(Calls(Other, "answer")) = AnswerMade
  BY <1>2, <1>3 DEF AnswerMade, Bit
<1>6. ~Waits(Other, "answer")
  BY DEF KindInv, NegotiatorKind, Waits
<1>7. Unanswered = OfferArrives
                   + (Cardinality(Calls(Initiator, "offer")) + OfferSent + OfferWaits)
                   + AnswerArrives
                   + (Cardinality(Calls(Other, "answer")) + AnswerSent + Bit(Waits(Other, "answer")))
  BY DEF Unanswered, Calls, OfferArrives, OfferSent, OfferWaits, AnswerArrives, AnswerSent, Count, Sends, Waits,
         Bit, Other
<1>8. Bit(Waits(Other, "answer")) = 0
  BY <1>6 DEF Bit
<1> QED BY <1>4, <1>5, <1>7, <1>8, PartTypes DEF OpenOffers

\* Whatever the order in which calls of Negotiate, signals and the callbacks of the
\* connection come, the initiator has at most one offer without an answer, its
\* connection expects the answer when it comes, and candidates come after the
\* description.
THEOREM SignalsOrdered == Spec => []SignalsInOrder
<1>1. NegotiationInv => TypeOK /\ OneOfferAtATime
  <2> SUFFICES ASSUME NegotiationInv PROVE TypeOK /\ OneOfferAtATime
    OBVIOUS
  <2>1. Unanswered = OpenOffers
    BY CountsUnanswered DEF NegotiationInv
  <2>2. PhaseInv /\ TypeOK
    BY DEF NegotiationInv
  <2> QED BY <2>1, <2>2 DEF PhaseInv, OneOfferAtATime
<1>2. SignalInv => CandidatesFollow
  BY DEF SignalInv, SenderInv, CandidatesFollow
<1>3. SignalInv /\ NegotiationInv => SignalsInOrder
  BY <1>1, <1>2 DEF SignalsInOrder
<1> QED BY <1>3, InitInv, NextInv, InitNegotiation, NextNegotiation, PTL DEF Spec
=============================================================================
