----------------------------- MODULE Signaller -----------------------------
(* Signalling between the server, which makes the offers, and the other end of *)
(* a peer connection: Signaller, Negotiator and the calls of WebRTCTransport   *)
(* that lead to them. Both ends run this code; an end that is not the          *)
(* initiator asks for a negotiation instead of making an offer.                *)
(*                                                                             *)
(* The peer connection is a library. It calls back about a change of its state *)
(* in a goroutine of its own, so the callback may come late. Signals travel    *)
(* over a websocket, in order.                                                 *)
EXTENDS Naturals, Sequences, FiniteSets

CONSTANTS Ends, Initiator, Peer,
          Offers,   \* [Ends -> set of tracks]: what an end may add
          Budgets,  \* bounds: calls of AddTrack and RemoveTrack, of Close, and
                    \* candidates of each end
          None

Threads == {"room", "socket"}

\* The signals an end makes: never a pranswer or a rollback.
AllTracks == UNION {Offers[e] : e \in Ends}
SignalSet ==
  [type : {"candidate", "renegotiate", "transceiver"}]
    \cup [type : {"offer"}, tracks : SUBSET AllTracks, transceivers : Nat]
    \cup [type : {"answer"}, tracks : SUBSET AllTracks]

\* A peer connection has two ends, and one of them makes the offers.
ASSUME EndsAssumption ==
  /\ Ends = {Initiator, Peer[Initiator]} /\ Peer[Initiator] # Initiator
  /\ Peer[Peer[Initiator]] = Initiator

\* None is no signal that is being sent.
ASSUME NoneAssumption == None \notin [signal : SignalSet, open : BOOLEAN]

VARIABLES
  budget,
  pc,           \* signalling state of the peer connection
  local,        \* its senders
  transceivers, \* transceivers made at the request of the other end
  seen,         \* what the last description from the other end had
  stable,       \* callbacks about the state stable that have not run
  negotiating,  \* negotiationDone is not nil
  queued,       \* queuedNegotiation
  requests,     \* queuedTransceiverRequests
  nmu,          \* Negotiator.mu, held by a thread that waits to signal
  smu,          \* signalMu, held by the goroutine that sends a signal
  call,         \* what a thread of an end is doing
  candidate,    \* handleICECandidate calls that wait
  descSent,     \* descriptionSent is closed
  described,    \* an offer or answer was sent to the other end
  closer,       \* Close: "no", "closing" (closeChannel is closed), "closed"
  closedCall,   \* the callback about the state closed has not run
  wire          \* signals under way to an end

negotiatorVars == <<stable, negotiating, queued, requests, nmu>>
peerVars == <<pc, local, transceivers, seen>>
signalVars == <<smu, candidate, descSent, described, closer, closedCall>>
vars == <<budget, peerVars, negotiatorVars, signalVars, call, wire>>

Idle == [pc |-> "idle"]
Signal(type) == [type |-> type]
Offer(e) == [type |-> "offer", tracks |-> local[e], transceivers |-> transceivers[e] + requests[e]]

Init ==
  /\ budget \in Budgets
  /\ pc = [e \in Ends |-> "stable"]
  /\ local = [e \in Ends |-> {}]
  /\ transceivers = [e \in Ends |-> 0]
  /\ seen = [e \in Ends |-> [tracks |-> {}, transceivers |-> 0]]
  /\ stable = [e \in Ends |-> 0]
  /\ negotiating = [e \in Ends |-> FALSE] /\ queued = [e \in Ends |-> FALSE]
  /\ requests = [e \in Ends |-> 0]
  /\ nmu = [e \in Ends |-> None] /\ smu = [e \in Ends |-> None]
  \* initialize: the initiator negotiates at once.
  /\ call = [e \in Ends |-> [th \in Threads |->
       IF e = Initiator /\ th = "room" THEN [pc |-> "negotiate"] ELSE Idle]]
  /\ candidate = [e \in Ends |-> FALSE]
  /\ descSent = [e \in Ends |-> FALSE] /\ described = [e \in Ends |-> FALSE]
  /\ closer = [e \in Ends |-> "no"] /\ closedCall = [e \in Ends |-> FALSE]
  /\ wire = [e \in Ends |-> <<>>]

-----------------------------------------------------------------------------
(* Negotiator                                                                 *)

\* negotiate, called with the mutex: queued transceivers are added; the initiator
\* sets an offer as its local description and goes on to signal it, the other end
\* signals a request. Nothing works on a closed connection.
negotiate(e, th) ==
  /\ requests' = [requests EXCEPT ![e] = 0]
  /\ transceivers' = [transceivers EXCEPT ![e] = IF pc[e] = "closed" THEN @ ELSE @ + requests[e]]
  /\ IF e # Initiator
     THEN /\ nmu' = [nmu EXCEPT ![e] = [by |-> th, signal |-> Signal("renegotiate")]]
          /\ UNCHANGED pc
     ELSE IF pc[e] = "closed" THEN UNCHANGED <<nmu, pc>>
     ELSE /\ nmu' = [nmu EXCEPT ![e] = [by |-> th, signal |-> Offer(e)]]
          /\ pc' = [pc EXCEPT ![e] = "have-local-offer"]

Then(e, th, next) == call' = [call EXCEPT ![e][th] = next]

\* AddTransceiverFromKind.
AddTransceiverFromKind(e) ==
  /\ call[e]["socket"].pc = "queue" /\ nmu[e] = None
  /\ requests' = [requests EXCEPT ![e] = @ + 1]
  /\ Then(e, "socket", [pc |-> "negotiate"])
  /\ UNCHANGED <<budget, peerVars, stable, negotiating, queued, nmu, signalVars, wire>>

\* Mutant: a negotiation under way is all there is.
Negotiate_NotQueued(e, th) ==
  /\ call[e][th].pc = "negotiate" /\ nmu[e] = None
  /\ IF negotiating[e]
     THEN Then(e, th, Idle) /\ UNCHANGED <<negotiating, requests, transceivers, nmu, pc>>
     ELSE /\ negotiating' = [negotiating EXCEPT ![e] = TRUE]
          /\ negotiate(e, th)
          /\ Then(e, th, IF nmu'[e] = None THEN Idle ELSE [pc |-> "waits"])
  /\ UNCHANGED <<queued, budget, local, seen, stable, signalVars, wire>>

\* Mutant: every call makes an offer.
Negotiate_AtOnce(e, th) ==
  /\ call[e][th].pc = "negotiate" /\ nmu[e] = None
  /\ negotiating' = [negotiating EXCEPT ![e] = TRUE]
  /\ negotiate(e, th)
  /\ Then(e, th, IF nmu'[e] = None THEN Idle ELSE [pc |-> "waits"])
  /\ UNCHANGED <<queued, budget, local, seen, stable, signalVars, wire>>

Negotiate(e, th) ==
  /\ call[e][th].pc = "negotiate" /\ nmu[e] = None
  /\ IF negotiating[e]
     THEN /\ queued' = [queued EXCEPT ![e] = TRUE]
          /\ Then(e, th, Idle)
          /\ UNCHANGED <<negotiating, requests, transceivers, nmu, pc>>
     ELSE /\ negotiating' = [negotiating EXCEPT ![e] = TRUE]
          /\ negotiate(e, th)
          /\ Then(e, th, IF nmu'[e] = None THEN Idle ELSE [pc |-> "waits"])
          /\ UNCHANGED queued
  /\ UNCHANGED <<budget, local, seen, stable, signalVars, wire>>

\* handleSignalingStateChange for the state stable.
handleStable(e) ==
  /\ stable[e] > 0 /\ nmu[e] = None
  /\ stable' = [stable EXCEPT ![e] = @ - 1]
  /\ IF queued[e]
     THEN negotiate(e, "callback") /\ UNCHANGED negotiating
     ELSE /\ negotiating' = [negotiating EXCEPT ![e] = FALSE]
          /\ UNCHANGED <<requests, transceivers, nmu, pc>>
  /\ queued' = [queued EXCEPT ![e] = FALSE]
  /\ UNCHANGED <<budget, local, seen, signalVars, call, wire>>

\* And for the state closed.
handleClosed(e) ==
  /\ closedCall[e] /\ nmu[e] = None
  /\ closedCall' = [closedCall EXCEPT ![e] = FALSE]
  /\ negotiating' = [negotiating EXCEPT ![e] = FALSE]
  /\ UNCHANGED <<budget, peerVars, stable, queued, requests, nmu,
                 smu, candidate, descSent, described, closer, call, wire>>

-----------------------------------------------------------------------------
(* onSignal takes signalMu and leaves it to a goroutine, which sends on the    *)
(* channel it found open, or gives up when the signaller closes.               *)

onSignal(e, signal) ==
  /\ smu[e] = None
  /\ smu' = [smu EXCEPT ![e] = [signal |-> signal, open |-> closer[e] # "closed"]]

closeDescriptionSent(e, signal) ==
  descSent' = [descSent EXCEPT ![e] = @ \/ signal.type \in {"offer", "answer"}]

\* handleLocalOffer and handleLocalRequestNegotiation: the negotiator's mutex is
\* released once the signal is on its way.
SignalNegotiation(e) ==
  /\ nmu[e] # None
  /\ onSignal(e, nmu[e].signal)
  /\ closeDescriptionSent(e, nmu[e].signal)
  /\ nmu' = [nmu EXCEPT ![e] = None]
  /\ call' = IF nmu[e].by = "callback" THEN call ELSE [call EXCEPT ![e][nmu[e].by] = Idle]
  /\ UNCHANGED <<budget, peerVars, stable, negotiating, queued, requests,
                 candidate, described, closer, closedCall, wire>>

\* The answer of handleRemoteOffer, or SendTransceiverRequest.
SignalCall(e, th) ==
  /\ call[e][th].pc = "signal"
  /\ onSignal(e, call[e][th].signal)
  /\ closeDescriptionSent(e, call[e][th].signal)
  /\ Then(e, th, Idle)
  /\ UNCHANGED <<budget, peerVars, negotiatorVars, candidate, described, closer, closedCall, wire>>

\* handleICECandidate waits until a description was signalled.
handleICECandidate(e) ==
  /\ candidate[e] /\ descSent[e]
  /\ onSignal(e, Signal("candidate"))
  /\ candidate' = [candidate EXCEPT ![e] = FALSE]
  /\ UNCHANGED <<budget, peerVars, negotiatorVars, descSent, described, closer, closedCall, call, wire>>

\* processLocalSignals takes the signal and emits it.
SendSignal(e) ==
  LET signal == smu[e].signal
  IN /\ smu[e] # None /\ smu[e].open
     /\ wire' = [wire EXCEPT ![Peer[e]] = Append(@, signal)]
     /\ described' = [described EXCEPT ![e] = @ \/ signal.type \in {"offer", "answer"}]
     /\ smu' = [smu EXCEPT ![e] = None]
     /\ UNCHANGED <<budget, peerVars, negotiatorVars, candidate, descSent, closer, closedCall, call>>

DropSignal(e) ==
  /\ smu[e] # None /\ closer[e] # "no"
  /\ smu' = [smu EXCEPT ![e] = None]
  /\ UNCHANGED <<budget, peerVars, negotiatorVars, candidate, descSent, described, closer,
                 closedCall, call, wire>>

-----------------------------------------------------------------------------
(* Signal: what comes from the other end                                      *)

Take(e, type) ==
  /\ call[e]["socket"] = Idle
  /\ wire[e] # <<>> /\ Head(wire[e]).type = type
  /\ wire' = [wire EXCEPT ![e] = Tail(@)]

RemoteCandidate(e) ==
  /\ Take(e, "candidate")
  /\ UNCHANGED <<budget, peerVars, negotiatorVars, signalVars, call>>

RemoteRenegotiate(e) ==
  /\ Take(e, "renegotiate")
  /\ Then(e, "socket", [pc |-> "negotiate"])
  /\ UNCHANGED <<budget, peerVars, negotiatorVars, signalVars>>

handleTransceiverRequest(e) ==
  /\ Take(e, "transceiver")
  /\ Then(e, "socket", [pc |-> "queue"])
  /\ UNCHANGED <<budget, peerVars, negotiatorVars, signalVars>>

\* The offer is applied, and answered with the senders of this end.
handleRemoteOffer(e) ==
  LET offer == Head(wire[e])
  IN /\ Take(e, "offer")
     /\ IF pc[e] # "stable" THEN UNCHANGED <<seen, stable, call>>
        ELSE /\ seen' = [seen EXCEPT ![e] = [tracks |-> offer.tracks, transceivers |-> offer.transceivers]]
             /\ stable' = [stable EXCEPT ![e] = @ + 1]
             /\ Then(e, "socket", [pc |-> "signal",
                                   signal |-> [type |-> "answer", tracks |-> local[e]]])
     /\ UNCHANGED <<budget, pc, local, transceivers, negotiating, queued, requests, nmu, signalVars>>

handleRemoteAnswer(e) ==
  /\ Take(e, "answer")
  /\ IF pc[e] # "have-local-offer" THEN UNCHANGED <<pc, seen, stable>>
     ELSE /\ pc' = [pc EXCEPT ![e] = "stable"]
          /\ seen' = [seen EXCEPT ![e].tracks = Head(wire[e]).tracks]
          /\ stable' = [stable EXCEPT ![e] = @ + 1]
  /\ UNCHANGED <<budget, local, transceivers, negotiating, queued, requests, nmu, signalVars, call>>

-----------------------------------------------------------------------------
(* WebRTCTransport                                                            *)

AddTrack(e, t) ==
  /\ call[e]["room"] = Idle /\ t \in Offers[e] \ local[e] /\ pc[e] # "closed"
  /\ budget.tracks > 0 /\ budget' = [budget EXCEPT !.tracks = @ - 1]
  /\ local' = [local EXCEPT ![e] = @ \cup {t}]
  /\ Then(e, "room", IF e = Initiator THEN [pc |-> "negotiate"]
                     ELSE [pc |-> "signal", signal |-> Signal("transceiver")])
  /\ UNCHANGED <<pc, transceivers, seen, negotiatorVars, signalVars, wire>>

RemoveTrack(e, t) ==
  /\ call[e]["room"] = Idle /\ t \in local[e] /\ pc[e] # "closed"
  /\ budget.tracks > 0 /\ budget' = [budget EXCEPT !.tracks = @ - 1]
  /\ local' = [local EXCEPT ![e] = @ \ {t}]
  /\ Then(e, "room", [pc |-> "negotiate"])
  /\ UNCHANGED <<pc, transceivers, seen, negotiatorVars, signalVars, wire>>

\* The peer connection found a candidate.
Gather(e) ==
  /\ budget.candidates[e] > 0 /\ ~candidate[e] /\ pc[e] # "closed"
  /\ budget' = [budget EXCEPT !.candidates[e] = @ - 1]
  /\ candidate' = [candidate EXCEPT ![e] = TRUE]
  /\ UNCHANGED <<peerVars, negotiatorVars, smu, descSent, described, closer, closedCall, call, wire>>

\* Close, called by the socket handler or when the connection fails.
Close(e) ==
  /\ closer[e] = "no"
  /\ budget.closes > 0 /\ budget' = [budget EXCEPT !.closes = @ - 1]
  /\ closer' = [closer EXCEPT ![e] = "closing"]
  /\ UNCHANGED <<peerVars, negotiatorVars, smu, candidate, descSent, described, closedCall, call, wire>>

\* Mutant: the channel is closed without the mutex.
CloseChannels_NoLock(e) ==
  /\ closer[e] = "closing"
  /\ closer' = [closer EXCEPT ![e] = "closed"]
  /\ pc' = [pc EXCEPT ![e] = "closed"]
  /\ closedCall' = [closedCall EXCEPT ![e] = TRUE]
  /\ descSent' = [descSent EXCEPT ![e] = TRUE]
  /\ UNCHANGED <<budget, local, transceivers, seen, negotiatorVars, smu, candidate, described, call, wire>>

\* Mutant: Close leaves descriptionSent open.
CloseChannels_KeepsWaiting(e) ==
  /\ closer[e] = "closing" /\ smu[e] = None
  /\ closer' = [closer EXCEPT ![e] = "closed"]
  /\ pc' = [pc EXCEPT ![e] = "closed"]
  /\ closedCall' = [closedCall EXCEPT ![e] = TRUE]
  /\ UNCHANGED <<descSent, budget, local, transceivers, seen, negotiatorVars, smu, candidate, described,
                 call, wire>>

CloseChannels(e) ==
  /\ closer[e] = "closing" /\ smu[e] = None
  /\ closer' = [closer EXCEPT ![e] = "closed"]
  /\ pc' = [pc EXCEPT ![e] = "closed"]
  /\ closedCall' = [closedCall EXCEPT ![e] = TRUE]
  /\ descSent' = [descSent EXCEPT ![e] = TRUE]
  /\ UNCHANGED <<budget, local, transceivers, seen, negotiatorVars, smu, candidate, described, call, wire>>

-----------------------------------------------------------------------------
Signalling(e) ==
  \/ SignalNegotiation(e) \/ handleICECandidate(e) \/ SendSignal(e) \/ DropSignal(e)
  \/ \E th \in Threads : SignalCall(e, th)

Socket(e) ==
  \/ RemoteCandidate(e) \/ RemoteRenegotiate(e) \/ handleTransceiverRequest(e)
  \/ handleRemoteOffer(e) \/ handleRemoteAnswer(e) \/ AddTransceiverFromKind(e)

Next ==
  \E e \in Ends :
    \/ Signalling(e) \/ Socket(e) \/ handleStable(e) \/ handleClosed(e)
    \/ \E th \in Threads : Negotiate(e, th)
    \/ \E t \in Offers[e] : AddTrack(e, t) \/ RemoveTrack(e, t)
    \/ Gather(e) \/ Close(e) \/ CloseChannels(e)

\* The goroutines run, and a mutex is not withheld from one of them for ever.
Fairness ==
  \A e \in Ends :
    /\ WF_vars(Signalling(e)) /\ WF_vars(Socket(e)) /\ WF_vars(CloseChannels(e))
    /\ WF_vars(handleStable(e)) /\ WF_vars(handleClosed(e))
    /\ \A th \in Threads : WF_vars(Negotiate(e, th))

Spec == Init /\ [][Next]_vars
FairSpec == Spec /\ Fairness

-----------------------------------------------------------------------------
\* Every variable keeps its type.
TypeOK ==
  /\ pc \in [Ends -> {"stable", "have-local-offer", "closed"}]
  /\ \A e \in Ends : local[e] \subseteq Offers[e]
  /\ transceivers \in [Ends -> Nat] /\ requests \in [Ends -> Nat] /\ stable \in [Ends -> Nat]
  /\ negotiating \in [Ends -> BOOLEAN] /\ queued \in [Ends -> BOOLEAN]
  /\ \A e \in Ends : queued[e] => negotiating[e] \/ pc[e] = "closed"
  /\ \A e \in Ends, th \in Threads :
       call[e][th].pc \in {"idle", "queue", "negotiate", "signal", "waits"}
  /\ closer \in [Ends -> {"no", "closing", "closed"}]

\* A goroutine that found the channel open still holds signalMu, so Close has not
\* closed the channel under it: sending on it would panic.
NoSendOnClosedChannel == \A e \in Ends : smu[e] # None /\ smu[e].open => closer[e] # "closed"

\* No candidate is on its way before a description, as handleICECandidate's
\* comment asks for.
CandidatesFollow ==
  \A e \in Ends : smu[e] # None /\ smu[e].signal.type = "candidate" =>
    described[e] \/ closer[e] # "no"

\* The initiator has at most one offer that was not answered, and an answer always
\* finds the state it belongs to, although callbacks about the state come late.
Unanswered ==
  LET of(s, type) == Cardinality({i \in DOMAIN s : s[i].type = type})
      held(e, type) == Cardinality({th \in Threads :
                         call[e][th].pc = "signal" /\ call[e][th].signal.type = type})
                       + (IF smu[e] # None /\ smu[e].signal.type = type THEN 1 ELSE 0)
                       + (IF nmu[e] # None /\ nmu[e].signal.type = type THEN 1 ELSE 0)
      other == Peer[Initiator]
  IN of(wire[other], "offer") + held(Initiator, "offer")
     + of(wire[Initiator], "answer") + held(other, "answer")

OneOfferAtATime ==
  /\ Unanswered <= 1
  /\ Unanswered = 1 => pc[Initiator] # "stable"

Open == \A e \in Ends : closer[e] = "no"

Quiet(e) ==
  /\ wire[e] = <<>> /\ stable[e] = 0 /\ smu[e] = None /\ nmu[e] = None
  /\ \A th \in Threads : call[e][th] = Idle

\* When nothing is under way, the other end knows the tracks the initiator sends
\* now, there is a transceiver for every track of its own, and no negotiation is
\* open: a call of Negotiate that came too early was queued and not lost.
NothingLeftBehind ==
  (Open /\ \A e \in Ends : Quiet(e)) =>
    LET other == Peer[Initiator]
    IN /\ seen[other].tracks = local[Initiator]
       /\ Cardinality(local[other]) <= seen[other].transceivers
       /\ requests[Initiator] = 0
       /\ \A e \in Ends : ~queued[e] /\ ~negotiating[e]

\* Close returns, and releases whoever waits for the signaller: a candidate that
\* waits for a description, and the callers of AddTrack, RemoveTrack and Signal.
CloseReleases ==
  \A e \in Ends : closer[e] = "closing" ~>
    /\ closer[e] = "closed" /\ ~candidate[e] /\ smu[e] = None
    /\ \A th \in Threads : call[e][th] = Idle

\* A negotiation comes to an end, or the connection does. So whoever waits for
\* NegotiationDone goes on.
NegotiationEnds == \A e \in Ends : negotiating[e] ~> (~negotiating[e] \/ ~Open)

\* One offer is open at a time, and no candidate is sent before a description.
SignalsInOrder == TypeOK /\ CandidatesFollow /\ OneOfferAtATime

\* Close and every negotiation come to an end, and with them whoever waits.
NobodyWaits == CloseReleases /\ NegotiationEnds
=============================================================================
