-------------------------- MODULE MCTracksManager --------------------------
(* The transports of a room as TracksManager sees them, or the chat between    *)
(* them (DataTransceiver): the first state says which of the two moves.        *)
(*                                                                             *)
(* Four transports of three clients in one room, one of which comes back;      *)
(* three clients that chat.                                                    *)
EXTENDS TracksManager, TLC

CONSTANTS Talkers, room, t1, t2, t3, t4, ca, cb, cd

VARIABLES part, budget, sent, handler, loop, closed, reader, mu, members, got

OneRoom == [tr \in Transports |-> room]
\* A client comes back before its old transport is gone.
SameClient == [tr \in Transports |-> IF tr = t2 THEN t1 ELSE tr]

Says(n, m, closes) == [messages |-> (ca :> n) @@ (cb :> m) @@ (cd :> 0), closes |-> closes]

\* One client talks, or two of them say one thing each.
Polite == {Says(3, 0, {cb}), Says(2, 0, {ca}), Says(1, 1, {ca, cd})}

\* A client says a second thing while the first one is broadcast.
Lively == {Says(1, 2, {})}

chatVars == <<budget, sent, handler, loop, closed, reader, mu, members, got>>

C == INSTANCE DataTransceiver WITH Clients <- Talkers, Budgets <- Polite, closing <- closed
L == INSTANCE DataTransceiver WITH Clients <- Talkers, Budgets <- Lively, closing <- closed

MCInit == Init /\ C!Init /\ part \in {"tracks", "chat"}
LivelyInit == Init /\ L!Init /\ part = "chat"
TracksInit == Init /\ C!Init /\ part = "tracks"

MCNext ==
  /\ \/ part = "tracks" /\ Next /\ UNCHANGED chatVars
     \/ part = "chat" /\ C!Next /\ UNCHANGED vars
  /\ UNCHANGED part

\* The fairness of both parts: none of the actions it is about is enabled in the
\* first state, hence in the part that does not move.
MCFairness == Fairness /\ C!Fairness

MCSpec == MCInit /\ [][MCNext]_<<part, vars, chatVars>> /\ MCFairness

LivelySpec == LivelyInit /\ [][MCNext]_<<part, vars, chatVars>> /\ MCFairness

TracksSpec == TracksInit /\ [][MCNext]_<<part, vars, chatVars>>

\* What a client says reaches everybody who stays, completely and in order: a
\* message goes from OnMessage through start, the range over MessagesChannel and
\* broadcast.
Delivery == C!Delivery

\* "errCh ... will be closed once the message sending has finished": broadcast,
\* which waits for it with PeerManager.mu, comes to an end.
SendEnds == C!SendEnds

\* Send comes to an end, and so does Close of a data transceiver, whose loop hands
\* a message on without looking at the teardown token.
ChatEnds == C!ChatEnds
=============================================================================
