-------------------------- MODULE DataTransceiver --------------------------
(* Chat messages of a room: the DataTransceiver of every client's WebRTC       *)
(* transport, the goroutine of PeerManager.Add that ranges over its messages,  *)
(* and PeerManager.broadcast, which keeps PeerManager.mu while it sends to the *)
(* other clients one after the other.                                          *)
(*                                                                             *)
(* A message is the pair of its client and its number. The server makes the    *)
(* connection, so a transceiver has its data channel before it is used.        *)
EXTENDS Naturals, Sequences, FiniteSets

CONSTANTS Clients,
          Budgets,  \* bounds: messages of every client, and who may close
          None

VARIABLES
  budget,
  sent,      \* messages the client sent
  handler,   \* OnMessage: the message it offers on privateRecvMessagesChan
  loop,      \* DataTransceiver.start: "select", "hand" a message on, "gone"
  closing,   \* Close was called
  reader,    \* the goroutine that ranges over MessagesChannel
  mu,        \* PeerManager.mu: the client whose message is broadcast
  members,   \* PeerManager.transports
  got        \* messages written to a client's data channel

vars == <<budget, sent, handler, loop, closing, reader, mu, members, got>>

Message == Clients \X (Nat \ {0})
Select == [pc |-> "select"]
Ranging == [pc |-> "range"]

Init ==
  /\ budget \in Budgets
  /\ sent = [c \in Clients |-> 0]
  /\ handler = [c \in Clients |-> None]
  /\ loop = [c \in Clients |-> Select]
  /\ closing = [c \in Clients |-> FALSE]
  /\ reader = [c \in Clients |-> Ranging]
  /\ mu = None
  /\ members = Clients
  /\ got = [c \in Clients |-> <<>>]

-----------------------------------------------------------------------------
(* DataTransceiver                                                            *)

\* OnMessage, one message after the other. A message for a transceiver that was
\* torn down is dropped.
handleMessage(c) ==
  /\ sent[c] < budget.messages[c] /\ handler[c] = None
  /\ sent' = [sent EXCEPT ![c] = @ + 1]
  /\ handler' = [handler EXCEPT ![c] = IF loop[c].pc = "gone" THEN None ELSE <<c, sent[c] + 1>>]
  /\ UNCHANGED <<budget, loop, closing, reader, mu, members, got>>

handleMessageGivesUp(c) ==
  /\ handler[c] # None /\ loop[c].pc = "gone"
  /\ handler' = [handler EXCEPT ![c] = None]
  /\ UNCHANGED <<budget, sent, loop, closing, reader, mu, members, got>>

\* start takes a message that was received; the step ends when it is handed on.
TakePrivate(c) ==
  /\ loop[c] = Select /\ handler[c] # None
  /\ loop' = [loop EXCEPT ![c] = [pc |-> "hand", msg |-> handler[c]]]
  /\ handler' = [handler EXCEPT ![c] = None]
  /\ UNCHANGED <<budget, sent, closing, reader, mu, members, got>>

HandOn(c) ==
  /\ loop[c].pc = "hand" /\ reader[c] = Ranging
  /\ reader' = [reader EXCEPT ![c] = [pc |-> "lock", msg |-> loop[c].msg]]
  /\ loop' = [loop EXCEPT ![c] = Select]
  /\ UNCHANGED <<budget, sent, handler, closing, mu, members, got>>

\* Mutant: start waits for the reader before it closes the reader's channel.
Teardown_Waits(c) ==
  /\ closing[c] /\ loop[c] = Select /\ reader[c].pc = "ended"
  /\ loop' = [loop EXCEPT ![c] = [pc |-> "gone"]]
  /\ UNCHANGED <<budget, sent, handler, closing, reader, mu, members, got>>

\* start returns, and with it Close.
Teardown(c) ==
  /\ closing[c] /\ loop[c] = Select
  /\ loop' = [loop EXCEPT ![c] = [pc |-> "gone"]]
  /\ UNCHANGED <<budget, sent, handler, closing, reader, mu, members, got>>

\* Send, and the answer on errCh: start writes the message to the data channel,
\* which fails after the connection was closed.
Send(c, d) ==
  /\ reader[c].pc = "send" /\ d \in reader[c].to /\ loop[d] = Select
  /\ got' = [got EXCEPT ![d] = IF closing[d] THEN @ ELSE Append(@, reader[c].msg)]
  /\ reader' = [reader EXCEPT ![c].to = @ \ {d}]
  /\ UNCHANGED <<budget, sent, handler, loop, closing, mu, members>>

\* Send to a transceiver that was torn down answers ErrClosedPipe.
SendFails(c, d) ==
  /\ reader[c].pc = "send" /\ d \in reader[c].to /\ loop[d].pc = "gone"
  /\ reader' = [reader EXCEPT ![c].to = @ \ {d}]
  /\ UNCHANGED <<budget, sent, handler, loop, closing, mu, members, got>>

-----------------------------------------------------------------------------
(* PeerManager                                                                *)

\* Mutant: the client that came last is left out.
broadcast_Skips(c) ==
  /\ reader[c].pc = "lock" /\ mu = None
  /\ mu' = c
  /\ reader' = [reader EXCEPT ![c] = [pc |-> "send", msg |-> @.msg,
       to |-> LET others == members \ {c}
              IN IF Cardinality(others) < 2 THEN others ELSE others \ {CHOOSE d \in others : TRUE}]]
  /\ UNCHANGED <<budget, sent, handler, loop, closing, members, got>>

broadcast(c) ==
  /\ reader[c].pc = "lock" /\ mu = None
  /\ mu' = c
  /\ reader' = [reader EXCEPT ![c] = [pc |-> "send", msg |-> @.msg, to |-> members \ {c}]]
  /\ UNCHANGED <<budget, sent, handler, loop, closing, members, got>>

broadcastEnds(c) ==
  /\ reader[c].pc = "send" /\ reader[c].to = {}
  /\ mu' = None
  /\ reader' = [reader EXCEPT ![c] = Ranging]
  /\ UNCHANGED <<budget, sent, handler, loop, closing, members, got>>

\* The range ends with the channel.
ReaderEnds(c) ==
  /\ reader[c] = Ranging /\ loop[c].pc = "gone"
  /\ reader' = [reader EXCEPT ![c] = [pc |-> "ended"]]
  /\ UNCHANGED <<budget, sent, handler, loop, closing, mu, members, got>>

\* The connection is closed: the goroutine of NewWebRTCTransport calls Close, and
\* TracksManager removes the transport once it gets the mutex.
CloseTransport(c) ==
  /\ c \in budget.closes /\ ~closing[c]
  /\ closing' = [closing EXCEPT ![c] = TRUE]
  /\ UNCHANGED <<budget, sent, handler, loop, reader, mu, members, got>>

Remove(c) ==
  /\ closing[c] /\ mu = None /\ c \in members
  /\ members' = members \ {c}
  /\ UNCHANGED <<budget, sent, handler, loop, closing, reader, mu, got>>

-----------------------------------------------------------------------------
Transceiver(c) ==
  handleMessageGivesUp(c) \/ TakePrivate(c) \/ HandOn(c) \/ ReaderEnds(c)

Broadcast(c) == broadcast(c) \/ broadcastEnds(c) \/ \E d \in Clients : Send(c, d) \/ SendFails(c, d)

Next ==
  \E c \in Clients :
    \/ handleMessage(c) \/ Transceiver(c) \/ Teardown(c)
    \/ Broadcast(c) \/ CloseTransport(c) \/ Remove(c)

\* The goroutines run. start's select and the mutex do not pass over one of those
\* that wait for ever; the number of messages is bounded, so weak fairness says it.
Fairness ==
  \A c \in Clients :
    WF_vars(Transceiver(c)) /\ WF_vars(Teardown(c)) /\ WF_vars(Broadcast(c)) /\ WF_vars(Remove(c))

Spec == Init /\ [][Next]_vars
FairSpec == Spec /\ Fairness

-----------------------------------------------------------------------------
\* Every variable keeps its type, and the mutex is held by a goroutine that sends.
TypeOK ==
  /\ \A c \in Clients :
       /\ handler[c] = None \/ handler[c] \in Message
       /\ loop[c].pc \in {"select", "hand", "gone"}
       /\ reader[c].pc \in {"range", "lock", "send", "ended"}
       /\ (reader[c].pc = "send") <=> (mu = c)
       /\ \A i \in DOMAIN got[c] : got[c][i] \in Message
  /\ members \subseteq Clients

NumbersFrom(c, d) ==
  LET from(m) == m[1] = c
      s == SelectSeq(got[d], from)
  IN [i \in DOMAIN s |-> s[i][2]]

\* The messages of a client reach another one in the order they were sent, none
\* twice and, as long as the other one does not leave, none missing.
OrderKept ==
  \A c, d \in Clients :
    LET n == NumbersFrom(c, d)
    IN \A i \in DOMAIN n : n[i] = i

\* When the server has nothing of a client in its hands, everybody who stayed has
\* all of the client's messages.
AllDelivered ==
  \A c, d \in Clients :
    (/\ c # d /\ handler[c] = None /\ loop[c] = Select /\ reader[c] = Ranging
     /\ ~closing[c] /\ ~closing[d]) =>
      Len(NumbersFrom(c, d)) = sent[c]

\* The comment on errCh: it is closed once the sending has finished. So broadcast,
\* which waits for it with PeerManager.mu, comes to an end.
SendEnds ==
  \A c, d \in Clients : (reader[c].pc = "send" /\ d \in reader[c].to) ~>
                          ~(reader[c].pc = "send" /\ d \in reader[c].to)

\* Close returns: start, which hands a message on without looking at the teardown
\* token, comes back to its select because the reader takes the message.
CloseReturns == \A c \in Clients : closing[c] ~> loop[c].pc = "gone"

\* What a client says reaches everybody who stays, completely and in order.
Delivery == TypeOK /\ OrderKept /\ AllDelivered

\* Send and Close come to an end.
ChatEnds == SendEnds /\ CloseReturns
=============================================================================
