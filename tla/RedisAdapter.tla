---------------------------- MODULE RedisAdapter ----------------------------
(* A room whose clients are on several nodes that share Redis: the hash of     *)
(* clients with their metadata (the nickname, empty until the client is        *)
(* ready), and the room channel, which every node reads in order and at its    *)
(* own pace. A node subscribes when its first client enters (NewRedisAdapter)  *)
(* and stops when its last one has left (Exit, RedisAdapter.Close).            *)
EXTENDS Naturals, Sequences, FiniteSets

CONSTANTS Nodes, Clients,
          NodeOf,       \* [Clients -> Nodes]
          Stay,         \* clients that are there from the start and never leave
          MaxSessions,  \* how often a client joins
          Handlers,     \* the configured handlers: "mesh", "sfu"
          WritesFail    \* whether a write to a WebSocket may fail

ASSUME RedisAssumption ==
  /\ NodeOf \in [Clients -> Nodes] /\ Stay \subseteq Clients
  /\ MaxSessions \in Nat \ {0} /\ Handlers \subseteq {"mesh", "sfu"} /\ WritesFail \in BOOLEAN

VARIABLES
  clients,    \* RedisAdapter.clients of every node
  roomClients,\* the Redis hash: "absent", "" or "nickname"
  queue,      \* what a node has not read from the room channel
  stage,      \* of a client: "out", "in", "ready" (metadata set), "met", "leaving"
  sessions,   \* how often a client has joined
  hangUp,     \* the sessions of a client whose processLocalSignals still runs
  met,        \* pairs of clients that one users message named
  handler,    \* the handler all nodes run
  lost        \* a node has closed its adapter, or could not finish a room_leave

vars == <<clients, roomClients, queue, stage, sessions, hangUp, met, handler, lost>>

Message == [type : {"join", "leave"}, client : Clients]
Subscribed(n) == \E c \in Clients : NodeOf[c] = n /\ stage[c] # "out"

Init ==
  /\ clients = [n \in Nodes |-> {c \in Stay : NodeOf[c] = n}]
  /\ roomClients = [c \in Clients |-> IF c \in Stay THEN "" ELSE "absent"]
  /\ queue = [n \in Nodes |-> <<>>]
  /\ stage = [c \in Clients |-> IF c \in Stay THEN "in" ELSE "out"]
  /\ sessions = [c \in Clients |-> IF c \in Stay THEN MaxSessions ELSE 0]
  /\ hangUp = [c \in Clients |-> {}]
  /\ met = {}
  /\ handler \in Handlers
  /\ lost = FALSE

\* The queues after a publication on the room channel.
Published(type, c) ==
  [n \in Nodes |-> IF n = NodeOf[c] \/ Subscribed(n)
                   THEN Append(queue[n], [type |-> type, client |-> c]) ELSE queue[n]]

\* Enter and Add.
Join(c) ==
  LET n == NodeOf[c]
  IN /\ stage[c] = "out" /\ sessions[c] < MaxSessions
     /\ stage' = [stage EXCEPT ![c] = "in"]
     /\ sessions' = [sessions EXCEPT ![c] = @ + 1]
     /\ clients' = [clients EXCEPT ![n] = @ \cup {c}]
     /\ queue' = Published("join", c)
     /\ UNCHANGED <<roomClients, hangUp, met, handler, lost>>

\* The ready message: SetMetadata. The SFU handler refuses a second one.
Ready(c) ==
  /\ stage[c] = "in" \/ (handler = "mesh" /\ stage[c] = "met")
  /\ stage' = [stage EXCEPT ![c] = "ready"]
  /\ roomClients' = [roomClients EXCEPT ![c] = "nickname"]
  /\ UNCHANGED <<clients, queue, sessions, hangUp, met, handler, lost>>

\* The ready message, continued: getReadyClients and the broadcast of users. The
\* SFU handler then creates a peer connection, whose end resets the metadata.
Users(c) ==
  LET ready == {d \in Clients : roomClients[d] = "nickname"}
  IN /\ stage[c] = "ready"
     /\ stage' = [stage EXCEPT ![c] = "met"]
     /\ met' = met \cup {p \in SUBSET ready : \E d, e \in ready : p = {d, e}}
     /\ hangUp' = [hangUp EXCEPT ![c] = IF handler = "sfu" THEN @ \cup {sessions[c]} ELSE @]
     /\ UNCHANGED <<clients, roomClients, queue, sessions, handler, lost>>

\* Mutant: Remove leaves the hash to the readers of the channel.
Leave_NoDelete(c) ==
  /\ stage[c] \in {"in", "met"} /\ c \notin Stay
  /\ stage' = [stage EXCEPT ![c] = "leaving"]
  /\ clients' = [clients EXCEPT ![NodeOf[c]] = @ \ {c}]
  /\ met' = {p \in met : c \notin p}
  /\ UNCHANGED <<roomClients, queue, sessions, hangUp, handler, lost>>

\* The WebSocket is closed: Remove up to the publication.
Leave(c) ==
  /\ stage[c] \in {"in", "met"} /\ c \notin Stay
  /\ stage' = [stage EXCEPT ![c] = "leaving"]
  /\ clients' = [clients EXCEPT ![NodeOf[c]] = @ \ {c}]
  /\ roomClients' = [roomClients EXCEPT ![c] = "absent"]
  /\ met' = {p \in met : c \notin p}
  /\ UNCHANGED <<queue, sessions, hangUp, handler, lost>>

\* Remove publishes, and Exit closes the adapter of an empty room: what it had
\* not read is lost.
PublishLeave(c) ==
  LET n == NodeOf[c]
      last == \A d \in Clients \ {c} : NodeOf[d] = n => stage[d] = "out"
  IN /\ stage[c] = "leaving"
     /\ stage' = [stage EXCEPT ![c] = "out"]
     /\ queue' = IF last THEN [Published("leave", c) EXCEPT ![n] = <<>>] ELSE Published("leave", c)
     /\ lost' = (lost \/ last)
     /\ UNCHANGED <<clients, roomClients, sessions, hangUp, met, handler>>

\* The hangUp message in the mesh handler: SetMetadata with the empty nickname.
HangUp(c) ==
  /\ handler = "mesh" /\ stage[c] \in {"in", "met"}
  /\ roomClients' = [roomClients EXCEPT ![c] = ""]
  /\ stage' = [stage EXCEPT ![c] = "in"]
  /\ met' = {p \in met : c \notin p}
  /\ UNCHANGED <<clients, queue, sessions, hangUp, handler, lost>>

\* The same at the end of processLocalSignals of session s, once its peer
\* connection has closed, which may be after the client has left or joined again.
SignalsEnd(c, s) ==
  /\ s \in hangUp[c]
  /\ hangUp' = [hangUp EXCEPT ![c] = @ \ {s}]
  /\ roomClients' = [roomClients EXCEPT ![c] = ""]
  /\ stage' = [stage EXCEPT ![c] = IF s = sessions[c] /\ @ = "met" THEN "in" ELSE @]
  /\ met' = {p \in met : c \notin p}
  /\ UNCHANGED <<clients, queue, sessions, handler, lost>>

\* Mutant: the handler of room_leave only tells the local clients.
HandleMessage_KeepEntry(n) ==
  /\ queue[n] # <<>>
  /\ queue' = [queue EXCEPT ![n] = Tail(@)]
  /\ roomClients' = IF Head(queue[n]).type = "join"
                    THEN [roomClients EXCEPT ![Head(queue[n]).client] = ""] ELSE roomClients
  /\ UNCHANGED <<clients, stage, sessions, hangUp, met, handler, lost>>

\* handleMessage. room_leave is first broadcast to the local clients; if one of
\* them cannot be written to, the entry is not deleted.
HandleMessage(n) ==
  /\ queue[n] # <<>>
  /\ queue' = [queue EXCEPT ![n] = Tail(@)]
  /\ LET msg == Head(queue[n])
     IN \/ /\ msg.type = "join"
           /\ roomClients' = [roomClients EXCEPT ![msg.client] = ""]
           /\ UNCHANGED lost
        \/ /\ msg.type = "leave"
           /\ roomClients' = [roomClients EXCEPT ![msg.client] = "absent"]
           /\ UNCHANGED lost
        \/ /\ msg.type = "leave" /\ WritesFail /\ clients[n] # {}
           /\ lost' = TRUE
           /\ UNCHANGED roomClients
  /\ UNCHANGED <<clients, stage, sessions, hangUp, met, handler>>

Next ==
  \/ \E c \in Clients : Join(c) \/ Ready(c) \/ Users(c) \/ Leave(c) \/ PublishLeave(c) \/ HangUp(c)
  \/ \E c \in Clients, s \in 1..MaxSessions : SignalsEnd(c, s)
  \/ \E n \in Nodes : HandleMessage(n)
Spec == Init /\ [][Next]_vars

-----------------------------------------------------------------------------
\* Every variable keeps its type.
TypeOK ==
  /\ clients \in [Nodes -> SUBSET Clients]
  /\ roomClients \in [Clients -> {"absent", "", "nickname"}]
  /\ queue \in [Nodes -> Seq(Message)]
  /\ stage \in [Clients -> {"out", "in", "ready", "met", "leaving"}]
  /\ sessions \in [Clients -> 0..MaxSessions]
  /\ hangUp \in [Clients -> SUBSET (1..MaxSessions)]
  /\ met \subseteq SUBSET Clients
  /\ handler \in Handlers /\ lost \in BOOLEAN

\* Clients: once every node has read the room channel, the hash lists exactly the
\* clients that are connected to some node, although every node replays each join
\* and leave in its own time. It needs the mesh handler (SignalsEnd may come after
\* the leave) and nodes that stay subscribed and finish every leave.
ListsConnected ==
  (/\ handler = "mesh" /\ ~lost
   /\ \A n \in Nodes : queue[n] = <<>>
   /\ \A c \in Clients : stage[c] # "leaving") =>
    \A c \in Clients : roomClients[c] # "absent" <=> c \in clients[NodeOf[c]]

\* getReadyClients: a client with a nickname is connected and has said that it is
\* ready; no node and no late goroutine revives the entry of one that has left.
NicknameIsReady ==
  TypeOK /\ \A c \in Clients : roomClients[c] = "nickname" => stage[c] \in {"ready", "met"}

\* getReadyClients leaves out only clients that have not emitted ready: two
\* clients that are ready have been named by one users message.
ReadyClientsMeet ==
  \A c, d \in Clients : c # d /\ stage[c] = "met" /\ stage[d] = "met" => {c, d} \in met
=============================================================================
