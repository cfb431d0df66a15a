------------------------------- MODULE Rooms -------------------------------
(* The WebSocket connections of one node: WSS and the room managers that       *)
(* count who uses a room, the memory adapter of a room, the SFU handler of a   *)
(* connection, and the loop of the node manager that tells the factories of    *)
(* the other nodes which rooms are open. ChannelRoomManager.Enter and Exit     *)
(* keep their mutex until the loop has taken the event they send.              *)
EXTENDS Naturals, FiniteSets

CONSTANTS Conns,      \* WebSocket connections, each served by one goroutine
          Rooms, Ids,
          RoomOf,     \* [Conns -> Rooms]
          IdOf,       \* [Conns -> Ids], the client id in the URL
          Factories,  \* factories for transports to other nodes
          None

ASSUME ConnsAssumption == IsFiniteSet(Conns) /\ RoomOf \in [Conns -> Rooms]

\* What the node manager does with an event of a room: it asks its manager for
\* the factories, and once it has read them it asks each of those that are left.
Event == [room : Rooms, type : {"create", "close"}, read : BOOLEAN, left : SUBSET Factories]

\* None is no entry of a table and no event.
ASSUME NoneAssumption ==
  /\ None \notin [count : Nat, adapter : Conns]
  /\ None \notin [conn : Conns, type : {"create", "close"}]
  /\ None \notin Event

VARIABLES
  rooms,      \* AdapterRoomManager.rooms; an adapter is named by who created it
  clients,    \* MemoryAdapter.clients of every adapter
  stage,      \* where the goroutine of a connection is
  adapterOf,  \* WebsocketContext.adapter
  nick,       \* Client.metadata is not empty
  list,       \* the ready clients a connection read, while it handles ready
  listed,     \* the connections whose names were sent to a connection
  transport,  \* SocketHandler.webRTCTransport and its state
  sending,    \* the event the holder of ChannelRoomManager.mu sends, or None
  loop,       \* the event the node manager handles, or None
  factories,  \* the factories Manager.Factories returns
  asked       \* the last request of the node manager to a factory for a room

vars == <<rooms, clients, stage, adapterOf, nick, list, listed, transport,
          sending, loop, factories, asked>>
nodeVars == <<sending, loop, factories, asked>>
roomVars == <<rooms, adapterOf>>
chatVars == <<nick, list, listed, transport>>

Init ==
  /\ rooms = [r \in Rooms |-> None]
  /\ clients = [c \in Conns |-> {}]
  /\ stage = [c \in Conns |-> "new"]
  /\ adapterOf = [c \in Conns |-> None]
  /\ nick = [c \in Conns |-> FALSE]
  /\ list = [c \in Conns |-> {}]
  /\ listed = [c \in Conns |-> {}]
  /\ transport = [c \in Conns |-> "nil"]
  /\ sending = None
  /\ loop = None
  /\ factories = {}
  /\ asked = [f \in Factories |-> [r \in Rooms |-> "never"]]

Members(c) == clients[adapterOf[c]]

\* The process was stopped; nothing happens any more.
Crashed == \E c \in Conns : stage[c] = "crashed"

-----------------------------------------------------------------------------
(* Room managers                                                              *)

\* AdapterRoomManager.Enter and Exit; closing a memory adapter does nothing.
EnterRoom(r, c) ==
  IF rooms[r] = None THEN [count |-> 1, adapter |-> c]
  ELSE [rooms[r] EXCEPT !.count = @ + 1]

ExitRoom(r) ==
  IF rooms[r].count = 1 THEN None ELSE [rooms[r] EXCEPT !.count = @ - 1]

\* WSS.NewWebsocketContext up to ChannelRoomManager.Enter, which waits for the
\* node manager when the room is new.
Enter(c) ==
  LET r == RoomOf[c]
      isNew == rooms[r] = None
  IN /\ stage[c] = "new" /\ sending = None
     /\ rooms' = [rooms EXCEPT ![r] = EnterRoom(r, c)]
     /\ adapterOf' = [adapterOf EXCEPT ![c] = rooms'[r].adapter]
     /\ stage' = [stage EXCEPT ![c] = IF isNew THEN "entering" ELSE "entered"]
     /\ sending' = IF isNew THEN [conn |-> c, type |-> "create"] ELSE None
     /\ UNCHANGED <<clients, chatVars, loop, factories, asked>>

\* Mutant: the room is closed when one connection is left.
Exit_OneLeft(c) ==
  LET r == RoomOf[c]
      isRemoved == rooms[r].count <= 2
  IN /\ stage[c] = "removed" /\ sending = None /\ rooms[r] # None
     /\ rooms' = [rooms EXCEPT ![r] = IF isRemoved THEN None ELSE [@ EXCEPT !.count = @ - 1]]
     /\ stage' = [stage EXCEPT ![c] = IF isRemoved THEN "exiting" ELSE "gone"]
     /\ sending' = IF isRemoved THEN [conn |-> c, type |-> "close"] ELSE None
     /\ UNCHANGED <<clients, adapterOf, chatVars, loop, factories, asked>>

\* Mutant: every exit announces that the room is closed.
Exit_Always(c) ==
  /\ stage[c] = "removed" /\ sending = None
  /\ rooms' = [rooms EXCEPT ![RoomOf[c]] = ExitRoom(RoomOf[c])]
  /\ stage' = [stage EXCEPT ![c] = "exiting"]
  /\ sending' = [conn |-> c, type |-> "close"]
  /\ UNCHANGED <<clients, adapterOf, chatVars, loop, factories, asked>>

\* ChannelRoomManager.Exit, which waits when the room was removed.
Exit(c) ==
  LET r == RoomOf[c]
      isRemoved == ExitRoom(r) = None
  IN /\ stage[c] = "removed" /\ sending = None
     /\ rooms' = [rooms EXCEPT ![r] = ExitRoom(r)]
     /\ stage' = [stage EXCEPT ![c] = IF isRemoved THEN "exiting" ELSE "gone"]
     /\ sending' = IF isRemoved THEN [conn |-> c, type |-> "close"] ELSE None
     /\ UNCHANGED <<clients, adapterOf, chatVars, loop, factories, asked>>

-----------------------------------------------------------------------------
(* The loop of the node manager                                               *)

\* AcceptEvent: the sender goes on and gives the mutex back.
AcceptEvent ==
  LET c == sending.conn
  IN /\ sending # None /\ loop = None /\ ~Crashed
     /\ loop' = [room |-> RoomOf[c], type |-> sending.type, read |-> FALSE, left |-> {}]
     /\ stage' = [stage EXCEPT ![c] = IF @ = "entering" THEN "entered" ELSE "gone"]
     /\ sending' = None
     /\ UNCHANGED <<roomVars, clients, chatVars, factories, asked>>

\* Manager.Factories returns. It sends its request to the loop of the manager,
\* which does not read it while that loop offers a factory nobody takes.
ReadFactories ==
  /\ loop # None /\ ~loop.read /\ ~Crashed
  /\ loop' = IF factories = {} THEN None ELSE [loop EXCEPT !.read = TRUE, !.left = factories]
  /\ UNCHANGED <<roomVars, clients, stage, chatVars, sending, factories, asked>>

\* Mutant: the loop waits for a factory that was torn down.
AskFactory_Waits(f) ==
  /\ loop # None /\ loop.read /\ f \in loop.left /\ f \in factories /\ ~Crashed
  /\ asked' = [asked EXCEPT ![f][loop.room] = loop.type]
  /\ loop' = IF loop.left = {f} THEN None ELSE [loop EXCEPT !.left = @ \ {f}]
  /\ UNCHANGED <<roomVars, clients, stage, chatVars, sending, factories>>

\* CreateTransport or CloseTransport of one factory: the factory takes the
\* request, or it is torn down and the error is logged.
AskFactory(f) ==
  /\ loop # None /\ loop.read /\ f \in loop.left /\ ~Crashed
  /\ asked' = IF f \in factories THEN [asked EXCEPT ![f][loop.room] = loop.type] ELSE asked
  /\ loop' = IF loop.left = {f} THEN None ELSE [loop EXCEPT !.left = @ \ {f}]
  /\ UNCHANGED <<roomVars, clients, stage, chatVars, sending, factories>>

\* The manager has a factory for another node, or no longer has it.
FactoryUp(f) ==
  /\ f \notin factories /\ ~Crashed
  /\ factories' = factories \cup {f}
  /\ asked' = [asked EXCEPT ![f] = [r \in Rooms |-> "never"]]
  /\ UNCHANGED <<roomVars, clients, stage, chatVars, sending, loop>>

FactoryDown(f) ==
  /\ f \in factories /\ ~Crashed
  /\ factories' = factories \ {f}
  /\ UNCHANGED <<roomVars, clients, stage, chatVars, sending, loop, asked>>

-----------------------------------------------------------------------------
(* Memory adapter                                                             *)

\* MemoryAdapter.Add under its mutex. A connection whose id is taken is closed,
\* and NewWebsocketContext returns without Exit.
AddClient(c) ==
  LET duplicate == \E d \in Members(c) : IdOf[d] = IdOf[c]
  IN /\ stage[c] = "entered"
     /\ clients' = IF duplicate THEN clients ELSE [clients EXCEPT ![adapterOf[c]] = @ \cup {c}]
     /\ stage' = [stage EXCEPT ![c] = IF duplicate THEN "refused" ELSE "joining"]
     /\ UNCHANGED <<roomVars, chatVars, nodeVars>>

\* The rest of Add ranges over the clients after the mutex was released; errors
\* of the writes are dropped by broadcast.
BroadcastJoin(c) ==
  /\ stage[c] = "joining"
  /\ stage' = [stage EXCEPT ![c] = "serving"]
  /\ UNCHANGED <<roomVars, clients, chatVars, nodeVars>>

\* The runtime stops a process whose map is written during such a range.
ConcurrentMapWrite(c, d) ==
  /\ c # d /\ adapterOf[c] = adapterOf[d]
  /\ stage[c] = "joining" /\ stage[d] \in {"entered", "leaving"}
  /\ stage' = [e \in Conns |-> "crashed"]
  /\ UNCHANGED <<roomVars, clients, chatVars, nodeVars>>

\* WebsocketContext.Close up to Exit: Remove deletes the id and broadcasts. Nobody
\* reads the nickname and the lists of the connection any more.
RemoveClient(c) ==
  /\ stage[c] = "leaving"
  /\ clients' = [clients EXCEPT ![adapterOf[c]] = {d \in @ : IdOf[d] # IdOf[c]}]
  /\ stage' = [stage EXCEPT ![c] = "removed"]
  /\ nick' = [nick EXCEPT ![c] = FALSE]
  /\ listed' = [d \in Conns |-> IF d = c THEN {} ELSE listed[d] \ {c}]
  /\ UNCHANGED <<roomVars, list, transport, nodeVars>>

-----------------------------------------------------------------------------
(* SocketHandler                                                              *)

\* handleReady: a second ready is refused while there is a transport.
Ready(c) ==
  /\ stage[c] = "serving" /\ transport[c] = "nil"
  /\ nick' = [d \in Conns |-> IF d \in Members(c) /\ IdOf[d] = IdOf[c] THEN TRUE ELSE nick[d]]
  /\ stage' = [stage EXCEPT ![c] = "listing"]
  /\ UNCHANGED <<roomVars, clients, list, listed, transport, nodeVars>>

\* getReadyClients
ListClients(c) ==
  /\ stage[c] = "listing"
  /\ list' = [list EXCEPT ![c] = {d \in Members(c) : nick[d]}]
  /\ stage' = [stage EXCEPT ![c] = "users"]
  /\ UNCHANGED <<roomVars, clients, nick, listed, transport, nodeVars>>

\* Mutant: the list goes only to the client that became ready.
Users_Self(c) ==
  /\ stage[c] = "users"
  /\ listed' = [listed EXCEPT ![c] = @ \cup (list[c] \cap Members(c))]
  /\ list' = [list EXCEPT ![c] = {}]
  /\ transport' \in {transport, [transport EXCEPT ![c] = "open"]}
  /\ stage' = [stage EXCEPT ![c] = "serving"]
  /\ UNCHANGED <<roomVars, clients, nick, nodeVars>>

\* The list goes to everybody, then the transport is created and added.
Users(c) ==
  /\ stage[c] = "users"
  /\ listed' = [d \in Conns |-> IF d \in Members(c) THEN listed[d] \cup (list[c] \cap Members(c)) ELSE listed[d]]
  /\ list' = [list EXCEPT ![c] = {}]
  /\ transport' \in {transport, [transport EXCEPT ![c] = "open"]}
  /\ stage' = [stage EXCEPT ![c] = "serving"]
  /\ UNCHANGED <<roomVars, clients, nick, nodeVars>>

\* handleHangUp, or the peer connection fails.
CloseTransport(c) ==
  /\ transport[c] = "open" /\ ~Crashed
  /\ transport' = [transport EXCEPT ![c] = "closed"]
  /\ UNCHANGED <<roomVars, clients, stage, nick, list, listed, nodeVars>>

\* The end of processLocalSignals, in a goroutine that may outlive the socket.
SignalsEnd(c) ==
  /\ transport[c] = "closed" /\ stage[c] \notin {"listing", "users", "crashed"}
  /\ transport' = [transport EXCEPT ![c] = "nil"]
  /\ nick' = [d \in Conns |-> IF d \in Members(c) /\ IdOf[d] = IdOf[c] THEN FALSE ELSE nick[d]]
  /\ UNCHANGED <<roomVars, clients, stage, list, listed, nodeVars>>

\* The socket was closed and read to its end: HangUp closes the transport.
HangUp(c) ==
  /\ stage[c] = "serving"
  /\ transport' = [transport EXCEPT ![c] = IF @ = "open" THEN "closed" ELSE @]
  /\ stage' = [stage EXCEPT ![c] = "leaving"]
  /\ UNCHANGED <<roomVars, clients, nick, list, listed, nodeVars>>

-----------------------------------------------------------------------------
\* What a goroutine does next without waiting for a peer.
Step(c) ==
  \/ AddClient(c) \/ BroadcastJoin(c) \/ RemoveClient(c) \/ ListClients(c) \/ Users(c)
  \/ SignalsEnd(c)

Loop == AcceptEvent \/ \E f \in Factories : AskFactory(f)

Next ==
  \/ Loop \/ ReadFactories
  \/ \E c \in Conns : Step(c) \/ Enter(c) \/ Exit(c) \/ Ready(c) \/ CloseTransport(c) \/ HangUp(c)
  \/ \E c, d \in Conns : ConcurrentMapWrite(c, d)
  \/ \E f \in Factories : FactoryUp(f) \/ FactoryDown(f)

\* Goroutines run, the loop runs, and a mutex that is free again and again is
\* given to everybody who waits for it (sync.Mutex does not starve a waiter).
\* Nothing makes Manager.Factories return.
Fairness ==
  /\ WF_vars(Loop)
  /\ \A c \in Conns : WF_vars(Step(c)) /\ SF_vars(Exit(c))

Spec == Init /\ [][Next]_vars
FairSpec == Spec /\ Fairness

-----------------------------------------------------------------------------
\* The connections that entered their room and did not exit.
Inside(r) == {c \in Conns : RoomOf[c] = r /\ stage[c] \notin {"new", "exiting", "gone"}}

\* Every variable keeps its type.
TypeOK ==
  /\ rooms \in [Rooms -> [count : 1..Cardinality(Conns), adapter : Conns] \cup {None}]
  /\ clients \in [Conns -> SUBSET Conns]
  /\ stage \in [Conns -> {"new", "entering", "entered", "refused", "joining", "serving",
                          "listing", "users", "leaving", "removed", "exiting", "gone", "crashed"}]
  /\ adapterOf \in [Conns -> Conns \cup {None}]
  /\ nick \in [Conns -> BOOLEAN]
  /\ list \in [Conns -> SUBSET Conns] /\ listed \in [Conns -> SUBSET Conns]
  /\ transport \in [Conns -> {"nil", "open", "closed"}]
  /\ sending \in [conn : Conns, type : {"create", "close"}] \cup {None}
  /\ loop \in Event \cup {None}
  /\ factories \in SUBSET Factories
  /\ asked \in [Factories -> [Rooms -> {"never", "create", "close"}]]

\* All connections of a room share the adapter that the next one will get, so no
\* two clients of a room are in different halves of it: the reference counts of
\* AdapterRoomManager.Enter and Exit.
OneAdapter ==
  ~Crashed => \A r \in Rooms : \A c \in Inside(r) :
    rooms[r] # None /\ rooms[r].adapter = adapterOf[c]

\* Two clients that have handled ready with a transport each were each sent the
\* name of the other: handleReady stores the nickname before it reads the list.
ReadyClientsListed ==
  \A c, d \in Conns :
    (/\ stage[c] = "serving" /\ stage[d] = "serving" /\ RoomOf[c] = RoomOf[d]
     /\ nick[c] /\ nick[d] /\ transport[c] # "nil" /\ transport[d] # "nil")
      => d \in listed[c]

\* While nobody waits for the node manager, no factory was last asked to keep a
\* transport for a closed room or to close that of an open one: events arrive in
\* the order of the mutex. A factory that came later was never asked.
FactoriesFollow ==
  (sending = None /\ loop = None) => \A f \in factories, r \in Rooms :
    asked[f][r] # IF rooms[r] = None THEN "create" ELSE "close"

\* Manager.Factories never keeps the loop of the node manager for ever.
FactoriesReturn == []<>(loop = None \/ loop.read)

\* A connection that was closed leaves its room, however many factories the node
\* manager has to ask, and leaves no open transport behind; unless the manager
\* stops answering Factories: then the next Enter or Exit that opens or closes a
\* room waits with ChannelRoomManager.mu, and everybody else waits for the mutex.
LeavesRoom ==
  FactoriesReturn => \A c \in Conns :
    stage[c] = "leaving" ~> ((stage[c] = "gone" /\ transport[c] # "open") \/ Crashed)

\* A room whose connections have all left, none of them refused, is closed: the
\* last Exit finds a count of one.
EmptyRoomCloses ==
  \A r \in Rooms : Inside(r) = {} => rooms[r] = None

\* A room is registered exactly while somebody is inside, and all inside share its
\* adapter.
RoomFollowsClients == TypeOK /\ OneAdapter /\ EmptyRoomCloses
=============================================================================
