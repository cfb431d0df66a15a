------------------------------ MODULE Manager ------------------------------
(* udptransport2.Manager: one goroutine keeps the factories of a node, one per *)
(* remote address. A factory is created in a goroutine of its own, for an      *)
(* incoming connection of the UDP mux or for a request of GetFactory. A        *)
(* factory for an incoming connection is offered to the user, and while it is  *)
(* offered the loop serves only requests for factories and Close.              *)
EXTENDS Naturals

CONSTANTS Addrs,         \* remote addresses
          MaxFactories,  \* how often NewFactory is called
          None

\* What the constants may be.
ManagerConstants == MaxFactories \in Nat /\ None \notin Addrs \cup Nat

Factories == 1..MaxFactories

VARIABLES
  conn,       \* the UDP mux has a connection for an address
  addrOf,     \* the address a factory was created for
  state,      \* life of a factory; "failed" when NewFactory returned an error
  factories,  \* the map of the loop
  pending,    \* pendingFactoryRequests
  request,    \* GetFactory of an address: "no", "asked", "taken", "answered"
  removing,   \* factories whose goroutine waits to have them removed
  loop,       \* "select", "offer" with a factory, "down"
  listing,    \* Factories waits for the loop
  closing     \* Close waits for the loop

vars == <<conn, addrOf, state, factories, pending, request, removing, loop, listing, closing>>

Idle == [pc |-> "select"]
Used == {f \in Factories : addrOf[f] # None}
Fresh == CHOOSE f \in Factories \ Used : \A g \in Factories \ Used : f <= g
Offers(a) == loop.pc = "offer" /\ addrOf[loop.factory] = a

Init ==
  /\ conn = [a \in Addrs |-> FALSE]
  /\ addrOf = [f \in Factories |-> None]
  /\ state = [f \in Factories |-> "none"]
  /\ factories = [a \in Addrs |-> None]
  /\ pending = {}
  /\ request = [a \in Addrs |-> "no"]
  /\ removing = {}
  /\ loop = Idle
  /\ listing = FALSE /\ closing = FALSE

\* createFactoryAsync on a new connection of the mux.
createFactoryAsync(a) ==
  /\ Used # Factories
  /\ conn' = [conn EXCEPT ![a] = TRUE]
  /\ addrOf' = [addrOf EXCEPT ![Fresh] = a]
  /\ state' = [state EXCEPT ![Fresh] = "creating"]

\* handleConn: the first packet of a remote address.
handleConn(a) ==
  /\ loop.pc = "select" /\ ~conn[a]
  /\ createFactoryAsync(a)
  /\ UNCHANGED <<factories, pending, request, removing, loop, listing, closing>>

GetFactory(a) ==
  /\ request[a] \in {"no", "answered"}
  /\ request' = [request EXCEPT ![a] = "asked"]
  /\ UNCHANGED <<conn, addrOf, state, factories, pending, removing, loop, listing, closing>>

\* Mutant: the mux is asked for a connection it already has.
handleNewFactoryRequest_SecondConn(a) ==
  /\ request[a] = "asked" /\ loop.pc \in {"select", "offer"} /\ ~Offers(a)
  /\ IF factories[a] # None \/ a \in pending \/ Used = Factories
     THEN /\ request' = [request EXCEPT ![a] = "answered"]
          /\ UNCHANGED <<conn, addrOf, state, pending>>
     ELSE /\ createFactoryAsync(a)
          /\ pending' = pending \cup {a}
          /\ request' = [request EXCEPT ![a] = "taken"]
  /\ UNCHANGED <<factories, removing, loop, listing, closing>>

\* handleNewFactoryRequest: an address with a factory, a request or a connection
\* is refused at once. GetConn also fails when the bound is reached.
handleNewFactoryRequest(a) ==
  /\ request[a] = "asked" /\ loop.pc \in {"select", "offer"} /\ ~Offers(a)
  /\ IF factories[a] # None \/ a \in pending \/ conn[a] \/ Used = Factories
     THEN /\ request' = [request EXCEPT ![a] = "answered"]
          /\ UNCHANGED <<conn, addrOf, state, pending>>
     ELSE /\ createFactoryAsync(a)
          /\ pending' = pending \cup {a}
          /\ request' = [request EXCEPT ![a] = "taken"]
  /\ UNCHANGED <<factories, removing, loop, listing, closing>>

\* NewFactory returns. When the handshake fails it leaves the connection open.
FactoryCreated(f) ==
  /\ state[f] = "creating"
  /\ state' \in {[state EXCEPT ![f] = s] : s \in {"created", "failed"}}
  /\ UNCHANGED <<conn, addrOf, factories, pending, request, removing, loop, listing, closing>>

\* Mutant: the goroutine that removes the factory is not started.
addFactory_NotWatched(f) ==
  /\ IF state[f] = "created"
     THEN /\ state' = [state EXCEPT ![f] = "torn"]
          /\ factories' = [factories EXCEPT ![addrOf[f]] = f]
     ELSE /\ state' = [state EXCEPT ![f] = "gone"]
          /\ UNCHANGED factories

\* addFactory, for a response without error. A failed creation is forgotten.
addFactory(f) ==
  /\ IF state[f] = "created"
     THEN /\ state' = [state EXCEPT ![f] = "live"]
          /\ factories' = [factories EXCEPT ![addrOf[f]] = f]
     ELSE /\ state' = [state EXCEPT ![f] = "gone"]
          /\ UNCHANGED factories

\* Mutant: a request whose creation failed is not answered.
handleNewFactoryResponse_Silent(f) ==
  /\ loop.pc = "select" /\ state[f] \in {"created", "failed"}
  /\ IF addrOf[f] \in pending
     THEN /\ addFactory(f)
          /\ pending' = IF state[f] = "created" THEN pending \ {addrOf[f]} ELSE pending
          /\ request' = IF state[f] = "created" THEN [request EXCEPT ![addrOf[f]] = "answered"] ELSE request
          /\ UNCHANGED loop
     ELSE /\ loop' = [pc |-> "offer", factory |-> f]
          /\ UNCHANGED <<state, factories, pending, request>>
  /\ UNCHANGED <<conn, addrOf, removing, listing, closing>>

\* handleNewFactoryResponse up to its loop: an outstanding request gets the answer.
handleNewFactoryResponse(f) ==
  /\ loop.pc = "select" /\ state[f] \in {"created", "failed"}
  /\ IF addrOf[f] \in pending
     THEN /\ addFactory(f)
          /\ pending' = pending \ {addrOf[f]}
          /\ request' = [request EXCEPT ![addrOf[f]] = "answered"]
          /\ UNCHANGED loop
     ELSE /\ loop' = [pc |-> "offer", factory |-> f]
          /\ UNCHANGED <<state, factories, pending, request>>
  /\ UNCHANGED <<conn, addrOf, removing, listing, closing>>

\* The user reads FactoriesChannel, on which an error is never sent.
AcceptFactory ==
  /\ loop.pc = "offer" /\ state[loop.factory] = "created"
  /\ addFactory(loop.factory)
  /\ loop' = Idle
  /\ UNCHANGED <<conn, addrOf, pending, request, removing, listing, closing>>

\* A request for the address of the factory that is offered.
GetOffered(a) ==
  /\ request[a] = "asked" /\ Offers(a)
  /\ addFactory(loop.factory)
  /\ request' = [request EXCEPT ![a] = "answered"]
  /\ loop' = Idle
  /\ UNCHANGED <<conn, addrOf, pending, removing, listing, closing>>

\* A factory tears down by itself: its connection is closed and its goroutine in
\* addFactory wakes up.
FactoryEnds(f) ==
  /\ state[f] = "live"
  /\ state' = [state EXCEPT ![f] = "torn"]
  /\ conn' = [conn EXCEPT ![addrOf[f]] = FALSE]
  /\ removing' = IF loop.pc = "down" THEN removing ELSE removing \cup {f}
  /\ UNCHANGED <<addrOf, factories, pending, request, loop, listing, closing>>

\* The loop deletes the address, whichever factory it has.
RemoveFactory(f) ==
  /\ f \in removing /\ loop.pc = "select"
  /\ factories' = [factories EXCEPT ![addrOf[f]] = None]
  /\ removing' = removing \ {f}
  /\ UNCHANGED <<conn, addrOf, state, pending, request, loop, listing, closing>>

\* Manager.Factories
CallFactories ==
  /\ ~listing
  /\ listing' = TRUE
  /\ UNCHANGED <<conn, addrOf, state, factories, pending, request, removing, loop, closing>>

ListFactories ==
  /\ listing /\ loop.pc \in {"select", "down"}
  /\ listing' = FALSE
  /\ UNCHANGED <<conn, addrOf, state, factories, pending, request, removing, loop, closing>>

Close ==
  /\ ~closing
  /\ closing' = TRUE
  /\ UNCHANGED <<conn, addrOf, state, factories, pending, request, removing, loop, listing>>

\* The deferred function: it closes the factories the loop has, also the one it
\* offers, answers the requests and closes the mux. Goroutines that wait to have a
\* factory removed end.
LoopEnds ==
  LET listed == {factories[a] : a \in Addrs} \cap Factories
      offered == IF loop.pc = "offer" /\ state[loop.factory] = "created" THEN {loop.factory} ELSE {}
  IN /\ loop' = [pc |-> "down"]
     /\ state' = [f \in Factories |-> IF f \in listed \cup offered THEN "torn" ELSE state[f]]
     /\ factories' = [a \in Addrs |-> None]
     /\ request' = [a \in Addrs |-> IF a \in pending THEN "answered" ELSE request[a]]
     /\ pending' = {} /\ removing' = {}
     /\ conn' = [a \in Addrs |-> FALSE]
     /\ UNCHANGED <<addrOf, listing, closing>>

\* The loop takes the token of Close, or finds that the mux has ended.
TearDown == closing /\ loop.pc \in {"select", "offer"} /\ LoopEnds
MuxClosed == loop.pc = "select" /\ LoopEnds

\* After the end a factory that was just created is closed, and GetFactory fails.
CloseCreated(f) ==
  /\ loop.pc = "down" /\ state[f] = "created"
  /\ state' = [state EXCEPT ![f] = "torn"]
  /\ UNCHANGED <<conn, addrOf, factories, pending, request, removing, loop, listing, closing>>

GetFactoryFails(a) ==
  /\ loop.pc = "down" /\ request[a] = "asked"
  /\ request' = [request EXCEPT ![a] = "answered"]
  /\ UNCHANGED <<conn, addrOf, state, factories, pending, removing, loop, listing, closing>>

-----------------------------------------------------------------------------
Next ==
  \/ AcceptFactory \/ CallFactories \/ ListFactories \/ Close \/ TearDown \/ MuxClosed
  \/ \E a \in Addrs : \/ handleConn(a) \/ GetFactory(a) \/ handleNewFactoryRequest(a)
                      \/ GetOffered(a) \/ GetFactoryFails(a)
  \/ \E f \in Factories : \/ FactoryCreated(f) \/ handleNewFactoryResponse(f) \/ FactoryEnds(f)
                          \/ RemoveFactory(f) \/ CloseCreated(f)

\* The loop runs and chooses at random among those who wait, NewFactory returns,
\* and the user reads FactoriesChannel as its comment demands. The loop offers at
\* most MaxFactories times, so weak fairness is enough.
Fairness ==
  /\ WF_vars(AcceptFactory) /\ WF_vars(ListFactories) /\ WF_vars(TearDown)
  /\ \A a \in Addrs : /\ WF_vars(handleNewFactoryRequest(a)) /\ WF_vars(GetOffered(a))
                      /\ WF_vars(GetFactoryFails(a))
  /\ \A f \in Factories : WF_vars(FactoryCreated(f)) /\ WF_vars(handleNewFactoryResponse(f))

Spec == Init /\ [][Next]_vars
FairSpec == Spec /\ Fairness

-----------------------------------------------------------------------------
\* Every variable keeps its type.
TypeOK ==
  /\ conn \in [Addrs -> BOOLEAN]
  /\ addrOf \in [Factories -> Addrs \cup {None}]
  /\ state \in [Factories -> {"none", "creating", "created", "failed", "gone", "live", "torn"}]
  /\ factories \in [Addrs -> Factories \cup {None}]
  /\ pending \subseteq Addrs
  /\ request \in [Addrs -> {"no", "asked", "taken", "answered"}]
  /\ removing \subseteq Factories
  /\ loop \in [pc : {"select", "down"}] \cup [pc : {"offer"}, factory : Factories]
  /\ listing \in BOOLEAN /\ closing \in BOOLEAN

\* No two factories talk to the same node at a time: handleConn and
\* handleNewFactoryRequest both need a connection the mux does not have.
OneLivePerAddress ==
  \A f, g \in Factories :
    (f # g /\ addrOf[f] = addrOf[g] /\ addrOf[f] # None /\ loop.pc # "down")
      => ~({state[f], state[g]} \subseteq {"creating", "created", "live"})

\* A request that was taken is remembered until it is answered, and only one
\* creation is under way for it, so its channel gets exactly one response.
TakenIsPending ==
  /\ \A a \in Addrs : request[a] = "taken" <=> a \in pending
  /\ \A a \in pending : factories[a] = None \/ state[factories[a]] = "torn"

\* A factory in the map that has ended has a goroutine that will remove it: no
\* room asks a dead factory for ever.
TornIsRemoved ==
  \A a \in Addrs : factories[a] # None =>
    state[factories[a]] = "live" \/ factories[a] \in removing

\* When the manager has ended, a factory that still runs is one that had lost its
\* place in the map to the removal of its predecessor.
ClosedWithManager ==
  \A f \in Factories : (loop.pc = "down" /\ state[f] = "live") =>
    \E g \in Factories : g < f /\ addrOf[g] = addrOf[f] /\ state[g] = "torn"

\* GetFactory is answered, unless the loop offers an incoming connection whose
\* handshake failed.
RequestAnswered ==
  \A a \in Addrs : request[a] \in {"asked", "taken"} ~>
    \/ request[a] = "answered"
    \/ loop.pc = "offer" /\ state[loop.factory] = "failed"

\* "Users must read from this channel to prevent deadlocks": whoever reads
\* FactoriesChannel gets an answer from Factories, which the node manager calls
\* for every room.
FactoriesReturns == listing ~> ~listing

\* "Remove factory automatically after it tears down": a factory that runs stays
\* in the map.
LiveIsListed ==
  \A f \in Factories : (state[f] = "live" /\ loop.pc # "down") => factories[addrOf[f]] = f

\* A remote address has one factory that lives or is being created, also when both
\* nodes call each other, and every request that was taken gets one response.
OneFactoryPerAddress == TypeOK /\ OneLivePerAddress /\ TakenIsPending

\* Factories that ended leave the map, and none survives the manager but one that
\* had lost its place to the removal of its predecessor, which goes by address.
FactoriesEnd == TornIsRemoved /\ ClosedWithManager
=============================================================================
