--------------------------- MODULE ManagerProofs ---------------------------
(* The factories of a node, for any number of addresses and factories.         *)
EXTENDS Manager, TLAPS

\* A factory that is being created or runs.
Active(f) == state[f] \in {"creating", "created", "live"}

\* Factories are numbered in the order in which they are created.
UsedInv ==
  /\ \E n \in 0..MaxFactories : Used = 1..n
  /\ \A f \in Factories : state[f] = "none" <=> addrOf[f] = None

\* An active factory has the connection of its address, so no other one is
\* created for the address until it ends.
ActiveInv ==
  /\ loop.pc # "down" => \A f \in Factories : Active(f) => conn[addrOf[f]]
  /\ \A f, g \in Factories : f < g /\ addrOf[f] # None /\ addrOf[f] = addrOf[g] => ~Active(f)

\* A request is pending from when it is taken until it is answered, and meanwhile
\* its address has no factory, nor is one offered.
PendingInv ==
  /\ \A a \in Addrs : request[a] = "taken" <=> a \in pending
  /\ \A a \in pending : factories[a] = None
  /\ loop.pc = "offer" => /\ addrOf[loop.factory] \notin pending
                          /\ state[loop.factory] \in {"created", "failed"}

\* The map has a factory under its own address, and one that has ended is about to
\* be removed; a factory that runs is in the map or was removed with its
\* predecessor.
MapInv ==
  /\ \A a \in Addrs : factories[a] # None =>
       /\ addrOf[factories[a]] = a
       /\ state[factories[a]] = "live" \/ factories[a] \in removing
       /\ loop.pc # "down"
  /\ \A f \in removing : state[f] = "torn"
  /\ \A f \in Factories : state[f] = "live" =>
       \/ loop.pc # "down" /\ factories[addrOf[f]] = f
       \/ \E g \in Factories : g < f /\ addrOf[g] = addrOf[f] /\ state[g] = "torn"

FactoriesInv == ManagerConstants /\ TypeOK /\ UsedInv /\ ActiveInv /\ PendingInv /\ MapInv

-----------------------------------------------------------------------------
\* Addresses and factories are never mistaken for the absence of one.
LEMMA NotNone == ManagerConstants => (\A a \in Addrs : a # None) /\ (\A f \in Factories : f # None /\ f \in Nat)
BY DEF ManagerConstants, Factories

\* What the loop offers, and where a factory that exists belongs.
LEMMA UsedType ==
  ASSUME FactoriesInv
  PROVE  /\ loop.pc \in {"select", "down", "offer"}
         /\ loop.pc = "offer" => loop.factory \in Factories
         /\ \A f \in Factories : state[f] # "none" => addrOf[f] \in Addrs
         /\ \A a \in Addrs : factories[a] # None => factories[a] \in Factories
BY DEF FactoriesInv, TypeOK, UsedInv

\* The next factory comes after all others.
LEMMA FreshFactory ==
  ASSUME FactoriesInv, Used # Factories
  PROVE  /\ Fresh \in Factories /\ addrOf[Fresh] = None /\ state[Fresh] = "none"
         /\ \A g \in Factories : addrOf[g] # None => g < Fresh
         /\ \E n \in 0..MaxFactories : n + 1 \in 0..MaxFactories /\ Used = 1..n /\ Fresh = n + 1
<1>1. PICK n \in 0..MaxFactories : Used = 1..n
  BY DEF FactoriesInv, UsedInv
<1>2. n \in Nat /\ MaxFactories \in Nat /\ n + 1 \in Factories \ Used
  BY <1>1 DEF FactoriesInv, ManagerConstants, Factories
<1>3. \A g \in Factories \ Used : n + 1 <= g
  BY <1>1, <1>2 DEF Factories
<1>4. Fresh \in Factories \ Used /\ \A g \in Factories \ Used : Fresh <= g
  BY <1>2, <1>3 DEF Fresh
<1>5. Fresh = n + 1
  BY <1>2, <1>3, <1>4 DEF Factories
<1>6. \A g \in Used : g < n + 1
  BY <1>1, <1>2
<1> HIDE DEF Fresh
<1>7. addrOf[Fresh] = None /\ \A g \in Factories : addrOf[g] # None => g \in Used
  BY <1>4 DEF Used
<1> QED BY <1>1, <1>2, <1>4, <1>5, <1>6, <1>7 DEF FactoriesInv, UsedInv, Factories

\* A manager starts without factories.
LEMMA ManagerInit == ManagerConstants /\ Init => FactoriesInv
<1> SUFFICES ASSUME ManagerConstants, Init PROVE FactoriesInv
  OBVIOUS
<1>1. TypeOK
  BY Zenon DEF Init, TypeOK, Idle
<1>2. UsedInv
  <2>1. Used = 1..0 /\ 0 \in 0..MaxFactories
    BY DEF Init, Used, ManagerConstants
  <2> QED BY <2>1 DEF UsedInv, Init
<1>3. ActiveInv /\ PendingInv /\ MapInv
  BY DEF Init, Idle, ActiveInv, PendingInv, MapInv, Active
<1> QED BY <1>1, <1>2, <1>3 DEF FactoriesInv

\* Calls that wait, and their answers.
LEMMA QuietInv ==
  ASSUME FactoriesInv, UNCHANGED <<conn, addrOf, state, factories, pending, removing, loop>>,
         request' \in [Addrs -> {"no", "asked", "taken", "answered"}],
         \A a \in Addrs : request'[a] = "taken" <=> request[a] = "taken",
         listing' \in BOOLEAN, closing' \in BOOLEAN
  PROVE  FactoriesInv'
<1>1. TypeOK'
  BY DEF FactoriesInv, TypeOK
<1>2. UsedInv' /\ MapInv'
  BY DEF FactoriesInv, UsedInv, Used, MapInv
<1>3. PendingInv'
  BY DEF FactoriesInv, PendingInv
<1>4. ActiveInv'
  BY DEF FactoriesInv, ActiveInv, Active
<1> QED BY <1>1, <1>2, <1>3, <1>4 DEF FactoriesInv, ManagerConstants

\* A factory is created for an address without a connection, for a request or not.
LEMMA CreateInv ==
  ASSUME FactoriesInv, NEW a \in Addrs, createFactoryAsync(a), ~conn[a], loop.pc # "down",
         UNCHANGED <<factories, removing, loop, listing, closing>>,
         \/ UNCHANGED <<pending, request>>
         \/ /\ factories[a] = None /\ ~Offers(a)
            /\ pending' = pending \cup {a} /\ request' = [request EXCEPT ![a] = "taken"]
  PROVE  FactoriesInv'
<1> DEFINE n == Fresh
<1>1. /\ n \in Factories /\ addrOf[n] = None /\ state[n] = "none"
      /\ \A g \in Factories : addrOf[g] # None => g < n
      /\ \E m \in 0..MaxFactories : m + 1 \in 0..MaxFactories /\ Used = 1..m /\ n = m + 1
  BY FreshFactory DEF createFactoryAsync
<1>2. /\ conn' = [conn EXCEPT ![a] = TRUE]
      /\ addrOf' = [addrOf EXCEPT ![n] = a]
      /\ state' = [state EXCEPT ![n] = "creating"]
  BY DEF createFactoryAsync
<1> HIDE DEF n
<1>3. /\ \A f \in Factories : addrOf'[f] = IF f = n THEN a ELSE addrOf[f]
      /\ \A f \in Factories : state'[f] = IF f = n THEN "creating" ELSE state[f]
      /\ a # None /\ n # None
  BY <1>1, <1>2, NotNone DEF FactoriesInv, TypeOK
<1>4. \A b \in Addrs : conn'[b] <=> (b = a \/ conn[b])
  BY <1>2 DEF FactoriesInv, TypeOK
<1>5. TypeOK'
  <2>1. conn' \in [Addrs -> BOOLEAN]
    BY <1>2 DEF FactoriesInv, TypeOK
  <2>2. addrOf' \in [Factories -> Addrs \cup {None}]
    BY Zenon, <1>2 DEF FactoriesInv, TypeOK
  <2>3. state' \in [Factories -> {"none", "creating", "created", "failed", "gone", "live", "torn"}]
    BY Zenon, <1>2 DEF FactoriesInv, TypeOK
  <2>4. pending' \subseteq Addrs /\ request' \in [Addrs -> {"no", "asked", "taken", "answered"}]
    BY DEF FactoriesInv, TypeOK
  <2> QED BY <2>1, <2>2, <2>3, <2>4 DEF FactoriesInv, TypeOK
<1>6. UsedInv'
  <2>1. Used' = Used \cup {n}
    BY Zenon, <1>1, <1>3 DEF Used
  <2>2. PICK m \in 0..MaxFactories : m + 1 \in 0..MaxFactories /\ Used = 1..m /\ n = m + 1
    BY <1>1
  <2>3. Used' = 1..(m + 1)
    BY <2>1, <2>2
  <2>4. \E k \in 0..MaxFactories : Used' = 1..k
    BY <2>2, <2>3
  <2>5. \A f \in Factories : state'[f] = "none" <=> addrOf'[f] = None
    BY <1>3 DEF FactoriesInv, UsedInv
  <2> QED BY <2>4, <2>5 DEF UsedInv
<1>7. ActiveInv'
  <2>1. ASSUME NEW f \in Factories, Active(f)' PROVE conn'[addrOf'[f]]
    <3>1. CASE f = n
      BY <1>3, <1>4, <3>1
    <3>2. CASE f # n
      <4>1. Active(f) /\ addrOf'[f] = addrOf[f] /\ addrOf[f] \in Addrs
        BY <1>3, <2>1, <3>2, UsedType DEF Active
      <4> QED BY <1>4, <4>1 DEF FactoriesInv, ActiveInv
    <3> QED BY <3>1, <3>2
  <2>2. ASSUME NEW f \in Factories, NEW g \in Factories, f < g, addrOf'[f] # None, addrOf'[f] = addrOf'[g]
        PROVE  ~Active(f)'
    <3>1. f # n
      <4> SUFFICES ASSUME f = n PROVE FALSE
        OBVIOUS
      <4>1. g # n /\ addrOf[g] # None
        BY <1>1, <1>3, <2>2, NotNone DEF FactoriesInv
      <4> QED BY <1>1, <2>2, <4>1, NotNone DEF FactoriesInv
    <3>2. addrOf'[f] = addrOf[f] /\ (Active(f)' <=> Active(f))
      BY <1>3, <3>1 DEF Active
    <3>3. CASE g = n
      <4>1. addrOf[f] = a
        BY Zenon, <1>3, <2>2, <3>2, <3>3
      <4> QED BY <3>2, <4>1 DEF FactoriesInv, ActiveInv
    <3>4. CASE g # n
      BY Zenon, <1>3, <2>2, <3>2, <3>4 DEF FactoriesInv, ActiveInv
    <3> QED BY <3>3, <3>4
  <2> QED BY <2>1, <2>2 DEF ActiveInv
<1>8. PendingInv'
  <2>1. \A b \in Addrs : request'[b] = "taken" <=> b \in pending'
    BY DEF FactoriesInv, PendingInv, TypeOK
  <2>2. \A b \in pending' : factories[b] = None
    BY DEF FactoriesInv, PendingInv
  <2>3. loop.pc = "offer" => /\ addrOf'[loop.factory] \notin pending'
                             /\ state'[loop.factory] \in {"created", "failed"}
    <3> SUFFICES ASSUME loop.pc = "offer"
                 PROVE  /\ addrOf'[loop.factory] \notin pending'
                        /\ state'[loop.factory] \in {"created", "failed"}
      OBVIOUS
    <3>1. /\ loop.factory \in Factories /\ addrOf[loop.factory] \notin pending
          /\ state[loop.factory] \in {"created", "failed"}
      BY UsedType DEF FactoriesInv, PendingInv
    <3>2. addrOf'[loop.factory] = addrOf[loop.factory] /\ state'[loop.factory] = state[loop.factory]
      BY Zenon, <1>1, <1>3, <3>1
    <3> QED BY <3>1, <3>2 DEF Offers
  <2> QED BY <2>1, <2>2, <2>3 DEF PendingInv
<1>9. MapInv'
  <2>1. \A f \in Factories : state[f] \in {"live", "torn"} => state'[f] = state[f] /\ addrOf'[f] = addrOf[f]
    BY <1>1, <1>3
  <2>2. removing \subseteq Factories
    BY DEF FactoriesInv, TypeOK
  <2>3. \A b \in Addrs : factories[b] # None =>
          factories[b] \in Factories /\ state[factories[b]] \in {"live", "torn"}
    BY UsedType DEF FactoriesInv, MapInv
  <2>4. \A f \in Factories : state'[f] = "live" => state[f] = "live"
    BY <1>3
  <2> QED BY <2>1, <2>2, <2>3, <2>4 DEF FactoriesInv, MapInv
<1> QED BY <1>5, <1>6, <1>7, <1>8, <1>9 DEF FactoriesInv, ManagerConstants

\* Factories live their lives: none of them becomes active again.
LEMMA LifeInv ==
  ASSUME FactoriesInv, UNCHANGED addrOf,
         \A f \in Factories : state'[f] = "none" <=> state[f] = "none",
         \A f \in Factories : Active(f)' => Active(f),
         loop'.pc # "down" => loop.pc # "down",
         loop'.pc # "down" => \A f \in Factories : Active(f)' => conn'[addrOf[f]]
  PROVE  UsedInv' /\ ActiveInv'
<1>1. UsedInv'
  BY DEF FactoriesInv, UsedInv, Used
<1>2. ActiveInv'
  BY DEF FactoriesInv, ActiveInv
<1> QED BY <1>1, <1>2

\* The goroutine of createFactoryAsync ends, with a factory or without.
LEMMA FactoryCreatedInv ==
  ASSUME FactoriesInv, NEW f \in Factories, FactoryCreated(f)
  PROVE  FactoriesInv'
<1>1. PICK s \in {"created", "failed"} : state' = [state EXCEPT ![f] = s]
  BY DEF FactoryCreated
<1>2. /\ state[f] = "creating"
      /\ UNCHANGED <<conn, addrOf, factories, pending, request, removing, loop, listing, closing>>
  BY DEF FactoryCreated
<1>3. \A g \in Factories : state'[g] = IF g = f THEN s ELSE state[g]
  BY <1>1 DEF FactoriesInv, TypeOK
<1>4. TypeOK'
  BY <1>1, <1>2 DEF FactoriesInv, TypeOK
<1>5. UsedInv' /\ ActiveInv'
  <2>1. \A g \in Factories : Active(g)' => Active(g)
    BY <1>2, <1>3 DEF Active
  <2>2. loop.pc # "down" => \A g \in Factories : Active(g) => conn[addrOf[g]]
    BY DEF FactoriesInv, ActiveInv
  <2> QED BY <1>2, <1>3, <2>1, <2>2, LifeInv
<1>6. PendingInv'
  BY <1>2, <1>3, UsedType DEF FactoriesInv, PendingInv
<1>7. MapInv'
  <2>1. \A g \in Factories : state'[g] = "live" <=> state[g] = "live"
    BY <1>2, <1>3
  <2>2. \A g \in Factories : state[g] = "torn" => state'[g] = "torn"
    BY <1>2, <1>3
  <2>3. removing \subseteq Factories
    BY DEF FactoriesInv, TypeOK
  <2> QED BY <1>2, <2>1, <2>2, <2>3, UsedType DEF FactoriesInv, MapInv
<1> QED BY <1>4, <1>5, <1>6, <1>7 DEF FactoriesInv, ManagerConstants

\* A factory that was created goes to the map, in the place of one that has ended.
LEMMA addFactoryInv ==
  ASSUME FactoriesInv, NEW f \in Factories, addFactory(f), state[f] \in {"created", "failed"},
         loop.pc # "down", loop' = [pc |-> "select"],
         pending' = pending \ {addrOf[f]},
         request' \in [Addrs -> {"no", "asked", "taken", "answered"}],
         \A a \in Addrs : request'[a] = "taken" <=> a \in pending',
         UNCHANGED <<conn, addrOf, removing, listing, closing>>
  PROVE  FactoriesInv'
<1> DEFINE s == IF state[f] = "created" THEN "live" ELSE "gone"
           a == addrOf[f]
<1>1. /\ state' = [state EXCEPT ![f] = s]
      /\ factories' = IF state[f] = "created" THEN [factories EXCEPT ![a] = f] ELSE factories
  BY DEF addFactory
<1>2. a \in Addrs /\ f # None
  BY UsedType, NotNone DEF FactoriesInv
<1>3. \A g \in Factories : state'[g] = IF g = f THEN s ELSE state[g]
  BY <1>1 DEF FactoriesInv, TypeOK
<1>4. \A b \in Addrs : factories'[b] = IF b = a /\ state[f] = "created" THEN f ELSE factories[b]
  BY <1>1 DEF FactoriesInv, TypeOK
<1>5. TypeOK'
  BY <1>1, <1>2 DEF FactoriesInv, TypeOK
<1>6. UsedInv' /\ ActiveInv'
  <2>1. \A g \in Factories : Active(g)' => Active(g)
    BY <1>3 DEF Active
  <2>2. \A g \in Factories : Active(g) => conn[addrOf[g]]
    BY DEF FactoriesInv, ActiveInv
  <2> QED BY <1>3, <2>1, <2>2, LifeInv
<1>7. PendingInv'
  BY <1>2, <1>4 DEF FactoriesInv, PendingInv, TypeOK
<1>8. MapInv'
  <2>1. \A g \in Factories : state[g] \in {"live", "torn"} => state'[g] = state[g]
    BY <1>3
  <2>2. removing \subseteq Factories /\ \A g \in removing : state'[g] = "torn"
    BY <2>1 DEF FactoriesInv, TypeOK, MapInv
  <2>3. ASSUME NEW b \in Addrs, factories'[b] # None
        PROVE  addrOf[factories'[b]] = b /\ (state'[factories'[b]] = "live" \/ factories'[b] \in removing)
    <3>1. CASE b = a /\ state[f] = "created"
      BY <1>3, <1>4, <3>1
    <3>2. CASE ~(b = a /\ state[f] = "created")
      BY <1>4, <2>1, <2>3, <3>2, UsedType DEF FactoriesInv, MapInv
    <3> QED BY <3>1, <3>2
  <2>4. ASSUME NEW g \in Factories, state'[g] = "live"
        PROVE  \/ factories'[addrOf[g]] = g
               \/ \E h \in Factories : h < g /\ addrOf[h] = addrOf[g] /\ state'[h] = "torn"
    <3>1. CASE g = f
      BY <1>2, <1>3, <1>4, <2>4, <3>1
    <3>2. CASE g # f
      <4>1. state[g] = "live" /\ addrOf[g] \in Addrs
        BY <1>3, <2>4, <3>2, UsedType
      <4>2. CASE factories[addrOf[g]] = g
        <5>1. ~(addrOf[g] = a /\ state[f] = "created")
          BY <1>2, <3>2, <4>1, NotNone DEF FactoriesInv, ActiveInv, Active
        <5> QED BY <1>4, <4>1, <4>2, <5>1
      <4>3. CASE \E h \in Factories : h < g /\ addrOf[h] = addrOf[g] /\ state[h] = "torn"
        BY <2>1, <4>3
      <4> QED BY <4>1, <4>2, <4>3 DEF FactoriesInv, MapInv
    <3> QED BY <3>1, <3>2
  <2> QED BY <2>2, <2>3, <2>4 DEF MapInv
<1> QED BY <1>5, <1>6, <1>7, <1>8 DEF FactoriesInv, ManagerConstants

\* The loop hands a factory to whoever asked for it, or offers it.
LEMMA ResponseInv ==
  ASSUME FactoriesInv, NEW f \in Factories, handleNewFactoryResponse(f)
  PROVE  FactoriesInv'
<1>1. CASE addrOf[f] \in pending
  <2>1. /\ loop = [pc |-> "select"] /\ loop' = loop /\ state[f] \in {"created", "failed"}
        /\ addFactory(f) /\ pending' = pending \ {addrOf[f]}
        /\ request' = [request EXCEPT ![addrOf[f]] = "answered"]
        /\ UNCHANGED <<conn, addrOf, removing, listing, closing>>
    BY <1>1 DEF handleNewFactoryResponse, FactoriesInv, TypeOK
  <2>2. \A a \in Addrs : request'[a] = "taken" <=> a \in pending'
    BY <1>1, <2>1 DEF FactoriesInv, PendingInv, TypeOK
  <2>3. request' \in [Addrs -> {"no", "asked", "taken", "answered"}]
    BY Zenon, <2>1 DEF FactoriesInv, TypeOK
  <2> QED BY <2>1, <2>2, <2>3, addFactoryInv
<1>2. CASE addrOf[f] \notin pending
  <2>1. /\ loop' = [pc |-> "offer", factory |-> f] /\ loop.pc = "select"
        /\ state[f] \in {"created", "failed"}
        /\ UNCHANGED <<conn, addrOf, state, factories, pending, request, removing, listing, closing>>
    BY <1>2 DEF handleNewFactoryResponse
  <2>2. TypeOK'
    BY <2>1 DEF FactoriesInv, TypeOK
  <2>3. UsedInv' /\ ActiveInv'
    BY <2>1 DEF FactoriesInv, UsedInv, Used, ActiveInv, Active
  <2>4. PendingInv' /\ MapInv'
    BY <1>2, <2>1 DEF FactoriesInv, PendingInv, MapInv
  <2> QED BY <2>2, <2>3, <2>4 DEF FactoriesInv, ManagerConstants
<1> QED BY <1>1, <1>2

\* Somebody takes the factory that is offered.
LEMMA OfferedInv ==
  ASSUME FactoriesInv, AcceptFactory \/ \E a \in Addrs : GetOffered(a)
  PROVE  FactoriesInv'
<1> DEFINE f == loop.factory
<1>1. /\ loop.pc = "offer" /\ f \in Factories /\ state[f] \in {"created", "failed"}
      /\ addrOf[f] \notin pending /\ addFactory(f) /\ loop' = [pc |-> "select"]
      /\ pending' = pending \ {addrOf[f]} /\ UNCHANGED <<conn, addrOf, removing, listing, closing>>
  BY UsedType DEF AcceptFactory, GetOffered, Offers, FactoriesInv, PendingInv, Idle
<1>2. /\ request' \in [Addrs -> {"no", "asked", "taken", "answered"}]
      /\ \A a \in Addrs : request'[a] = "taken" <=> request[a] = "taken"
  BY DEF AcceptFactory, GetOffered, FactoriesInv, TypeOK
<1>3. \A a \in Addrs : request'[a] = "taken" <=> a \in pending'
  BY <1>1, <1>2 DEF FactoriesInv, PendingInv
<1> QED BY <1>1, <1>2, <1>3, addFactoryInv

\* A factory ends by itself: its address is free, for there is no other one.
LEMMA FactoryEndsInv ==
  ASSUME FactoriesInv, NEW f \in Factories, FactoryEnds(f)
  PROVE  FactoriesInv'
<1> DEFINE a == addrOf[f]
<1>1. /\ state[f] = "live" /\ state' = [state EXCEPT ![f] = "torn"]
      /\ conn' = [conn EXCEPT ![a] = FALSE]
      /\ removing' = IF loop.pc = "down" THEN removing ELSE removing \cup {f}
      /\ UNCHANGED <<addrOf, factories, pending, request, loop, listing, closing>>
  BY DEF FactoryEnds
<1>2. a \in Addrs /\ a # None
  BY <1>1, UsedType, NotNone DEF FactoriesInv
<1>3. /\ \A g \in Factories : state'[g] = IF g = f THEN "torn" ELSE state[g]
      /\ \A b \in Addrs : b # a => conn'[b] = conn[b]
  BY <1>1 DEF FactoriesInv, TypeOK
<1>4. TypeOK'
  <2>1. conn' \in [Addrs -> BOOLEAN]
    BY Zenon, <1>1 DEF FactoriesInv, TypeOK
  <2> QED BY <1>1, <2>1 DEF FactoriesInv, TypeOK
<1>5. UsedInv' /\ ActiveInv'
  <2>1. \A g \in Factories : Active(g)' => Active(g) /\ g # f
    BY <1>3 DEF Active
  <2>2. \A g \in Factories : Active(g)' => addrOf[g] \in Addrs /\ addrOf[g] # a
    BY <1>1, <1>2, <2>1, UsedType, NotNone DEF FactoriesInv, ActiveInv, Active
  <2>3. loop.pc # "down" => \A g \in Factories : Active(g)' => conn'[addrOf[g]]
    BY <1>3, <2>1, <2>2 DEF FactoriesInv, ActiveInv
  <2> QED BY <1>1, <1>3, <2>1, <2>3, LifeInv
<1>6. PendingInv'
  BY <1>1, <1>3, UsedType DEF FactoriesInv, PendingInv
<1>7. MapInv'
  <2>1. \A g \in Factories : state[g] = "torn" => state'[g] = "torn"
    BY <1>3
  <2>2. \A b \in Addrs : factories[b] # None =>
          /\ factories[b] \in Factories /\ addrOf[factories[b]] = b /\ loop.pc # "down"
          /\ state'[factories[b]] = "live" \/ factories[b] \in removing'
    BY <1>1, <1>3, UsedType DEF FactoriesInv, MapInv
  <2>3. \A g \in removing' : state'[g] = "torn"
    BY <1>1, <1>3, <2>1 DEF FactoriesInv, MapInv, TypeOK
  <2>4. \A g \in Factories : state'[g] = "live" => state[g] = "live"
    BY <1>3
  <2> QED BY <1>1, <2>1, <2>2, <2>3, <2>4 DEF FactoriesInv, MapInv
<1> QED BY <1>4, <1>5, <1>6, <1>7 DEF FactoriesInv, ManagerConstants

\* The loop deletes an address: a factory that runs and loses its place came after
\* the one that is removed.
LEMMA RemoveFactoryInv ==
  ASSUME FactoriesInv, NEW f \in Factories, RemoveFactory(f)
  PROVE  FactoriesInv'
<1> DEFINE a == addrOf[f]
<1>1. /\ f \in removing /\ loop.pc = "select" /\ state[f] = "torn"
      /\ factories' = [factories EXCEPT ![a] = None] /\ removing' = removing \ {f}
      /\ UNCHANGED <<conn, addrOf, state, pending, request, loop, listing, closing>>
  BY DEF RemoveFactory, FactoriesInv, MapInv
<1>2. a \in Addrs /\ a # None
  BY <1>1, UsedType, NotNone DEF FactoriesInv
<1>3. \A b \in Addrs : factories'[b] = IF b = a THEN None ELSE factories[b]
  BY <1>1 DEF FactoriesInv, TypeOK
<1>4. TypeOK'
  BY Zenon, <1>1 DEF FactoriesInv, TypeOK
<1>5. UsedInv' /\ ActiveInv'
  BY <1>1 DEF FactoriesInv, UsedInv, Used, ActiveInv, Active
<1>6. PendingInv'
  BY <1>1, <1>3 DEF FactoriesInv, PendingInv, TypeOK
<1>7. MapInv'
  <2>1. \A b \in Addrs : factories'[b] # None =>
          /\ addrOf[factories'[b]] = b
          /\ state[factories'[b]] = "live" \/ factories'[b] \in removing'
    BY <1>1, <1>3 DEF FactoriesInv, MapInv
  <2>2. ASSUME NEW g \in Factories, state[g] = "live"
        PROVE  \/ factories'[addrOf[g]] = g
               \/ \E h \in Factories : h < g /\ addrOf[h] = addrOf[g] /\ state[h] = "torn"
    <3>1. CASE addrOf[g] = a
      <4>1. ~(g < f) /\ g # f
        BY <1>1, <1>2, <2>2, <3>1 DEF FactoriesInv, ActiveInv, Active
      <4>2. f < g
        BY <4>1, NotNone DEF FactoriesInv
      <4> QED BY <1>1, <3>1, <4>2
    <3>2. CASE addrOf[g] # a
      BY <1>3, <2>2, <3>2, UsedType DEF FactoriesInv, MapInv
    <3> QED BY <3>1, <3>2
  <2> QED BY <1>1, <2>1, <2>2 DEF FactoriesInv, MapInv
<1> QED BY <1>4, <1>5, <1>6, <1>7 DEF FactoriesInv, ManagerConstants

\* The end of the loop closes what it has, and answers every request.
LEMMA LoopEndsInv ==
  ASSUME FactoriesInv, LoopEnds, loop.pc # "down"
  PROVE  FactoriesInv'
<1> DEFINE listed == {factories[a] : a \in Addrs} \cap Factories
           offered == IF loop.pc = "offer" /\ state[loop.factory] = "created" THEN {loop.factory} ELSE {}
           ends == listed \cup offered
<1>1. /\ loop' = [pc |-> "down"] /\ loop'.pc = "down"
      /\ state' = [f \in Factories |-> IF f \in ends THEN "torn" ELSE state[f]]
      /\ factories' = [a \in Addrs |-> None]
      /\ request' = [a \in Addrs |-> IF a \in pending THEN "answered" ELSE request[a]]
      /\ pending' = {} /\ removing' = {} /\ conn' = [a \in Addrs |-> FALSE]
      /\ UNCHANGED <<addrOf, listing, closing>>
  BY DEF LoopEnds
<1>2. \A f \in Factories : f \in ends => state[f] \in {"live", "torn", "created"}
  BY NotNone DEF FactoriesInv, MapInv
<1>3. \A f \in Factories : f \notin ends => ~\E a \in Addrs : factories[a] = f
  OBVIOUS
<1> HIDE DEF ends
<1>4. TypeOK'
  <2>1. conn' \in [Addrs -> BOOLEAN]
    BY <1>1
  <2>2. request' \in [Addrs -> {"no", "asked", "taken", "answered"}]
    BY <1>1 DEF FactoriesInv, TypeOK
  <2> QED BY <1>1, <2>1, <2>2 DEF FactoriesInv, TypeOK
<1>5. UsedInv' /\ ActiveInv'
  BY <1>1, <1>2, LifeInv DEF Active
<1>6. PendingInv'
  BY <1>1 DEF FactoriesInv, PendingInv
<1>7. MapInv'
  <2>1. ASSUME NEW f \in Factories, state'[f] = "live"
        PROVE  \E g \in Factories : g < f /\ addrOf[g] = addrOf[f] /\ state'[g] = "torn"
    <3>1. state[f] = "live" /\ f \notin ends /\ addrOf[f] \in Addrs
      BY <1>1, <2>1, UsedType
    <3>2. factories[addrOf[f]] # f
      BY <1>3, <3>1
    <3>3. PICK g \in Factories : g < f /\ addrOf[g] = addrOf[f] /\ state[g] = "torn"
      BY <3>1, <3>2 DEF FactoriesInv, MapInv
    <3> QED BY <1>1, <3>3
  <2> QED BY <1>1, <2>1 DEF MapInv
<1> QED BY <1>4, <1>5, <1>6, <1>7 DEF FactoriesInv, ManagerConstants

\* A factory that was created after the end is closed.
LEMMA CloseCreatedInv ==
  ASSUME FactoriesInv, NEW f \in Factories, CloseCreated(f)
  PROVE  FactoriesInv'
<1>1. /\ loop.pc = "down" /\ state[f] = "created" /\ state' = [state EXCEPT ![f] = "torn"]
      /\ UNCHANGED <<conn, addrOf, factories, pending, request, removing, loop, listing, closing>>
  BY DEF CloseCreated
<1>2. \A g \in Factories : state'[g] = IF g = f THEN "torn" ELSE state[g]
  BY <1>1 DEF FactoriesInv, TypeOK
<1>3. TypeOK'
  BY <1>1 DEF FactoriesInv, TypeOK
<1>4. UsedInv' /\ ActiveInv'
  BY <1>1, <1>2, LifeInv DEF Active
<1>5. PendingInv' /\ MapInv'
  BY <1>1, <1>2 DEF FactoriesInv, PendingInv, MapInv, TypeOK
<1> QED BY <1>3, <1>4, <1>5 DEF FactoriesInv, ManagerConstants

\* No step of the manager, of a factory or of a user breaks the invariant.
LEMMA ManagerStep == FactoriesInv /\ [Next]_vars => FactoriesInv'
<1> SUFFICES ASSUME FactoriesInv, [Next]_vars PROVE FactoriesInv'
  OBVIOUS
<1>1. CASE CallFactories \/ ListFactories \/ Close
  BY Zenon, <1>1, QuietInv DEF CallFactories, ListFactories, Close, FactoriesInv, TypeOK
<1>2. CASE TearDown \/ MuxClosed
  BY <1>2, LoopEndsInv DEF TearDown, MuxClosed
<1>3. ASSUME NEW a \in Addrs, handleConn(a) PROVE FactoriesInv'
  BY <1>3, CreateInv DEF handleConn
<1>4. ASSUME NEW a \in Addrs, GetFactory(a) \/ GetFactoryFails(a) PROVE FactoriesInv'
  <2>1. /\ request' \in [Addrs -> {"no", "asked", "taken", "answered"}]
        /\ \A b \in Addrs : request'[b] = "taken" <=> request[b] = "taken"
    BY <1>4 DEF GetFactory, GetFactoryFails, FactoriesInv, TypeOK
  <2> QED BY <1>4, <2>1, QuietInv DEF GetFactory, GetFactoryFails, FactoriesInv, TypeOK
<1>5. ASSUME NEW a \in Addrs, handleNewFactoryRequest(a) PROVE FactoriesInv'
  <2>1. CASE factories[a] # None \/ a \in pending \/ conn[a] \/ Used = Factories
    <3>1. /\ request' \in [Addrs -> {"no", "asked", "taken", "answered"}]
          /\ \A b \in Addrs : request'[b] = "taken" <=> request[b] = "taken"
      BY <1>5, <2>1 DEF handleNewFactoryRequest, FactoriesInv, TypeOK
    <3> QED BY <1>5, <2>1, <3>1, QuietInv DEF handleNewFactoryRequest, FactoriesInv, TypeOK
  <2>2. CASE ~(factories[a] # None \/ a \in pending \/ conn[a] \/ Used = Factories)
    BY <1>5, <2>2, CreateInv DEF handleNewFactoryRequest
  <2> QED BY <2>1, <2>2
<1>6. ASSUME NEW f \in Factories,
             FactoryCreated(f) \/ handleNewFactoryResponse(f) \/ FactoryEnds(f) \/ RemoveFactory(f) \/ CloseCreated(f)
      PROVE  FactoriesInv'
  BY <1>6, FactoryCreatedInv, ResponseInv, FactoryEndsInv, RemoveFactoryInv, CloseCreatedInv
<1>7. CASE UNCHANGED vars
  BY <1>7, QuietInv DEF vars, FactoriesInv, TypeOK
<1> QED BY <1>1, <1>2, <1>3, <1>4, <1>5, <1>6, <1>7, OfferedInv DEF Next

\* However two nodes call each other, and while old factories are being removed, no
\* address has two factories that are created or run, and every request that
\* handleNewFactoryRequest took is pending until it is answered.
THEOREM OneFactory == ManagerConstants /\ Spec => []OneFactoryPerAddress
<1>1. FactoriesInv => OneFactoryPerAddress
  <2> SUFFICES ASSUME FactoriesInv PROVE OneFactoryPerAddress
    OBVIOUS
  <2>1. OneLivePerAddress
    BY NotNone DEF FactoriesInv, ActiveInv, Active, OneLivePerAddress
  <2>2. TakenIsPending
    BY DEF FactoriesInv, PendingInv, TakenIsPending
  <2> QED BY <2>1, <2>2 DEF FactoriesInv, OneFactoryPerAddress
<1> QED BY <1>1, ManagerInit, ManagerStep, PTL DEF Spec

\* A factory that ended is removed from the map, and when the manager has ended,
\* the only factories that run are those that RemoveFactory took from the map with
\* their predecessor, because it goes by address.
THEOREM NoFactoryLeft == ManagerConstants /\ Spec => []FactoriesEnd
<1>1. FactoriesInv => FactoriesEnd
  <2> SUFFICES ASSUME FactoriesInv PROVE FactoriesEnd
    OBVIOUS
  <2>1. TornIsRemoved
    BY DEF FactoriesInv, MapInv, TornIsRemoved
  <2>2. ClosedWithManager
    BY DEF FactoriesInv, MapInv, ClosedWithManager
  <2> QED BY <2>1, <2>2 DEF FactoriesEnd
<1> QED BY <1>1, ManagerInit, ManagerStep, PTL DEF Spec
=============================================================================
