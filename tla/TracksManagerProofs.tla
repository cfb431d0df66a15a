------------------------ MODULE TracksManagerProofs ------------------------
(* The peer managers of the rooms, for any number of rooms, clients and        *)
(* transports, and for clients that come back at any time.                     *)
EXTENDS TracksManager, TLAPS

Live(tr) == stage[tr] \in {"open", "closed"}
Closed(m) == closing[m] > 0 \/ eventsChan[m] # "open"

\* The managers that rooms have and that transports captured were created.
CapturedInv ==
  /\ \A r \in Rooms : peerManagers[r] # None => peerManagers[r] \in 1..created
  /\ \A tr \in Transports : Live(tr) => managerOf[tr] \in 1..created

\* An open transport was not replaced, and a transport in a manager has captured it
\* and is in the room that the manager is registered with.
MemberInv ==
  /\ \A tr \in Transports : stage[tr] = "open" => transports[managerOf[tr]][ClientOf[tr]] = tr
  /\ \A m \in Managers, c \in Clients :
       LET tr == transports[m][c]
       IN tr # None => /\ Live(tr) /\ managerOf[tr] = m /\ ClientOf[tr] = c
                       /\ peerManagers[RoomOf[tr]] = m

\* Every room has a manager of its own, which is not empty.
RoomInv ==
  /\ \A r \in Rooms : peerManagers[r] # None => Size(peerManagers[r]) # {}
  /\ \A r, s \in Rooms : peerManagers[r] # None /\ peerManagers[r] = peerManagers[s] => r = s

\* A manager was closed exactly when it has left its room. This is why a Done
\* goroutine that finds a manager empty for the second time closes it again.
CloseInv ==
  \A m \in Managers : Closed(m) <=> m \in 1..created /\ \A r \in Rooms : peerManagers[r] # m

ManagerInv == TypeOK /\ CapturedInv /\ (ClosedAgain \/ (MemberInv /\ RoomInv /\ CloseInv))

-----------------------------------------------------------------------------
\* There is no manager in the beginning.
LEMMA InitInv == Init => ManagerInv
<1> SUFFICES ASSUME Init PROVE ManagerInv
  OBVIOUS
<1>1. TypeOK /\ CapturedInv
  BY TracksAssumption DEF Init, TypeOK, CapturedInv, Live, Managers
<1>2. MemberInv /\ RoomInv
  BY TracksAssumption DEF Init, MemberInv, RoomInv, Live, Managers
<1>3. CloseInv
  BY DEF Init, CloseInv, Closed, Managers
<1> QED BY <1>1, <1>2, <1>3 DEF ManagerInv

\* What was closed again stays so.
LEMMA StaysClosed ==
  ASSUME TypeOK, Next, ClosedAgain
  PROVE  ClosedAgain'
<1>1. PICK m \in Managers :
        closing[m] > 1 \/ (closing[m] = 1 /\ eventsChan[m] # "open") \/ eventsChan[m] = "panic"
  BY DEF ClosedAgain
<1>2. closing[m] \in Nat /\ eventsChan[m] \in {"open", "closed", "panic"}
  BY DEF TypeOK
<1>3. ASSUME NEW tr \in Transports, Add(tr) \/ CloseTransport(tr) \/ Done(tr) PROVE ClosedAgain'
  <2>1. eventsChan'[m] = eventsChan[m]
    BY <1>3 DEF Add, CloseTransport, Done
  <2>2. closing'[m] \in {closing[m], closing[m] + 1}
    BY <1>3 DEF Add, CloseTransport, Done, TypeOK
  <2> QED BY <1>1, <1>2, <2>1, <2>2 DEF ClosedAgain
<1>4. ASSUME NEW n \in Managers, ClosePubSub(n) PROVE ClosedAgain'
  <2>1. CASE n # m
    <3>1. closing'[m] = closing[m] /\ eventsChan'[m] = eventsChan[m]
      BY <1>4, <2>1 DEF ClosePubSub, TypeOK
    <3> QED BY <1>1, <3>1 DEF ClosedAgain
  <2>2. CASE n = m
    <3>1. /\ closing[m] > 0 /\ closing'[m] = closing[m] - 1
          /\ eventsChan'[m] = IF eventsChan[m] = "open" THEN "closed" ELSE "panic"
      BY <1>4, <2>2 DEF ClosePubSub, TypeOK
    <3>2. CASE eventsChan[m] = "open"
      BY <1>1, <1>2, <3>1, <3>2 DEF ClosedAgain
    <3>3. CASE eventsChan[m] # "open"
      BY <3>1, <3>3 DEF ClosedAgain
    <3> QED BY <3>2, <3>3
  <2> QED BY <2>1, <2>2
<1> QED BY <1>3, <1>4 DEF Next

\* Every step keeps the types, and captures a manager that was created.
LEMMA TypeStep ==
  ASSUME TypeOK, CapturedInv, Next
  PROVE  TypeOK' /\ CapturedInv'
<1>1. ASSUME NEW tr \in Transports, Add(tr) PROVE TypeOK' /\ CapturedInv'
  <2> DEFINE r == RoomOf[tr]
             isNew == peerManagers[r] = None
             m == IF isNew THEN created + 1 ELSE peerManagers[r]
  <2>1. /\ r \in Rooms /\ ClientOf[tr] \in Clients /\ m \in Managers /\ MaxManagers \in Nat
        /\ created' = IF isNew THEN m ELSE created
    BY Zenon, <1>1, TracksAssumption DEF Add
  <2>2. created' \in 0..MaxManagers /\ created \in Nat /\ created <= created' /\ m \in 1..created'
    BY <2>1 DEF Managers, CapturedInv, TypeOK
  <2>3. TypeOK'
    BY <1>1, <2>1, <2>2 DEF Add, TypeOK
  <2>4. /\ managerOf'[tr] = m
        /\ \A u \in Transports \ {tr} : managerOf'[u] = managerOf[u] /\ (Live(u)' => Live(u))
    BY <1>1 DEF Add, TypeOK, Live
  <2>5. \A s \in Rooms : peerManagers'[s] = IF s = r THEN m ELSE peerManagers[s]
    BY <1>1 DEF Add, TypeOK
  <2> HIDE DEF m
  <2>6. CapturedInv'
    BY <2>2, <2>4, <2>5 DEF CapturedInv
  <2> QED BY <2>3, <2>6
<1>2. ASSUME NEW tr \in Transports, CloseTransport(tr) PROVE TypeOK' /\ CapturedInv'
  <2>1. TypeOK'
    BY <1>2 DEF CloseTransport, TypeOK
  <2>2. UNCHANGED <<created, peerManagers, managerOf>> /\ \A u \in Transports : Live(u)' => Live(u)
    BY <1>2 DEF CloseTransport, TypeOK, Live
  <2>3. CapturedInv'
    BY <2>2 DEF CapturedInv
  <2> QED BY <2>1, <2>3
<1>3. ASSUME NEW tr \in Transports, Done(tr) PROVE TypeOK' /\ CapturedInv'
  <2> DEFINE m == managerOf[tr]
  <2>1. m \in Managers /\ ClientOf[tr] \in Clients /\ RoomOf[tr] \in Rooms
    <3>1. stage[tr] = "closed" /\ ClientOf[tr] \in Clients /\ RoomOf[tr] \in Rooms
      BY <1>3, TracksAssumption DEF Done
    <3>2. m \in 1..created /\ created \in 0..MaxManagers /\ MaxManagers \in Nat
      BY <3>1, TracksAssumption DEF CapturedInv, Live, TypeOK
    <3> QED BY <3>1, <3>2 DEF Managers
  <2>2. /\ UNCHANGED <<created, managerOf, eventsChan>>
        /\ stage' = [stage EXCEPT ![tr] = "gone"]
        /\ \/ UNCHANGED transports
           \/ transports' = [transports EXCEPT ![m][ClientOf[tr]] = None]
        /\ \/ UNCHANGED <<peerManagers, closing>>
           \/ /\ peerManagers' = [peerManagers EXCEPT ![RoomOf[tr]] = None]
              /\ closing' = [closing EXCEPT ![m] = @ + 1]
    BY <1>3 DEF Done
  <2> HIDE DEF m
  <2>3. /\ peerManagers' \in [Rooms -> Managers \cup {None}]
        /\ stage' \in [Transports -> {"new", "open", "closed", "gone"}]
    BY <2>2 DEF TypeOK
  <2>4. transports' \in [Managers -> [Clients -> Transports \cup {None}]]
    <3>1. CASE UNCHANGED transports
      BY <3>1 DEF TypeOK
    <3>2. CASE transports' = [transports EXCEPT ![m][ClientOf[tr]] = None]
      BY <2>1, <3>2 DEF TypeOK
    <3> QED BY <2>2, <3>1, <3>2
  <2>5. closing' \in [Managers -> Nat]
    BY <2>1, <2>2 DEF TypeOK
  <2>6. TypeOK'
    BY <2>2, <2>3, <2>4, <2>5 DEF TypeOK
  <2>7. /\ \A u \in Transports : Live(u)' => Live(u)
        /\ \A s \in Rooms : peerManagers'[s] \in {peerManagers[s], None}
    BY <2>2 DEF TypeOK, Live
  <2>8. CapturedInv'
    BY <2>2, <2>7 DEF CapturedInv
  <2> QED BY <2>6, <2>8
<1>4. ASSUME NEW m \in Managers, ClosePubSub(m) PROVE TypeOK' /\ CapturedInv'
  BY <1>4 DEF ClosePubSub, TypeOK, CapturedInv, Live
<1> QED BY <1>1, <1>2, <1>3, <1>4 DEF Next

-----------------------------------------------------------------------------
(* The steps, as long as no manager was closed again                          *)

\* The first transport of a room gets a new manager, the others join it; one of the
\* same client is replaced.
LEMMA AddInv ==
  ASSUME TypeOK, CapturedInv, MemberInv, RoomInv, CloseInv, NEW tr \in Transports, Add(tr)
  PROVE  MemberInv' /\ RoomInv' /\ CloseInv'
<1> DEFINE r == RoomOf[tr]
           c == ClientOf[tr]
           isNew == peerManagers[r] = None
           m == IF isNew THEN created + 1 ELSE peerManagers[r]
           existing == transports[m][c]
<1>0. /\ r \in Rooms /\ c \in Clients /\ m \in Managers /\ stage[tr] = "new"
      /\ created' = (IF isNew THEN m ELSE created)
  BY Zenon, TracksAssumption DEF Add
<1>1. /\ r \in Rooms /\ c \in Clients /\ m \in Managers /\ stage[tr] = "new" /\ MaxManagers \in Nat
      /\ created \in 0..MaxManagers /\ created' = (IF isNew THEN m ELSE created) /\ tr # None
  BY <1>0, TracksAssumption DEF TypeOK
<1>2. m \in 1..created' /\ created' \in Nat /\ created <= created' /\ m \in Nat /\ m # None
  BY <1>1, TracksAssumption DEF Managers, CapturedInv
<1>3. managerOf'[tr] = m /\ \A u \in Transports \ {tr} : managerOf'[u] = managerOf[u]
  BY DEF Add, TypeOK
<1>4. \A s \in Rooms : peerManagers'[s] = IF s = r THEN m ELSE peerManagers[s]
  BY DEF Add, TypeOK
<1>5. \A n \in Managers, d \in Clients :
        transports'[n][d] = IF n = m /\ d = c THEN tr ELSE transports[n][d]
  BY <1>1 DEF Add, TypeOK
<1>6. /\ stage'[tr] = "open"
      /\ \A u \in Transports \ {tr} : /\ Live(u)' = Live(u)
                                      /\ stage'[u] = "open" => stage[u] = "open" /\ u # existing
      /\ UNCHANGED <<closing, eventsChan>>
  BY DEF Add, TypeOK, Live
<1>7. (isNew => m = created + 1) /\ (~isNew => m = peerManagers[r])
  OBVIOUS
<1>8. isNew => (\A s \in Rooms : peerManagers[s] # m) /\ \A d \in Clients : transports[m][d] = None
  BY <1>1, <1>2, <1>7, TracksAssumption DEF CapturedInv, MemberInv, TypeOK
<1> HIDE DEF m
<1>9. MemberInv'
  <2>1. ASSUME NEW u \in Transports, stage'[u] = "open"
        PROVE  transports'[managerOf'[u]][ClientOf[u]] = u
    <3>1. CASE u = tr
      BY <1>1, <1>3, <1>5, <3>1
    <3>2. CASE u # tr
      <4>1. stage[u] = "open" /\ u # existing /\ managerOf'[u] = managerOf[u]
        BY <1>3, <1>6, <2>1, <3>2
      <4>2. /\ transports[managerOf[u]][ClientOf[u]] = u /\ managerOf[u] \in 1..created
            /\ ClientOf[u] \in Clients
        BY <4>1, TracksAssumption DEF MemberInv, CapturedInv, Live
      <4>3. managerOf[u] \in Managers
        BY <1>1, <4>2 DEF Managers
      <4> QED BY <1>5, <4>1, <4>2, <4>3
    <3> QED BY <3>1, <3>2
  <2>2. ASSUME NEW n \in Managers, NEW d \in Clients, transports'[n][d] # None
        PROVE  /\ Live(transports[n][d])' /\ managerOf'[transports'[n][d]] = n
               /\ ClientOf[transports'[n][d]] = d /\ peerManagers'[RoomOf[transports'[n][d]]] = n
    <3>1. CASE n = m /\ d = c
      BY <1>1, <1>3, <1>4, <1>5, <1>6, <3>1 DEF Live
    <3>2. CASE ~(n = m /\ d = c)
      <4> DEFINE u == transports[n][d]
      <4>1. transports'[n][d] = u /\ u # None /\ u \in Transports
        BY <1>5, <2>2, <3>2 DEF TypeOK
      <4>2. Live(u) /\ managerOf[u] = n /\ ClientOf[u] = d /\ peerManagers[RoomOf[u]] = n
        BY <4>1 DEF MemberInv
      <4>3. u # tr /\ RoomOf[u] \in Rooms
        BY <1>1, <4>1, <4>2, TracksAssumption DEF Live
      <4>4. Live(u)' /\ managerOf'[u] = n
        BY <1>3, <1>6, <4>1, <4>2, <4>3
      <4>5. peerManagers'[RoomOf[u]] = n
        BY <1>4, <1>7, <4>2, <4>3, TracksAssumption DEF Managers
      <4>6. Live(transports[n][d])'
        BY <4>1, <4>4 DEF Live
      <4> QED BY <4>1, <4>2, <4>4, <4>5, <4>6
    <3> QED BY <3>1, <3>2
  <2> QED BY <2>1, <2>2 DEF MemberInv
<1>10. RoomInv'
  <2>1. ASSUME NEW s \in Rooms, peerManagers'[s] # None PROVE Size(peerManagers[s])' # {}
    <3>1. CASE s = r
      BY <1>1, <1>4, <1>5, <3>1 DEF Size
    <3>2. CASE s # r
      <4> DEFINE n == peerManagers[s]
      <4>1. peerManagers'[s] = n /\ n # None /\ n \in Managers
        BY <1>4, <2>1, <3>2 DEF TypeOK
      <4>2. PICK d \in Clients : transports[n][d] # None
        BY <4>1 DEF RoomInv, Size
      <4>3. transports'[n][d] # None
        BY <1>1, <1>5, <4>1, <4>2
      <4> QED BY <4>1, <4>3 DEF Size
    <3> QED BY <3>1, <3>2
  <2>2. ASSUME NEW s \in Rooms, NEW q \in Rooms, peerManagers'[s] # None, peerManagers'[s] = peerManagers'[q]
        PROVE  s = q
    BY <1>1, <1>4, <1>7, <1>8, <2>2 DEF RoomInv
  <2> QED BY <2>1, <2>2 DEF RoomInv
<1>11. CloseInv'
  <2> SUFFICES ASSUME NEW n \in Managers
               PROVE  Closed(n)' <=> n \in 1..created' /\ \A s \in Rooms : peerManagers'[s] # n
    BY DEF CloseInv
  <2>1. Closed(n)' <=> Closed(n)
    BY <1>6 DEF Closed
  <2>2. Closed(n) <=> n \in 1..created /\ \A s \in Rooms : peerManagers[s] # n
    BY DEF CloseInv
  <2>3. CASE n = m
    <3>1. ~Closed(n)
      BY <1>1, <1>2, <1>7, <2>2, <2>3
    <3> QED BY <1>1, <1>4, <2>1, <2>3, <3>1
  <2>4. CASE n # m
    <3>1. n \in 1..created' <=> n \in 1..created
      BY <1>1, <1>2, <1>7, <2>4 DEF Managers
    <3>2. (\A s \in Rooms : peerManagers'[s] # n) <=> \A s \in Rooms : peerManagers[s] # n
      BY <1>1, <1>4, <1>7, <2>4, TracksAssumption DEF Managers
    <3> QED BY <2>1, <2>2, <3>1, <3>2
  <2> QED BY <2>3, <2>4
<1> QED BY <1>9, <1>10, <1>11

\* A transport that closes stays where it is until its Done is handled.
LEMMA CloseTransportInv ==
  ASSUME TypeOK, MemberInv, RoomInv, CloseInv, NEW tr \in Transports, CloseTransport(tr)
  PROVE  MemberInv' /\ RoomInv' /\ CloseInv'
<1>1. \A u \in Transports : Live(u)' = Live(u) /\ (stage'[u] = "open" => stage[u] = "open")
  BY DEF CloseTransport, TypeOK, Live
<1>2. UNCHANGED <<peerManagers, created, transports, managerOf, closing, eventsChan>>
  BY DEF CloseTransport
<1>3. \A m \in Managers, c \in Clients : transports[m][c] # None => transports[m][c] \in Transports
  BY DEF TypeOK
<1>4. MemberInv'
  BY <1>1, <1>2, <1>3 DEF MemberInv
<1> QED BY <1>2, <1>4 DEF RoomInv, CloseInv, Size, Closed

\* The Done goroutine of a transport that its manager still has: when it was the last
\* one, the manager leaves the room and is closed for the first time.
LEMMA DoneRegisteredInv ==
  ASSUME TypeOK, CapturedInv, MemberInv, RoomInv, CloseInv, NEW tr \in Transports, Done(tr),
         transports[managerOf[tr]][ClientOf[tr]] = tr
  PROVE  MemberInv' /\ RoomInv' /\ CloseInv'
<1> DEFINE r == RoomOf[tr]
           c == ClientOf[tr]
           m == managerOf[tr]
           empty == Size(m) \ {c} = {}
<1>1. stage[tr] = "closed" /\ r \in Rooms /\ c \in Clients /\ tr # None
  BY TracksAssumption DEF Done
<1>2. m \in 1..created /\ created \in 0..MaxManagers /\ MaxManagers \in Nat
  BY <1>1, TracksAssumption DEF CapturedInv, Live, TypeOK
<1>3. m \in Managers /\ m # None
  BY <1>2, TracksAssumption DEF Managers
<1>4. peerManagers[r] = m
  BY <1>1, <1>3 DEF MemberInv
<1>5. /\ UNCHANGED <<created, managerOf, eventsChan>>
      /\ stage' = [stage EXCEPT ![tr] = "gone"]
      /\ transports' = [transports EXCEPT ![m][c] = None]
      /\ peerManagers' = IF empty THEN [peerManagers EXCEPT ![r] = None] ELSE peerManagers
      /\ closing' = IF empty THEN [closing EXCEPT ![m] = @ + 1] ELSE closing
  BY DEF Done
<1>6. \A u \in Transports : /\ Live(u)' <=> u # tr /\ Live(u)
                            /\ stage'[u] = "open" => u # tr /\ stage[u] = "open"
  BY <1>5 DEF Live, TypeOK
<1>7. \A n \in Managers, d \in Clients :
        transports'[n][d] = IF n = m /\ d = c THEN None ELSE transports[n][d]
  BY <1>1, <1>3, <1>5 DEF TypeOK
<1>8. \A s \in Rooms : peerManagers'[s] = IF empty /\ s = r THEN None ELSE peerManagers[s]
  BY <1>5 DEF TypeOK
<1>9. \A s \in Rooms : peerManagers[s] = m => s = r
  BY <1>1, <1>3, <1>4 DEF RoomInv
<1>10. empty <=> \A d \in Clients : d # c => transports[m][d] = None
  BY DEF Size
<1> HIDE DEF empty
<1>11. MemberInv'
  <2>1. ASSUME NEW u \in Transports, stage'[u] = "open"
        PROVE  transports'[managerOf'[u]][ClientOf[u]] = u
    <3>1. stage[u] = "open" /\ u # tr /\ managerOf'[u] = managerOf[u]
      BY <1>5, <1>6, <2>1
    <3>2. /\ transports[managerOf[u]][ClientOf[u]] = u /\ managerOf[u] \in 1..created
          /\ ClientOf[u] \in Clients
      BY <3>1, TracksAssumption DEF MemberInv, CapturedInv, Live
    <3>3. managerOf[u] \in Managers
      BY <1>2, <3>2 DEF Managers
    <3>4. ~(managerOf[u] = m /\ ClientOf[u] = c)
      BY <3>1, <3>2
    <3> QED BY <1>7, <3>1, <3>2, <3>3, <3>4
  <2>2. ASSUME NEW n \in Managers, NEW d \in Clients, transports'[n][d] # None
        PROVE  /\ Live(transports[n][d])' /\ managerOf'[transports'[n][d]] = n
               /\ ClientOf[transports'[n][d]] = d /\ peerManagers'[RoomOf[transports'[n][d]]] = n
    <3> DEFINE u == transports[n][d]
    <3>1. transports'[n][d] = u /\ ~(n = m /\ d = c) /\ u # None /\ u \in Transports
      BY <1>7, <2>2 DEF TypeOK
    <3>2. /\ Live(u) /\ managerOf[u] = n /\ ClientOf[u] = d /\ peerManagers[RoomOf[u]] = n
          /\ RoomOf[u] \in Rooms
      BY <3>1, TracksAssumption DEF MemberInv
    <3>3. u # tr
      BY <3>1, <3>2
    <3>4. Live(u)'
      BY <1>6, <3>1, <3>2, <3>3
    <3>5. Live(transports[n][d])'
      BY <3>1, <3>4 DEF Live
    <3>6. RoomOf[u] = r => ~empty
      BY <1>4, <1>10, <3>1, <3>2
    <3>7. peerManagers'[RoomOf[u]] = n
      BY <1>8, <3>2, <3>6
    <3> QED BY <1>5, <3>1, <3>2, <3>5, <3>7
  <2> QED BY <2>1, <2>2 DEF MemberInv
<1>12. RoomInv'
  <2>1. ASSUME NEW s \in Rooms, peerManagers'[s] # None PROVE Size(peerManagers[s])' # {}
    <3> DEFINE n == peerManagers[s]
    <3>1. peerManagers'[s] = n /\ n # None /\ n \in Managers /\ ~(empty /\ s = r)
      BY <1>8, <2>1 DEF TypeOK
    <3>2. PICK d \in Clients : transports[n][d] # None
      BY <3>1 DEF RoomInv, Size
    <3>3. \E e \in Clients : transports'[n][e] # None
      BY <1>4, <1>7, <1>9, <1>10, <3>1, <3>2
    <3> QED BY <3>1, <3>3 DEF Size
  <2>2. ASSUME NEW s \in Rooms, NEW q \in Rooms, peerManagers'[s] # None, peerManagers'[s] = peerManagers'[q]
        PROVE  s = q
    BY <1>8, <2>2 DEF RoomInv
  <2> QED BY <2>1, <2>2 DEF RoomInv
<1>13. CloseInv'
  <2> SUFFICES ASSUME NEW n \in Managers
               PROVE  Closed(n)' <=> n \in 1..created' /\ \A s \in Rooms : peerManagers'[s] # n
    BY DEF CloseInv
  <2>1. closing'[n] = (IF empty /\ n = m THEN closing[n] + 1 ELSE closing[n]) /\ closing[n] \in Nat
    BY <1>5 DEF TypeOK
  <2>2. n # None /\ created' = created /\ eventsChan' = eventsChan
    BY <1>5, TracksAssumption DEF Managers
  <2>3. CASE empty /\ n = m
    <3>1. Closed(n)'
      BY <2>1, <2>3 DEF Closed
    <3>2. \A s \in Rooms : peerManagers'[s] # n
      BY <1>8, <1>9, <2>2, <2>3
    <3> QED BY <1>2, <2>2, <2>3, <3>1, <3>2
  <2>4. CASE ~(empty /\ n = m)
    <3>1. Closed(n)' <=> Closed(n)
      BY <2>1, <2>2, <2>4 DEF Closed
    <3>2. (\A s \in Rooms : peerManagers'[s] # n) <=> \A s \in Rooms : peerManagers[s] # n
      BY <1>4, <1>8, <2>2, <2>4
    <3> QED BY <2>2, <3>1, <3>2 DEF CloseInv
  <2> QED BY <2>3, <2>4
<1> QED BY <1>11, <1>12, <1>13

\* The Done goroutine of a transport that was replaced changes nothing when others are
\* in its manager; when there are none, the manager is closed again.
LEMMA DoneReplacedInv ==
  ASSUME TypeOK, CapturedInv, MemberInv, RoomInv, CloseInv, NEW tr \in Transports, Done(tr),
         transports[managerOf[tr]][ClientOf[tr]] # tr
  PROVE  ClosedAgain' \/ (MemberInv' /\ RoomInv' /\ CloseInv')
<1> DEFINE m == managerOf[tr]
<1>1. stage[tr] = "closed"
  BY DEF Done
<1>2. m \in 1..created /\ created \in 0..MaxManagers /\ MaxManagers \in Nat
  BY <1>1, TracksAssumption DEF CapturedInv, Live, TypeOK
<1>3. m \in Managers /\ m # None
  BY <1>2, TracksAssumption DEF Managers
<1>4. CASE Size(m) = {}
  <2>1. UNCHANGED eventsChan /\ closing' = [closing EXCEPT ![m] = @ + 1]
    BY <1>4 DEF Done
  <2>2. closing'[m] = closing[m] + 1 /\ closing[m] \in Nat /\ eventsChan'[m] = eventsChan[m]
    BY <1>3, <2>1 DEF TypeOK
  <2>3. \A s \in Rooms : peerManagers[s] # m
    BY <1>3, <1>4 DEF RoomInv
  <2>4. Closed(m)
    BY <1>2, <1>3, <2>3 DEF CloseInv
  <2>5. ClosedAgain'
    BY <1>3, <2>2, <2>4 DEF Closed, ClosedAgain
  <2> QED BY <2>5
<1>5. CASE Size(m) # {}
  <2>1. /\ UNCHANGED <<peerManagers, created, transports, managerOf, closing, eventsChan>>
        /\ stage' = [stage EXCEPT ![tr] = "gone"]
    BY <1>5 DEF Done
  <2>2. \A u \in Transports : /\ Live(u)' <=> u # tr /\ Live(u)
                              /\ stage'[u] = "open" => stage[u] = "open"
    BY <2>1 DEF Live, TypeOK
  <2>3. ASSUME NEW n \in Managers, NEW d \in Clients, transports[n][d] # None
        PROVE  transports[n][d] \in Transports /\ Live(transports[n][d])'
    <3> DEFINE u == transports[n][d]
    <3>1. u \in Transports
      BY <2>3 DEF TypeOK
    <3>2. Live(u) /\ managerOf[u] = n /\ ClientOf[u] = d
      BY <2>3 DEF MemberInv
    <3>3. u # tr
      BY <3>2
    <3>4. PICK v \in Transports : v = u
      BY <3>1
    <3>5. Live(v)'
      BY <2>2, <3>2, <3>3, <3>4
    <3> QED BY <2>1, <3>1, <3>4, <3>5 DEF Live
  <2>4. MemberInv'
    BY <2>1, <2>2, <2>3 DEF MemberInv
  <2>5. RoomInv' /\ CloseInv'
    BY <2>1 DEF RoomInv, CloseInv, Size, Closed
  <2> QED BY <2>4, <2>5
<1> QED BY <1>4, <1>5

\* The one goroutine of Close closes the channel of the event loop.
LEMMA ClosePubSubInv ==
  ASSUME TypeOK, ~ClosedAgain, MemberInv, RoomInv, CloseInv, NEW m \in Managers, ClosePubSub(m)
  PROVE  MemberInv' /\ RoomInv' /\ CloseInv'
<1>1. UNCHANGED <<peerManagers, created, transports, stage, managerOf>> /\ closing[m] > 0
  BY DEF ClosePubSub
<1>2. eventsChan[m] = "open" /\ closing[m] \in Nat
  BY <1>1 DEF ClosedAgain, TypeOK
<1>3. eventsChan' = [eventsChan EXCEPT ![m] = "closed"] /\ closing' = [closing EXCEPT ![m] = @ - 1]
  BY <1>2 DEF ClosePubSub
<1>4. MemberInv' /\ RoomInv'
  BY <1>1 DEF MemberInv, RoomInv, Live, Size
<1>5. \A n \in Managers : Closed(n)' <=> Closed(n)
  BY <1>1, <1>3 DEF Closed, TypeOK
<1>6. CloseInv'
  BY <1>1, <1>5 DEF CloseInv
<1> QED BY <1>4, <1>6

\* No step of a transport, of a Done goroutine or of Close breaks the invariant.
LEMMA StepInv == ManagerInv /\ [Next]_vars => ManagerInv'
<1> SUFFICES ASSUME ManagerInv, [Next]_vars PROVE ManagerInv'
  OBVIOUS
<1>1. CASE Next
  <2>1. TypeOK' /\ CapturedInv'
    BY <1>1, TypeStep DEF ManagerInv
  <2>2. CASE ClosedAgain
    BY <1>1, <2>1, <2>2, StaysClosed DEF ManagerInv
  <2>3. CASE ~ClosedAgain
    <3>1. TypeOK /\ CapturedInv /\ MemberInv /\ RoomInv /\ CloseInv
      BY <2>3 DEF ManagerInv
    <3>2. ClosedAgain' \/ (MemberInv' /\ RoomInv' /\ CloseInv')
      <4>1. ASSUME NEW tr \in Transports, Add(tr)
            PROVE  MemberInv' /\ RoomInv' /\ CloseInv'
        BY <3>1, <4>1, AddInv
      <4>2. ASSUME NEW tr \in Transports, CloseTransport(tr)
            PROVE  MemberInv' /\ RoomInv' /\ CloseInv'
        BY <3>1, <4>2, CloseTransportInv
      <4>3. ASSUME NEW tr \in Transports, Done(tr)
            PROVE  ClosedAgain' \/ (MemberInv' /\ RoomInv' /\ CloseInv')
        BY <3>1, <4>3, DoneRegisteredInv, DoneReplacedInv
      <4>4. ASSUME NEW m \in Managers, ClosePubSub(m)
            PROVE  MemberInv' /\ RoomInv' /\ CloseInv'
        BY <2>3, <3>1, <4>4, ClosePubSubInv
      <4> QED BY <1>1, <4>1, <4>2, <4>3, <4>4 DEF Next
    <3> QED BY <2>1, <3>2 DEF ManagerInv
  <2> QED BY <2>2, <2>3
<1>2. CASE UNCHANGED vars
  <2>1. UNCHANGED <<peerManagers, created, transports, stage, managerOf, closing, eventsChan>>
    BY <1>2 DEF vars
  <2> QED BY <2>1 DEF ManagerInv, TypeOK, ClosedAgain, CapturedInv, MemberInv, RoomInv, CloseInv, Live, Size, Closed
<1> QED BY <1>1, <1>2

-----------------------------------------------------------------------------
\* Whenever clients come and go, until a manager is closed for the second time, every
\* open transport is in the manager that its room has, and that manager has not been
\* closed (TracksManager.Add and its Done goroutine).
THEOREM RoomsStayReachable == Spec => []RoomsReachable
<1>1. ManagerInv => RoomsReachable
  <2> SUFFICES ASSUME ManagerInv, ~ClosedAgain PROVE MembersReachable /\ RegisteredIsOpen
    BY DEF ManagerInv, RoomsReachable
  <2>1. MemberInv /\ RoomInv /\ CloseInv /\ TypeOK /\ CapturedInv
    BY DEF ManagerInv
  <2>2. MembersReachable
    BY <2>1, TracksAssumption DEF MembersReachable, MemberInv, CapturedInv, Live, Managers, TypeOK
  <2>3. RegisteredIsOpen
    BY <2>1 DEF RegisteredIsOpen, CloseInv, Closed, TypeOK
  <2> QED BY <2>2, <2>3
<1> QED BY InitInv, StepInv, <1>1, PTL DEF Spec
=============================================================================
