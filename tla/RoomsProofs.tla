---------------------------- MODULE RoomsProofs ----------------------------
(* The reference counts of the rooms of a node and the requests to its         *)
(* factories, for any number of connections, rooms and factories.              *)
EXTENDS Rooms, FiniteSetTheorems, TLAPS

\* A room counts the connections inside, who share its adapter.
CountInv(r) ==
  /\ rooms[r] = None <=> Inside(r) = {}
  /\ rooms[r] # None => rooms[r].count = Cardinality(Inside(r))
  /\ \A c \in Inside(r) : rooms[r].adapter = adapterOf[c]

\* Who sends an event to the node manager waits in Enter or in Exit.
SendingInv ==
  sending # None =>
    stage[sending.conn] = IF sending.type = "create" THEN "entering" ELSE "exiting"

EnteredInv == \A c \in Conns : stage[c] \notin {"new", "crashed"} => adapterOf[c] \in Conns

\* A crash stops every connection; a room nobody can be in was never open.
CrashInv ==
  Crashed => /\ \A c \in Conns : stage[c] = "crashed"
             /\ \A r \in Rooms : Inside(r) = {} => rooms[r] = None

RunningInv == ~Crashed => SendingInv /\ \A r \in Rooms : CountInv(r)

\* OneAdapter and EmptyRoomCloses are not inductive: that the last Exit and no
\* other finds a count of one is what CountInv adds.
RoomInv == TypeOK /\ EnteredInv /\ CrashInv /\ RunningInv

-----------------------------------------------------------------------------
(* Who is inside                                                              *)

\* Those inside a room are some of the connections.
LEMMA InsideIsFinite ==
  ASSUME NEW r \in Rooms
  PROVE  /\ IsFiniteSet(Inside(r))
         /\ Cardinality(Inside(r)) \in Nat
         /\ Cardinality(Conns) \in Nat
         /\ Cardinality(Inside(r)) <= Cardinality(Conns)
<1>1. Inside(r) \subseteq Conns /\ IsFiniteSet(Conns)
  BY ConnsAssumption DEF Inside
<1>2. IsFiniteSet(Inside(r)) /\ Cardinality(Inside(r)) <= Cardinality(Conns)
  BY <1>1, FS_Subset
<1> QED BY <1>1, <1>2, FS_CardinalityType

\* A move that neither enters nor exits changes nobody's place and no count.
LEMMA MovesKeep ==
  ASSUME RoomInv, ~Crashed, UNCHANGED <<rooms, adapterOf, sending>>,
         NEW c \in Conns, NEW next \in {"refused", "joining", "serving", "listing", "users",
                                        "leaving", "removed"},
         stage[c] \notin {"new", "entering", "exiting", "gone"},
         stage' = [stage EXCEPT ![c] = next]
  PROVE  EnteredInv' /\ CrashInv' /\ RunningInv'
<1>1. \A d \in Conns : stage'[d] = IF d = c THEN next ELSE stage[d]
  BY DEF RoomInv, TypeOK
<1>2. \A d \in Conns : stage[d] # "crashed"
  BY DEF Crashed
<1>3. ~Crashed'
  BY <1>1, <1>2 DEF Crashed
<1>4. EnteredInv'
  BY <1>1, <1>2 DEF RoomInv, EnteredInv
<1>5. SendingInv'
  <2>1. sending # None => sending.conn \in Conns
    BY DEF RoomInv, TypeOK
  <2> QED BY <1>1, <2>1 DEF RoomInv, RunningInv, SendingInv
<1>6. \A r \in Rooms : Inside(r)' = Inside(r)
  BY <1>1 DEF Inside
<1>7. \A r \in Rooms : CountInv(r)'
  BY <1>6 DEF RoomInv, RunningInv, CountInv
<1> QED BY <1>3, <1>4, <1>5, <1>7 DEF CrashInv, RunningInv

\* Nor does a step of the node manager, or of a transport.
LEMMA OthersKeep ==
  ASSUME RoomInv, UNCHANGED <<rooms, adapterOf, sending, stage>>
  PROVE  EnteredInv' /\ CrashInv' /\ RunningInv'
<1>1. Crashed' = Crashed /\ \A r \in Rooms : Inside(r)' = Inside(r)
  BY DEF Inside, Crashed
<1>2. EnteredInv' /\ CrashInv'
  BY <1>1 DEF RoomInv, EnteredInv, CrashInv
<1>3. RunningInv'
  <2>1. SendingInv => SendingInv'
    BY DEF SendingInv
  <2>2. ASSUME NEW r \in Rooms, CountInv(r) PROVE CountInv(r)'
    BY <1>1, <2>2 DEF CountInv
  <2> QED BY <1>1, <2>1, <2>2 DEF RoomInv, RunningInv
<1> QED BY <1>2, <1>3

-----------------------------------------------------------------------------
(* Types                                                                      *)

\* The members of an adapter are connections.
LEMMA MembersType ==
  ASSUME RoomInv, NEW c \in Conns, stage[c] \notin {"new", "crashed"}
  PROVE  Members(c) \subseteq Conns
BY DEF RoomInv, TypeOK, EnteredInv, Members

\* A room that is entered or left keeps its type.
LEMMA RoomTypes ==
  ASSUME RoomInv, ~Crashed, NEW c \in Conns
  PROVE  /\ stage[c] = "new" =>
              EnterRoom(RoomOf[c], c) \in [count : 1..Cardinality(Conns), adapter : Conns]
         /\ stage[c] = "removed" =>
              ExitRoom(RoomOf[c]) \in [count : 1..Cardinality(Conns), adapter : Conns] \cup {None}
<1> DEFINE r == RoomOf[c]
<1>1. r \in Rooms
  BY ConnsAssumption
<1>2. IsFiniteSet(Inside(r)) /\ Cardinality(Inside(r)) \in Nat /\ Cardinality(Conns) \in Nat
  BY <1>1, InsideIsFinite
<1>3. CountInv(r) /\ rooms[r] \in [count : 1..Cardinality(Conns), adapter : Conns] \cup {None}
  BY <1>1 DEF RoomInv, RunningInv, TypeOK
<1>4. ASSUME stage[c] = "new"
      PROVE  EnterRoom(r, c) \in [count : 1..Cardinality(Conns), adapter : Conns]
  <2>1. Inside(r) \subseteq Conns \ {c} /\ IsFiniteSet(Conns)
    BY <1>4, ConnsAssumption DEF Inside
  <2>2. Cardinality(Inside(r)) <= Cardinality(Conns \ {c})
    BY <2>1, FS_Subset, FS_RemoveElement
  <2>3. Cardinality(Conns \ {c}) = Cardinality(Conns) - 1
    BY Zenon, <2>1, FS_RemoveElement
  <2>4. Cardinality(Inside(r)) + 1 \in 1..Cardinality(Conns)
    BY <1>2, <2>2, <2>3
  <2>5. 1 \in 1..Cardinality(Conns)
    BY <1>2, <2>4
  <2>6. CASE rooms[r] = None
    BY <2>5, <2>6 DEF EnterRoom
  <2>7. CASE rooms[r] # None
    BY <1>3, <2>4, <2>7 DEF EnterRoom, CountInv
  <2> QED BY <2>6, <2>7
<1>5. ASSUME stage[c] = "removed"
      PROVE  ExitRoom(r) \in [count : 1..Cardinality(Conns), adapter : Conns] \cup {None}
  <2>1. c \in Inside(r)
    BY <1>5 DEF Inside
  <2>2. rooms[r] \in [count : 1..Cardinality(Conns), adapter : Conns]
    BY <1>3, <2>1 DEF CountInv
  <2>3. CASE rooms[r].count = 1
    BY <2>3 DEF ExitRoom
  <2>4. CASE rooms[r].count # 1
    <3>1. rooms[r].count - 1 \in 1..Cardinality(Conns)
      BY <1>2, <2>2, <2>4
    <3> QED BY <2>2, <2>4, <3>1 DEF ExitRoom
  <2> QED BY <2>3, <2>4
<1> QED BY <1>4, <1>5

-----------------------------------------------------------------------------
(* Room managers                                                              *)

\* Enter counts one more.
LEMMA EnterInv ==
  ASSUME RoomInv, NEW c \in Conns, Enter(c)
  PROVE  RoomInv'
<1> DEFINE r == RoomOf[c]
<1>1. r \in Rooms /\ stage[c] = "new" /\ sending = None
  BY ConnsAssumption DEF Enter
<1>2. ~Crashed
  BY <1>1 DEF RoomInv, CrashInv
<1>3. EnterRoom(r, c) \in [count : 1..Cardinality(Conns), adapter : Conns]
  BY <1>1, <1>2, RoomTypes
<1>4. EnterRoom(r, c) # None
  <2>1. Cardinality(Conns) \in Nat
    BY <1>1, InsideIsFinite
  <2> QED BY <1>3, <2>1, NoneAssumption
<1>5. rooms' = [rooms EXCEPT ![r] = EnterRoom(r, c)]
  BY DEF Enter
<1>6. rooms'[r] = EnterRoom(r, c) /\ \A s \in Rooms \ {r} : rooms'[s] = rooms[s]
  BY <1>1, <1>5 DEF RoomInv, TypeOK
<1>7. adapterOf'[c] = rooms'[r].adapter /\ \A d \in Conns \ {c} : adapterOf'[d] = adapterOf[d]
  BY DEF Enter, RoomInv, TypeOK
<1>8. /\ stage'[c] = IF rooms[r] = None THEN "entering" ELSE "entered"
      /\ \A d \in Conns \ {c} : stage'[d] = stage[d]
  BY DEF Enter, RoomInv, TypeOK
<1>9. TypeOK'
  <2>1. rooms' \in [Rooms -> [count : 1..Cardinality(Conns), adapter : Conns] \cup {None}]
    BY Zenon, <1>3, <1>5 DEF RoomInv, TypeOK
  <2>2. adapterOf' \in [Conns -> Conns \cup {None}]
    BY <1>3, <1>6 DEF Enter, RoomInv, TypeOK
  <2> QED BY <2>1, <2>2 DEF Enter, RoomInv, TypeOK, chatVars
<1>10. EnteredInv'
  BY <1>3, <1>6, <1>7, <1>8 DEF RoomInv, EnteredInv
<1>11. ~Crashed'
  BY <1>2, <1>8 DEF Crashed
<1>12. SendingInv'
  <2>1. sending' = IF rooms[r] = None THEN [conn |-> c, type |-> "create"] ELSE None
    BY DEF Enter
  <2> QED BY <1>8, <2>1 DEF SendingInv
<1>13. Inside(r)' = Inside(r) \cup {c} /\ c \notin Inside(r)
  BY <1>1, <1>8 DEF Inside
<1>14. ASSUME NEW s \in Rooms \ {r} PROVE CountInv(s)'
  <2>1. Inside(s)' = Inside(s) /\ c \notin Inside(s)
    BY <1>8 DEF Inside
  <2>2. \A d \in Inside(s) : d \in Conns \ {c}
    BY <2>1 DEF Inside
  <2> QED BY <1>2, <1>6, <1>7, <2>1, <2>2 DEF RoomInv, RunningInv, CountInv
<1>15. CountInv(r)'
  <2>1. CountInv(r)
    BY <1>1, <1>2 DEF RoomInv, RunningInv
  <2>2. IsFiniteSet(Inside(r)) /\ Cardinality(Inside(r)) \in Nat
    BY <1>1, InsideIsFinite
  <2>3. Cardinality(Inside(r)') = Cardinality(Inside(r)) + 1
    BY Zenon, <1>13, <2>2, FS_AddElement
  <2>4. \A d \in Inside(r) : d \in Conns \ {c}
    BY <1>13 DEF Inside
  <2>5. CASE rooms[r] = None
    <3>1. Inside(r) = {} /\ Cardinality(Inside(r)) = 0
      BY <2>1, <2>5, FS_EmptySet DEF CountInv
    <3>2. rooms'[r].count = 1
      BY <1>6, <2>5 DEF EnterRoom
    <3> QED BY <1>4, <1>6, <1>7, <1>13, <2>3, <3>1, <3>2 DEF CountInv
  <2>6. CASE rooms[r] # None
    <3>1. rooms'[r].count = rooms[r].count + 1 /\ rooms'[r].adapter = rooms[r].adapter
      BY <1>1, <1>6, <2>6 DEF EnterRoom, RoomInv, TypeOK
    <3> QED BY <1>4, <1>6, <1>7, <1>13, <2>1, <2>3, <2>4, <2>6, <3>1 DEF CountInv
  <2> QED BY <2>5, <2>6
<1> QED BY <1>9, <1>10, <1>11, <1>12, <1>14, <1>15 DEF RoomInv, CrashInv, RunningInv

\* Exit counts one less, and removes the room with the last.
LEMMA ExitInv ==
  ASSUME RoomInv, NEW c \in Conns, Exit(c)
  PROVE  RoomInv'
<1> DEFINE r == RoomOf[c]
           isRemoved == ExitRoom(r) = None
<1>1. r \in Rooms /\ stage[c] = "removed" /\ sending = None /\ UNCHANGED adapterOf
  BY ConnsAssumption DEF Exit
<1>2. ~Crashed
  BY <1>1 DEF RoomInv, CrashInv
<1>3. ExitRoom(r) \in [count : 1..Cardinality(Conns), adapter : Conns] \cup {None}
  BY <1>1, <1>2, RoomTypes
<1>4. rooms'[r] = ExitRoom(r) /\ \A s \in Rooms \ {r} : rooms'[s] = rooms[s]
  BY <1>1 DEF Exit, RoomInv, TypeOK
<1>5. /\ stage'[c] = IF isRemoved THEN "exiting" ELSE "gone"
      /\ \A d \in Conns \ {c} : stage'[d] = stage[d]
  BY DEF Exit, RoomInv, TypeOK
<1>6. TypeOK'
  <2>1. rooms' \in [Rooms -> [count : 1..Cardinality(Conns), adapter : Conns] \cup {None}]
    BY Zenon, <1>3 DEF Exit, RoomInv, TypeOK
  <2> QED BY <2>1 DEF Exit, RoomInv, TypeOK, chatVars
<1>7. EnteredInv' /\ ~Crashed'
  BY <1>1, <1>2, <1>5 DEF RoomInv, EnteredInv, Crashed
<1>8. SendingInv'
  <2>1. sending' = IF isRemoved THEN [conn |-> c, type |-> "close"] ELSE None
    BY DEF Exit
  <2> HIDE DEF isRemoved
  <2> QED BY <1>5, <2>1 DEF SendingInv
<1>9. Inside(r)' = Inside(r) \ {c} /\ c \in Inside(r)
  BY <1>1, <1>5 DEF Inside
<1>10. ASSUME NEW s \in Rooms \ {r} PROVE CountInv(s)'
  <2>1. Inside(s)' = Inside(s)
    BY <1>5 DEF Inside
  <2> QED BY <1>1, <1>2, <1>4, <2>1 DEF RoomInv, RunningInv, CountInv
<1>11. CountInv(r)'
  <2>1. CountInv(r)
    BY <1>1, <1>2 DEF RoomInv, RunningInv
  <2>2. IsFiniteSet(Inside(r)) /\ Cardinality(Inside(r)) \in Nat /\ Cardinality(Conns) \in Nat
    BY <1>1, InsideIsFinite
  <2>3. Cardinality(Inside(r)') = Cardinality(Inside(r)) - 1 /\ IsFiniteSet(Inside(r)')
    BY <1>9, <2>2, FS_RemoveElement
  <2>4. rooms[r] # None /\ rooms[r].count = Cardinality(Inside(r))
    BY <1>9, <2>1 DEF CountInv
  <2>5. CASE rooms[r].count = 1
    <3>1. rooms'[r] = None
      BY <1>4, <2>5 DEF ExitRoom
    <3>2. Inside(r)' = {}
      BY <2>3, <2>4, <2>5, FS_EmptySet
    <3> QED BY <3>1, <3>2 DEF CountInv
  <2>6. CASE rooms[r].count # 1
    <3>1. rooms[r] \in [count : 1..Cardinality(Conns), adapter : Conns]
      BY <1>1, <2>4 DEF RoomInv, TypeOK
    <3>2. rooms'[r] = [rooms[r] EXCEPT !.count = @ - 1]
      BY <1>4, <2>6 DEF ExitRoom
    <3>3. rooms'[r].count = rooms[r].count - 1 /\ rooms'[r].adapter = rooms[r].adapter
      BY <3>1, <3>2
    <3>4. rooms'[r] \in [count : Nat, adapter : Conns]
      BY <2>2, <3>1, <3>2
    <3>5. rooms'[r] # None
      BY <3>4, NoneAssumption
    <3>6. Inside(r)' # {}
      BY <2>2, <2>3, <2>4, <2>6, FS_EmptySet
    <3> QED BY <1>1, <1>9, <2>1, <2>3, <2>4, <3>3, <3>5, <3>6 DEF CountInv
  <2> QED BY <2>5, <2>6
<1> QED BY <1>6, <1>7, <1>8, <1>10, <1>11 DEF RoomInv, CrashInv, RunningInv

-----------------------------------------------------------------------------
(* The other steps                                                            *)

\* The steps of a connection between Enter and Exit.
LEMMA ConnInv ==
  ASSUME RoomInv, NEW c \in Conns, Step(c) \/ Ready(c) \/ CloseTransport(c) \/ HangUp(c)
  PROVE  RoomInv'
<1>1. TypeOK'
  <2>1. CASE AddClient(c)
    BY Zenon, <2>1 DEF AddClient, RoomInv, TypeOK, roomVars, chatVars, nodeVars
  <2>2. CASE BroadcastJoin(c)
    BY <2>2 DEF BroadcastJoin, RoomInv, TypeOK, roomVars, chatVars, nodeVars
  <2>3. CASE RemoveClient(c)
    BY Zenon, <2>3 DEF RemoveClient, RoomInv, TypeOK, roomVars, nodeVars
  <2>4. CASE ListClients(c)
    <3>1. Members(c) \subseteq Conns
      BY <2>4, MembersType DEF ListClients
    <3> QED BY <2>4, <3>1 DEF ListClients, RoomInv, TypeOK, roomVars, nodeVars
  <2>5. CASE Users(c)
    BY <2>5 DEF Users, RoomInv, TypeOK, roomVars, nodeVars
  <2>6. CASE SignalsEnd(c)
    <3>1. nick' \in [Conns -> BOOLEAN]
      BY Zenon, <2>6 DEF SignalsEnd, RoomInv, TypeOK
    <3>2. transport' \in [Conns -> {"nil", "open", "closed"}]
      BY <2>6 DEF SignalsEnd, RoomInv, TypeOK
    <3> QED BY Zenon, <2>6, <3>1, <3>2 DEF SignalsEnd, RoomInv, TypeOK, roomVars, nodeVars
  <2>7. CASE Ready(c)
    <3>1. nick' \in [Conns -> BOOLEAN]
      BY Zenon, <2>7 DEF Ready, RoomInv, TypeOK
    <3> QED BY Zenon, <2>7, <3>1 DEF Ready, RoomInv, TypeOK, roomVars, nodeVars
  <2>8. CASE HangUp(c)
    BY <2>8 DEF HangUp, RoomInv, TypeOK, roomVars, nodeVars
  <2>9. CASE CloseTransport(c)
    BY <2>9 DEF CloseTransport, RoomInv, TypeOK, roomVars, nodeVars
  <2> QED BY <2>1, <2>2, <2>3, <2>4, <2>5, <2>6, <2>7, <2>8, <2>9 DEF Step
<1>2. EnteredInv' /\ CrashInv' /\ RunningInv'
  <2>1. CASE SignalsEnd(c) \/ CloseTransport(c)
    <3>1. UNCHANGED <<rooms, adapterOf, sending, stage>>
      BY Zenon, <2>1 DEF SignalsEnd, CloseTransport, roomVars, nodeVars
    <3> QED BY <3>1, OthersKeep
  <2>2. CASE ~(SignalsEnd(c) \/ CloseTransport(c))
    <3>1. stage[c] \in {"entered", "joining", "leaving", "listing", "users", "serving"}
      BY Zenon, <2>2 DEF Step, AddClient, BroadcastJoin, RemoveClient, ListClients, Users, Ready, HangUp
    <3>2. PICK next \in {"refused", "joining", "serving", "listing", "users", "leaving", "removed"} :
            stage' = [stage EXCEPT ![c] = next]
      BY Zenon, <2>2 DEF Step, AddClient, BroadcastJoin, RemoveClient, ListClients, Users, Ready, HangUp
    <3>3. UNCHANGED <<rooms, adapterOf, sending>>
      BY Zenon, <2>2 DEF Step, AddClient, BroadcastJoin, RemoveClient, ListClients, Users, Ready, HangUp,
                  roomVars, nodeVars
    <3>4. ~Crashed
      BY <3>1 DEF RoomInv, CrashInv
    <3>5. stage[c] \notin {"new", "entering", "exiting", "gone"}
      BY <3>1
    <3> QED BY Zenon, <3>2, <3>3, <3>4, <3>5, MovesKeep
  <2> QED BY <2>1, <2>2
<1> QED BY <1>1, <1>2 DEF RoomInv

\* The node manager takes an event: its sender leaves Enter or Exit.
LEMMA AcceptInv ==
  ASSUME RoomInv, AcceptEvent
  PROVE  RoomInv'
<1> DEFINE c == sending.conn
<1>1. c \in Conns /\ sending.type \in {"create", "close"} /\ ~Crashed
  BY DEF AcceptEvent, RoomInv, TypeOK
<1>2. stage[c] \in {"entering", "exiting"}
  BY <1>1 DEF AcceptEvent, RoomInv, RunningInv, SendingInv
<1>3. /\ stage'[c] = IF stage[c] = "entering" THEN "entered" ELSE "gone"
      /\ \A d \in Conns \ {c} : stage'[d] = stage[d]
  BY <1>1 DEF AcceptEvent, RoomInv, TypeOK
<1>4. UNCHANGED <<rooms, adapterOf>> /\ sending' = None
  BY DEF AcceptEvent, roomVars
<1>5. TypeOK'
  <2>1. loop' \in Event
    BY <1>1, ConnsAssumption DEF AcceptEvent, Event
  <2> QED BY Zenon, <1>1, <1>4, <2>1 DEF AcceptEvent, RoomInv, TypeOK, chatVars
<1>6. EnteredInv' /\ ~Crashed'
  BY <1>1, <1>2, <1>3, <1>4 DEF RoomInv, EnteredInv, Crashed
<1>7. \A r \in Rooms : Inside(r)' = Inside(r)
  BY <1>1, <1>2, <1>3 DEF Inside
<1>8. \A r \in Rooms : CountInv(r)'
  BY <1>1, <1>4, <1>7 DEF RoomInv, RunningInv, CountInv
<1> QED BY <1>4, <1>5, <1>6, <1>8 DEF RoomInv, CrashInv, RunningInv, SendingInv

\* Neither does Manager.Factories touch the rooms.
LEMMA ReadInv ==
  ASSUME RoomInv, ReadFactories
  PROVE  RoomInv'
<1>1. UNCHANGED <<rooms, adapterOf, sending, stage>>
  BY DEF ReadFactories, roomVars
<1>2. TypeOK'
  <2>1. loop \in Event /\ factories \in SUBSET Factories
    BY Zenon DEF ReadFactories, RoomInv, TypeOK
  <2>2. loop' \in Event \cup {None}
    BY <2>1 DEF ReadFactories, Event
  <2> QED BY Zenon, <2>2 DEF ReadFactories, RoomInv, TypeOK, roomVars, chatVars
<1> QED BY <1>1, <1>2, OthersKeep DEF RoomInv

\* The factories do not touch the rooms.
LEMMA FactoryInv ==
  ASSUME RoomInv, NEW f \in Factories, AskFactory(f) \/ FactoryUp(f) \/ FactoryDown(f)
  PROVE  RoomInv'
<1>1. UNCHANGED <<rooms, adapterOf, sending, stage>>
  BY DEF AskFactory, FactoryUp, FactoryDown, roomVars
<1>2. TypeOK'
  <2>1. CASE AskFactory(f)
    <3>1. loop \in Event
      BY <2>1 DEF AskFactory, RoomInv, TypeOK
    <3>2. asked' \in [Factories -> [Rooms -> {"never", "create", "close"}]]
      BY <2>1, <3>1 DEF AskFactory, Event, RoomInv, TypeOK
    <3>3. loop' \in Event \cup {None}
      BY <2>1, <3>1 DEF AskFactory, Event
    <3> QED BY <2>1, <3>2, <3>3 DEF AskFactory, RoomInv, TypeOK, roomVars, chatVars
  <2>2. CASE FactoryUp(f)
    BY <2>2 DEF FactoryUp, RoomInv, TypeOK, roomVars, chatVars
  <2>3. CASE FactoryDown(f)
    BY <2>3 DEF FactoryDown, RoomInv, TypeOK, roomVars, chatVars
  <2> QED BY <2>1, <2>2, <2>3
<1> QED BY <1>1, <1>2, OthersKeep DEF RoomInv

\* The runtime stops the process.
LEMMA CrashStepInv ==
  ASSUME RoomInv, NEW c \in Conns, NEW d \in Conns, ConcurrentMapWrite(c, d)
  PROVE  RoomInv'
<1>1. \A e \in Conns : stage'[e] = "crashed"
  BY DEF ConcurrentMapWrite
<1>2. TypeOK'
  BY DEF ConcurrentMapWrite, RoomInv, TypeOK, roomVars, chatVars, nodeVars
<1>3. EnteredInv' /\ Crashed'
  BY <1>1 DEF EnteredInv, Crashed
<1>4. ASSUME NEW r \in Rooms, Inside(r)' = {} PROVE rooms'[r] = None
  <2>1. Inside(r) = {}
    BY <1>1, <1>4 DEF Inside
  <2>2. ~Crashed
    BY DEF ConcurrentMapWrite, RoomInv, CrashInv
  <2> QED BY <2>1, <2>2 DEF ConcurrentMapWrite, roomVars, RoomInv, RunningInv, CountInv
<1> QED BY <1>1, <1>2, <1>3, <1>4 DEF RoomInv, CrashInv, RunningInv

\* A node starts with no room.
LEMMA InitInv == Init => RoomInv
<1> SUFFICES ASSUME Init PROVE RoomInv
  OBVIOUS
<1>1. TypeOK
  BY DEF Init, TypeOK
<1>2. ~Crashed /\ EnteredInv /\ SendingInv
  BY DEF Init, Crashed, EnteredInv, SendingInv
<1>3. \A r \in Rooms : CountInv(r)
  BY DEF Init, CountInv, Inside
<1> QED BY <1>1, <1>2, <1>3 DEF RoomInv, CrashInv, RunningInv

\* Every step keeps the invariant.
LEMMA NextInv == RoomInv /\ [Next]_vars => RoomInv'
<1> SUFFICES ASSUME RoomInv, [Next]_vars PROVE RoomInv'
  OBVIOUS
<1>1. CASE UNCHANGED vars
  <2>1. TypeOK'
    BY <1>1 DEF vars, RoomInv, TypeOK
  <2> QED BY <1>1, <2>1, OthersKeep DEF vars, RoomInv
<1>2. CASE Next
  BY <1>2, EnterInv, ExitInv, ConnInv, AcceptInv, ReadInv, FactoryInv, CrashStepInv DEF Next, Loop
<1> QED BY <1>1, <1>2

\* The counts of the room managers hold however the connections interleave.
THEOREM RoomInvariant == Spec => []RoomInv
BY InitInv, NextInv, PTL DEF Spec

\* A room is registered exactly while a connection is inside, and all connections
\* inside share one adapter: AdapterRoomManager.Enter and Exit.
THEOREM RoomsFollow == Spec => []RoomFollowsClients
<1>1. RoomInv => RoomFollowsClients
  <2> SUFFICES ASSUME RoomInv PROVE RoomFollowsClients
    OBVIOUS
  <2>1. OneAdapter
    BY DEF RoomInv, RunningInv, CountInv, OneAdapter
  <2>2. EmptyRoomCloses
    BY DEF RoomInv, CrashInv, RunningInv, CountInv, EmptyRoomCloses
  <2> QED BY <2>1, <2>2 DEF RoomInv, RoomFollowsClients
<1> QED BY <1>1, RoomInvariant, PTL

-----------------------------------------------------------------------------
(* The factories                                                              *)

Wrong(r) == IF rooms[r] = None THEN "create" ELSE "close"
Sends(r) == sending # None /\ RoomOf[sending.conn] = r
Handles(r) == loop # None /\ loop.room = r
WillAsk(f) == ~loop.read \/ f \in loop.left

\* What a factory will have been asked last is right: an event that is being sent
\* comes after the one the loop handles, and that after what was asked.
FollowInv(r) ==
  IF Sends(r) THEN sending.type # Wrong(r)
  ELSE /\ Handles(r) => loop.type # Wrong(r)
       /\ \A f \in factories : (Handles(r) /\ WillAsk(f)) \/ asked[f][r] # Wrong(r)

\* Enter and Exit send an event when they open or close the room.
LEMMA ManagerFollows ==
  ASSUME RoomInv, NEW c \in Conns, Enter(c) \/ Exit(c), NEW r \in Rooms, FollowInv(r)
  PROVE  FollowInv(r)'
<1> USE DEF FollowInv, Sends, Handles, WillAsk, Wrong
<1>1. sending = None /\ UNCHANGED <<loop, factories, asked>>
  BY DEF Enter, Exit
<1>2. ~Crashed
  BY DEF Enter, Exit, RoomInv, CrashInv
<1>3. CASE RoomOf[c] # r
  <2>1. rooms'[r] = rooms[r]
    BY <1>3 DEF Enter, Exit, RoomInv, TypeOK
  <2>2. sending' = None \/ sending'.conn = c
    BY DEF Enter, Exit
  <2> QED BY <1>1, <1>3, <2>1, <2>2
<1>4. CASE RoomOf[c] = r /\ Enter(c)
  <2>1. rooms'[r] = EnterRoom(r, c)
    BY <1>4 DEF Enter, RoomInv, TypeOK
  <2>2. rooms'[r] # None
    <3>1. rooms'[r] \in [count : 1..Cardinality(Conns), adapter : Conns]
      BY <1>2, <1>4, <2>1, RoomTypes DEF Enter
    <3>2. Cardinality(Conns) \in Nat
      BY InsideIsFinite
    <3> QED BY <3>1, <3>2, NoneAssumption
  <2>3. CASE rooms[r] = None
    <3>1. sending' = [conn |-> c, type |-> "create"]
      BY <1>4, <2>3 DEF Enter
    <3>2. sending' # None
      BY <3>1, NoneAssumption
    <3> QED BY <1>4, <2>2, <3>1, <3>2
  <2>4. CASE rooms[r] # None
    <3>1. sending' = None
      BY <1>4, <2>4 DEF Enter
    <3> QED BY <1>1, <2>2, <2>4, <3>1
  <2> QED BY <2>3, <2>4
<1>5. CASE RoomOf[c] = r /\ Exit(c)
  <2>1. rooms'[r] = ExitRoom(r)
    BY <1>5 DEF Exit, RoomInv, TypeOK
  <2>2. rooms[r] # None
    <3>1. c \in Inside(r)
      BY <1>5 DEF Exit, Inside
    <3> QED BY <1>2, <3>1 DEF RoomInv, RunningInv, CountInv
  <2>3. CASE ExitRoom(r) = None
    <3>1. sending' = [conn |-> c, type |-> "close"]
      BY <1>5, <2>3 DEF Exit
    <3>2. sending' # None
      BY <3>1, NoneAssumption
    <3> QED BY <1>5, <2>1, <2>3, <3>1, <3>2
  <2>4. CASE ExitRoom(r) # None
    <3>1. sending' = None
      BY <1>5, <2>4 DEF Exit
    <3> QED BY <1>1, <2>1, <2>2, <2>4, <3>1
  <2> QED BY <2>3, <2>4
<1> QED BY <1>3, <1>4, <1>5

\* The loop takes the event when it has handled the one before.
LEMMA AcceptFollows ==
  ASSUME RoomInv, AcceptEvent, NEW r \in Rooms, FollowInv(r)
  PROVE  FollowInv(r)'
<1> DEFINE event == [room |-> RoomOf[sending.conn], type |-> sending.type, read |-> FALSE, left |-> {}]
<1>1. /\ loop = None /\ sending # None /\ sending' = None
      /\ UNCHANGED <<rooms, factories, asked>>
      /\ loop' = event
  BY DEF AcceptEvent, roomVars
<1>2. event # None
  <2>1. event \in Event
    BY <1>1, ConnsAssumption DEF RoomInv, TypeOK, Event
  <2> QED BY <2>1, NoneAssumption
<1>3. event.room = RoomOf[sending.conn] /\ event.type = sending.type /\ ~event.read
  OBVIOUS
<1> HIDE DEF event
<1> QED BY <1>1, <1>2, <1>3 DEF FollowInv, Sends, Handles, WillAsk, Wrong

\* It will ask every factory there is when Manager.Factories returns.
LEMMA ReadFollows ==
  ASSUME RoomInv, ReadFactories, NEW r \in Rooms, FollowInv(r)
  PROVE  FollowInv(r)'
<1>1. loop \in Event /\ UNCHANGED <<rooms, sending, factories, asked>>
  BY Zenon DEF ReadFactories, RoomInv, TypeOK, roomVars
<1>2. \/ loop' = None /\ factories = {}
      \/ loop' \in Event /\ loop'.room = loop.room /\ loop'.type = loop.type /\ loop'.left = factories
  BY <1>1 DEF ReadFactories, RoomInv, TypeOK, Event
<1>3. loop # None
  BY DEF ReadFactories
<1>4. Sends(r)' = Sends(r) /\ Wrong(r)' = Wrong(r)
  BY Zenon, <1>1 DEF Sends, Wrong
<1>5. CASE Sends(r)
  BY Zenon, <1>1, <1>4, <1>5 DEF FollowInv
<1>6. CASE ~Sends(r) /\ loop' = None /\ factories = {}
  BY Zenon, <1>1, <1>4, <1>6 DEF FollowInv, Handles
<1>7. CASE ~Sends(r) /\ loop' \in Event /\ loop'.room = loop.room /\ loop'.type = loop.type /\ loop'.left = factories
  <2>1. loop' # None
    BY <1>7, NoneAssumption
  <2>2. Handles(r)' <=> Handles(r)
    BY Zenon, <1>3, <1>7, <2>1 DEF Handles
  <2>3. \A f \in factories : WillAsk(f)'
    BY Zenon, <1>7 DEF WillAsk
  <2>4. /\ Handles(r) => loop.type # Wrong(r)
        /\ \A f \in factories : (Handles(r) /\ WillAsk(f)) \/ asked[f][r] # Wrong(r)
    BY Zenon, <1>7 DEF FollowInv
  <2> QED BY Zenon, <1>1, <1>4, <1>7, <2>2, <2>3, <2>4 DEF FollowInv
<1> QED BY Zenon, <1>2, <1>5, <1>6, <1>7

\* A factory is asked, comes up or goes down.
LEMMA FactoryFollows ==
  ASSUME RoomInv, NEW f \in Factories, AskFactory(f) \/ FactoryUp(f) \/ FactoryDown(f),
         NEW r \in Rooms, FollowInv(r)
  PROVE  FollowInv(r)'
<1> USE DEF FollowInv, Sends, Handles, WillAsk, Wrong
<1>1. UNCHANGED <<rooms, sending>> /\ factories \subseteq Factories
  BY DEF AskFactory, FactoryUp, FactoryDown, roomVars, RoomInv, TypeOK
<1>2. CASE AskFactory(f)
  <2>1. UNCHANGED factories /\ loop # None /\ loop.read
    BY <1>2 DEF AskFactory
  <2>2. loop \in Event
    BY <2>1 DEF RoomInv, TypeOK
  <2>3. \/ loop' = None /\ loop.left = {f}
        \/ /\ loop' \in Event
           /\ loop'.room = loop.room /\ loop'.type = loop.type /\ loop'.left = loop.left \ {f}
    BY <1>2, <2>2 DEF AskFactory, Event
  <2>4. \A g \in factories : asked'[g][r] =
          IF g = f /\ loop.room = r THEN loop.type ELSE asked[g][r]
    BY <1>1, <1>2, <2>2 DEF AskFactory, RoomInv, TypeOK, Event
  <2> QED BY <1>1, <2>1, <2>3, <2>4, NoneAssumption
<1>3. CASE FactoryUp(f)
  <2>1. UNCHANGED loop /\ factories' = factories \cup {f}
    BY <1>3 DEF FactoryUp
  <2>2. asked'[f][r] = "never" /\ \A g \in factories \ {f} : asked'[g] = asked[g]
    BY <1>1, <1>3 DEF FactoryUp, RoomInv, TypeOK
  <2> QED BY <1>1, <2>1, <2>2
<1>4. CASE FactoryDown(f)
  BY <1>1, <1>4 DEF FactoryDown
<1> QED BY <1>2, <1>3, <1>4

\* However long the loop waits for a factory, and although factories come and go
\* meanwhile, nobody is left with an outdated request.
THEOREM RequestsFollow == Spec => []FactoriesFollow
<1> DEFINE Follow == \A r \in Rooms : FollowInv(r)
<1>1. Init => Follow
  BY DEF Init, FollowInv, Sends, Handles, WillAsk, Wrong
<1>2. Follow /\ RoomInv /\ [Next]_vars => Follow'
  <2> SUFFICES ASSUME RoomInv, [Next]_vars, NEW r \in Rooms, FollowInv(r) PROVE FollowInv(r)'
    OBVIOUS
  <2>1. CASE UNCHANGED <<rooms, nodeVars>>
    BY <2>1 DEF FollowInv, Sends, Handles, WillAsk, Wrong, nodeVars
  <2>2. ASSUME NEW c \in Conns, Step(c) \/ Ready(c) \/ CloseTransport(c) \/ HangUp(c)
        PROVE  UNCHANGED <<rooms, nodeVars>>
    BY Zenon, <2>2 DEF Step, AddClient, BroadcastJoin, RemoveClient, ListClients, Users, SignalsEnd,
                Ready, CloseTransport, HangUp, roomVars
  <2>3. ASSUME NEW c \in Conns, NEW d \in Conns, ConcurrentMapWrite(c, d)
        PROVE  UNCHANGED <<rooms, nodeVars>>
    BY <2>3 DEF ConcurrentMapWrite, roomVars
  <2>4. CASE UNCHANGED vars
    BY <2>1, <2>4 DEF vars, nodeVars
  <2>5. CASE Next
    BY <2>1, <2>2, <2>3, <2>5, ManagerFollows, AcceptFollows, ReadFollows, FactoryFollows DEF Next, Loop
  <2> QED BY <2>4, <2>5
<1>3. Follow /\ RoomInv => FactoriesFollow
  <2> SUFFICES ASSUME Follow, RoomInv, sending = None, loop = None,
                      NEW f \in factories, NEW r \in Rooms
               PROVE  asked[f][r] # Wrong(r)
    BY DEF FactoriesFollow, Wrong
  <2>1. FollowInv(r)
    OBVIOUS
  <2> QED BY <2>1 DEF FollowInv, Sends, Handles
<1> HIDE DEF Follow
<1> QED BY <1>1, <1>2, <1>3, RoomInvariant, PTL DEF Spec

-----------------------------------------------------------------------------
(* The lists of ready clients                                                 *)

Active == {"joining", "serving", "listing", "users", "leaving"}

\* The clients of an adapter are the connections between Add and Remove, and no
\* two of them have the same id.
MemberInv ==
  /\ \A c \in Conns : stage[c] \in Active => c \in clients[adapterOf[c]]
  /\ \A a \in Conns : \A c \in clients[a] : stage[c] \in Active /\ adapterOf[c] = a
  /\ \A a \in Conns : \A c, d \in clients[a] : IdOf[c] = IdOf[d] => c = d

\* A nickname is stored by the connection itself.
NickInv == \A c \in Conns : nick[c] => stage[c] \in Active \ {"joining"}

Listed(c, d) == d \in listed[c] /\ c \in listed[d]
WillList(b, c, d) == stage[b] = "users" /\ c \in list[b] /\ d \in list[b]

\* Two clients with a nickname know of each other, or one of them has read a list
\* with both and will send it, or will still read its list.
PairInv(c, d) ==
  nick[c] /\ nick[d] /\ adapterOf[c] = adapterOf[d] /\ stage[c] # "listing" /\ stage[d] # "listing" =>
    Listed(c, d) \/ WillList(c, c, d) \/ WillList(d, c, d)

ListInv == ~Crashed => MemberInv /\ NickInv /\ \A c, d \in Conns : PairInv(c, d)

\* Steps before a connection is added and after it was removed, and those of the
\* node manager and the transports.
LEMMA OutsideLists ==
  ASSUME ListInv, ~Crashed, UNCHANGED <<clients, nick, list, listed>>,
         \A c \in Conns : stage[c] \in Active => stage'[c] = stage[c] /\ adapterOf'[c] = adapterOf[c],
         \A c \in Conns : stage[c] \notin Active => stage'[c] \notin Active,
         \A a \in Conns : clients[a] \subseteq Conns
  PROVE  ListInv'
<1>1. MemberInv /\ NickInv
  BY DEF ListInv
<1>2. MemberInv'
  BY <1>1 DEF MemberInv
<1>3. NickInv'
  BY <1>1 DEF NickInv
<1>4. ASSUME NEW c \in Conns, NEW d \in Conns PROVE PairInv(c, d)'
  <2>1. PairInv(c, d)
    BY DEF ListInv
  <2>2. nick[c] => stage'[c] = stage[c] /\ adapterOf'[c] = adapterOf[c]
    BY <1>1 DEF NickInv
  <2>3. nick[d] => stage'[d] = stage[d] /\ adapterOf'[d] = adapterOf[d]
    BY <1>1 DEF NickInv
  <2> QED BY <2>1, <2>2, <2>3 DEF PairInv, Listed, WillList
<1> QED BY <1>2, <1>3, <1>4 DEF ListInv

\* Steps between Add and Remove that leave the adapter alone.
LEMMA InsideLists ==
  ASSUME ListInv, ~Crashed, TypeOK, UNCHANGED <<clients, adapterOf>>, NEW c \in Conns,
         stage[c] \in Active, NEW next \in Active \ {"joining"}, stage' = [stage EXCEPT ![c] = next],
         \A d \in Conns \ {c} : nick'[d] = nick[d]
  PROVE  /\ MemberInv' /\ NickInv'
         /\ \A d \in Conns : stage'[d] = IF d = c THEN next ELSE stage[d]
<1>1. \A d \in Conns : stage'[d] = IF d = c THEN next ELSE stage[d]
  BY DEF TypeOK
<1>2. MemberInv'
  BY <1>1 DEF ListInv, MemberInv
<1>3. NickInv'
  BY <1>1 DEF ListInv, NickInv
<1> QED BY <1>1, <1>2, <1>3

\* The steps of a connection that is in its room.
LEMMA ListStep ==
  ASSUME RoomInv, ListInv, ~Crashed, NEW c \in Conns,
         Step(c) \/ Ready(c) \/ CloseTransport(c) \/ HangUp(c)
  PROVE  ListInv'
<1>1. /\ TypeOK /\ MemberInv /\ NickInv /\ \A d, e \in Conns : PairInv(d, e)
      /\ \A a \in Conns : clients[a] \subseteq Conns
      /\ \A d \in Conns : stage[d] \notin {"new", "crashed"} => adapterOf[d] \in Conns
  BY DEF RoomInv, EnteredInv, ListInv, TypeOK
<1>2. CASE AddClient(c)
  <2> DEFINE a == adapterOf[c]
  <2>1. stage[c] = "entered" /\ a \in Conns /\ UNCHANGED <<adapterOf, nick, list, listed>>
    BY <1>1, <1>2 DEF AddClient, roomVars, chatVars
  <2>2. CASE clients' = clients /\ stage' = [stage EXCEPT ![c] = "refused"]
    BY <1>1, <2>1, <2>2, OutsideLists DEF TypeOK, Active
  <2>3. CASE /\ \A d \in clients[a] : IdOf[d] # IdOf[c]
             /\ clients' = [clients EXCEPT ![a] = clients[a] \cup {c}] /\ stage' = [stage EXCEPT ![c] = "joining"]
    <3>1. \A d \in Conns : stage'[d] = IF d = c THEN "joining" ELSE stage[d]
      BY <1>1, <2>3 DEF TypeOK
    <3>2. \A b \in Conns : clients'[b] = IF b = a THEN clients[b] \cup {c} ELSE clients[b]
      BY Zenon, <1>1, <2>1, <2>3 DEF TypeOK
    <3>3. ~nick[c]
      BY <1>1, <2>1 DEF NickInv, Active
    <3> HIDE DEF a
    <3>4. MemberInv'
      <4>1. ASSUME NEW d \in Conns, stage'[d] \in Active PROVE d \in clients'[adapterOf[d]]
        <5>1. CASE d = c
          BY Zenon, <2>1, <3>2, <5>1 DEF a
        <5>2. CASE d # c
          <6>1. d \in clients[adapterOf[d]] /\ adapterOf[d] \in Conns
            BY <1>1, <3>1, <4>1, <5>2 DEF MemberInv, Active
          <6> QED BY Zenon, <3>2, <6>1
        <5> QED BY <5>1, <5>2
      <4>2. ASSUME NEW b \in Conns, NEW d \in clients'[b] PROVE stage'[d] \in Active /\ adapterOf[d] = b
        <5>1. CASE d = c /\ b = a
          BY <3>1, <5>1 DEF a, Active
        <5>2. CASE ~(d = c /\ b = a)
          <6>1. d \in clients[b] /\ d \in Conns
            BY Zenon, <1>1, <3>2, <5>2
          <6>2. stage[d] \in Active /\ adapterOf[d] = b
            BY <1>1, <6>1 DEF MemberInv
          <6>3. d # c
            BY <2>1, <6>2 DEF Active
          <6> QED BY <3>1, <6>1, <6>2, <6>3
        <5> QED BY <5>1, <5>2
      <4>3. ASSUME NEW b \in Conns, NEW d \in clients'[b], NEW e \in clients'[b], IdOf[d] = IdOf[e] PROVE d = e
        BY <1>1, <2>3, <3>2, <4>3 DEF MemberInv
      <4> QED BY <2>1, <4>1, <4>2, <4>3 DEF MemberInv
    <3>5. NickInv'
      BY <1>1, <2>1, <3>1, <3>3 DEF NickInv
    <3>6. ASSUME NEW d \in Conns, NEW e \in Conns PROVE PairInv(d, e)'
      <4>1. CASE d = c \/ e = c
        BY Zenon, <2>1, <3>3, <4>1 DEF PairInv
      <4>2. CASE d # c /\ e # c
        BY Zenon, <1>1, <2>1, <3>1, <4>2 DEF PairInv, Listed, WillList
      <4> QED BY <4>1, <4>2
    <3> QED BY <3>4, <3>5, <3>6 DEF ListInv
  <2> QED BY Zenon, <1>2, <2>2, <2>3 DEF AddClient, Members
<1>3. CASE BroadcastJoin(c)
  <2>1. /\ stage[c] = "joining" /\ stage' = [stage EXCEPT ![c] = "serving"]
        /\ UNCHANGED <<clients, adapterOf, nick, list, listed>>
    BY <1>3 DEF BroadcastJoin, roomVars, chatVars
  <2>2. MemberInv' /\ NickInv' /\ \A d \in Conns : stage'[d] = IF d = c THEN "serving" ELSE stage[d]
    BY Zenon, <1>1, <2>1, InsideLists DEF Active
  <2>3. ~nick[c]
    BY <1>1, <2>1 DEF NickInv
  <2>4. \A d, e \in Conns : PairInv(d, e)'
    BY <1>1, <2>1, <2>2, <2>3 DEF PairInv, Listed, WillList
  <2> QED BY <2>2, <2>4 DEF ListInv
<1>4. CASE RemoveClient(c)
  <2> DEFINE a == adapterOf[c]
  <2>1. /\ stage[c] = "leaving" /\ a \in Conns /\ UNCHANGED <<adapterOf, list>>
        /\ clients' = [clients EXCEPT ![a] = {d \in clients[a] : IdOf[d] # IdOf[c]}]
        /\ stage' = [stage EXCEPT ![c] = "removed"] /\ nick' = [nick EXCEPT ![c] = FALSE]
        /\ listed' = [d \in Conns |-> IF d = c THEN {} ELSE listed[d] \ {c}]
    BY <1>1, <1>4 DEF RemoveClient, roomVars
  <2>2. c \in clients[a] /\ \A d \in clients[a] : IdOf[d] = IdOf[c] => d = c
    BY <1>1, <2>1 DEF MemberInv, Active
  <2>3. \A b \in Conns : clients'[b] = IF b = a THEN clients[b] \ {c} ELSE clients[b]
    BY Zenon, <1>1, <2>1, <2>2 DEF TypeOK
  <2>4. /\ \A d \in Conns : stage'[d] = IF d = c THEN "removed" ELSE stage[d]
        /\ \A d \in Conns : nick'[d] = IF d = c THEN FALSE ELSE nick[d]
    BY <1>1, <2>1 DEF TypeOK
  <2> HIDE DEF a
  <2>5. MemberInv'
    <3>1. ASSUME NEW d \in Conns, stage'[d] \in Active PROVE d \in clients'[adapterOf[d]]
      <4>1. d # c /\ d \in clients[adapterOf[d]] /\ adapterOf[d] \in Conns
        BY <1>1, <2>4, <3>1 DEF MemberInv, Active
      <4> QED BY Zenon, <2>3, <4>1
    <3>2. ASSUME NEW b \in Conns, NEW d \in clients'[b] PROVE stage'[d] \in Active /\ adapterOf[d] = b
      <4>1. d \in clients[b] /\ d \in Conns /\ (b = a => d # c)
        BY Zenon, <1>1, <2>3
      <4>2. stage[d] \in Active /\ adapterOf[d] = b
        BY <1>1, <4>1 DEF MemberInv
      <4>3. d # c
        BY <4>1, <4>2 DEF a
      <4> QED BY <2>4, <4>1, <4>2, <4>3
    <3>3. ASSUME NEW b \in Conns, NEW d \in clients'[b], NEW e \in clients'[b], IdOf[d] = IdOf[e] PROVE d = e
      <4>1. d \in clients[b] /\ e \in clients[b]
        BY Zenon, <2>3
      <4> QED BY <1>1, <3>3, <4>1 DEF MemberInv
    <3> QED BY <2>1, <3>1, <3>2, <3>3 DEF MemberInv
  <2>6. NickInv'
    BY Zenon, <1>1, <2>4 DEF NickInv
  <2>7. ASSUME NEW d \in Conns, NEW e \in Conns PROVE PairInv(d, e)'
    <3>1. CASE d = c \/ e = c
      BY Zenon, <2>4, <3>1 DEF PairInv
    <3>2. CASE d # c /\ e # c
      <4>1. PairInv(d, e)
        BY <1>1
      <4>2. listed'[d] = listed[d] \ {c} /\ listed'[e] = listed[e] \ {c}
        BY <2>1, <3>2
      <4> QED BY <2>1, <2>4, <3>2, <4>1, <4>2 DEF PairInv, Listed, WillList
    <3> QED BY <3>1, <3>2
  <2> QED BY <2>5, <2>6, <2>7 DEF ListInv
<1>5. CASE Ready(c)
  <2>1. /\ stage[c] = "serving" /\ stage' = [stage EXCEPT ![c] = "listing"]
        /\ UNCHANGED <<clients, adapterOf, list, listed>>
        /\ nick' = [d \in Conns |-> IF d \in Members(c) /\ IdOf[d] = IdOf[c] THEN TRUE ELSE nick[d]]
    BY <1>5 DEF Ready, roomVars
  <2>2. \A d \in Conns \ {c} : nick'[d] = nick[d]
    <3>1. adapterOf[c] \in Conns /\ c \in clients[adapterOf[c]]
      BY <1>1, <2>1 DEF MemberInv, Active
    <3>2. \A d \in Members(c) : IdOf[d] = IdOf[c] => d = c
      BY <1>1, <3>1 DEF MemberInv, Members
    <3> QED BY Zenon, <2>1, <3>2
  <2>3. MemberInv' /\ NickInv' /\ \A d \in Conns : stage'[d] = IF d = c THEN "listing" ELSE stage[d]
    <3>1. "listing" \in Active \ {"joining"} /\ stage[c] \in Active
      BY <2>1 DEF Active
    <3> QED BY Zenon, <1>1, <2>1, <2>2, <3>1, InsideLists
  <2>4. ASSUME NEW d \in Conns, NEW e \in Conns PROVE PairInv(d, e)'
    <3>1. CASE d = c \/ e = c
      BY <2>3, <3>1 DEF PairInv
    <3>2. CASE d # c /\ e # c
      <4>1. PairInv(d, e)
        BY <1>1
      <4> QED BY Zenon, <2>1, <2>2, <2>3, <3>2, <4>1 DEF PairInv, Listed, WillList
    <3> QED BY <3>1, <3>2
  <2> QED BY <2>3, <2>4 DEF ListInv
<1>6. CASE ListClients(c)
  <2>1. /\ stage[c] = "listing" /\ stage' = [stage EXCEPT ![c] = "users"]
        /\ UNCHANGED <<clients, adapterOf, nick, listed>>
        /\ list' = [list EXCEPT ![c] = {d \in Members(c) : nick[d]}]
    BY <1>6 DEF ListClients, roomVars
  <2>2. MemberInv' /\ NickInv' /\ \A d \in Conns : stage'[d] = IF d = c THEN "users" ELSE stage[d]
    BY Zenon, <1>1, <2>1, InsideLists DEF Active
  <2>3. \A d \in Conns : nick[d] /\ adapterOf[d] = adapterOf[c] => d \in list'[c]
    BY <1>1, <2>1 DEF NickInv, MemberInv, Members, TypeOK
  <2>4. \A d \in Conns \ {c} : list'[d] = list[d]
    BY <1>1, <2>1 DEF TypeOK
  <2>5. ASSUME NEW d \in Conns, NEW e \in Conns PROVE PairInv(d, e)'
    <3>1. CASE d = c \/ e = c
      BY <2>1, <2>2, <2>3, <3>1 DEF PairInv, WillList
    <3>2. CASE d # c /\ e # c
      <4>1. PairInv(d, e)
        BY <1>1
      <4> QED BY <2>1, <2>2, <2>4, <3>2, <4>1 DEF PairInv, Listed, WillList
    <3> QED BY <3>1, <3>2
  <2> QED BY Zenon, <2>2, <2>5 DEF ListInv
<1>7. CASE Users(c)
  <2>1. /\ stage[c] = "users" /\ stage' = [stage EXCEPT ![c] = "serving"]
        /\ UNCHANGED <<clients, adapterOf, nick>> /\ list' = [list EXCEPT ![c] = {}]
        /\ listed' = [d \in Conns |->
                        IF d \in Members(c) THEN listed[d] \cup (list[c] \cap Members(c)) ELSE listed[d]]
    BY <1>7 DEF Users, roomVars
  <2>2. MemberInv' /\ NickInv' /\ \A d \in Conns : stage'[d] = IF d = c THEN "serving" ELSE stage[d]
    BY Zenon, <1>1, <2>1, InsideLists DEF Active
  <2>3. \A d \in Conns : nick[d] /\ adapterOf[d] = adapterOf[c] => d \in Members(c)
    BY <1>1 DEF NickInv, MemberInv, Members
  <2>4. \A d \in Conns : listed[d] \subseteq listed'[d] /\ (d # c => list'[d] = list[d])
    BY <1>1, <2>1 DEF TypeOK
  <2>5. ASSUME NEW d \in Conns, NEW e \in Conns PROVE PairInv(d, e)'
    <3>1. PairInv(d, e)
      BY <1>1
    <3>2. SUFFICES ASSUME nick[d], nick[e], adapterOf[d] = adapterOf[e],
                          stage'[d] # "listing", stage'[e] # "listing"
                   PROVE  (Listed(d, e) \/ WillList(d, d, e) \/ WillList(e, d, e))'
      BY <2>1 DEF PairInv
    <3>3. Listed(d, e) \/ WillList(d, d, e) \/ WillList(e, d, e)
      BY <2>1, <2>2, <3>1, <3>2 DEF PairInv
    <3>4. CASE Listed(d, e)
      BY <2>4, <3>4 DEF Listed
    <3>5. CASE (d = c \/ e = c) /\ WillList(c, d, e)
      <4>1. d \in Members(c) /\ e \in Members(c) /\ d \in list[c] /\ e \in list[c]
        BY <2>3, <3>2, <3>5 DEF WillList
      <4>2. Listed(d, e)'
        BY <2>1, <4>1 DEF Listed
      <4> QED BY <4>2
    <3>6. CASE d # c /\ WillList(d, d, e)
      BY <2>2, <2>4, <3>6 DEF WillList
    <3>7. CASE e # c /\ WillList(e, d, e)
      BY <2>2, <2>4, <3>7 DEF WillList
    <3> QED BY <3>3, <3>4, <3>5, <3>6, <3>7
  <2> QED BY <2>2, <2>5 DEF ListInv
<1>8. CASE SignalsEnd(c) \/ CloseTransport(c)
  <2>1. UNCHANGED <<clients, adapterOf, stage, list, listed>> /\ \A d \in Conns : nick'[d] => nick[d]
    BY Zenon, <1>8 DEF SignalsEnd, CloseTransport, roomVars
  <2>2. MemberInv' /\ NickInv'
    BY <1>1, <2>1 DEF MemberInv, NickInv
  <2>3. \A d, e \in Conns : PairInv(d, e)'
    BY <1>1, <2>1 DEF PairInv, Listed, WillList
  <2> QED BY <2>2, <2>3 DEF ListInv
<1>9. CASE HangUp(c)
  <2>1. /\ stage[c] = "serving" /\ stage' = [stage EXCEPT ![c] = "leaving"]
        /\ UNCHANGED <<clients, adapterOf, nick, list, listed>>
    BY <1>9 DEF HangUp, roomVars
  <2>2. MemberInv' /\ NickInv' /\ \A d \in Conns : stage'[d] = IF d = c THEN "leaving" ELSE stage[d]
    BY Zenon, <1>1, <2>1, InsideLists DEF Active
  <2>3. \A d, e \in Conns : PairInv(d, e)'
    BY <1>1, <2>1, <2>2 DEF PairInv, Listed, WillList
  <2> QED BY <2>2, <2>3 DEF ListInv
<1> QED BY <1>2, <1>3, <1>4, <1>5, <1>6, <1>7, <1>8, <1>9 DEF Step

\* Every step keeps what is known of the lists.
LEMMA ListNext == ListInv /\ RoomInv /\ [Next]_vars => ListInv'
<1> SUFFICES ASSUME ListInv, RoomInv, [Next]_vars PROVE ListInv'
  OBVIOUS
<1>1. TypeOK /\ \A a \in Conns : clients[a] \subseteq Conns
  BY DEF RoomInv, TypeOK
<1>2. CASE Crashed
  <2>1. \A c \in Conns : stage[c] = "crashed"
    BY <1>2 DEF RoomInv, CrashInv
  <2>2. UNCHANGED stage
    BY Zenon, <1>2, <2>1 DEF Next, Loop, Step, AcceptEvent, ReadFactories, AskFactory, FactoryUp, FactoryDown, Enter, Exit,
          AddClient, BroadcastJoin, RemoveClient, ListClients, Users, SignalsEnd, Ready, CloseTransport,
          HangUp, ConcurrentMapWrite, vars
  <2>3. Crashed'
    BY <1>2, <2>2 DEF Crashed
  <2> QED BY <2>3 DEF ListInv
<1>3. CASE ~Crashed
  <2>1. ASSUME NEW c \in Conns, Enter(c) \/ Exit(c) PROVE ListInv'
    <3>1. /\ stage[c] \in {"new", "removed"} /\ UNCHANGED <<clients, nick, list, listed>>
          /\ \E next \in {"entering", "entered", "exiting", "gone"} : stage' = [stage EXCEPT ![c] = next]
          /\ adapterOf' = adapterOf \/ \E a : adapterOf' = [adapterOf EXCEPT ![c] = a]
      BY <2>1 DEF Enter, Exit, chatVars
    <3>2. /\ \A d \in Conns : stage[d] \in Active => stage'[d] = stage[d] /\ adapterOf'[d] = adapterOf[d]
          /\ \A d \in Conns : stage[d] \notin Active => stage'[d] \notin Active
      BY <1>1, <3>1 DEF TypeOK, Active
    <3> QED BY <1>1, <1>3, <3>1, <3>2, OutsideLists
  <2>2. ASSUME AcceptEvent PROVE ListInv'
    <3> DEFINE c == sending.conn
    <3>1. c \in Conns /\ stage[c] \in {"entering", "exiting"} /\ UNCHANGED <<adapterOf, clients, nick, list, listed>>
      BY Zenon, <1>1, <1>3, <2>2 DEF AcceptEvent, RoomInv, RunningInv, SendingInv, TypeOK, roomVars, chatVars
    <3>2. \E next \in {"entered", "gone"} : stage' = [stage EXCEPT ![c] = next]
      BY Zenon, <2>2 DEF AcceptEvent
    <3> HIDE DEF c
    <3>3. /\ \A d \in Conns : stage[d] \in Active => stage'[d] = stage[d]
          /\ \A d \in Conns : stage[d] \notin Active => stage'[d] \notin Active
      BY <1>1, <3>1, <3>2 DEF TypeOK, Active
    <3> QED BY Zenon, <1>1, <1>3, <3>1, <3>3, OutsideLists
  <2>3. ASSUME NEW f \in Factories, AskFactory(f) \/ FactoryUp(f) \/ FactoryDown(f) PROVE ListInv'
    <3>1. UNCHANGED <<stage, adapterOf, clients, nick, list, listed>>
      BY <2>3 DEF AskFactory, FactoryUp, FactoryDown, roomVars, chatVars
    <3> QED BY Zenon, <1>1, <1>3, <3>1, OutsideLists
  <2>6. ASSUME ReadFactories PROVE ListInv'
    <3>1. UNCHANGED <<stage, adapterOf, clients, nick, list, listed>>
      BY Zenon, <2>6 DEF ReadFactories, roomVars, chatVars
    <3> QED BY Zenon, <1>1, <1>3, <3>1, OutsideLists
  <2>4. ASSUME NEW c \in Conns, NEW d \in Conns, ConcurrentMapWrite(c, d) PROVE ListInv'
    <3>1. Crashed'
      BY <2>4 DEF ConcurrentMapWrite, Crashed
    <3> QED BY <3>1 DEF ListInv
  <2>5. CASE UNCHANGED vars
    <3>1. UNCHANGED <<stage, adapterOf, clients, nick, list, listed>>
      BY <2>5 DEF vars
    <3> QED BY Zenon, <1>1, <1>3, <3>1, OutsideLists
  <2> QED BY <1>3, <2>1, <2>2, <2>3, <2>4, <2>5, <2>6, ListStep DEF Next, Loop
<1> QED BY <1>2, <1>3

\* Two clients of a room that have handled ready were each sent the name of the
\* other, in whichever order their goroutines stored nicknames, read lists and
\* sent them, and although an older connection of the same id may still end.
THEOREM ListsComplete == Spec => []ReadyClientsListed
<1>1. Init => ListInv
  BY DEF Init, ListInv, MemberInv, NickInv, PairInv, Active
<1>2. ListInv /\ RoomInv => ReadyClientsListed
  <2> SUFFICES ASSUME ListInv, RoomInv, NEW c \in Conns, NEW d \in Conns,
                      stage[c] = "serving", stage[d] = "serving", RoomOf[c] = RoomOf[d], nick[c], nick[d]
               PROVE  d \in listed[c]
    BY Zenon DEF ReadyClientsListed
  <2>1. ~Crashed
    BY DEF RoomInv, CrashInv
  <2>2. RoomOf[c] \in Rooms /\ c \in Inside(RoomOf[c]) /\ d \in Inside(RoomOf[c])
    BY ConnsAssumption DEF Inside
  <2>3. adapterOf[c] = adapterOf[d]
    BY <2>1, <2>2 DEF RoomInv, RunningInv, CountInv
  <2>4. PairInv(c, d)
    BY <2>1 DEF ListInv
  <2> QED BY Zenon, <2>3, <2>4 DEF PairInv, Listed, WillList
<1> QED BY <1>1, <1>2, ListNext, RoomInvariant, PTL DEF Spec
=============================================================================
