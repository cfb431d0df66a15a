--------------------------- MODULE TracksManager ---------------------------
(* The peer managers of all rooms: TracksManager.Add creates one for the first *)
(* transport of a room, and the goroutine that waits for a transport's Done    *)
(* closes the manager when no transport is left. Every operation runs under    *)
(* TracksManager.mu and is one step; what a PeerManager does inside is in      *)
(* module PeerManager.                                                         *)
EXTENDS Naturals

CONSTANTS Rooms, Clients, Transports,
          RoomOf,       \* [Transports -> Rooms]
          ClientOf,     \* [Transports -> Clients]
          MaxManagers,  \* how many peer managers are ever created
          None

ASSUME TracksAssumption ==
  /\ RoomOf \in [Transports -> Rooms]
  /\ ClientOf \in [Transports -> Clients]
  /\ MaxManagers \in Nat
  /\ None \notin Transports \cup Nat

VARIABLES
  peerManagers,  \* TracksManager.peerManagers
  created,       \* number of peer managers created so far
  transports,    \* PeerManager.transports of every manager
  stage,         \* life of a transport; "gone" once its Done was handled
  managerOf,     \* the manager a transport's Done goroutine captured
  closing,       \* goroutines of PeerManager.Close that wait for the others to end
  eventsChan     \* the channel PubSub.Close closes; "panic" when it is closed again

vars == <<peerManagers, created, transports, stage, managerOf, closing, eventsChan>>

Managers == 1..MaxManagers
Size(m) == {c \in Clients : transports[m][c] # None}

Init ==
  /\ peerManagers = [r \in Rooms |-> None]
  /\ created = 0
  /\ transports = [m \in Managers |-> [c \in Clients |-> None]]
  /\ stage = [tr \in Transports |-> "new"]
  /\ managerOf = [tr \in Transports |-> None]
  /\ closing = [m \in Managers |-> 0]
  /\ eventsChan = [m \in Managers |-> "open"]

\* TracksManager.Add with PeerManager.add, which closes the transport that it
\* replaces.
Add(tr) ==
  LET r == RoomOf[tr]
      isNew == peerManagers[r] = None
      m == IF isNew THEN created + 1 ELSE peerManagers[r]
      existing == transports[m][ClientOf[tr]]
  IN /\ stage[tr] = "new"
     /\ m \in Managers
     /\ created' = IF isNew THEN m ELSE created
     /\ peerManagers' = [peerManagers EXCEPT ![r] = m]
     /\ transports' = [transports EXCEPT ![m][ClientOf[tr]] = tr]
     /\ stage' = [u \in Transports |->
                    IF u = tr THEN "open"
                    ELSE IF u = existing /\ stage[u] = "open" THEN "closed" ELSE stage[u]]
     /\ managerOf' = [managerOf EXCEPT ![tr] = m]
     /\ UNCHANGED <<closing, eventsChan>>

\* A peer disconnects.
CloseTransport(tr) ==
  /\ stage[tr] = "open"
  /\ stage' = [stage EXCEPT ![tr] = "closed"]
  /\ UNCHANGED <<peerManagers, created, transports, managerOf, closing, eventsChan>>

\* Mutant: the size is checked before the transport is removed.
Done_SizeFirst(tr) ==
  LET m == managerOf[tr]
      c == ClientOf[tr]
      empty == Size(m) = {}
  IN /\ stage[tr] = "closed"
     /\ stage' = [stage EXCEPT ![tr] = "gone"]
     /\ transports' = IF transports[m][c] = tr
                      THEN [transports EXCEPT ![m][c] = None] ELSE transports
     /\ peerManagers' = IF empty THEN [peerManagers EXCEPT ![RoomOf[tr]] = None] ELSE peerManagers
     /\ closing' = IF empty THEN [closing EXCEPT ![m] = @ + 1] ELSE closing
     /\ UNCHANGED <<created, managerOf, eventsChan>>

\* Mutant: the manager is closed when the last but one transport leaves.
Done_OneLeft(tr) ==
  LET m == managerOf[tr]
      c == ClientOf[tr]
      left == Size(m) \ {c}
      empty == \A d, e \in left : d = e
  IN /\ stage[tr] = "closed"
     /\ stage' = [stage EXCEPT ![tr] = "gone"]
     /\ transports' = IF transports[m][c] = tr
                      THEN [transports EXCEPT ![m][c] = None] ELSE transports
     /\ peerManagers' = IF empty THEN [peerManagers EXCEPT ![RoomOf[tr]] = None] ELSE peerManagers
     /\ closing' = IF empty THEN [closing EXCEPT ![m] = @ + 1] ELSE closing
     /\ UNCHANGED <<created, managerOf, eventsChan>>

\* The goroutine that waits for Done. Remove refuses a transport that was
\* replaced; the size is checked all the same. An empty manager is closed, although
\* it may have been closed before, and the room's entry is deleted, whichever
\* manager it holds.
Done(tr) ==
  LET m == managerOf[tr]
      c == ClientOf[tr]
      registered == transports[m][c] = tr
      empty == Size(m) \ (IF registered THEN {c} ELSE {}) = {}
  IN /\ stage[tr] = "closed"
     /\ stage' = [stage EXCEPT ![tr] = "gone"]
     /\ transports' = IF registered THEN [transports EXCEPT ![m][c] = None] ELSE transports
     /\ peerManagers' = IF empty THEN [peerManagers EXCEPT ![RoomOf[tr]] = None] ELSE peerManagers
     /\ closing' = IF empty THEN [closing EXCEPT ![m] = @ + 1] ELSE closing
     /\ UNCHANGED <<created, managerOf, eventsChan>>

\* The goroutine of PeerManager.Close: wg.Wait returns when the goroutines of
\* every transport of the manager have ended, then PubSub.Close.
ClosePubSub(m) ==
  /\ closing[m] > 0
  /\ \A tr \in Transports : managerOf[tr] = m => stage[tr] \in {"closed", "gone"}
  /\ closing' = [closing EXCEPT ![m] = @ - 1]
  /\ eventsChan' = [eventsChan EXCEPT ![m] = IF @ = "open" THEN "closed" ELSE "panic"]
  /\ UNCHANGED <<peerManagers, created, transports, stage, managerOf>>

Next ==
  \/ \E tr \in Transports : Add(tr) \/ CloseTransport(tr) \/ Done(tr)
  \/ \E m \in Managers : ClosePubSub(m)

\* Done and the goroutine of Close wait only for what happens.
Fairness ==
  /\ \A tr \in Transports : WF_vars(Done(tr))
  /\ \A m \in Managers : WF_vars(ClosePubSub(m))

Spec == Init /\ [][Next]_vars
FairSpec == Spec /\ Fairness

-----------------------------------------------------------------------------
\* Every variable keeps its type.
TypeOK ==
  /\ peerManagers \in [Rooms -> Managers \cup {None}]
  /\ created \in 0..MaxManagers
  /\ transports \in [Managers -> [Clients -> Transports \cup {None}]]
  /\ stage \in [Transports -> {"new", "open", "closed", "gone"}]
  /\ managerOf \in [Transports -> Managers \cup {None}]
  /\ closing \in [Managers -> Nat]
  /\ eventsChan \in [Managers -> {"open", "closed", "panic"}]

\* A manager was told to close a second time: PubSub.Close will close its channel
\* again.
ClosedAgain ==
  \E m \in Managers :
    closing[m] > 1 \/ (closing[m] = 1 /\ eventsChan[m] # "open") \/ eventsChan[m] = "panic"

\* A manager with transports is the one its room is registered with, so that Sub
\* and Unsub reach it and the next Add joins it.
MembersReachable ==
  \A tr \in Transports :
    stage[tr] = "open" => peerManagers[RoomOf[tr]] = managerOf[tr]

\* A registered manager has not been closed.
RegisteredIsOpen ==
  \A r \in Rooms : peerManagers[r] # None =>
    closing[peerManagers[r]] = 0 /\ eventsChan[peerManagers[r]] = "open"

\* tracks_manager.go: "It is fine to check for the size because peerManager is only
\* ever modified from this component, and we are under a lock": a manager is closed
\* once, and PubSub.Close does not close its channel again.
ClosedOnce == \A m \in Managers : eventsChan[m] # "panic"

\* A manager whose transports have all closed is torn down in the end.
EmptyIsClosed ==
  \A m \in Managers :
    (m <= created /\ \A tr \in Transports : managerOf[tr] = m => stage[tr] # "open")
      ~> (eventsChan[m] # "open" \/ \E tr \in Transports : managerOf[tr] = m /\ stage[tr] = "open")

\* Clients may come back before the Done of their old transport is handled, and each
\* Done goroutine acts on the manager it captured. Until one of them closes a
\* manager again, a room with transports has exactly one manager, which is
\* registered and has not been closed.
RoomsReachable == TypeOK /\ (ClosedAgain \/ (MembersReachable /\ RegisteredIsOpen))
=============================================================================
