------------------------------- MODULE MCMux -------------------------------
(* The links of a node: a multiplexer, or the manager of the factories on top  *)
(* of the UDP mux. The first state says which of them moves. The behaviours of *)
(* StringMux are those of UDPMux in which CloseDrains does not happen, and the *)
(* fairness is about the steps they share, so one run is for both.             *)
(*                                                                             *)
(* Two keys, two connections and two packets are enough for a key to be used   *)
(* again and for a loop to wait for a full connection; two factories, for an   *)
(* address to be used again while its old factory is being removed, and for a  *)
(* request while another factory is offered.                                   *)
EXTENDS StringMux, TLC

CONSTANTS Addrs, MaxFactories

VARIABLES kind, conn, addrOf, state, factories, pending, request, removing, mloop, listing, mclosing

managerVars ==
  <<conn, addrOf, state, factories, pending, request, removing, mloop, listing, mclosing>>

U == INSTANCE UDPMux
M == INSTANCE Manager WITH loop <- mloop, closing <- mclosing

MCInit == Init /\ M!Init /\ kind \in {"mux", "manager"}

MCNext ==
  /\ \/ kind = "mux" /\ U!Next /\ UNCHANGED managerVars
     \/ kind = "manager" /\ M!Next /\ UNCHANGED vars
  /\ UNCHANGED kind

\* The fairness of all: none of the actions it is about is enabled in the first
\* state, hence in a part that does not move.
MCSpec ==
  /\ MCInit
  /\ [][MCNext]_<<kind, vars, managerVars>>
  /\ LoopFairness /\ M!Fairness

\* A remote address has one factory that lives or is being created: handleConn and
\* handleNewFactoryRequest both need a connection the UDP mux does not have. Every
\* request the manager has taken gets one response.
OneFactoryPerAddress == M!OneFactoryPerAddress

\* A factory in the manager's map that has ended will be removed, and none survives
\* the manager but one that had lost its place to the removal of its predecessor.
FactoriesEnd == M!FactoriesEnd

\* GetFactory is answered, unless the manager's loop offers an incoming connection
\* whose handshake failed.
RequestAnswered == M!RequestAnswered
=============================================================================
