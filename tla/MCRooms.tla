------------------------------ MODULE MCRooms ------------------------------
(* Three sockets in one room, two of them with the same client id. The first   *)
(* state says whether there are other nodes or the clients become ready: what  *)
(* the node manager does and what the clients of a room say do not meet.       *)
EXTENDS Rooms, TLC

CONSTANTS r1, i1, i2, c1, c2, c3

VARIABLE scenario

ConnRoom == [c \in Conns |-> r1]
ConnId == [c \in Conns |-> IF c \in {c1, c2} THEN i1 ELSE i2]

Within ==
  /\ scenario = "ready" => factories' = {}
  /\ scenario = "nodes" => \A c \in Conns : stage'[c] # "listing"

MCInit == Init /\ scenario \in {"ready", "nodes"}
MCNext == Next /\ Within /\ UNCHANGED scenario
MCSpec == MCInit /\ [][MCNext]_<<vars, scenario>> /\ Fairness
=============================================================================
