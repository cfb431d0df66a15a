--------------------------- MODULE MCRedisAdapter ---------------------------
(* Instances of RedisAdapter with two nodes.                                   *)
EXTENDS RedisAdapter

CONSTANTS n1, n2, a, b, p

\* a and p are on the first node, b is on the second.
MCNodeOf == [c \in Clients |-> IF c \in {a, p} THEN n1 ELSE n2]
=============================================================================
