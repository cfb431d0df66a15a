------------------------------ MODULE MCFactory ------------------------------
(* Instances of Factory for TLC: one link between two nodes.               *)
EXTENDS FactoryInv

CONSTANTS n1, n2, s1, s2

TwoNodes == {n1, n2}

OtherEnd == [n \in TwoNodes |-> IF n = n1 THEN n2 ELSE n1]

\* Both nodes make local calls for every stream.
AnyInitiator == TwoNodes \X Streams

\* Both nodes make the local calls for s1, only n2 those for s2.
MixedInitiators == {<<n1, s1>>, <<n2, s1>>, <<n2, s2>>}
=============================================================================
