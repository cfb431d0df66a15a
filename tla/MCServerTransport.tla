------------------------- MODULE MCServerTransport -------------------------
(* Node a offers a track, removes it and offers it again.                      *)
EXTENDS ServerTransport, TLC

CONSTANTS a, b, ta

MCOffers == (a :> {ta}) @@ (b :> {})
MCSSRCs == (a :> {1, 2}) @@ (b :> {})
\* The track is added twice while both ends stay; once, with two changes of its
\* subscription; twice, with one call of Close or CloseWrite; once, with two such
\* calls; once, with one and a data message.
MCBudgets ==
  LET none == (a :> 0) @@ (b :> 0)
      one == (a :> 0) @@ (b :> 1)
  IN {[adds |-> 2, toggles |-> 0, closes |-> 0, messages |-> none, stray |-> {1}],
      [adds |-> 1, toggles |-> 2, closes |-> 0, messages |-> none, stray |-> {1}],
      [adds |-> 2, toggles |-> 0, closes |-> 1, messages |-> none, stray |-> {}],
      [adds |-> 1, toggles |-> 0, closes |-> 2, messages |-> none, stray |-> {}],
      [adds |-> 1, toggles |-> 0, closes |-> 1, messages |-> one, stray |-> {1}]}
MCPeer == (a :> b) @@ (b :> a)
=============================================================================
