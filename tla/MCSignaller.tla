---------------------------- MODULE MCSignaller ----------------------------
(* A server and a browser, with up to two tracks of the server and one of the  *)
(* browser.                                                                    *)
EXTENDS Signaller, TLC

CONSTANTS server, browser

MCPeer == (server :> browser) @@ (browser :> server)
MCOffers == (server :> {"s1", "s2"}) @@ (browser :> {"b1"})
MCBudgets ==
  LET none == [e \in Ends |-> 0]
      each == [e \in Ends |-> 1]
  IN {[tracks |-> 3, closes |-> 0, candidates |-> none],
      [tracks |-> 1, closes |-> 0, candidates |-> each],
      [tracks |-> 1, closes |-> 1, candidates |-> each],
      [tracks |-> 2, closes |-> 1, candidates |-> none]}
=============================================================================
