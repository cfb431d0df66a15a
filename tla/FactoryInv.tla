------------------------------ MODULE FactoryInv ------------------------------
(***************************************************************************)
(* The inductive invariant behind the safety properties of Factory: which  *)
(* events of a stream can be on their way while the two trackers are in    *)
(* which states.                                                           *)
(***************************************************************************)
EXTENDS Factory

State(n, s) == tracker[n][s].state

\* An event of stream s is on the wire w.
On(w, s, event) ==
  \E i \in 1..Len(w) : w[i].stream = s /\ w[i].type = event

Has(n, s, event) == On(wire[n], s, event)

\* Two events of one stream on the same wire are an acknowledgement and then
\* a request of the same node.
Follows(first, second) ==
  \/ first = "create_ack" /\ second = "close"
  \/ first = "close_ack" /\ second = "create"

Ordered(w) ==
  \A i, j \in 1..Len(w) :
    i < j /\ w[i].stream = w[j].stream => Follows(w[i].type, w[j].type)

\* n took a create and still owes its create_ack.
Owes(n, s) == <<s, "create_ack">> \in handing[n]

\* A node alone: what its loop keeps about its streams.
LocalInv(n) ==
  /\ \A s \in Streams :
       (\A h \in handing[n] : h[1] # s) =>
         /\ (transport[n][s] = "nil") <=> (State(n, s) = "closed")
         /\ (transport[n][s] = "write_closed") <=> (State(n, s) = "write_closed")
         /\ (s \in room[n]) <=> (State(n, s) \in {"added", "write_closed"})
  /\ \A g, h \in handing[n] : g = h
  /\ \A h \in handing[n] :
       /\ State(n, h[1]) = "added"
       /\ h[1] \notin room[n]
       /\ transport[n][h[1]] # "write_closed"
       /\ h[2] = "none" => transport[n][h[1]] = "open"
  /\ ~up[n] => /\ wire[n] = <<>>
               /\ handing[n] = {}
               /\ \A s \in Streams : State(n, s) = "closed"

\* The two ends of a link about one stream, from the end n that receives.
LinkInv(n, s) ==
  LET m == Peer[n] IN
  /\ Has(n, s, "create") =>
       /\ State(m, s) = "created"
       /\ ~Owes(n, s) /\ ~Has(m, s, "create_ack")
       /\ \/ State(n, s) = "closed"
          \/ State(n, s) = "created" /\ Has(m, s, "create")
          \/ State(n, s) = "write_closed" /\ Has(n, s, "close_ack")
  /\ Has(n, s, "create_ack") =>
       /\ State(n, s) = "created"
       /\ ~Owes(m, s)
       /\ \/ State(m, s) = "added"
          \/ State(m, s) = "write_closed" /\ Has(n, s, "close")
  /\ Has(n, s, "close") =>
       /\ State(m, s) = "write_closed"
       /\ ~Has(m, s, "close_ack")
       /\ \/ State(n, s) = "added" /\ ~Owes(n, s)
          \/ State(n, s) = "write_closed" /\ Has(m, s, "close")
          \/ State(n, s) = "created" /\ Has(n, s, "create_ack")
  /\ Has(n, s, "close_ack") =>
       /\ State(n, s) = "write_closed"
       /\ \/ State(m, s) = "closed"
          \/ State(m, s) = "created" /\ Has(n, s, "create")
  /\ Owes(n, s) => State(m, s) = "created"
  /\ State(n, s) = "added" => State(m, s) # "closed"
  /\ State(n, s) = "created" =>
       Has(m, s, "create") \/ Owes(m, s) \/ Has(n, s, "create_ack")
  /\ State(n, s) = "write_closed" =>
       Has(m, s, "close") \/ Has(n, s, "close_ack")

\* The clauses about a link matter only while both of its ends run.
Links ==
  /\ \A n \in Nodes : Ordered(wire[n])
  /\ \A n \in Nodes, s \in Streams : up[n] /\ up[Peer[n]] => LinkInv(n, s)

\* The inductive invariant: from TransportMatchesTracker and AddedOnBothSides
\* alone one cannot tell what an event that is still on the wire will meet.
IInv ==
  /\ \A n \in Nodes : LocalInv(n)
  /\ Links

-----------------------------------------------------------------------------
(* With one initiator per stream, an event finds its receiver in the one   *)
(* state that expects it.                                                  *)

OneSided(n, s) ==
  /\ State(n, s) \in {"created", "write_closed"} => <<n, s>> \in Initiators
  /\ Has(n, s, "create") => State(n, s) = "closed" /\ <<Peer[n], s>> \in Initiators
  /\ Has(n, s, "create_ack") => State(n, s) = "created"
  /\ Has(n, s, "close") => State(n, s) = "added" /\ <<Peer[n], s>> \in Initiators
  /\ Has(n, s, "close_ack") => State(n, s) = "write_closed"

\* Inductive relative to IInv; NoUnexpectedEvent looks at the next event only.
SplitInv == \A n \in Nodes, s \in Streams : OneInitiator(s) => OneSided(n, s)
=============================================================================
