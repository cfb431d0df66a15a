-------------------------------- MODULE Mux --------------------------------
(* What a packet multiplexer promises its users. There is at most one open     *)
(* connection per key. A packet goes to the connection that is open for its    *)
(* key, after all earlier packets of that key and at most once; a connection   *)
(* is closed only because its user asked for it or because the whole mux ends, *)
(* and then stays closed.                                                      *)
EXTENDS Naturals, Sequences

CONSTANTS Keys, Conns, Packets, None

VARIABLES
  owner,    \* the open connection of a key, or None
  keyOf,    \* the key a connection was opened for
  inbox,    \* what was put into a connection, read or not
  read,     \* how much of it was read
  closing,  \* the connections some user is closing
  up

vars == <<owner, keyOf, inbox, read, closing, up>>

Opened == {c \in Conns : keyOf[c] # None}
Delivered(k) == UNION {{inbox[c][i].n : i \in DOMAIN inbox[c]} : c \in {d \in Conns : keyOf[d] = k}}

Init ==
  /\ owner = [k \in Keys |-> None]
  /\ keyOf = [c \in Conns |-> None]
  /\ inbox = [c \in Conns |-> <<>>]
  /\ read = [c \in Conns |-> 0]
  /\ closing = {}
  /\ up = TRUE

Open(k, c) ==
  /\ up /\ owner[k] = None /\ keyOf[c] = None
  /\ owner' = [owner EXCEPT ![k] = c]
  /\ keyOf' = [keyOf EXCEPT ![c] = k]
  /\ UNCHANGED <<inbox, read, closing, up>>

Deliver(p) ==
  /\ up /\ owner[p.key] # None
  /\ \A n \in Delivered(p.key) : n < p.n
  /\ inbox' = [inbox EXCEPT ![owner[p.key]] = Append(@, p)]
  /\ UNCHANGED <<owner, keyOf, read, closing, up>>

Read(c) ==
  /\ read[c] < Len(inbox[c])
  /\ read' = [read EXCEPT ![c] = @ + 1]
  /\ UNCHANGED <<owner, keyOf, inbox, closing, up>>

AskClose(c) ==
  /\ c \in Opened
  /\ closing' = closing \cup {c}
  /\ UNCHANGED <<owner, keyOf, inbox, read, up>>

\* Close returns: the connection is closed, now or already.
Close(c) ==
  /\ c \in closing
  /\ closing' = closing \ {c}
  /\ owner' = [k \in Keys |-> IF owner[k] = c THEN None ELSE owner[k]]
  /\ UNCHANGED <<keyOf, inbox, read, up>>

TearDown ==
  /\ up
  /\ up' = FALSE
  /\ owner' = [k \in Keys |-> None]
  /\ UNCHANGED <<keyOf, inbox, read, closing>>

Next ==
  \/ TearDown
  \/ \E p \in Packets : Deliver(p)
  \/ \E c \in Conns : Read(c) \/ AskClose(c) \/ Close(c)
  \/ \E k \in Keys, c \in Conns : Open(k, c)

Spec == Init /\ [][Next]_vars
=============================================================================
