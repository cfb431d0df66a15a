------------------------- MODULE ControlStateTracker -------------------------
(***************************************************************************)
(* The per-stream state machine of the node-to-node control protocol       *)
(* (server/udptransport2/control_state_tracker.go).                        *)
(*                                                                         *)
(* Two Peer Calls nodes share one server transport per room.  Each side    *)
(* keeps a tracker for the room: a local want_create or want_close starts  *)
(* a handshake that the other side acknowledges.  A tracker is a record;   *)
(* each method of the source is an operator returning the tracker after    *)
(* the call together with the call's results.                              *)
(***************************************************************************)

ControlState == {"closed", "created", "added", "write_closed"}

\* remoteControlEventType; "none" is the zero value, "nothing to send".
RemoteEvent == {"create", "create_ack", "close", "close_ack"}

PendingEvent == {"none", "create", "close"}

Tracker == [state: ControlState, pending: PendingEvent]

NewTracker == [state |-> "closed", pending |-> "none"]

-----------------------------------------------------------------------------
(* Local events.                                                           *)

\* A fault: the state moves on before the other end acknowledges.
WantCreate_Eager(t) ==
  IF t.state = "closed"
    THEN [tracker |-> [t EXCEPT !.state = "added"], send |-> "create"]
    ELSE [tracker |-> t, send |-> "none"]

WantCreate(t) ==
  CASE t.state = "closed" ->
         [tracker |-> [t EXCEPT !.state = "created"], send |-> "create"]
    [] t.state \in {"created", "added"} ->
         [tracker |-> [t EXCEPT !.pending = "none"], send |-> "none"]
    [] t.state = "write_closed" ->
         [tracker |-> [t EXCEPT !.pending = "create"], send |-> "none"]

\* A fault: close does not wait for the create_ack.
WantClose_Eager(t) ==
  IF t.state \in {"created", "added"}
    THEN [tracker |-> [state |-> "write_closed", pending |-> "none"], send |-> "close"]
    ELSE [tracker |-> [t EXCEPT !.pending = "none"], send |-> "none"]

WantClose(t) ==
  CASE t.state \in {"closed", "write_closed"} ->
         [tracker |-> [t EXCEPT !.pending = "none"], send |-> "none"]
    [] t.state = "created" ->
         [tracker |-> [t EXCEPT !.pending = "close"], send |-> "none"]
    [] t.state = "added" ->
         [tracker |-> [state |-> "write_closed", pending |-> "none"],
          send |-> "close"]

-----------------------------------------------------------------------------
(* Remote events.  handleRemoteEvent fails with errUnexpectedEvent exactly *)
(* when the event is not Expected.                                         *)

Expected(t, event) ==
  CASE event = "create"     -> t.state \in {"closed", "added"}
    [] event = "create_ack" -> t.state = "created"
    [] event = "close"      -> t.state \in {"added", "closed"}
    [] event = "close_ack"  -> t.state = "write_closed"

NextState(event) ==
  IF event \in {"create", "create_ack"} THEN "added" ELSE "closed"

Response(event) ==
  CASE event = "create" -> "create_ack"
    [] event = "close"  -> "close_ack"
    [] OTHER            -> "none"

HandleRemoteEvent(t, event) ==
  [tracker |-> [t EXCEPT !.state = NextState(event)],
   send    |-> Response(event),
   changed |-> t.state # NextState(event)]
=============================================================================
