---------------------------- MODULE PeerManager ----------------------------
(* One room of the SFU: PeerManager with its PubSub, the TrackReaders, the     *)
(* event loop of pubsub/events.go, the forwarding goroutine of every transport *)
(* and the consumer that reads from it (SocketHandler or NodeManager).         *)
(*                                                                             *)
(* A reader is the pair of the transport and the track it reads. The mutex     *)
(* PeerManager.mu is lock: the steps its holder still has to take, <<>> when   *)
(* it is free. TracksManager.mu is held by the same operations, and by Add     *)
(* until it has read Tracks (adding).                                          *)
EXTENDS Naturals, Sequences, FiniteSets

CONSTANTS
  Clients,     \* client ids
  Transports,  \* transports, each used for one connection of a client
  Servers,     \* the transports that lead to another node
  ClientOf,    \* [Transports -> Clients]
  Tracks,      \* track ids
  Remote,      \* [Transports -> SUBSET Tracks]: the tracks a transport may publish
  None

ASSUME TransportAssumption ==
  /\ ClientOf \in [Transports -> Clients]
  /\ Remote \in [Transports -> SUBSET Tracks]
  /\ Servers \subseteq Transports
  /\ None \notin Clients \cup Transports \cup Tracks \cup (Transports \X Tracks)

VARIABLES
  transports,  \* PeerManager.transports
  stage,       \* life of a transport; "gone" once its Done was handled
  publishers,  \* PubSub.publishers
  byPub,       \* PubSub.publishersByPubClientID
  subs,        \* publishersByTrack of PubSub.subsBySubClientID
  subTr,       \* transport of PubSub.subsBySubClientID, None without an entry
  rstate,      \* life of a TrackReader; "done" once onClose ran
  rsubs,       \* TrackReader.subs
  local,       \* local tracks of a transport
  lock, adding,
  pubbing,     \* the call of Pub in a transport's remote tracks goroutine
  evsub,       \* subs of events.start; a channel is named by its transport
  fan,         \* the event events.start is sending, and to whom it still must
  fwd,         \* the goroutine of Add that writes pubTrackEventsCh
  cons,        \* the event NodeManager is handling
  view         \* the tracks the reader of pubTrackEventsCh knows of

pubsubVars == <<publishers, byPub, subs, subTr, rsubs, local>>
eventVars  == <<evsub, fan, fwd, cons, view>>
vars == <<transports, stage, rstate, lock, adding, pubbing, pubsubVars, eventVars>>

Readers == {r \in Transports \X Tracks : r[2] \in Remote[r[1]]}
Owner(r) == ClientOf[r[1]]
IsServer(c) == \E tr \in Servers : ClientOf[tr] = c
Event == [type : {"add", "remove"}, client : Clients, track : Tracks]

Stage == {"new", "open", "closed", "gone"}
RState == {"none", "open", "closed", "done"}
Step == [op : {"unsubscribe", "subscribe"}, tr : Transports]
        \cup [op : {"terminate"}, tr : Transports, left : SUBSET Readers]
        \cup [op : {"send"}, ev : Event]
Pubbing == [pc : {"idle"}] \cup [pc : {"write", "send"}, track : Tracks]
Forward == [pc : {"off", "on", "done"}, left : SUBSET Event, item : Event \cup {None}]

Init ==
  /\ transports = [c \in Clients |-> None]
  /\ stage = [tr \in Transports |-> "new"]
  /\ publishers = [t \in Tracks |-> None]
  /\ byPub = [c \in Clients |-> {}]
  /\ subs = [c \in Clients |-> [t \in Tracks |-> None]]
  /\ subTr = [c \in Clients |-> None]
  /\ rstate = [r \in Readers |-> "none"]
  /\ rsubs = [r \in Readers |-> {}]
  /\ local = [tr \in Transports |-> {}]
  /\ lock = <<>> /\ adding = None
  /\ pubbing = [tr \in Transports |-> [pc |-> "idle"]]
  /\ evsub = [c \in Clients |-> None]
  /\ fan = [ev |-> None, to |-> {}]
  /\ fwd = [tr \in Transports |-> [pc |-> "off", left |-> {}, item |-> None]]
  /\ cons = [tr \in Transports |-> None]
  /\ view = [tr \in Transports |-> {}]

-----------------------------------------------------------------------------
(* PubSub                                                                     *)

\* Mutant: the reader is not told.
UnsubAll_KeepsReader(P) ==
  LET cleared(c) == {p[2][2] : p \in {q \in P : q[1] = c}}
  IN /\ subs' = [c \in Clients |->
                   [t \in Tracks |-> IF t \in cleared(c) THEN None ELSE subs[c][t]]]
     /\ UNCHANGED <<rsubs, local, subTr>>

\* PubSub.unsub for every pair <<client, reader>> of P.
UnsubAll(P) ==
  LET cleared(c) == {p[2][2] : p \in {q \in P : q[1] = c}}
      left == [c \in Clients |->
                 [t \in Tracks |-> IF t \in cleared(c) THEN None ELSE subs[c][t]]]
  IN /\ rsubs' = [r \in Readers |-> rsubs[r] \ {c \in Clients : <<c, r>> \in P}]
     /\ subs' = left
     /\ local' = [tr \in Transports |->
                    local[tr] \ UNION {cleared(c) : c \in {d \in Clients : subTr[d] = tr}}]
     /\ subTr' = [c \in Clients |->
                    IF \A t \in Tracks : left[c][t] = None THEN None ELSE subTr[c]]

\* PubSub.Unpub up to its send, for a track that is published.
Unpub(c, t) ==
  LET r == publishers[t]
  IN /\ UnsubAll(rsubs[r] \X {r})
     /\ byPub' = [byPub EXCEPT ![c] = @ \ {r}]
     /\ publishers' = [publishers EXCEPT ![t] = None]

\* PubSub.Sub by client c, which has a transport, to a track of another client.
\* A reader that has ended or that c already reads refuses, and the track that
\* was just added is removed again.
Sub(c, t) ==
  LET r == publishers[t]
      tr == transports[c]
  IN IF rstate[r] = "open" /\ c \notin rsubs[r]
     THEN /\ local' = [local EXCEPT ![tr] = @ \cup {t}]
          /\ rsubs' = [rsubs EXCEPT ![r] = @ \cup {c}]
          /\ subs' = [subs EXCEPT ![c][t] = r]
          /\ subTr' = [subTr EXCEPT ![c] = IF @ = None THEN tr ELSE @]
     ELSE /\ local' = [local EXCEPT ![tr] = @ \ {t}]
          /\ UNCHANGED <<rsubs, subs, subTr>>

-----------------------------------------------------------------------------
(* The remote tracks goroutine of Add. It does not hold the mutex.            *)

\* The goroutine's select may take a track although the transport is done.
TakeRemoteTrack(tr, t) ==
  /\ fwd[tr].pc # "off"
  /\ pubbing[tr].pc = "idle"
  /\ t \in Remote[tr] /\ rstate[<<tr, t>>] = "none"
  /\ rstate' = [rstate EXCEPT ![<<tr, t>>] = "open"]
  /\ pubbing' = [pubbing EXCEPT ![tr] = [pc |-> "write", track |-> t]]
  /\ UNCHANGED <<transports, stage, lock, adding, pubsubVars, eventVars>>

\* PubSub.Pub up to its send. A range over the readers of the client that is
\* under way may or may not produce the new one.
Pub(tr) ==
  LET r == <<tr, pubbing[tr].track>>
      c == ClientOf[tr]
  IN /\ pubbing[tr].pc = "write"
     /\ publishers' = [publishers EXCEPT ![r[2]] = r]
     /\ byPub' = [byPub EXCEPT ![c] = @ \cup {r}]
     /\ pubbing' = [pubbing EXCEPT ![tr].pc = "send"]
     /\ \/ lock' = lock
        \/ lock' = [i \in DOMAIN lock |->
                      IF lock[i].op = "terminate" /\ ClientOf[lock[i].tr] = c
                      THEN [lock[i] EXCEPT !.left = @ \cup {r}] ELSE lock[i]]
     /\ UNCHANGED <<transports, stage, rstate, adding, subs, subTr, rsubs, local, eventVars>>

-----------------------------------------------------------------------------
(* TrackReader                                                                *)

\* The read loop ends, because the track or its transport did.
EndTrack(r) ==
  /\ rstate[r] = "open"
  /\ rstate' = [rstate EXCEPT ![r] = "closed"]
  /\ UNCHANGED <<transports, stage, lock, adding, pubbing, pubsubVars, eventVars>>

\* WriteRTP to a closed transport: the reader forgets the subscriber.
WriteFails(r, c) ==
  /\ rstate[r] = "open" /\ c \in rsubs[r]
  /\ subTr[c] # None /\ stage[subTr[c]] \in {"closed", "gone"}
  /\ rsubs' = [rsubs EXCEPT ![r] = @ \ {c}]
  /\ UNCHANGED <<transports, stage, rstate, lock, adding, pubbing, publishers, byPub,
                 subs, subTr, local, eventVars>>

\* The onClose callback, in a goroutine of its own.
OnClose(r) ==
  LET c == Owner(r)
      t == r[2]
  IN /\ rstate[r] = "closed" /\ lock = <<>>
     /\ rstate' = [rstate EXCEPT ![r] = "done"]
     /\ IF publishers[t] = None
        THEN UNCHANGED <<lock, pubsubVars>>
        ELSE /\ Unpub(c, t)
             /\ lock' = <<[op |-> "send", ev |-> [type |-> "remove", client |-> c, track |-> t]]>>
     /\ UNCHANGED <<transports, stage, adding, pubbing, eventVars>>

-----------------------------------------------------------------------------
(* PeerManager and TracksManager                                              *)

Remove(tr) == <<[op |-> "unsubscribe", tr |-> tr],
                [op |-> "terminate", tr |-> tr, left |-> {}]>>

\* TracksManager.Add and PeerManager.add: a transport of the same client is
\* closed and removed first.
Add(tr) ==
  LET existing == transports[ClientOf[tr]]
  IN /\ stage[tr] = "new" /\ lock = <<>> /\ adding = None
     /\ stage' = [s \in Transports |->
                    CASE s = tr -> "open"
                      [] s = existing /\ stage[s] = "open" -> "closed"
                      [] OTHER -> stage[s]]
     /\ lock' = (IF existing = None THEN <<>> ELSE Remove(existing))
                \o <<[op |-> "subscribe", tr |-> tr]>>
     /\ UNCHANGED <<transports, rstate, adding, pubbing, pubsubVars, eventVars>>

\* Mutant: the tracks that are already there are not replayed.
ReadTracks_NoReplay(tr) ==
  /\ adding = tr
  /\ adding' = None
  /\ fwd' = [fwd EXCEPT ![tr].pc = "on"]
  /\ UNCHANGED <<transports, stage, rstate, lock, pubbing, pubsubVars, evsub, fan, cons, view>>

\* PeerManager.Add reads Tracks after the mutex was released.
ReadTracks(tr) ==
  LET others == {t \in Tracks : publishers[t] # None /\ Owner(publishers[t]) # ClientOf[tr]}
  IN /\ adding = tr
     /\ adding' = None
     /\ fwd' = [fwd EXCEPT ![tr].pc = "on",
                           ![tr].left = {[type |-> "add", client |-> Owner(publishers[t]), track |-> t] :
                                          t \in others}]
     /\ UNCHANGED <<transports, stage, rstate, lock, pubbing, pubsubVars, evsub, fan, cons, view>>

\* The peer disconnects.
CloseTransport(tr) ==
  /\ stage[tr] = "open"
  /\ stage' = [stage EXCEPT ![tr] = "closed"]
  /\ UNCHANGED <<transports, rstate, lock, adding, pubbing, pubsubVars, eventVars>>

\* Mutant: Remove does not compare the transport with the registered one.
Done_AnyReference(tr) ==
  /\ stage[tr] = "closed" /\ fwd[tr].pc # "off"
  /\ lock = <<>> /\ adding = None
  /\ stage' = [stage EXCEPT ![tr] = "gone"]
  /\ lock' = Remove(tr)
  /\ UNCHANGED <<transports, rstate, adding, pubbing, pubsubVars, eventVars>>

\* The goroutine of TracksManager.Add that waits for Done; Remove refuses a
\* transport that was replaced.
Done(tr) ==
  /\ stage[tr] = "closed" /\ fwd[tr].pc # "off"
  /\ lock = <<>> /\ adding = None
  /\ stage' = [stage EXCEPT ![tr] = "gone"]
  /\ lock' = IF transports[ClientOf[tr]] = tr THEN Remove(tr) ELSE <<>>
  /\ UNCHANGED <<transports, rstate, adding, pubbing, pubsubVars, eventVars>>

\* handleSubTrackEvent: a browser subscribes to a track it knows of.
HandleSub(tr, t) ==
  LET c == ClientOf[tr]
  IN /\ tr \notin Servers /\ t \in view[tr]
     /\ lock = <<>> /\ adding = None
     /\ transports[c] # None /\ publishers[t] # None /\ Owner(publishers[t]) # c
     /\ Sub(c, t)
     /\ UNCHANGED <<transports, stage, rstate, lock, adding, pubbing, publishers, byPub, eventVars>>

\* handleSubTrackEvent: PubSub.unsub returns early for a client without entry.
HandleUnsub(tr, t) ==
  LET c == ClientOf[tr]
  IN /\ tr \notin Servers /\ t \in view[tr]
     /\ lock = <<>> /\ adding = None
     /\ publishers[t] # None
     /\ UnsubAll({<<c, publishers[t]>>})
     /\ UNCHANGED <<transports, stage, rstate, lock, adding, pubbing, publishers, byPub, eventVars>>

-----------------------------------------------------------------------------
(* What the holder of the mutex does next                                     *)

\* One iteration of Terminate over the readers of the client. The range is over
\* the map, so a reader that is no longer in it is not produced.
TerminateReader ==
  /\ lock # <<>> /\ Head(lock).op = "terminate"
  /\ LET c == ClientOf[Head(lock).tr]
     IN \E r \in byPub[c] \cap Head(lock).left :
          LET rest == [lock EXCEPT ![1].left = @ \ {r}]
          IN IF publishers[r[2]] = None
             THEN /\ lock' = rest
                  /\ UNCHANGED pubsubVars
             ELSE /\ Unpub(c, r[2])
                  /\ lock' = <<[op |-> "send",
                                ev |-> [type |-> "remove", client |-> c, track |-> r[2]]]>> \o rest
  /\ UNCHANGED <<transports, stage, rstate, adding, pubbing, eventVars>>

\* The end of Terminate and of remove.
TerminateSubs ==
  /\ lock # <<>> /\ Head(lock).op = "terminate"
  /\ LET c == ClientOf[Head(lock).tr]
     IN /\ byPub[c] \cap Head(lock).left = {}
        /\ UnsubAll({<<c, subs[c][t]>> : t \in {u \in Tracks : subs[c][u] # None}})
        /\ transports' = [transports EXCEPT ![c] = None]
  /\ lock' = Tail(lock)
  /\ UNCHANGED <<stage, rstate, adding, pubbing, publishers, byPub, eventVars>>

-----------------------------------------------------------------------------
(* events.start                                                               *)

Listeners == {tr \in Transports : evsub[ClientOf[tr]] = tr}

\* The loop takes an event, from the holder of the mutex or from Pub.
AcceptEvent ==
  /\ fan.to = {}
  /\ \/ /\ lock # <<>> /\ Head(lock).op = "send"
        /\ fan' = [ev |-> Head(lock).ev, to |-> Listeners]
        /\ lock' = Tail(lock)
        /\ UNCHANGED pubbing
     \/ \E tr \in Transports :
          /\ pubbing[tr].pc = "send"
          /\ fan' = [ev |-> [type |-> "add", client |-> ClientOf[tr], track |-> pubbing[tr].track],
                     to |-> Listeners]
          /\ pubbing' = [pubbing EXCEPT ![tr] = [pc |-> "idle"]]
          /\ UNCHANGED lock
  /\ UNCHANGED <<transports, stage, rstate, adding, pubsubVars, evsub, fwd, cons, view>>

\* The loop takes the unsubscribe request of remove, and Terminate starts to
\* range over the readers of the client.
Unsubscribe ==
  /\ fan.to = {} /\ lock # <<>> /\ Head(lock).op = "unsubscribe"
  /\ LET c == ClientOf[Head(lock).tr]
     IN /\ evsub' = [evsub EXCEPT ![c] = None]
        /\ lock' = [Tail(lock) EXCEPT ![1].left = byPub[c]]
  /\ UNCHANGED <<transports, stage, rstate, adding, pubbing, pubsubVars, fan, fwd, cons, view>>

\* The loop takes the subscribe request of add, and add registers the transport.
Subscribe ==
  /\ fan.to = {} /\ lock # <<>> /\ Head(lock).op = "subscribe"
  /\ LET tr == Head(lock).tr
     IN /\ evsub' = [evsub EXCEPT ![ClientOf[tr]] = tr]
        /\ transports' = [transports EXCEPT ![ClientOf[tr]] = tr]
        /\ adding' = tr
  /\ lock' = Tail(lock)
  /\ UNCHANGED <<stage, rstate, pubbing, pubsubVars, fan, fwd, cons, view>>

\* out <- event: the forwarding goroutine must be receiving.
FanOut(tr) ==
  /\ tr \in fan.to
  /\ fwd[tr].pc = "on" /\ fwd[tr].left = {} /\ fwd[tr].item = None
  /\ fan' = [fan EXCEPT !.to = @ \ {tr}]
  /\ fwd' = [fwd EXCEPT ![tr].item = IF fan.ev.client = ClientOf[tr] THEN None ELSE fan.ev]
  /\ UNCHANGED <<transports, stage, rstate, lock, adding, pubbing, pubsubVars, evsub, cons, view>>

-----------------------------------------------------------------------------
(* The forwarding goroutine and its consumer                                  *)

\* The browser's consumer emits the event over the WebSocket. NodeManager skips
\* the tracks of other nodes and calls Sub for every other event.
Consume(tr, ev) ==
  /\ cons[tr] = None
  /\ view' = [view EXCEPT ![tr] = IF ev.type = "add" THEN @ \cup {ev.track} ELSE @ \ {ev.track}]
  /\ cons' = [cons EXCEPT ![tr] =
                IF tr \in Servers /\ ~IsServer(ev.client) THEN ev ELSE None]

\* pubTrackEventsCh <- event: first the tracks Add read, then the events.
ForwardEvent(tr) ==
  /\ fwd[tr].pc = "on"
  /\ \/ \E ev \in fwd[tr].left :
          /\ Consume(tr, ev)
          /\ fwd' = [fwd EXCEPT ![tr].left = @ \ {ev}]
     \/ /\ fwd[tr].item # None
        /\ Consume(tr, fwd[tr].item)
        /\ fwd' = [fwd EXCEPT ![tr].item = None]
  /\ UNCHANGED <<transports, stage, rstate, lock, adding, pubbing, pubsubVars, evsub, fan>>

\* Mutant: the goroutine also ends when its transport is done.
ForwarderEnds_Done(tr) ==
  /\ fwd[tr].pc = "on" /\ stage[tr] # "open"
  /\ fwd' = [fwd EXCEPT ![tr].pc = "done"]
  /\ UNCHANGED <<transports, stage, rstate, lock, adding, pubbing, pubsubVars, evsub, fan, cons, view>>

\* The subscription channel was closed.
ForwarderEnds(tr) ==
  /\ fwd[tr].pc = "on" /\ fwd[tr].left = {} /\ fwd[tr].item = None
  /\ tr \notin Listeners
  /\ fwd' = [fwd EXCEPT ![tr].pc = "done"]
  /\ UNCHANGED <<transports, stage, rstate, lock, adding, pubbing, pubsubVars, evsub, fan, cons, view>>

\* NodeManager.handleTransport calls Sub whatever the type of the event.
HandleEvent(tr) ==
  LET c == ClientOf[tr]
      t == cons[tr].track
  IN /\ cons[tr] # None
     /\ lock = <<>> /\ adding = None
     /\ IF transports[c] # None /\ publishers[t] # None /\ cons[tr].client # c
        THEN Sub(c, t)
        ELSE UNCHANGED <<subs, subTr, rsubs, local>>
     /\ cons' = [cons EXCEPT ![tr] = None]
     /\ UNCHANGED <<transports, stage, rstate, lock, adding, pubbing, publishers, byPub,
                    evsub, fan, fwd, view>>

-----------------------------------------------------------------------------
\* The steps nobody asks for: they go on until the room is at rest.
Work ==
  \/ TerminateReader \/ TerminateSubs \/ AcceptEvent \/ Unsubscribe \/ Subscribe
  \/ \E r \in Readers : OnClose(r)
  \/ \E tr \in Transports : Pub(tr) \/ ReadTracks(tr) \/ Done(tr) \/ FanOut(tr)
                            \/ ForwardEvent(tr) \/ ForwarderEnds(tr) \/ HandleEvent(tr)

\* What peers and the network do.
Environment ==
  \/ \E tr \in Transports : Add(tr) \/ CloseTransport(tr)
  \/ \E r \in Readers : TakeRemoteTrack(r[1], r[2]) \/ EndTrack(r)
  \/ \E r \in Readers, c \in Clients : WriteFails(r, c)
  \/ \E tr \in Transports, t \in Tracks : HandleSub(tr, t) \/ HandleUnsub(tr, t)

Next == Work \/ Environment
Spec == Init /\ [][Next]_vars
FairSpec == Spec /\ WF_vars(Work)

-----------------------------------------------------------------------------
(* Properties                                                                 *)

\* Every variable keeps its type.
TypeOK ==
  /\ transports \in [Clients -> Transports \cup {None}]
  /\ stage \in [Transports -> Stage]
  /\ publishers \in [Tracks -> Readers \cup {None}]
  /\ byPub \in [Clients -> SUBSET Readers]
  /\ subs \in [Clients -> [Tracks -> Readers \cup {None}]]
  /\ subTr \in [Clients -> Transports \cup {None}]
  /\ rstate \in [Readers -> RState]
  /\ rsubs \in [Readers -> SUBSET Clients]
  /\ local \in [Transports -> SUBSET Tracks]
  /\ lock \in Seq(Step) /\ adding \in Transports \cup {None}
  /\ pubbing \in [Transports -> Pubbing]
  /\ evsub \in [Clients -> Transports \cup {None}]
  /\ fan \in [ev : Event \cup {None}, to : SUBSET Transports]
  /\ fwd \in [Transports -> Forward]
  /\ cons \in [Transports -> Event \cup {None}]
  /\ view \in [Transports -> SUBSET Tracks]

\* A reader only writes to clients that PubSub has recorded for it, so that
\* Terminate and Unpub stop every forwarded track.
ForwardingIsRecorded ==
  \A r \in Readers : \A c \in rsubs[r] : subs[c][r[2]] = r

\* Subscriptions are on the registered transport of the client: none survives
\* the removal of its transport or passes to the one that replaces it.
SubscriptionsBelong ==
  \A c \in Clients : subTr[c] # None => transports[c] = subTr[c]

\* A transport sends no track that PubSub has no subscription for.
LocalIsRecorded ==
  \A tr \in Transports : \A t \in local[tr] :
    subTr[ClientOf[tr]] = tr /\ subs[ClientOf[tr]][t] # None

\* No event is under way.
AtRest ==
  /\ lock = <<>> /\ adding = None /\ fan.to = {}
  /\ \A tr \in Transports : /\ pubbing[tr].pc = "idle" /\ cons[tr] = None
                            /\ fwd[tr].left = {} /\ fwd[tr].item = None

Registered(tr) == transports[ClientOf[tr]] = tr

\* A peer learns of every track of the others, also of those published while it
\* was being added: Add subscribes before it reads Tracks.
NoMissedTrack ==
  AtRest => \A tr \in Transports, t \in Tracks :
    Registered(tr) /\ publishers[t] # None /\ Owner(publishers[t]) # ClientOf[tr]
      => t \in view[tr]

\* nodemanager.go: "currently all transport subscribe to all published tracks". The
\* transport of another node is subscribed to every live track of a browser, and
\* sends it.
NodeCarriesAll ==
  AtRest => \A tr \in Servers, t \in Tracks :
    Registered(tr) /\ publishers[t] # None /\ rstate[publishers[t]] = "open"
      /\ ~IsServer(Owner(publishers[t]))
      => subs[ClientOf[tr]][t] = publishers[t] /\ t \in local[tr]

\* The registered transport of its client is open and still reads the track.
LiveTrack(r) ==
  publishers[r[2]] = r /\ rstate[r] = "open" /\ stage[r[1]] = "open" /\ Registered(r[1])

\* This step publishes reader q, runs its onClose, or is one of the Terminate that
\* has q to go through.
Displaces(q) ==
  \/ publishers'[q[2]] = q
  \/ rstate[q] = "closed" /\ rstate'[q] = "done"
  \/ lock # <<>> /\ Head(lock).op = "terminate" /\ q \in byPub[ClientOf[Head(lock).tr]]

\* A live track stays published, whoever reconnects, ends or is removed: PubSub knows
\* tracks by their id alone, so only another reader of the same id, which a browser
\* that comes back publishes again, takes it away.
LiveTrackStays ==
  [][\A r \in Readers : LiveTrack(r) =>
       publishers'[r[2]] = r \/ \E q \in Readers \ {r} : q[2] = r[2] /\ Displaces(q)]_vars

\* The mutex is always released: the event loop serves every request made under it.
LockIsReleased == (lock # <<>>) ~> (lock = <<>>)

\* The tables of PubSub, of the readers and of the transports agree: nothing is
\* forwarded that PubSub has not recorded, the records are of the transport that
\* is registered, and a transport sends only what is recorded. A write error, an
\* AddTrack that is taken back, a reconnecting client and the end of a track
\* change them one at a time.
SubscriptionsAgree ==
  TypeOK /\ ForwardingIsRecorded /\ SubscriptionsBelong /\ LocalIsRecorded
=============================================================================
