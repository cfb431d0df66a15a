# Peer Calls in TLA+

A TLA+ model of the Peer Calls server (`src/server`, Go): the modules, the TLC
models that check them on small instances, and TLAPS proofs, for instances of any
size, of the safety properties of the links between nodes, of the rooms and of
signalling.

## The system

A browser joins a *room* over a WebSocket. In *mesh* mode the server only relays
signalling messages between the browsers of a room. In *SFU* mode it terminates
a WebRTC peer connection per browser and forwards media tracks from those that
publish to those that subscribe. Several server *nodes* can share rooms: for
every room, two nodes keep a *server transport*, a pseudo-peer that carries the
tracks of one node to the other over SCTP on UDP.

| Part | Source | Modules | What makes it hard |
|---|---|---|---|
| control protocol, factory | `udptransport2/control_state_tracker.go`, `factory.go`, `control_transport.go` | `ControlStateTracker`, `Factory` | requests of the two ends cross; a peer that stops says nothing |
| factory manager | `udptransport2/manager.go` | `Manager` | asynchronous creation, removal by address |
| string and UDP mux | `stringmux/`, `udpmux/` | `Mux` (abstract), `StringMux`, `UDPMux` | unbuffered channels in both directions |
| server transport | `servertransport/` | `ServerTransport` | a read loop that blocks on its user |
| rooms of a node | `wssub.go`, `room.go`, `memoryadapter.go`, `sfu.go`, `nodemanager.go` | `Rooms` | a mutex held while sending on a channel |
| tracks manager | `sfu/tracks_manager.go` | `TracksManager` | goroutines that act on a manager they captured long ago |
| peer manager, publish/subscribe | `sfu/peer_manager.go`, `pubsub/` | `PeerManager` | callbacks of several goroutines, one mutex, a blocking event fan-out |
| chat | `datatransceiver.go`, `PeerManager.broadcast` | `DataTransceiver` | a mutex held while waiting for a loop |
| signalling | `wrtcsignaller.go`, `wrtcnegotiator.go`, `webrtctransport.go` | `Signaller` | negotiation wanted during negotiation, late callbacks, Close |
| rooms over Redis | `redisadapter.go`, `mesh.go` | `RedisAdapter` | every node replays every join and leave in its own time |
| media feedback | `sfu/buffer.go`, `sfu/jitter*.go`, `pubsub/remb.go`, `sfu/stats` | `NackBuffer`, `RtcpFeedback`, `SourceStats` | sequence numbers that wrap, values computed lazily |
| pure functions | `logger/wildcard_node.go`, `stringmux/packetizer.go`, `basen` | `Wildcard`, `Encodings` | corner cases |

Interactions: a WebSocket join enters the room manager and the adapter; the first
join of a room makes the node manager ask every factory for a server transport;
the factory hands it over when both ends have one; the node manager adds it to
the tracks manager like any browser's transport; the peer manager of the room
publishes and subscribes its tracks. The factories come from the manager, whose
connections come from the UDP mux; the streams of one factory go through a string
mux.

`MCFactory`, `MCPeerManager`, `MCTracksManager`, `MCRooms`, `MCMux`,
`MCServerTransport`, `MCSignaller`, `MCRedisAdapter` and `MCAlgorithms` are the
instances for TLC. `FactoryInv` has the inductive invariant of the proofs;
`FactoryProofs`, `ManagerProofs`, `MuxProofs`, `RoomsProofs`, `TracksManagerProofs`,
`PeerManagerProofs`, `SignallerProofs` and `RedisAdapterProofs` are the proofs.
Operators whose comment calls them a mutant or a fault are variants of the
operator below them, with a plausible mistake; each shows that a property
notices it.

## The modules

### Factory

State: `tracker` and `transport` are the two halves of the loop's `transports`
map (a missing entry is a closed tracker without a transport); `handing` is the
loop blocked in `f.transportsChannel <- transport` together with the response it
will send afterwards; `wire` is the SCTP control stream, ordered and reliable
while both ends live; `up` is whether the loop runs. Each event handler of the
loop is one action, from the guard of its `select` case to its last assignment;
only a handler that blocks handing over a transport is two (`HandleCreate` or
`HandleCreateAck`, then `TakeTransport`), because the node's goroutine and the
teardown race there. `Teardown` is the deferred function: the transports are
closed, and what the node had not read from the stream, as well as any suffix of
what it had sent, is lost. A failed send also ends the loop; that is `Close`,
which may happen at any time.

Abstractions: the three connections of a transport are one value; `GetConn` may
fail whenever `GetConnMayFail`; time is counted in ticks of the ping ticker, of
which `DestroyTimeout` may pass without a ping.

### Manager

One goroutine keeps `factories` by address; `NewFactory` runs in a goroutine of
its own (`FactoryCreated`), for an incoming connection (`handleConn`) or for a
request (`handleNewFactoryRequest`). While an incoming factory is offered
(`loop.pc = "offer"`) only requests for factories and `Close` are served. `removing`
are the goroutines that wait for a factory's end and then remove its *address*.

### Mux, StringMux, UDPMux

`Mux` is the promise: a key has at most one open connection; a packet goes to the
one that is open for its key, in order and at most once; a connection is closed
only because its user asked or the whole mux ends, and stays closed. `StringMux` has the
loop with its blocking points (offering a connection to `AcceptConn`, delivering
into a full connection), the reading goroutine and the calls of the users.
`UDPMux` is the same loop with remote addresses as keys and a `Close` that drains
the channel of accepted connections (`CloseDrains`). `KeepsPromise` is the
refinement: the loop's map, and the connection in its hands, to the map of `Mux`.

### ServerTransport

Two ends of one transport. An event goes from `AddTrack`, `RemoveTrack`, `Subscribe`
or `Unsubscribe` through the unbuffered channel of the write loop (`wloop`), the
`wire`, the `mux` of the other end and its read loop (`rloop`) to the room. `rtp` and
`rtcp` are the buffers of the media stream by SSRC; media may come before the
announcement and after the end (the `stray` of a budget). `busy` are the goroutines
of `PeerManager.Add` that took a track or a message and are in `PubSub.Pub` or
`broadcast` with it; they come back (`TakerReturns`) or never do. `Close` is the
sequence of `Closing` steps, each waiting for a loop.

### Rooms

One node. A connection is a goroutine with a `stage`, from `Enter` to `Exit`; `rooms`
counts who uses a room, `sending` is the event the holder of `ChannelRoomManager.mu`
is sending to the node manager, `loop` the event it handles, factory by factory
once `Manager.Factories` has returned (`ReadFactories`), which it may never do.
`ConcurrentMapWrite` is Go's fatal error for a map written during a range:
`MemoryAdapter.Add` broadcasts after it released its mutex. It stops the process, so
no step follows it. A `ready` message is
three steps, because other clients act between its calls.

### PeerManager

State: `transports`, `publishers`, `byPub`, `subs` and `subTr` are the maps of
`PeerManager` and `PubSub`; a `TrackReader` is the pair of its transport and its
track, with `rstate` and `rsubs`; `local` is what a transport sends. `lock` is the
list of steps the holder of `PeerManager.mu` has still to take, so a critical
section that waits for the event loop is several steps and everything else is
one. `fan` is the event `events.start` is delivering, `fwd` and `cons` are the
goroutines that carry it on, `view` is what their reader was told.

`Pub` is two steps outside the lock, because `PeerManager.Add` calls it without the
mutex. Every transport is used for one connection; a client that reconnects has two,
with tracks of their own or of the same id. RTCP and chat are in `RtcpFeedback` and
`DataTransceiver`; `Close` is in `TracksManager`.

### TracksManager and DataTransceiver

`peerManagers` maps a room to its manager, and `managerOf` is the manager that the
goroutine waiting for a transport's `Done` captured. Every operation runs under
`TracksManager.mu` and is one step; `ClosePubSub` is the rest of
`PeerManager.Close`, which waits for the room's goroutines.

In `DataTransceiver` a message goes from `OnMessage` (`handler`) through the loop of
the transceiver (`loop`) and the goroutine that ranges over `MessagesChannel`
(`reader`) to `broadcast`, which holds `mu` while the loop of each other client in
turn takes it.

### Signaller

The server (the initiator) and the other end, both running this code. `nmu` is the
negotiator's mutex in the hands of a thread that waits to signal, `smu` the
`signalMu` of a goroutine that is sending; `stable` and `closedCall` are callbacks
of the peer connection that have not run yet: it calls back in goroutines of its
own, so they come late. `Close` is two steps around the wait for `signalMu`.

### RedisAdapter

State: `roomClients` is the Redis hash, `queue` what a node has not read from the
room channel, `stage` where a client is in its session. A `ready` message is two
steps (`Ready`, `Users`) and so is a leave (`Leave`, `PublishLeave`), because other
nodes act between the Redis commands. `SignalsEnd` is the goroutine of the SFU
handler that resets the metadata when its peer connection has ended. Redis is
external: commands are atomic, and publications reach every subscriber in order.
A nickname is one value; Redis commands succeed; a client id stays on its node.

### NackBuffer, RtcpFeedback, SourceStats

`NackBuffer` is one ring of the jitter buffer, with a history (`arrived`, `asked`) to
compare it with; `Push` and `HandleNack` are operators on its record. Timestamps
count packets and do not wrap. The server makes the handler for a room and hands it
on, and calls none of its methods; the tests call the buffers directly.

`RtcpFeedback` has the goroutines of one published track: those that read the RTCP of
each subscriber and feed the estimator or forward picture requests, and the ticker of
each publication. The clock is read before the mutex is taken, so both are steps, and a
request has the time it `read` and the time it was `sent`. `strays` are clients whose
packet was read before the end of their subscription.

`SourceStats` is the sequence number arithmetic of a source with a sender that
loses, reorders, wraps and restarts. A new `Source` is all zeros, and `HandleRTP`
does not call `InitSeq` first: a sender that starts near 0 is counted from 0 on, any
other one is taken for a sender that restarted, until two packets are consecutive.
Nothing calls a `Source`: the one test of the package is about NTP times.

### Wildcard, Encodings

The lookup of a log level along the trie of patterns, against a definition of
which namespaces a pattern matches; frames of the string mux and base-N numbers,
with a small alphabet of bytes.

## Runs

| Run | Checks |
|---|---|
| `factory` | one room that both ends open and close freely and one that a single end does, refused connections, pings and a `DestroyTimeout`, teardown at any point: `AddedOnBothSides`, `RemoteRemovedFirst`, the inductive invariant `IInv`, which contains `TransportMatchesTracker`, `NoUnexpectedEvent`, `HandshakeEnds`, `PeerFollows` |
| `factory_pending` | `PendingIsRetried`, which the comment on `handlePendingEvent` asks for and the code violates |
| `peers` | five scenarios (a publisher reconnects with another track or with the same one, a subscriber reconnects, a browser with a track and a node, a browser with two tracks and a node that stays): `SubscriptionsAgree`, `TracksReachAll`, `LiveTrackStays`, `BrowsersReleaseLock` |
| `node_tracks` | `NodeCarriesAll`: the node has every track of the browsers. It is violated by a track that is announced twice |
| `room_peers` | four transports, two of one client, in a room that empties and fills again: `RoomsReachable`, `EmptyIsClosed`; three clients that chat: `Delivery`, `ChatEnds` |
| `tracks_twice` | `ClosedOnce` is violated by a client that reconnects and leaves: two `Done` goroutines close one manager |
| `data_deadlock` | `SendEnds` is violated when a client says a second thing while it is being talked to |
| `rooms` | three sockets, two with one id; in one scenario a factory comes and goes, in the other clients become ready: `RoomFollowsClients`, `ReadyClientsListed`, `FactoriesFollow`, `LeavesRoom` |
| `links` | a mux of two keys: `KeepsPromise`, `NoDoubleClose`, `CloseEnds`; a manager of two addresses: `OneFactoryPerAddress`, `FactoriesEnd`, `RequestAnswered` |
| `transport_ends` | a track added, removed and added again, Close of either end: `EndsAgree`, `CallsReturn`, `TrackEnds` |
| `signalling` | a server with two tracks and a browser with one, Close of either end: `NoSendOnClosedChannel`, `SignalsInOrder`, `NothingLeftBehind`, `NobodyWaits` |
| `algorithms` | rooms over Redis (two nodes, either handler, adapters that close, writes that fail): `ListsConnected`, `NicknameIsReady`; media feedback and pure functions: `NacksAreExact`, `FeedbackIsExact`, `RequestsAreSpaced`, `ReportIsExact`, `LookupMatches`, `RoundTrips` |

The type invariant of a module is a conjunct of one of its properties in this
table, except that of `Factory`, which is proved (`TypeCorrect`).

Where one run holds several modules (`room_peers`, `links`, `algorithms`), its
first state chooses which of them moves; they do not interact, and each module
is explored completely.

Some conditions are part of a property or of an instance, because the code needs
them:

- `LiveTrackStays` allows one thing to displace a live track: publishing, ending or
  cleaning up another reader of the same id. `Unpub` and `Pub` go by the id, so the
  clean-up of an old connection removes the same id of the new one.
- `TracksReachAll` does not ask that a node sends a track that was announced to it
  twice (`refused`); `NodeCarriesAll` does, and is violated.
- `BrowsersReleaseLock` is about rooms without the transport of another node.
- `RoomsReachable` holds until a manager is closed a second time (`ClosedAgain`): the
  late `Done` of a replaced connection then deletes whichever manager the room has.
  Up to that point clients reconnect under one id as they like.
- `ClosePubSub` takes for granted that the goroutines of a room end when its
  transports have closed; the deadlocks below are among the goroutines it waits for.
- `LeavesRoom` needs a `Manager.Factories` that returns (`FactoriesReturn`). The loop of
  the node manager calls it between taking an event and asking the factories, and the
  loop of the manager does not answer while it offers a factory that failed; `Enter`
  and `Exit` of every room then wait with the mutex held.
- `CloseReturns` and `TrackEnds` need a room that comes back from `PubSub.Pub` and
  `broadcast` (`TakersReturn`). `PeerManager_deadlock.cfg` and `data_deadlock` show that
  it need not: this is the "potential deadlock" of `metadata_transport.go:247`.
  `AddTrack` and `RemoveTrack` return without that condition.
- `ListsConnected` needs the mesh handler and nodes that read every message: the
  SFU handler may write the hash after the client was removed, and an adapter
  that closes forgets the leaves it has not read.
- `ChatEnds` needs clients that are silent while they are talked to.
- `RoomFollowsClients` counts a connection that was refused because of its id as
  inside, which is what the code does: it never calls `Exit`.
- `CloseEnds` of a connection needs users that accept and read (`UsersRead`).
- `RequestAnswered` excludes a loop that offers an incoming connection whose
  handshake failed: it waits for a request for that very address.
- `NacksAreExact` asks for every loss only if no two packets in a row are lost,
  and for nothing else only while no packet is overtaken.
- `FeedbackIsExact` needs bitrates that are not zero, which stands for none, and
  excuses the estimate of a client whose packet was read before it left (`strays`).
- `RequestsAreSpaced` does not say that picture requests leave a second apart: one
  that waited for the mutex and one that did not may leave at the same moment. It says
  that from the time one was read until `n` more are sent `n` seconds pass.
- `ReportIsExact` says nothing of a loss below zero, which duplicates cause
  (`LossIsSigned`), nor of the fraction when packets came late or all are missing.
- `LookupMatches` leaves out `*` and `**` directly behind `**`.

Bounds: two factories are one link, and links do not share state; two rooms, one that
both ends call for and one that a single end does (`MixedInitiators`), show that rooms
do not disturb each other. The wire needs no bound, because the protocol has at most two
events of a room on a wire. One tick and one ping suffice for the timeout to fire, to be
averted and to race a late ping. In `PeerManager` two connections of one client, with
one of another or none, are enough for a clean-up to meet its successor; two tracks are
enough for an announcement, a snapshot and a removal to overlap. `TracksManager` has
four transports, two of them of one client, so that a room can empty and be refilled and
a late `Done` meet a successor; `MaxManagers` is as many as transports and never binds.
`RedisAdapter` has two nodes and two sessions (`MaxSessions`): a message of the first
session can be read during the second. With the SFU handler one of the clients joins
only once (`Sessions`). The estimates and the picture requests of `RtcpFeedback` share no
state but the readers, and are explored apart (`Estimates`, `Requests`). In `Rooms` three connections make a room open, close and open
again while the first event is handled, and two of them share an id; the node manager
and the `ready` messages of the clients have no state in common, and are checked apart.
In `Mux` and `Manager` a key or an address is used twice (`MaxConns`, `MaxFactories`),
one packet fills a connection (`ReadChanSize`) and the next makes the loop wait.
`Budgets` of `ServerTransport`, `Signaller` and `DataTransceiver` bound the calls of
users; the instances list the combinations. The sequence numbers of `NackBuffer` have
three bits and those of `SourceStats` four, with windows to match, and every one of them
wraps.

`CHECK_DEADLOCK FALSE`, in all runs: a factory that is down stays down, transports,
sessions and budgets are used up, and a system in which everybody has left may
stop. That nothing gets stuck is what the liveness properties say.

## Fairness

The steps of goroutines that have something to do are weakly fair: Go schedules
every runnable goroutine, and `select` chooses at random among ready cases, so a
case that stays ready is taken. What users and the network begin (joining,
leaving, calls, packets, `Close`, the end of a track) is never fair.

- `Factory`: the handling of remote events, the ticker, and the node that takes a
  transport; the node manager ranges over `TransportsChannel` in a goroutine of its
  own.
- `PeerManager`: `Work`, which is the holder of the mutex, the event loop, the
  forwarders and their readers, the clean-up after `Done`.
- `TracksManager`, `DataTransceiver`: the `Done` goroutine, the rest of `Close`, the
  loops, the reader and the holder of the mutex.
- `Rooms`: the steps of a connection and of the node manager's loop, but not the return
  of `Manager.Factories`. `Exit` is
  strongly fair: it needs a mutex that is taken and released again and again, and
  `sync.Mutex` hands itself to a waiter that has waited for a millisecond.
- `StringMux`: the loop and the calls that wait for it. `getNewConn` and
  `handleClose` are strongly fair: they are cases of a `select` in a loop that
  comes back to it again and again, and each time the choice is random.
- `Manager`, `ServerTransport`, `Signaller`: the loops and the goroutines that wait
  for them; the room takes the tracks a transport hands over if it has come back from
  the one before, which is not fair, and the socket takes the signals.

`RedisAdapter` and the algorithms state no liveness.

## Proofs

Of `Factory`, for every number of links and rooms, any set of callers and any timeout
(`FactoryProofs`): `TypeCorrect`, `Invariance` (`IInv`), `Matching`
(`TransportMatchesTracker`), `BothSides`, `RemovedFirst` and `AlwaysExpected`. Assumed
are only that `Peer` pairs the factories and the types of the parameters.

`TransportMatchesTracker` and `AddedOnBothSides` are not inductive: whether a
`create_ack` may be taken depends on what else is on the wire. `IInv` adds, for
every room and link, which events can be on the wire in which pair of tracker
states (`LinkInv`) and that two events of one room on one wire are an
acknowledgement followed by a request (`Ordered`). Every step is idle, a teardown
or has one of nine shapes (`StepCases`); `LocalStep` and `LinksStep` go through
them. `SplitInv` is the same for each room with one caller, whoever calls for the others,
and is inductive relative to `IInv`.

Of `Rooms`, for any finite set of connections, any rooms and factories (`RoomsProofs`):
`RoomsFollow` (`RoomFollowsClients`, its type invariant included), `RequestsFollow`
(`FactoriesFollow`) and `ListsComplete`; the first two from `RoomInvariant`. TLC checks
them with one room and one factory only. Assumed are that `Conns` is finite, the type of
`RoomOf`, and that `None` is neither a table entry nor an event. `RoomFollowsClients` is
not inductive: `CountInv` adds that the count of a room is the cardinality of the set of
connections inside, so that exactly the last `Exit` finds a count of one, and
`SendingInv` that whoever sends an event is still in `Enter` or `Exit`. `FollowInv`
orders what a factory will have been asked last: the event being sent, else the event of
the loop if the factory is still to be asked, else what it was asked. It also covers an
event of the loop that no factory of the moment waits for, since a factory may come up
again while the loop still has it on its list, and an event for which the list has not
been read yet, which every factory that comes up before will be asked.

`ListsComplete` (`ReadyClientsListed`) is about two clients that store their nicknames
and read the list in any order. `PairInv` says that two of them know of each other
unless one is still to read its list, or has read one with both and will send it;
`MemberInv` ties the clients of an adapter to the stages of the connections, because a
list is read from the adapter of the connection that is ready. It ends with the process
(`Crashed`), as the property does.

Of `StringMux` and `UDPMux`, for any keys, number of connections and packets
(`MuxProofs`): `NeverClosedTwice` (`NoDoubleClose`) and `PromiseKept` (`KeepsPromise`), the
refinement of `Mux`. Both are about behaviours whose steps are steps of either mux.
Assumed is that `None` is no key and no connection. `MuxInv` says that
the map has a connection under its own key, that the connection being advertised is new
to everybody (`MapInv`), and that packets are in order between the reader, the loop and
the connections (`OrderInv`). There is one lemma per action that maps it to a step of
`Mux` or a stutter.

Of `Manager`, for any addresses and number of factories (`ManagerProofs`): `OneFactory`
(`OneFactoryPerAddress`) and `NoFactoryLeft` (`FactoriesEnd`), for constants as in
`ManagerConstants`: `None` is no address and no factory. The invariant is that a factory
that is created or runs has the connection of its address (`ActiveInv`), that the
address of a pending request has no factory and is not being offered (`PendingInv`), and
that a factory that runs is in the map unless the removal of its predecessor took it out
(`MapInv`).

Of `TracksManager`, for any rooms, clients and transports (`TracksManagerProofs`):
`RoomsStayReachable` (`RoomsReachable`), whoever reconnects. Assumed are the types of the
parameters. `MemberInv` says that a transport in a manager has captured it and is in the
room the manager is registered with, `CloseInv` that a manager was closed exactly when it
left its room; so a `Done` goroutine that finds its manager empty after the manager left
closes it a second time, which is `ClosedAgain`, and from then on nothing is claimed.
That this does happen is what `tracks_twice` shows.

Of `PeerManager`, for any clients, transports and tracks (`PeerManagerProofs`):
`TablesAgree` (`SubscriptionsAgree`), for behaviours in which no two transports publish
a track of one id (`DistinctTracks`), and `LiveTracksStay` (`LiveTrackStays`, an action
property), for all behaviours. The tables do need the condition: with two readers of one
id, a client of the first stays with it when `Sub` records the second, and `PubSub` no
longer finds it there. The tables are not inductive without what the holder of the mutex
will still do: `LockInv` says that `remove` works on the transport that is registered
and no longer open, and that the new one is registered only when its predecessor was
removed; so the records `SubscriptionsBelong` is about are never those of a transport
that has been replaced.

Of `Signaller`, for any tracks and calls (`SignallerProofs`): `ChannelStaysOpen`
(`NoSendOnClosedChannel`), `CandidatesComeAfter` (`CandidatesFollow`) and `SignalsOrdered`
(`SignalsInOrder`). Assumed is that there are two ends and that `None` is not itself a
signal. The first two follow from `SignallerInvariant`.
That `Close` does not close the channel under a sender needs that a sender saw the
channel as it is now (`SenderInv`), which holds because `Close` takes `signalMu`.
That candidates follow needs what a closed `descriptionSent` stands for, a description
that was sent or is held by a sender (`SenderInv`), and that no other caller waits
with a candidate (`NegotiatorInv`, `CallInv`).

That one offer is open at a time (`OneOfferAtATime`) needs `NegotiationInv`. An offer and
its answer are in one of six places; `OpenOffers` adds them up, and `CountsUnanswered`
says that this is what the property counts. `KindInv` says which signals can be where,
for example that only the thread of the socket holds an answer. `PhaseInv` ties the sum to
the state of the initiator's connection and to the callback about the state stable, which
may come late: until it has run, `negotiating` keeps everybody else from making an offer.
Every step moves an offer or its answer on, or drops it (`NoOffer`), except the one that
makes an offer, which finds none open (`OpensOffer`).

Of `RedisAdapter`, for any nodes, clients and sessions (`RedisAdapterProofs`): `ReadyInHash`
(`NicknameIsReady`) and `HashConverges` (`ListsConnected`). Assumed are the types of the
parameters and that a client may join at least once. `ListsConnected` speaks of empty
queues only and is not inductive. `HashInv` says of a mesh that has lost nothing, with
anything still to read: the last message about a client in every queue says whether it is
connected, and so does the hash once no queue mentions the client. So the node that
reads a client's last message, whichever it is, writes the right entry. That a published
message reaches every queue that says something needs that only a node with clients has
a queue (`ReaderInv`). Nothing is said of a client that is leaving: its entry is deleted,
and an older join may bring it back until its leave is read.

Only model-checked:

- all liveness: it rests on fairness and `ENABLED`, which TLAPS does not handle;
- what holds when everything is at rest: `TracksReachAll` and `NothingLeftBehind`;
- `EndsAgree` of `ServerTransport` and `Delivery` of `DataTransceiver`;
- `NacksAreExact`, `FeedbackIsExact`, `RequestsAreSpaced` and `ReportIsExact`, which compare
  a computed value with a history of any length;
- the pure functions: `Wildcard` and `Encodings` are recursive, and induction over data is
  out of the provers' reach.

## Where the code and its comments differ

`factory_pending`, `node_tracks`, `tracks_twice` and `data_deadlock` end in a violation:
`PROJECT.json` quotes the comment and says what the run shows. These further
configurations are not among the runs and end in a violation too; each reproduces a
disagreement.

| Configuration | Shows |
|---|---|
| `Factory_crossing.cfg` (`MCFactory`) | `CrossingIsAcked`: two ends that create a room at once refuse each other's event, although `control_state_tracker.go:230` lists the case as one that is acknowledged |
| `RedisAdapter_meet.cfg` (`MCRedisAdapter`) | `ReadyClientsMeet`: a node that reads a join after the client became ready resets the nickname in the hash, and the next client is not told of it |
| `PeerManager_deadlock.cfg` (`MCPeerManager`) | `LockIsReleased`: with the transport of another node in the room, the holder of the mutex, the event loop and the node manager wait for each other |
| `Algorithms_signed.cfg` (`MCAlgorithms`) | `LossIsSigned`: after a duplicate the cumulative loss of a report is below zero and wraps around in 32 bits, where the comment at `source.go:148` speaks of a signed number of 24 bits that is clamped |

Seen while modelling, and left out of what is checked:

- `Manager`: while an incoming factory is offered whose handshake failed,
  `Factories` does not return (`FactoriesReturns` does not hold), and removal by
  address takes a successor out of the map (`LiveIsListed` does not hold).
- `buffer.go`: a late packet makes `sn - lastNackSN` wrap, so that `Push` asks for
  packets from before it; two or more losses at the edge of a report window are
  reported in part; the difference of timestamps is absolute, so their wrap
  clears the buffer.
- `remb.go`: zero stands for no estimate, so an estimate of zero hides the minimum.
  The `select` of the ticker in `PeerManager.Add` is not in a loop, so a publication
  gets at most one estimate.
- `source.go`: `lostInterval <= 0` is a comparison of unsigned numbers, and
  `updateJitter` has no absolute value.
- `wildcard_node.go`: a `*` behind `**` is found only where `**` stands for nothing.

## Not modelled

- *Libraries.* SCTP, Redis, WebSockets and peer connections appear as environment;
  failures of calls into the peer connection are not modelled.
- *No shared state.* Message encoding, the codec registry, configuration, HTTP
  routes, templates, logging output and the command line.
- *Client.* The web client (`src/src/client`) is a separate program in TypeScript. Its
  encryption keys, peer and stream tables, chunk codec and reconnection are not
  modelled yet.
- *Numbers.* Jitter, NTP times and the report interval of `sfu/stats` are floating
  point, and nothing depends on them.
- *Close of a node.* The room managers and the node manager are closed when the
  process ends.
- The data race inside `PubSub.Subs`, a second data channel opened by a client, the
  interceptor chain and the RTCP of a server transport.

`PROJECT.json` lists every component with its status.

## Plan

1. *Theorems.* `EndsAgree` of `ServerTransport`, `Delivery` of `DataTransceiver`,
   `NothingLeftBehind` of `Signaller`.
2. *Composition.* `Rooms` with `Factory`: the rooms a node has open and the server
   transports it keeps.
3. *Client.* Encryption keys against the current password, the peer and stream
   tables under any order of events, chunk reassembly, reconnection.
