--------------------------- MODULE MCPeerManager ---------------------------
(* Instances of PeerManager. Client a connects twice (a1, then a2), client b   *)
(* once, and s is another node. The first state says who comes and which       *)
(* tracks are published.                                                       *)
EXTENDS PeerManager, TLC

CONSTANTS a, b, s, a1, a2, b1, s1, t1, t2

VARIABLES
  scenario,
  refused   \* the tracks that a node was subscribed to again, which Sub refused

MCClientOf == (a1 :> a) @@ (a2 :> a) @@ (b1 :> b) @@ (s1 :> s)
MCRemote == (a1 :> {t1, t2}) @@ (a2 :> {t2}) @@ (b1 :> {t1}) @@ (s1 :> {})

\* A browser connects again and publishes a track of its own each time.
Publisher == [name |-> "publisher", transports |-> {a1, a2}, tracks |-> {<<a1, t1>>, <<a2, t2>>}]

\* A browser connects again and publishes the track it published before.
SameTrack == [name |-> "same track", transports |-> {a1, a2}, tracks |-> {<<a1, t2>>, <<a2, t2>>}]

\* A browser connects again; only the other one publishes.
Subscriber == [name |-> "subscriber", transports |-> {a1, a2, b1}, tracks |-> {<<b1, t1>>}]

\* A browser with one track, and another node.
TwoNodes == [name |-> "nodes", transports |-> {a1, s1}, tracks |-> {<<a1, t1>>}]

\* A browser with audio and video, and another node that stays.
NodeStays == [name |-> "node stays", transports |-> {a1, s1}, tracks |-> {<<a1, t1>>, <<a1, t2>>}]

Scenarios == {Publisher, SameTrack, Subscriber, TwoNodes, NodeStays}

Within ==
  /\ \A tr \in Transports : stage'[tr] # "new" => tr \in scenario.transports
  /\ \A r \in Readers : rstate'[r] # "none" => r \in scenario.tracks
  /\ scenario = NodeStays => stage'[s1] # "closed"

MCNext ==
  /\ Next /\ Within /\ UNCHANGED scenario
  /\ refused' = refused \cup
       {<<tr, publishers[cons[tr].track]>> : tr \in
          {u \in Servers : /\ cons[u] # None /\ cons'[u] = None
                           /\ publishers[cons[u].track] # None
                           /\ ClientOf[u] \in rsubs[publishers[cons[u].track]]}}

MCInit == Init /\ scenario \in Scenarios /\ refused = {}
NodesInit == Init /\ scenario = TwoNodes /\ refused = {}

mcVars == <<vars, scenario, refused>>
MCSpec == MCInit /\ [][MCNext]_mcVars /\ WF_vars(Work)

NodesSpec == NodesInit /\ [][MCNext]_mcVars /\ WF_vars(Work)

\* At rest, every peer was told of every track of the others, and NodeManager has
\* subscribed the transport of another node to every live track of a browser,
\* whichever of the two came first. The node also sends it, unless the track was
\* announced twice: Sub takes back what it added when the reader refuses.
TracksReachAll ==
  /\ NoMissedTrack
  /\ AtRest => \A tr \in Servers, t \in Tracks :
       LET r == publishers[t]
       IN Registered(tr) /\ r # None /\ rstate[r] = "open" /\ ~IsServer(Owner(r))
            => subs[ClientOf[tr]][t] = r /\ (t \in local[tr] \/ <<tr, r>> \in refused)

\* Among browsers the mutex is always released: the event loop serves every
\* request made under it.
BrowsersReleaseLock ==
  (lock # <<>> /\ s1 \notin scenario.transports) ~> (lock = <<>>)
=============================================================================
