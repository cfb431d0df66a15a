------------------------- MODULE PeerManagerProofs -------------------------
(* One room of the SFU, for any number of clients, transports and tracks.      *)
EXTENDS PeerManager, SequenceTheorems, TLAPS

\* Two transports never publish a track with the same id.
DistinctTracks ==
  \A r, q \in Readers : rstate[r] # "none" /\ rstate[q] # "none" /\ r[2] = q[2] => r = q

\* The transports of PeerManager and the publishers of PubSub.
CoreInv ==
  /\ transports \in [Clients -> Transports \cup {None}]
  /\ stage \in [Transports -> Stage]
  /\ publishers \in [Tracks -> Readers \cup {None}]
  /\ byPub \in [Clients -> SUBSET Readers]
  /\ rstate \in [Readers -> RState]
  /\ \A c \in Clients : transports[c] # None =>
       ClientOf[transports[c]] = c /\ stage[transports[c]] # "new"
  /\ \A t \in Tracks : publishers[t] # None =>
       publishers[t][2] = t /\ rstate[publishers[t]] # "none"
  /\ \A c \in Clients : \A r \in byPub[c] : Owner(r) = c /\ rstate[r] # "none"

\* The subscriptions, in PubSub, in the readers and in the transports.
TableInv ==
  /\ subs \in [Clients -> [Tracks -> Readers \cup {None}]]
  /\ subTr \in [Clients -> Transports \cup {None}]
  /\ rsubs \in [Readers -> SUBSET Clients]
  /\ local \in [Transports -> SUBSET Tracks]
  /\ ForwardingIsRecorded /\ LocalIsRecorded
  /\ \A c \in Clients, t \in Tracks : subs[c][t] # None =>
       subs[c][t][2] = t /\ rstate[subs[c][t]] # "none"

\* What the holder of the mutex still has to do: remove is for the transport that
\* is registered and not open, and it is over when add registers the new one.
LockOK(l, reg, st) ==
  /\ l \in Seq(Step)
  /\ \A i \in 1..Len(l) :
       /\ l[i].op = "unsubscribe" =>
            i = 1 /\ Len(l) >= 2 /\ l[2].op = "terminate" /\ l[2].tr = l[1].tr
       /\ l[i].op \in {"unsubscribe", "terminate"} =>
            reg[ClientOf[l[i].tr]] = l[i].tr /\ st[l[i].tr] # "open"
       /\ l[i].op = "terminate" => i = 1 \/ (i = 2 /\ l[1].op \in {"unsubscribe", "send"})
       /\ l[i].op = "subscribe" =>
            /\ i = Len(l) /\ st[l[i].tr] # "new"
            /\ i = 1 => reg[ClientOf[l[i].tr]] = None
            /\ i > 1 => l[i - 1].op = "terminate" /\ ClientOf[l[i - 1].tr] = ClientOf[l[i].tr]

LockInv == LockOK(lock, transports, stage)

\* A track that is being published has a reader.
PubbingInv ==
  /\ pubbing \in [Transports -> Pubbing]
  /\ \A tr \in Transports : pubbing[tr].pc # "idle" =>
       <<tr, pubbing[tr].track>> \in Readers /\ rstate[<<tr, pubbing[tr].track>>] # "none"

EventType ==
  /\ adding \in Transports \cup {None}
  /\ evsub \in [Clients -> Transports \cup {None}]
  /\ fan \in [ev : Event \cup {None}, to : SUBSET Transports]
  /\ fwd \in [Transports -> Forward]
  /\ cons \in [Transports -> Event \cup {None}]
  /\ view \in [Transports -> SUBSET Tracks]

RoomInv == CoreInv /\ LockInv /\ PubbingInv /\ EventType

-----------------------------------------------------------------------------
\* A reader is a pair, and nobody is mistaken for the absence of one.
LEMMA ReaderType ==
  /\ \A r \in Readers : /\ r[1] \in Transports /\ r[2] \in Tracks /\ r # None /\ r = <<r[1], r[2]>>
                        /\ r[2] \in Remote[r[1]] /\ Owner(r) \in Clients
  /\ \A tr \in Transports : tr # None /\ ClientOf[tr] \in Clients
  /\ \A c \in Clients : c # None
BY TransportAssumption DEF Readers, Owner

\* PubSub.unsub for some pairs takes them out of all three tables.
LEMMA UnsubAllInv ==
  ASSUME TableInv, DistinctTracks, NEW P \in SUBSET (Clients \X Readers), UnsubAll(P),
         \A p \in P : rstate[p[2]] # "none",
         \A r \in Readers : rstate[r] # "none" => rstate'[r] # "none"
  PROVE  TableInv' /\ \A c \in Clients : subTr'[c] \in {None, subTr[c]}
<1> DEFINE cleared(c) == {p[2][2] : p \in {q \in P : q[1] = c}}
<1>1. /\ rsubs' = [r \in Readers |-> rsubs[r] \ {c \in Clients : <<c, r>> \in P}]
      /\ subs' = [c \in Clients |-> [t \in Tracks |-> IF t \in cleared(c) THEN None ELSE subs[c][t]]]
      /\ local' = [tr \in Transports |->
                     local[tr] \ UNION {cleared(c) : c \in {d \in Clients : subTr[d] = tr}}]
  BY DEF UnsubAll
<1>2. subTr' = [c \in Clients |-> IF \A t \in Tracks : subs'[c][t] = None THEN None ELSE subTr[c]]
  BY DEF UnsubAll
<1>3. \A c \in Clients, t \in Tracks : t \in cleared(c) => \E r \in Readers : <<c, r>> \in P /\ r[2] = t
  OBVIOUS
<1> HIDE DEF cleared
<1>4. \A c \in Clients, t \in Tracks : subs'[c][t] = IF t \in cleared(c) THEN None ELSE subs[c][t]
  BY <1>1
<1>5. /\ subs' \in [Clients -> [Tracks -> Readers \cup {None}]]
      /\ subTr' \in [Clients -> Transports \cup {None}]
      /\ rsubs' \in [Readers -> SUBSET Clients]
      /\ local' \in [Transports -> SUBSET Tracks]
  BY <1>1, <1>2 DEF TableInv
<1>6. \A c \in Clients, t \in Tracks : subs'[c][t] # None =>
        subs'[c][t][2] = t /\ rstate'[subs'[c][t]] # "none"
  BY <1>4 DEF TableInv
<1>7. ForwardingIsRecorded'
  <2> SUFFICES ASSUME NEW r \in Readers, NEW c \in rsubs'[r] PROVE subs'[c][r[2]] = r
    BY DEF ForwardingIsRecorded
  <2>1. c \in Clients /\ c \in rsubs[r] /\ <<c, r>> \notin P /\ r[2] \in Tracks /\ r # None
    BY <1>1, ReaderType DEF TableInv
  <2>2. subs[c][r[2]] = r /\ rstate[r] # "none"
    BY <2>1 DEF TableInv, ForwardingIsRecorded
  <2>3. r[2] \notin cleared(c)
    <3> SUFFICES ASSUME r[2] \in cleared(c) PROVE FALSE
      OBVIOUS
    <3>1. PICK q \in Readers : <<c, q>> \in P /\ q[2] = r[2]
      BY Zenon, <1>3, <2>1
    <3>2. rstate[q] # "none"
      BY <3>1
    <3> QED BY <2>1, <2>2, <3>1, <3>2 DEF DistinctTracks
  <2> QED BY <1>4, <2>1, <2>2, <2>3
<1>8. LocalIsRecorded'
  <2> SUFFICES ASSUME NEW tr \in Transports, NEW t \in local'[tr]
               PROVE  subTr'[ClientOf[tr]] = tr /\ subs'[ClientOf[tr]][t] # None
    BY DEF LocalIsRecorded
  <2> DEFINE c == ClientOf[tr]
  <2>1. c \in Clients /\ t \in local[tr] /\ t \in Tracks
    BY <1>1, ReaderType DEF TableInv
  <2>2. subTr[c] = tr /\ subs[c][t] # None
    BY <2>1 DEF TableInv, LocalIsRecorded
  <2>3. t \notin cleared(c)
    BY <1>1, <2>1, <2>2
  <2>4. subs'[c][t] # None
    BY <1>4, <2>1, <2>2, <2>3
  <2> QED BY <1>2, <2>1, <2>2, <2>4
<1> QED BY <1>2, <1>5, <1>6, <1>7, <1>8 DEF TableInv

\* PubSub.Sub enters a subscription into all three tables, or into none.
LEMMA SubInv ==
  ASSUME CoreInv, TableInv, SubscriptionsBelong, DistinctTracks, NEW c \in Clients, NEW t \in Tracks,
         transports[c] # None, publishers[t] # None, Sub(c, t), UNCHANGED <<transports, rstate>>
  PROVE  TableInv' /\ SubscriptionsBelong'
<1> DEFINE r == publishers[t]
           tr == transports[c]
<1>1. /\ r \in Readers /\ r[2] = t /\ rstate[r] # "none" /\ r # None
      /\ tr \in Transports /\ ClientOf[tr] = c /\ tr # None
  BY ReaderType DEF CoreInv
<1>2. subTr[c] \in {None, tr}
  BY DEF SubscriptionsBelong
<1>3. CASE rstate[r] = "open" /\ c \notin rsubs[r]
  <2>1. /\ local' = [local EXCEPT ![tr] = local[tr] \cup {t}]
        /\ rsubs' = [rsubs EXCEPT ![r] = rsubs[r] \cup {c}]
        /\ subs' = [subs EXCEPT ![c][t] = r]
        /\ subTr' = [subTr EXCEPT ![c] = tr]
    BY <1>2, <1>3 DEF Sub
  <2> HIDE DEF r, tr
  <2>2. /\ subs' \in [Clients -> [Tracks -> Readers \cup {None}]]
        /\ subTr' \in [Clients -> Transports \cup {None}]
        /\ rsubs' \in [Readers -> SUBSET Clients]
        /\ local' \in [Transports -> SUBSET Tracks]
    BY <1>1, <2>1 DEF TableInv
  <2>3. /\ \A d \in Clients, u \in Tracks : subs'[d][u] = IF d = c /\ u = t THEN r ELSE subs[d][u]
        /\ \A q \in Readers : rsubs'[q] = IF q = r THEN rsubs[r] \cup {c} ELSE rsubs[q]
        /\ \A s \in Transports : local'[s] = IF s = tr THEN local[tr] \cup {t} ELSE local[s]
        /\ \A d \in Clients : subTr'[d] = IF d = c THEN tr ELSE subTr[d]
    BY <1>1, <2>1 DEF TableInv
  <2>4. ForwardingIsRecorded'
    <3> SUFFICES ASSUME NEW q \in Readers, NEW d \in rsubs'[q] PROVE subs'[d][q[2]] = q
      BY DEF ForwardingIsRecorded
    <3>1. d \in Clients /\ q[2] \in Tracks /\ q # None
      BY <2>2, ReaderType
    <3>2. CASE q = r /\ d = c
      BY <1>1, <2>3, <3>1, <3>2
    <3>3. CASE ~(q = r /\ d = c)
      <4>1. d \in rsubs[q]
        BY Zenon, <2>3, <3>3
      <4>2. subs[d][q[2]] = q /\ rstate[q] # "none"
        BY <3>1, <4>1 DEF TableInv, ForwardingIsRecorded
      <4>3. ~(d = c /\ q[2] = t)
        BY <1>1, <3>3, <4>2 DEF DistinctTracks
      <4> QED BY <2>3, <3>1, <4>2, <4>3
    <3> QED BY <3>2, <3>3
  <2>5. LocalIsRecorded'
    <3> SUFFICES ASSUME NEW s \in Transports, NEW u \in local'[s]
                 PROVE  subTr'[ClientOf[s]] = s /\ subs'[ClientOf[s]][u] # None
      BY DEF LocalIsRecorded
    <3>1. ClientOf[s] \in Clients /\ u \in Tracks
      BY <2>2, ReaderType
    <3>2. CASE s = tr /\ u = t
      BY <1>1, <2>3, <3>1, <3>2
    <3>3. CASE ~(s = tr /\ u = t)
      <4>1. u \in local[s]
        BY <2>3, <3>3
      <4>2. subTr[ClientOf[s]] = s /\ subs[ClientOf[s]][u] # None /\ s # None
        BY <4>1, ReaderType DEF TableInv, LocalIsRecorded
      <4>3. ClientOf[s] = c => s = tr
        BY <1>2, <4>2
      <4> QED BY <1>1, <2>3, <3>1, <4>2, <4>3
    <3> QED BY <3>2, <3>3
  <2>6. SubscriptionsBelong'
    BY <2>3 DEF SubscriptionsBelong, tr
  <2>7. \A d \in Clients, u \in Tracks : subs'[d][u] # None =>
          subs'[d][u][2] = u /\ rstate'[subs'[d][u]] # "none"
    BY <1>1, <2>3 DEF TableInv
  <2> QED BY <2>2, <2>4, <2>5, <2>6, <2>7 DEF TableInv
<1>4. CASE ~(rstate[r] = "open" /\ c \notin rsubs[r])
  <2>1. local' = [local EXCEPT ![tr] = local[tr] \ {t}] /\ UNCHANGED <<rsubs, subs, subTr>>
    BY <1>4 DEF Sub
  <2> HIDE DEF r, tr
  <2>2. /\ local' \in [Transports -> SUBSET Tracks]
        /\ \A s \in Transports : local'[s] \subseteq local[s]
    BY <1>1, <2>1 DEF TableInv
  <2>3. LocalIsRecorded'
    BY <2>1, <2>2 DEF TableInv, LocalIsRecorded
  <2> QED BY <2>1, <2>2, <2>3 DEF TableInv, ForwardingIsRecorded, SubscriptionsBelong
<1> QED BY <1>3, <1>4

-----------------------------------------------------------------------------
(* The mutex                                                                  *)

\* What a step holds.
LEMMA StepType ==
  ASSUME NEW s \in Step
  PROVE  /\ s.op \in {"unsubscribe", "subscribe", "terminate", "send"}
         /\ s.op # "send" => s.tr \in Transports
         /\ s.op = "terminate" => s \in [op : {"terminate"}, tr : Transports, left : SUBSET Readers]
         /\ s.op = "send" => s.ev \in Event
BY DEF Step

\* The rest of the steps.
LEMMA TailType ==
  ASSUME NEW l \in Seq(Step), l # <<>>
  PROVE  /\ Len(l) \in Nat /\ Len(l) >= 1 /\ Head(l) = l[1] /\ l[1] \in Step
         /\ Tail(l) \in Seq(Step) /\ Len(Tail(l)) = Len(l) - 1
         /\ \A i \in 1..Len(Tail(l)) : i + 1 \in 1..Len(l) /\ Tail(l)[i] = l[i + 1]
<1>1. Len(l) \in Nat /\ Len(l) >= 1
  OBVIOUS
<1> QED BY <1>1

\* The steps are what counts, not the readers that Terminate has left.
LEMMA SameSteps ==
  ASSUME NEW l, NEW k \in Seq(Step), NEW reg, NEW st, LockOK(l, reg, st), Len(k) = Len(l),
         \A i \in 1..Len(l) : k[i].op = l[i].op /\ (l[i].op # "send" => k[i].tr = l[i].tr)
  PROVE  LockOK(k, reg, st)
<1>1. Len(l) \in Nat
  BY DEF LockOK
<1> QED BY <1>1 DEF LockOK

\* A transport that is registered is not open again.
LEMMA LaterStage ==
  ASSUME NEW l, NEW reg, NEW st, NEW later, LockOK(l, reg, st),
         \A tr \in Transports : st[tr] # "open" => later[tr] # "open",
         \A tr \in Transports : st[tr] # "new" => later[tr] # "new"
  PROVE  LockOK(l, reg, later)
<1>1. \A i \in 1..Len(l) : l[i].op # "send" => l[i].tr \in Transports
  BY StepType DEF LockOK
<1> QED BY <1>1 DEF LockOK

\* The event loop takes an event.
LEMMA TailSend ==
  ASSUME NEW l, NEW reg, NEW st, LockOK(l, reg, st), l # <<>>, l[1].op = "send"
  PROVE  LockOK(Tail(l), reg, st)
<1> DEFINE k == Tail(l)
<1>1. /\ l \in Seq(Step) /\ Len(l) \in Nat /\ k \in Seq(Step) /\ Len(k) = Len(l) - 1
      /\ \A i \in 1..Len(k) : i + 1 \in 1..Len(l) /\ k[i] = l[i + 1]
  BY TailType DEF LockOK
<1> HIDE DEF k
<1>2. ASSUME NEW i \in 1..Len(k)
      PROVE  /\ k[i].op # "unsubscribe"
             /\ k[i].op = "terminate" => i = 1 /\ reg[ClientOf[k[i].tr]] = k[i].tr /\ st[k[i].tr] # "open"
             /\ k[i].op = "subscribe" =>
                  /\ i = Len(k) /\ st[k[i].tr] # "new" /\ i > 1
                  /\ k[i - 1].op = "terminate" /\ ClientOf[k[i - 1].tr] = ClientOf[k[i].tr]
  <2>1. i \in Nat /\ i + 1 \in 1..Len(l) /\ k[i] = l[i + 1] /\ i + 1 # 1 /\ (i + 1) - 1 = i
    BY <1>1
  <2>2. k[i].op # "unsubscribe" /\ (k[i].op = "terminate" => i + 1 = 2)
    BY <2>1 DEF LockOK
  <2>3. k[i].op = "terminate" => reg[ClientOf[k[i].tr]] = k[i].tr /\ st[k[i].tr] # "open"
    BY <2>1 DEF LockOK
  <2>4. k[i].op = "subscribe" =>
          /\ i + 1 = Len(l) /\ st[k[i].tr] # "new"
          /\ l[i].op = "terminate" /\ ClientOf[l[i].tr] = ClientOf[k[i].tr]
    BY <2>1 DEF LockOK
  <2>5. k[i].op = "subscribe" => i # 1 /\ k[i - 1] = l[i]
    BY <1>1, <2>1, <2>4
  <2> QED BY <1>1, <2>1, <2>2, <2>3, <2>4, <2>5
<1>3. LockOK(k, reg, st)
  BY <1>1, <1>2 DEF LockOK
<1> QED BY <1>3 DEF k

\* remove is done: only add may go on, with the client that has no transport now.
LEMMA TailTerminate ==
  ASSUME NEW l, NEW reg, NEW st, LockOK(l, reg, st), l # <<>>, l[1].op = "terminate",
         NEW now, now[ClientOf[l[1].tr]] = None
  PROVE  LockOK(Tail(l), now, st)
<1> DEFINE k == Tail(l)
<1>1. /\ l \in Seq(Step) /\ Len(l) \in Nat /\ k \in Seq(Step) /\ Len(k) = Len(l) - 1
      /\ \A i \in 1..Len(k) : i + 1 \in 1..Len(l) /\ k[i] = l[i + 1]
  BY TailType DEF LockOK
<1> HIDE DEF k
<1>2. ASSUME NEW i \in 1..Len(k)
      PROVE  /\ k[i].op \notin {"unsubscribe", "terminate"}
             /\ k[i].op = "subscribe" =>
                  i = 1 /\ i = Len(k) /\ st[k[i].tr] # "new" /\ now[ClientOf[k[i].tr]] = None
  <2>1. i \in Nat /\ i + 1 \in 1..Len(l) /\ k[i] = l[i + 1] /\ i + 1 # 1 /\ (i + 1) - 1 = i /\ i \in 1..Len(l)
    BY <1>1
  <2>2. k[i].op \notin {"unsubscribe", "terminate"}
    BY <2>1 DEF LockOK
  <2>3. k[i].op = "subscribe" =>
          /\ i + 1 = Len(l) /\ st[k[i].tr] # "new"
          /\ l[i].op = "terminate" /\ ClientOf[l[i].tr] = ClientOf[k[i].tr]
    BY <2>1 DEF LockOK
  <2>4. l[i].op = "terminate" => i = 1
    BY <2>1 DEF LockOK
  <2> QED BY <1>1, <2>1, <2>2, <2>3, <2>4
<1>3. LockOK(k, now, st)
  BY <1>1, <1>2 DEF LockOK
<1> QED BY <1>3 DEF k

\* Terminate comes next.
LEMMA TailUnsubscribe ==
  ASSUME NEW l, NEW reg, NEW st, LockOK(l, reg, st), l # <<>>, l[1].op = "unsubscribe",
         NEW left \in SUBSET Readers
  PROVE  LockOK([Tail(l) EXCEPT ![1].left = left], reg, st)
<1> DEFINE m == Tail(l)
           k == [m EXCEPT ![1].left = left]
<1>1. /\ l \in Seq(Step) /\ Len(l) \in Nat /\ Len(l) >= 2 /\ m \in Seq(Step) /\ Len(m) = Len(l) - 1
      /\ \A i \in 1..Len(m) : i + 1 \in 1..Len(l) /\ m[i] = l[i + 1]
      /\ l[2].op = "terminate"
  BY TailType DEF LockOK
<1>2. 1 \in 1..Len(m) /\ m[1] = l[2] /\ m[1].op = "terminate"
  BY <1>1
<1>3. m[1] \in [op : {"terminate"}, tr : Transports, left : SUBSET Readers]
  BY <1>1, <1>2, StepType
<1> HIDE DEF m
<1>4. /\ [m[1] EXCEPT !.left = left] \in Step
      /\ [m[1] EXCEPT !.left = left].op = m[1].op /\ [m[1] EXCEPT !.left = left].tr = m[1].tr
  BY <1>3 DEF Step
<1>5. k \in Seq(Step) /\ Len(k) = Len(m) /\ \A i \in 1..Len(m) : k[i].op = m[i].op /\ k[i].tr = m[i].tr
  BY <1>1, <1>2, <1>4
<1> HIDE DEF k
<1>6. ASSUME NEW i \in 1..Len(k)
      PROVE  /\ k[i].op # "unsubscribe"
             /\ k[i].op = "terminate" => i = 1 /\ reg[ClientOf[k[i].tr]] = k[i].tr /\ st[k[i].tr] # "open"
             /\ k[i].op = "subscribe" =>
                  /\ i = Len(k) /\ st[k[i].tr] # "new" /\ i > 1
                  /\ k[i - 1].op = "terminate" /\ ClientOf[k[i - 1].tr] = ClientOf[k[i].tr]
  <2>1. /\ i \in Nat /\ i + 1 \in 1..Len(l) /\ k[i].op = l[i + 1].op /\ k[i].tr = l[i + 1].tr
        /\ i + 1 # 1 /\ (i + 1) - 1 = i
    BY <1>1, <1>5
  <2>2. k[i].op # "unsubscribe" /\ (k[i].op = "terminate" => i + 1 = 2)
    BY <2>1 DEF LockOK
  <2>3. k[i].op = "terminate" => reg[ClientOf[k[i].tr]] = k[i].tr /\ st[k[i].tr] # "open"
    BY Zenon, <2>1 DEF LockOK
  <2>4. k[i].op = "subscribe" =>
          /\ i + 1 = Len(l) /\ st[k[i].tr] # "new"
          /\ l[i].op = "terminate" /\ ClientOf[l[i].tr] = ClientOf[k[i].tr]
    <3>1. i + 1 > 1
      BY <2>1
    <3>2. l[i + 1].op = "subscribe" =>
            /\ i + 1 = Len(l) /\ st[l[i + 1].tr] # "new"
            /\ l[(i + 1) - 1].op = "terminate" /\ ClientOf[l[(i + 1) - 1].tr] = ClientOf[l[i + 1].tr]
      BY <2>1, <3>1 DEF LockOK
    <3> QED BY <2>1, <3>2
  <2>5. k[i].op = "subscribe" => i # 1
    BY <1>2, <1>5
  <2>6. i # 1 => i - 1 \in 1..Len(m) /\ m[i - 1] = l[(i - 1) + 1] /\ (i - 1) + 1 = i /\ i > 1
    BY <1>1, <1>5, <2>1
  <2>7. i # 1 => k[i - 1].op = l[i].op /\ k[i - 1].tr = l[i].tr
    BY <1>5, <2>6
  <2>8. i + 1 = Len(l) => i = Len(k)
    BY <1>1, <1>5, <2>1
  <2>9. i + 1 = 2 => i = 1
    BY <2>1
  <2>10. CASE k[i].op = "subscribe"
    BY <2>4, <2>5, <2>6, <2>7, <2>8, <2>10
  <2>11. CASE k[i].op # "subscribe"
    BY <2>2, <2>3, <2>9, <2>11
  <2> QED BY <2>10, <2>11
<1>7. LockOK(k, reg, st)
  BY <1>1, <1>5, <1>6 DEF LockOK
<1> QED BY <1>7 DEF k, m

\* Terminate publishes the removal of a track and goes on.
LEMMA SendFirst ==
  ASSUME NEW l, NEW reg, NEW st, LockOK(l, reg, st), l # <<>>, l[1].op = "terminate", NEW e \in Event
  PROVE  LockOK(<<[op |-> "send", ev |-> e]>> \o l, reg, st)
<1> DEFINE s == [op |-> "send", ev |-> e]
           k == <<s>> \o l
<1>1. s \in Step /\ s.op = "send"
  BY DEF Step
<1>2. l \in Seq(Step) /\ Len(l) \in Nat /\ Len(l) >= 1
  BY TailType DEF LockOK
<1> HIDE DEF s
<1>3. /\ k \in Seq(Step) /\ Len(k) = Len(l) + 1 /\ k[1] = s
      /\ \A i \in 1..Len(k) : i > 1 => i - 1 \in 1..Len(l) /\ k[i] = l[i - 1]
  BY <1>1, <1>2
<1> HIDE DEF k
<1>4. ASSUME NEW i \in 1..Len(k)
      PROVE  /\ k[i].op # "unsubscribe"
             /\ k[i].op = "terminate" => i = 2 /\ reg[ClientOf[k[i].tr]] = k[i].tr /\ st[k[i].tr] # "open"
             /\ k[i].op = "subscribe" =>
                  /\ i = Len(k) /\ st[k[i].tr] # "new" /\ i > 1
                  /\ k[i - 1].op = "terminate" /\ ClientOf[k[i - 1].tr] = ClientOf[k[i].tr]
  <2>1. CASE i = 1
    BY <1>1, <1>3, <2>1
  <2>2. CASE i > 1
    <3>1. i \in Nat /\ i - 1 \in 1..Len(l) /\ k[i] = l[i - 1]
      BY <1>2, <1>3, <2>2
    <3>2. k[i].op # "unsubscribe" /\ (k[i].op = "terminate" => i - 1 = 1)
      BY <3>1 DEF LockOK
    <3>3. k[i].op = "terminate" => reg[ClientOf[k[i].tr]] = k[i].tr /\ st[k[i].tr] # "open"
      BY <3>1 DEF LockOK
    <3>4. k[i].op = "subscribe" =>
            /\ i - 1 = Len(l) /\ st[k[i].tr] # "new" /\ i - 1 # 1
            /\ l[(i - 1) - 1].op = "terminate" /\ ClientOf[l[(i - 1) - 1].tr] = ClientOf[k[i].tr]
      BY <3>1 DEF LockOK
    <3>5. k[i].op = "subscribe" => k[i - 1] = l[(i - 1) - 1]
      BY <1>2, <1>3, <3>1, <3>4
    <3> QED BY <1>2, <1>3, <2>2, <3>1, <3>2, <3>3, <3>4, <3>5
  <2> QED BY <1>2, <1>3, <2>1, <2>2
<1>5. LockOK(k, reg, st)
  BY <1>1, <1>2, <1>3, <1>4 DEF LockOK
<1> QED BY <1>5 DEF k, s

\* A free mutex, an event to send, and the steps of Remove and of add.
LEMMA NewLock ==
  ASSUME NEW reg, NEW st
  PROVE  /\ LockOK(<<>>, reg, st)
         /\ \A e \in Event : LockOK(<<[op |-> "send", ev |-> e]>>, reg, st)
         /\ \A tr \in Transports : reg[ClientOf[tr]] = tr /\ st[tr] # "open" => LockOK(Remove(tr), reg, st)
         /\ \A tr \in Transports : reg[ClientOf[tr]] = None /\ st[tr] # "new" =>
              LockOK(<<>> \o <<[op |-> "subscribe", tr |-> tr]>>, reg, st)
         /\ \A tr, old \in Transports :
              reg[ClientOf[old]] = old /\ st[old] # "open" /\ ClientOf[old] = ClientOf[tr] /\ st[tr] # "new" =>
                LockOK(Remove(old) \o <<[op |-> "subscribe", tr |-> tr]>>, reg, st)
<1>1. LockOK(<<>>, reg, st)
  BY DEF LockOK
<1>2. ASSUME NEW e \in Event PROVE LockOK(<<[op |-> "send", ev |-> e]>>, reg, st)
  BY DEF LockOK, Step
<1> DEFINE x(tr) == [op |-> "unsubscribe", tr |-> tr]
           y(tr) == [op |-> "terminate", tr |-> tr, left |-> {}]
           z(tr) == [op |-> "subscribe", tr |-> tr]
<1>3. \A tr \in Transports : /\ x(tr) \in Step /\ x(tr).op = "unsubscribe" /\ x(tr).tr = tr
                             /\ y(tr) \in Step /\ y(tr).op = "terminate" /\ y(tr).tr = tr
                             /\ z(tr) \in Step /\ z(tr).op = "subscribe" /\ z(tr).tr = tr
  BY DEF Step
<1>7. \A tr \in Transports : Remove(tr) = <<x(tr), y(tr)>>
  BY DEF Remove
<1> HIDE DEF x, y, z
<1>4. ASSUME NEW tr \in Transports, reg[ClientOf[tr]] = tr, st[tr] # "open" PROVE LockOK(Remove(tr), reg, st)
  <2> DEFINE l == <<x(tr), y(tr)>>
  <2>1. l \in Seq(Step) /\ Len(l) = 2 /\ l[1] = x(tr) /\ l[2] = y(tr)
    BY <1>3
  <2> HIDE DEF l
  <2>2. LockOK(l, reg, st)
    BY <1>3, <1>4, <2>1 DEF LockOK
  <2> QED BY <1>7, <2>2 DEF l
<1>5. ASSUME NEW tr \in Transports, reg[ClientOf[tr]] = None, st[tr] # "new"
      PROVE  LockOK(<<>> \o <<z(tr)>>, reg, st)
  <2> DEFINE l == <<>> \o <<z(tr)>>
  <2>1. l \in Seq(Step) /\ Len(l) = 1 /\ l[1] = z(tr)
    BY <1>3
  <2> HIDE DEF l
  <2>2. LockOK(l, reg, st)
    BY <1>3, <1>5, <2>1 DEF LockOK
  <2> QED BY <2>2 DEF l
<1>6. ASSUME NEW tr \in Transports, NEW old \in Transports, reg[ClientOf[old]] = old, st[old] # "open",
             ClientOf[old] = ClientOf[tr], st[tr] # "new"
      PROVE  LockOK(Remove(old) \o <<z(tr)>>, reg, st)
  <2> DEFINE l == <<x(old), y(old)>> \o <<z(tr)>>
  <2>1. l \in Seq(Step) /\ Len(l) = 3 /\ l[1] = x(old) /\ l[2] = y(old) /\ l[3] = z(tr)
    BY <1>3
  <2> HIDE DEF l
  <2>2. \A i \in 1..3 : i = 1 \/ i = 2 \/ i = 3
    OBVIOUS
  <2>3. LockOK(l, reg, st)
    BY <1>3, <1>6, <2>1, <2>2 DEF LockOK
  <2> QED BY <1>7, <2>3 DEF l
<1> QED BY <1>1, <1>2, <1>4, <1>5, <1>6 DEF z

-----------------------------------------------------------------------------
(* The steps                                                                  *)

\* A room starts empty.
LEMMA RoomInit == Init => RoomInv
<1> SUFFICES ASSUME Init PROVE RoomInv
  OBVIOUS
<1>1. CoreInv
  BY DEF Init, CoreInv, Stage, RState
<1>3. LockInv
  BY NewLock DEF Init, LockInv
<1>4. PubbingInv
  BY DEF Init, PubbingInv, Pubbing
<1>5. EventType
  BY DEF Init, EventType, Forward
<1> QED BY <1>1, <1>3, <1>4, <1>5 DEF RoomInv

\* A step that touches only the tables of subscriptions, or nothing.
LEMMA CoreSame ==
  ASSUME CoreInv, UNCHANGED <<transports, stage, publishers, byPub, rstate>>
  PROVE  CoreInv'
BY DEF CoreInv

\* A step of a reader's life.
LEMMA ReaderStep ==
  ASSUME CoreInv, NEW r \in Readers, NEW s \in {"open", "closed", "done"}, rstate' = [rstate EXCEPT ![r] = s]
  PROVE  /\ rstate' \in [Readers -> RState]
         /\ rstate'[r] = s /\ \A q \in Readers : q # r => rstate'[q] = rstate[q]
         /\ \A q \in Readers : rstate[q] # "none" => rstate'[q] # "none"
BY DEF CoreInv, RState

\* The remote tracks goroutine gets a track, and a reader for it.
LEMMA TakeRemoteTrackInv ==
  ASSUME RoomInv, NEW r \in Readers, TakeRemoteTrack(r[1], r[2])
  PROVE  RoomInv'
<1> DEFINE tr == r[1]
           t == r[2]
<1>1. tr \in Transports /\ t \in Tracks /\ <<tr, t>> = r
  BY ReaderType
<1>2. /\ rstate' = [rstate EXCEPT ![r] = "open"]
      /\ pubbing' = [pubbing EXCEPT ![tr] = [pc |-> "write", track |-> t]]
      /\ UNCHANGED <<transports, stage, lock, adding, pubsubVars, eventVars>>
  BY Zenon, <1>1 DEF TakeRemoteTrack
<1>3. /\ rstate' \in [Readers -> RState] /\ rstate'[r] = "open"
      /\ \A q \in Readers : rstate[q] # "none" => rstate'[q] # "none"
  BY Zenon, <1>2, ReaderStep DEF RoomInv
<1> HIDE DEF tr, t
<1>4. CoreInv'
  BY <1>2, <1>3 DEF RoomInv, CoreInv, pubsubVars
<1>6. PubbingInv'
  <2>1. [pc |-> "write", track |-> t] \in Pubbing
    BY <1>1 DEF Pubbing
  <2>2. pubbing' \in [Transports -> Pubbing]
    BY <1>1, <1>2, <2>1 DEF RoomInv, PubbingInv
  <2>3. \A u \in Transports : pubbing'[u] = IF u = tr THEN [pc |-> "write", track |-> t] ELSE pubbing[u]
    BY <1>1, <1>2 DEF RoomInv, PubbingInv
  <2>4. \A u \in Transports : pubbing'[u].pc # "idle" =>
          <<u, pubbing'[u].track>> \in Readers /\ rstate'[<<u, pubbing'[u].track>>] # "none"
    BY <1>1, <1>3, <2>3 DEF RoomInv, PubbingInv
  <2> QED BY <2>2, <2>4 DEF PubbingInv
<1>7. LockInv' /\ EventType'
  BY <1>2 DEF RoomInv, LockInv, EventType, eventVars
<1> QED BY <1>4, <1>6, <1>7 DEF RoomInv

\* The end of a track is noticed by its reader only.
LEMMA EndTrackInv ==
  ASSUME RoomInv, NEW r \in Readers, EndTrack(r)
  PROVE  RoomInv'
<1>1. /\ rstate' = [rstate EXCEPT ![r] = "closed"]
      /\ UNCHANGED <<transports, stage, lock, adding, pubbing, pubsubVars, eventVars>>
  BY DEF EndTrack
<1>2. /\ rstate' \in [Readers -> RState]
      /\ \A q \in Readers : rstate[q] # "none" => rstate'[q] # "none"
  BY Zenon, <1>1, ReaderStep DEF RoomInv
<1>3. CoreInv'
  BY <1>1, <1>2 DEF RoomInv, CoreInv, pubsubVars
<1>4. PubbingInv' /\ LockInv' /\ EventType'
  BY <1>1, <1>2 DEF RoomInv, PubbingInv, LockInv, EventType, eventVars
<1> QED BY <1>3, <1>4 DEF RoomInv

\* Steps that touch only the tables of subscriptions: a write that fails, and the
\* requests of browsers.
LEMMA SubscriptionStep ==
  ASSUME RoomInv,
         UNCHANGED <<transports, stage, rstate, lock, adding, pubbing, publishers, byPub, eventVars>>
  PROVE  RoomInv'
<1>1. CoreInv'
  BY CoreSame DEF RoomInv
<1>2. PubbingInv' /\ LockInv' /\ EventType'
  BY DEF RoomInv, PubbingInv, LockInv, EventType, eventVars
<1> QED BY <1>1, <1>2 DEF RoomInv

\* PubSub.Unpub removes the publisher of a track.
LEMMA UnpubCore ==
  ASSUME CoreInv, NEW c \in Clients, NEW t \in Tracks, publishers[t] # None, Unpub(c, t),
         UNCHANGED <<transports, stage>>, rstate' \in [Readers -> RState],
         \A q \in Readers : rstate[q] # "none" => rstate'[q] # "none"
  PROVE  CoreInv'
<1>1. /\ byPub' = [byPub EXCEPT ![c] = byPub[c] \ {publishers[t]}]
      /\ publishers' = [publishers EXCEPT ![t] = None]
  BY DEF Unpub
<1>2. /\ byPub' \in [Clients -> SUBSET Readers] /\ \A d \in Clients : byPub'[d] \subseteq byPub[d]
      /\ publishers' \in [Tracks -> Readers \cup {None}]
      /\ \A u \in Tracks : publishers'[u] \in {None, publishers[u]}
  BY <1>1 DEF CoreInv
<1> QED BY <1>2 DEF CoreInv

\* PubSub.Pub, while somebody else may hold the mutex.
LEMMA PubInv ==
  ASSUME RoomInv, NEW tr \in Transports, Pub(tr)
  PROVE  RoomInv'
<1> DEFINE r == <<tr, pubbing[tr].track>>
           c == ClientOf[tr]
<1>1. /\ pubbing[tr].pc = "write" /\ r \in Readers /\ rstate[r] # "none" /\ c \in Clients
      /\ r[2] \in Tracks /\ r[1] = tr /\ Owner(r) = c
      /\ pubbing[tr] \in [pc : {"write", "send"}, track : Tracks]
  BY ReaderType DEF Pub, RoomInv, PubbingInv, Pubbing, Owner
<1>2. /\ publishers' = [publishers EXCEPT ![r[2]] = r]
      /\ byPub' = [byPub EXCEPT ![c] = byPub[c] \cup {r}]
      /\ pubbing' = [pubbing EXCEPT ![tr].pc = "send"]
      /\ UNCHANGED <<transports, stage, rstate, adding, subs, subTr, rsubs, local, eventVars>>
  BY DEF Pub
<1>3. \/ lock' = lock
      \/ lock' = [i \in DOMAIN lock |->
                    IF lock[i].op = "terminate" /\ ClientOf[lock[i].tr] = c
                    THEN [lock[i] EXCEPT !.left = @ \cup {r}] ELSE lock[i]]
  BY DEF Pub
<1> HIDE DEF r, c
<1>4. CoreInv'
  <2>1. /\ publishers' \in [Tracks -> Readers \cup {None}]
        /\ \A t \in Tracks : publishers'[t] = IF t = r[2] THEN r ELSE publishers[t]
    BY <1>1, <1>2 DEF RoomInv, CoreInv
  <2>2. /\ byPub' \in [Clients -> SUBSET Readers]
        /\ \A d \in Clients : byPub'[d] = IF d = c THEN byPub[c] \cup {r} ELSE byPub[d]
    BY <1>1, <1>2 DEF RoomInv, CoreInv
  <2> QED BY <1>1, <1>2, <2>1, <2>2 DEF RoomInv, CoreInv
<1>6. PubbingInv'
  <2>1. [pubbing[tr] EXCEPT !.pc = "send"] \in Pubbing /\ [pubbing[tr] EXCEPT !.pc = "send"].track = pubbing[tr].track
    BY <1>1 DEF Pubbing
  <2>2. pubbing' = [pubbing EXCEPT ![tr] = [pubbing[tr] EXCEPT !.pc = "send"]]
    BY <1>2 DEF RoomInv, PubbingInv
  <2> DEFINE x == [pubbing[tr] EXCEPT !.pc = "send"]
  <2>3. x \in Pubbing /\ x.track = pubbing[tr].track /\ pubbing' = [pubbing EXCEPT ![tr] = x]
    BY <2>1, <2>2
  <2> HIDE DEF x
  <2> QED BY <1>1, <1>2, <2>3 DEF RoomInv, PubbingInv, r
<1>7. LockInv'
  <2> DEFINE k == [i \in DOMAIN lock |->
                     IF lock[i].op = "terminate" /\ ClientOf[lock[i].tr] = c
                     THEN [lock[i] EXCEPT !.left = @ \cup {r}] ELSE lock[i]]
  <2>0. lock \in Seq(Step)
    BY Zenon DEF RoomInv, LockInv, LockOK
  <2>1. lock \in Seq(Step) /\ Len(lock) \in Nat /\ DOMAIN lock = 1..Len(lock)
    BY <2>0
  <2>2. ASSUME NEW i \in 1..Len(lock)
        PROVE  k[i] \in Step /\ k[i].op = lock[i].op /\ (lock[i].op # "send" => k[i].tr = lock[i].tr)
    <3>1. lock[i] \in Step
      BY <2>1
    <3>2. CASE lock[i].op = "terminate" /\ ClientOf[lock[i].tr] = c
      <4>1. lock[i] \in [op : {"terminate"}, tr : Transports, left : SUBSET Readers]
        BY <3>1, <3>2, StepType
      <4>2. k[i] = [lock[i] EXCEPT !.left = lock[i].left \cup {r}]
        BY <2>1, <3>2
      <4> QED BY <1>1, <4>1, <4>2 DEF Step
    <3>3. CASE ~(lock[i].op = "terminate" /\ ClientOf[lock[i].tr] = c)
      BY <2>1, <3>1, <3>3
    <3> QED BY <3>2, <3>3
  <2>3. k \in [1..Len(lock) -> Step]
    BY <2>1, <2>2
  <2> HIDE DEF k
  <2>4. k \in Seq(Step) /\ Len(k) = Len(lock)
    BY <2>1, <2>3
  <2>5. LockOK(k, transports, stage)
    BY <2>2, <2>4, SameSteps DEF RoomInv, LockInv
  <2> QED BY Zenon, <1>2, <1>3, <2>5 DEF RoomInv, LockInv, k
<1>8. EventType'
  BY <1>2 DEF RoomInv, EventType, eventVars
<1> QED BY <1>4, <1>6, <1>7, <1>8 DEF RoomInv

\* The onClose callback.
LEMMA OnCloseInv ==
  ASSUME RoomInv, NEW r \in Readers, OnClose(r)
  PROVE  RoomInv'
<1> DEFINE c == Owner(r)
           t == r[2]
           e == [type |-> "remove", client |-> c, track |-> t]
<1>1. c \in Clients /\ t \in Tracks
  BY ReaderType
<1>2. e \in Event
  BY <1>1 DEF Event
<1>3. /\ rstate' = [rstate EXCEPT ![r] = "done"]
      /\ UNCHANGED <<transports, stage, adding, pubbing, eventVars>>
  BY DEF OnClose
<1>4. \/ UNCHANGED <<lock, pubsubVars>>
      \/ publishers[t] # None /\ Unpub(c, t) /\ lock' = <<[op |-> "send", ev |-> e]>>
  BY DEF OnClose
<1> HIDE DEF c, t, e
<1>5. /\ rstate' \in [Readers -> RState]
      /\ \A q \in Readers : rstate[q] # "none" => rstate'[q] # "none"
  BY Zenon, <1>3, ReaderStep DEF RoomInv
<1>6. CoreInv'
  <2>1. CASE UNCHANGED <<lock, pubsubVars>>
    BY <1>3, <1>5, <2>1 DEF RoomInv, CoreInv, pubsubVars
  <2>2. CASE publishers[t] # None /\ Unpub(c, t)
    BY <1>1, <1>3, <1>5, <2>2, UnpubCore DEF RoomInv
  <2> QED BY <1>4, <2>1, <2>2
<1>7. LockInv'
  BY Zenon, <1>2, <1>3, <1>4, NewLock DEF RoomInv, LockInv
<1>8. PubbingInv' /\ EventType'
  BY <1>3, <1>5 DEF RoomInv, PubbingInv, EventType, eventVars
<1> QED BY <1>6, <1>7, <1>8 DEF RoomInv

\* A transport joins: one of the same client that is there is removed first.
LEMMA AddInv ==
  ASSUME RoomInv, NEW tr \in Transports, Add(tr)
  PROVE  RoomInv'
<1> DEFINE old == transports[ClientOf[tr]]
<1>1. /\ stage[tr] = "new" /\ lock = <<>>
      /\ stage' = [s \in Transports |->
                     CASE s = tr -> "open" [] s = old /\ stage[s] = "open" -> "closed" [] OTHER -> stage[s]]
      /\ lock' = (IF old = None THEN <<>> ELSE Remove(old)) \o <<[op |-> "subscribe", tr |-> tr]>>
      /\ UNCHANGED <<transports, rstate, adding, pubbing, pubsubVars, eventVars>>
  BY DEF Add
<1>2. /\ ClientOf[tr] \in Clients /\ tr # None
      /\ old # None => old \in Transports /\ ClientOf[old] = ClientOf[tr] /\ stage[old] # "new"
                       /\ transports[ClientOf[old]] = old
  BY ReaderType DEF RoomInv, CoreInv
<1>3. /\ stage' \in [Transports -> Stage] /\ stage'[tr] = "open"
      /\ \A s \in Transports : stage[s] # "new" => stage'[s] # "new"
      /\ old # None => stage'[old] # "open"
  BY <1>1, <1>2 DEF RoomInv, CoreInv, Stage
<1> HIDE DEF old
<1>4. CoreInv'
  BY <1>1, <1>3 DEF RoomInv, CoreInv, pubsubVars
<1>6. LockInv'
  <2>1. CASE old = None
    <3>1. transports'[ClientOf[tr]] = None /\ stage'[tr] # "new"
      BY <1>1, <1>3, <2>1 DEF old
    <3>2. LockOK(<<>> \o <<[op |-> "subscribe", tr |-> tr]>>, transports', stage')
      BY Zenon, <3>1, NewLock
    <3> QED BY <1>1, <2>1, <3>2 DEF LockInv
  <2>2. CASE old # None
    <3>1. /\ old \in Transports /\ transports'[ClientOf[old]] = old /\ stage'[old] # "open"
          /\ ClientOf[old] = ClientOf[tr] /\ stage'[tr] # "new"
      BY <1>1, <1>2, <1>3, <2>2
    <3>2. LockOK(Remove(old) \o <<[op |-> "subscribe", tr |-> tr]>>, transports', stage')
      BY Zenon, <3>1, NewLock
    <3> QED BY <1>1, <2>2, <3>2 DEF LockInv
  <2> QED BY <2>1, <2>2
<1>7. PubbingInv' /\ EventType'
  BY <1>1 DEF RoomInv, PubbingInv, EventType, eventVars
<1> QED BY <1>4, <1>6, <1>7 DEF RoomInv

\* A transport closes, and its Done is handled.
LEMMA CloseInv ==
  ASSUME RoomInv, NEW tr \in Transports, CloseTransport(tr) \/ Done(tr)
  PROVE  RoomInv'
<1>1. /\ stage[tr] \in {"open", "closed"}
      /\ \E s \in {"closed", "gone"} : stage' = [stage EXCEPT ![tr] = s]
      /\ UNCHANGED <<transports, rstate, adding, pubbing, pubsubVars, eventVars>>
  BY DEF CloseTransport, Done
<1>2. /\ stage' \in [Transports -> Stage] /\ stage'[tr] # "open"
      /\ \A s \in Transports : stage[s] # "new" => stage'[s] # "new"
      /\ \A s \in Transports : stage[s] # "open" => stage'[s] # "open"
  BY <1>1 DEF RoomInv, CoreInv, Stage
<1>3. CoreInv'
  BY <1>1, <1>2 DEF RoomInv, CoreInv, pubsubVars
<1>5. LockInv'
  <2>1. CASE lock' = lock
    BY Zenon, <1>1, <1>2, <2>1, LaterStage DEF RoomInv, LockInv
  <2>2. CASE lock' = <<>> \/ (transports[ClientOf[tr]] = tr /\ lock' = Remove(tr))
    <3>1. transports'[ClientOf[tr]] = transports[ClientOf[tr]]
      BY <1>1
    <3> QED BY Zenon, <1>2, <2>2, <3>1, NewLock DEF LockInv
  <2> QED BY <2>1, <2>2 DEF CloseTransport, Done
<1>6. PubbingInv' /\ EventType'
  BY <1>1 DEF RoomInv, PubbingInv, EventType, eventVars
<1> QED BY <1>3, <1>5, <1>6 DEF RoomInv

\* NodeManager has handled an event.
LEMMA HandleEventInv ==
  ASSUME RoomInv, NEW tr \in Transports, HandleEvent(tr)
  PROVE  RoomInv'
<1>1. /\ cons' = [cons EXCEPT ![tr] = None]
      /\ UNCHANGED <<transports, stage, rstate, lock, adding, pubbing, publishers, byPub,
                     evsub, fan, fwd, view>>
  BY Zenon DEF HandleEvent
<1>2. CoreInv'
  BY <1>1, CoreSame DEF RoomInv
<1>3. PubbingInv' /\ LockInv' /\ EventType'
  BY Zenon, <1>1 DEF RoomInv, PubbingInv, LockInv, EventType
<1> QED BY <1>2, <1>3 DEF RoomInv

\* The steps of the event loop and of the forwarding goroutines touch events only.
LEMMA EventInv ==
  ASSUME RoomInv, NEW tr \in Transports,
         ReadTracks(tr) \/ FanOut(tr) \/ ForwardEvent(tr) \/ ForwarderEnds(tr)
  PROVE  RoomInv'
<1>1. UNCHANGED <<transports, stage, rstate, lock, pubbing, pubsubVars>>
  BY DEF ReadTracks, FanOut, ForwardEvent, ForwarderEnds
<1>2. CoreInv' /\ LockInv' /\ PubbingInv'
  BY Zenon, <1>1, CoreSame DEF RoomInv, LockInv, PubbingInv, pubsubVars
<1>3. EventType /\ fwd[tr] \in Forward
  BY DEF RoomInv, EventType
<1>4. ASSUME NEW f \in Forward, fwd' = [fwd EXCEPT ![tr] = f] PROVE fwd' \in [Transports -> Forward]
  BY <1>3, <1>4 DEF EventType
<1>5. ASSUME ReadTracks(tr) PROVE EventType'
  <2> DEFINE others == {u \in Tracks : publishers[u] # None /\ Owner(publishers[u]) # ClientOf[tr]}
             known == {[type |-> "add", client |-> Owner(publishers[u]), track |-> u] : u \in others}
             f == [fwd[tr] EXCEPT !.pc = "on", !.left = known]
  <2>1. /\ adding' = None /\ UNCHANGED <<evsub, fan, cons, view>>
        /\ fwd' = [fwd EXCEPT ![tr].pc = "on", ![tr].left = known]
    BY <1>5 DEF ReadTracks
  <2>2. \A u \in others : Owner(publishers[u]) \in Clients /\ u \in Tracks
    BY ReaderType DEF RoomInv, CoreInv
  <2>3. known \in SUBSET Event
    BY <2>2 DEF Event
  <2> HIDE DEF known
  <2>4. f \in Forward
    BY Zenon, <1>3, <2>3 DEF Forward
  <2>5. fwd' = [fwd EXCEPT ![tr] = f]
    BY Zenon, <1>3, <2>1 DEF EventType
  <2> HIDE DEF f
  <2> QED BY <1>3, <1>4, <2>1, <2>4, <2>5 DEF EventType
<1>6. ASSUME FanOut(tr) PROVE EventType'
  <2> DEFINE item == IF fan.ev.client = ClientOf[tr] THEN None ELSE fan.ev
             f == [fwd[tr] EXCEPT !.item = item]
  <2>1. /\ UNCHANGED <<adding, evsub, cons, view>>
        /\ fan' = [fan EXCEPT !.to = fan.to \ {tr}] /\ fwd' = [fwd EXCEPT ![tr].item = item]
    BY <1>6 DEF FanOut
  <2>2. item \in Event \cup {None}
    BY <1>3 DEF EventType
  <2> HIDE DEF item
  <2>3. f \in Forward /\ fwd' = [fwd EXCEPT ![tr] = f]
    BY Zenon, <1>3, <2>1, <2>2 DEF Forward, EventType
  <2>4. fan' \in [ev : Event \cup {None}, to : SUBSET Transports]
    BY <1>3, <2>1 DEF EventType
  <2> HIDE DEF f
  <2> QED BY <1>3, <1>4, <2>1, <2>3, <2>4 DEF EventType
<1>7. ASSUME ForwardEvent(tr) PROVE EventType'
  <2>1. UNCHANGED <<adding, evsub, fan>>
    BY <1>7 DEF ForwardEvent
  <2>2. \E ev \in Event : Consume(tr, ev) /\ \E f \in Forward : fwd' = [fwd EXCEPT ![tr] = f]
    <3>1. ASSUME NEW ev \in fwd[tr].left, Consume(tr, ev), fwd' = [fwd EXCEPT ![tr].left = @ \ {ev}]
          PROVE  ev \in Event /\ \E f \in Forward : fwd' = [fwd EXCEPT ![tr] = f]
      <4> DEFINE f == [fwd[tr] EXCEPT !.left = fwd[tr].left \ {ev}]
      <4>1. f \in Forward /\ ev \in Event
        BY <1>3 DEF Forward
      <4>2. fwd' = [fwd EXCEPT ![tr] = f]
        BY <1>3, <3>1 DEF EventType
      <4> QED BY Zenon, <4>1, <4>2
    <3>2. ASSUME fwd[tr].item # None, fwd' = [fwd EXCEPT ![tr].item = None]
          PROVE  fwd[tr].item \in Event /\ \E f \in Forward : fwd' = [fwd EXCEPT ![tr] = f]
      <4> DEFINE f == [fwd[tr] EXCEPT !.item = None]
      <4>1. f \in Forward /\ fwd[tr].item \in Event
        BY <1>3, <3>2 DEF Forward
      <4>2. fwd' = [fwd EXCEPT ![tr] = f]
        BY <1>3, <3>2 DEF EventType
      <4> QED BY Zenon, <4>1, <4>2
    <3> QED BY <1>7, <3>1, <3>2 DEF ForwardEvent
  <2>3. PICK ev \in Event : Consume(tr, ev)
    BY <2>2
  <2>4. fwd' \in [Transports -> Forward]
    BY Zenon, <1>4, <2>2
  <2>5. view' \in [Transports -> SUBSET Tracks] /\ cons' \in [Transports -> Event \cup {None}]
    BY <1>3, <2>3 DEF EventType, Consume, Event
  <2> QED BY <1>3, <2>1, <2>4, <2>5 DEF EventType
<1>8. ASSUME ForwarderEnds(tr) PROVE EventType'
  <2> DEFINE f == [fwd[tr] EXCEPT !.pc = "done"]
  <2>1. UNCHANGED <<adding, evsub, fan, cons, view>> /\ fwd' = [fwd EXCEPT ![tr].pc = "done"]
    BY <1>8 DEF ForwarderEnds
  <2>2. f \in Forward /\ fwd' = [fwd EXCEPT ![tr] = f]
    BY <1>3, <2>1 DEF Forward, EventType
  <2> HIDE DEF f
  <2> QED BY <1>3, <1>4, <2>1, <2>2 DEF EventType
<1> QED BY <1>2, <1>5, <1>6, <1>7, <1>8 DEF RoomInv

\* Terminate takes away the next track of the client.
LEMMA TerminateReaderInv ==
  ASSUME RoomInv, TerminateReader
  PROVE  RoomInv'
<1> DEFINE c == ClientOf[lock[1].tr]
<1>1. /\ lock # <<>> /\ lock \in Seq(Step) /\ Len(lock) \in Nat /\ Len(lock) >= 1 /\ Head(lock) = lock[1]
      /\ lock[1].op = "terminate"
      /\ lock[1] \in [op : {"terminate"}, tr : Transports, left : SUBSET Readers]
  BY TailType, StepType DEF TerminateReader, RoomInv, LockInv, LockOK
<1>2. c \in Clients
  BY <1>1, ReaderType
<1>3. PICK r \in byPub[c] :
        LET rest == [lock EXCEPT ![1].left = @ \ {r}]
        IN \/ lock' = rest /\ UNCHANGED pubsubVars
           \/ /\ publishers[r[2]] # None /\ Unpub(c, r[2])
              /\ lock' = <<[op |-> "send", ev |-> [type |-> "remove", client |-> c, track |-> r[2]]]>> \o rest
  BY Zenon, <1>1 DEF TerminateReader
<1>4. UNCHANGED <<transports, stage, rstate, adding, pubbing, eventVars>>
  BY DEF TerminateReader
<1>5. r \in Readers /\ r[2] \in Tracks
  BY <1>2, ReaderType DEF RoomInv, CoreInv
<1> DEFINE rest == [lock EXCEPT ![1].left = lock[1].left \ {r}]
           e == [type |-> "remove", client |-> c, track |-> r[2]]
<1>6. e \in Event
  BY <1>2, <1>5 DEF Event
<1>7. \/ lock' = rest /\ UNCHANGED pubsubVars
      \/ publishers[r[2]] # None /\ Unpub(c, r[2]) /\ lock' = <<[op |-> "send", ev |-> e]>> \o rest
  BY Zenon, <1>3
<1>8. /\ rest \in Seq(Step) /\ Len(rest) = Len(lock) /\ rest # <<>> /\ rest[1].op = "terminate"
      /\ \A i \in 1..Len(lock) : rest[i].op = lock[i].op /\ (lock[i].op # "send" => rest[i].tr = lock[i].tr)
  <2> DEFINE x == [lock[1] EXCEPT !.left = lock[1].left \ {r}]
  <2>1. x \in Step /\ x.op = lock[1].op /\ x.tr = lock[1].tr
    BY <1>1 DEF Step
  <2>2. rest = [lock EXCEPT ![1] = x]
    BY <1>1
  <2> HIDE DEF x, rest
  <2>3. rest \in Seq(Step) /\ Len(rest) = Len(lock) /\ \A i \in 1..Len(lock) : rest[i] = IF i = 1 THEN x ELSE lock[i]
    BY <1>1, <2>1, <2>2
  <2>4. rest # <<>> /\ rest[1].op = "terminate"
    BY <1>1, <2>1, <2>3
  <2> QED BY <1>1, <2>1, <2>3, <2>4
<1> HIDE DEF rest, e, c
<1>9. LockOK(rest, transports, stage)
  BY <1>8, SameSteps DEF RoomInv, LockInv
<1>10. LockInv'
  BY Zenon, <1>4, <1>6, <1>7, <1>8, <1>9, SendFirst DEF LockInv
<1>11. CoreInv'
  <2>1. CASE UNCHANGED pubsubVars
    BY <1>4, <2>1, CoreSame DEF RoomInv, pubsubVars
  <2>2. CASE publishers[r[2]] # None /\ Unpub(c, r[2])
    <3>1. rstate' \in [Readers -> RState]
      BY <1>4 DEF RoomInv, CoreInv
    <3> QED BY <1>2, <1>4, <1>5, <2>2, <3>1, UnpubCore DEF RoomInv
  <2> QED BY <1>7, <2>1, <2>2
<1>12. PubbingInv' /\ EventType'
  BY <1>4 DEF RoomInv, PubbingInv, EventType, eventVars
<1> QED BY <1>10, <1>11, <1>12 DEF RoomInv

\* The end of Terminate: the client has no transport.
LEMMA TerminateSubsInv ==
  ASSUME RoomInv, TerminateSubs
  PROVE  RoomInv'
<1> DEFINE c == ClientOf[lock[1].tr]
<1>1. /\ lock # <<>> /\ Head(lock) = lock[1] /\ lock[1].op = "terminate" /\ lock[1].tr \in Transports
  BY Zenon, TailType, StepType DEF TerminateSubs, RoomInv, LockInv, LockOK
<1>2. c \in Clients
  BY <1>1, ReaderType
<1>3. /\ transports' = [transports EXCEPT ![c] = None] /\ lock' = Tail(lock)
      /\ UNCHANGED <<stage, rstate, adding, pubbing, publishers, byPub, eventVars>>
  BY Zenon, <1>1 DEF TerminateSubs
<1> HIDE DEF c
<1>4. /\ transports' \in [Clients -> Transports \cup {None}]
      /\ \A d \in Clients : transports'[d] = IF d = c THEN None ELSE transports[d]
  BY <1>2, <1>3 DEF RoomInv, CoreInv
<1>5. CoreInv'
  BY <1>3, <1>4 DEF RoomInv, CoreInv
<1>6. LockInv'
  <2>1. transports'[ClientOf[lock[1].tr]] = None
    BY <1>2, <1>4 DEF c
  <2>2. LockOK(Tail(lock), transports', stage)
    BY <1>1, <2>1, TailTerminate DEF RoomInv, LockInv
  <2> QED BY <1>3, <2>2 DEF LockInv
<1>7. PubbingInv' /\ EventType'
  BY <1>3 DEF RoomInv, PubbingInv, EventType, eventVars
<1> QED BY <1>5, <1>6, <1>7 DEF RoomInv

\* The event loop takes an event.
LEMMA AcceptEventInv ==
  ASSUME RoomInv, AcceptEvent
  PROVE  RoomInv'
<1>1. UNCHANGED <<transports, stage, rstate, adding, pubsubVars, evsub, fwd, cons, view>>
  BY DEF AcceptEvent
<1>2. CoreInv'
  BY <1>1, CoreSame DEF RoomInv, pubsubVars
<1>3. Listeners \in SUBSET Transports
  BY DEF Listeners
<1>4. CASE /\ lock # <<>> /\ Head(lock).op = "send" /\ fan' = [ev |-> Head(lock).ev, to |-> Listeners]
           /\ lock' = Tail(lock) /\ UNCHANGED pubbing
  <2>1. Head(lock) = lock[1] /\ lock[1].op = "send" /\ lock[1].ev \in Event
    BY <1>4, TailType, StepType DEF RoomInv, LockInv, LockOK
  <2>2. LockInv'
    <3>1. LockOK(Tail(lock), transports, stage)
      BY <1>4, <2>1, TailSend DEF RoomInv, LockInv
    <3> QED BY <1>1, <1>4, <3>1 DEF LockInv
  <2>3. PubbingInv' /\ EventType'
    BY Zenon, <1>1, <1>3, <1>4, <2>1 DEF RoomInv, PubbingInv, EventType
  <2> QED BY <1>2, <2>2, <2>3 DEF RoomInv
<1>5. ASSUME NEW tr \in Transports, pubbing[tr].pc = "send", UNCHANGED lock,
             fan' = [ev |-> [type |-> "add", client |-> ClientOf[tr], track |-> pubbing[tr].track], to |-> Listeners],
             pubbing' = [pubbing EXCEPT ![tr] = [pc |-> "idle"]]
      PROVE  RoomInv'
  <2>1. pubbing[tr].track \in Tracks /\ ClientOf[tr] \in Clients
    BY <1>5, ReaderType DEF RoomInv, PubbingInv, Pubbing
  <2>2. EventType'
    BY <1>1, <1>3, <1>5, <2>1 DEF RoomInv, EventType, Event
  <2>3. PubbingInv'
    <3>1. [pc |-> "idle"] \in Pubbing
      BY DEF Pubbing
    <3>2. /\ pubbing' \in [Transports -> Pubbing]
          /\ \A u \in Transports : pubbing'[u] = IF u = tr THEN [pc |-> "idle"] ELSE pubbing[u]
      BY <1>5, <3>1 DEF RoomInv, PubbingInv
    <3> QED BY <1>1, <3>2 DEF RoomInv, PubbingInv
  <2>4. LockInv'
    BY Zenon, <1>1, <1>5 DEF RoomInv, LockInv
  <2> QED BY <1>2, <2>2, <2>3, <2>4 DEF RoomInv
<1> QED BY <1>4, <1>5 DEF AcceptEvent

\* The event loop takes the request to unsubscribe, and Terminate begins.
LEMMA UnsubscribeInv ==
  ASSUME RoomInv, Unsubscribe
  PROVE  RoomInv'
<1> DEFINE c == ClientOf[lock[1].tr]
<1>1. lock # <<>> /\ Head(lock) = lock[1] /\ lock[1].op = "unsubscribe" /\ lock[1].tr \in Transports
  BY TailType, StepType DEF Unsubscribe, RoomInv, LockInv, LockOK
<1>2. c \in Clients /\ byPub[c] \in SUBSET Readers
  BY <1>1, ReaderType DEF RoomInv, CoreInv
<1>3. /\ evsub' = [evsub EXCEPT ![c] = None] /\ lock' = [Tail(lock) EXCEPT ![1].left = byPub[c]]
      /\ UNCHANGED <<transports, stage, rstate, adding, pubbing, pubsubVars, fan, fwd, cons, view>>
  BY Zenon, <1>1 DEF Unsubscribe
<1> HIDE DEF c
<1>4. CoreInv'
  BY <1>3, CoreSame DEF RoomInv, pubsubVars
<1>5. LockInv'
  <2>1. LockOK([Tail(lock) EXCEPT ![1].left = byPub[c]], transports, stage)
    BY Zenon, <1>1, <1>2, TailUnsubscribe DEF RoomInv, LockInv
  <2> QED BY Zenon, <1>3, <2>1 DEF LockInv
<1>6. PubbingInv' /\ EventType'
  BY <1>2, <1>3 DEF RoomInv, PubbingInv, EventType
<1> QED BY <1>4, <1>5, <1>6 DEF RoomInv

\* The event loop takes the request to subscribe, and add registers the transport.
LEMMA SubscribeInv ==
  ASSUME RoomInv, Subscribe
  PROVE  RoomInv'
<1> DEFINE tr == lock[1].tr
           c == ClientOf[tr]
<1>0. lock \in Seq(Step) /\ lock # <<>> /\ Head(lock).op = "subscribe"
  BY Zenon DEF Subscribe, RoomInv, LockInv, LockOK
<1>1. /\ lock # <<>> /\ Head(lock) = lock[1] /\ lock[1].op = "subscribe" /\ tr \in Transports /\ tr # None
      /\ lock \in Seq(Step) /\ Len(lock) \in Nat /\ 1 \in 1..Len(lock)
  BY <1>0, TailType, StepType, ReaderType
<1>2. Len(lock) = 1 /\ stage[tr] # "new" /\ transports[c] = None
  BY Zenon, <1>1 DEF RoomInv, LockInv, LockOK
<1>3. c \in Clients
  BY <1>1, ReaderType
<1>4. /\ evsub' = [evsub EXCEPT ![c] = tr] /\ transports' = [transports EXCEPT ![c] = tr] /\ adding' = tr
      /\ lock' = Tail(lock)
      /\ UNCHANGED <<stage, rstate, pubbing, pubsubVars, fan, fwd, cons, view>>
  BY Zenon, <1>1 DEF Subscribe
<1>5. ClientOf[tr] = c
  OBVIOUS
<1>6. lock' = <<>>
  BY <1>1, <1>2, <1>4
<1> HIDE DEF c, tr
<1>7. /\ transports' \in [Clients -> Transports \cup {None}]
      /\ \A d \in Clients : transports'[d] = IF d = c THEN tr ELSE transports[d]
  BY <1>1, <1>3, <1>4 DEF RoomInv, CoreInv
<1>8. CoreInv'
  BY <1>2, <1>4, <1>5, <1>7 DEF RoomInv, CoreInv, pubsubVars
<1>9. LockInv'
  BY <1>6, NewLock DEF LockInv
<1>10. PubbingInv' /\ EventType'
  BY Zenon, <1>1, <1>3, <1>4 DEF RoomInv, PubbingInv, EventType
<1> QED BY <1>8, <1>9, <1>10 DEF RoomInv

\* Every step keeps the invariant.
LEMMA RoomStep == RoomInv /\ [Next]_vars => RoomInv'
<1> SUFFICES ASSUME RoomInv, [Next]_vars PROVE RoomInv'
  OBVIOUS
<1>1. CASE Work
  <2>1. CASE TerminateReader \/ TerminateSubs \/ AcceptEvent \/ Unsubscribe \/ Subscribe
    BY <2>1, TerminateReaderInv, TerminateSubsInv, AcceptEventInv, UnsubscribeInv, SubscribeInv
  <2>2. CASE \E r \in Readers : OnClose(r)
    BY <2>2, OnCloseInv
  <2>3. ASSUME NEW tr \in Transports,
               Pub(tr) \/ ReadTracks(tr) \/ Done(tr) \/ FanOut(tr) \/ ForwardEvent(tr)
               \/ ForwarderEnds(tr) \/ HandleEvent(tr)
        PROVE  RoomInv'
    BY <2>3, PubInv, EventInv, CloseInv, HandleEventInv
  <2> QED BY <1>1, <2>1, <2>2, <2>3 DEF Work
<1>2. CASE Environment
  <2>1. ASSUME NEW tr \in Transports, Add(tr) \/ CloseTransport(tr) PROVE RoomInv'
    BY <2>1, AddInv, CloseInv
  <2>2. ASSUME NEW r \in Readers, TakeRemoteTrack(r[1], r[2]) \/ EndTrack(r) PROVE RoomInv'
    BY <2>2, TakeRemoteTrackInv, EndTrackInv
  <2>3. ASSUME NEW r \in Readers, NEW c \in Clients, WriteFails(r, c) PROVE RoomInv'
    BY <2>3, SubscriptionStep DEF WriteFails
  <2>4. ASSUME NEW tr \in Transports, NEW t \in Tracks, HandleSub(tr, t) \/ HandleUnsub(tr, t)
        PROVE  RoomInv'
    BY <2>4, SubscriptionStep DEF HandleSub, HandleUnsub
  <2> QED BY <1>2, <2>1, <2>2, <2>3, <2>4 DEF Environment
<1>3. CASE UNCHANGED vars
  <2>1. UNCHANGED <<transports, stage, rstate, lock, adding, pubbing, pubsubVars, eventVars>>
    BY <1>3 DEF vars
  <2> QED BY <2>1, SubscriptionStep DEF pubsubVars
<1> QED BY <1>1, <1>2, <1>3 DEF Next

-----------------------------------------------------------------------------
(* Live tracks                                                                *)

\* A step that takes a live track away from its publisher is one of another reader of
\* the same id: Terminate only goes through the readers of a client whose registered
\* transport is not open, and a reader that is open has no onClose to run.
LEMMA LiveTrackStep ==
  ASSUME RoomInv, [Next]_vars, NEW r \in Readers, LiveTrack(r)
  PROVE  publishers'[r[2]] = r \/ \E q \in Readers \ {r} : q[2] = r[2] /\ Displaces(q)
<1> DEFINE Stays == publishers'[r[2]] = r \/ \E q \in Readers \ {r} : q[2] = r[2] /\ Displaces(q)
<1>0. publishers[r[2]] = r /\ rstate[r] = "open" /\ stage[r[1]] = "open" /\ transports[Owner(r)] = r[1]
  BY DEF LiveTrack, Registered, Owner
<1>1. r[2] \in Tracks /\ r[1] \in Transports /\ Owner(r) \in Clients /\ r # None
  BY ReaderType
<1>2. CASE UNCHANGED publishers
  BY <1>0, <1>2
<1>3. ASSUME NEW q \in Readers, q # r \/ q[2] # r[2], Displaces(q),
             publishers' = [publishers EXCEPT ![q[2]] = None] \/ publishers' = [publishers EXCEPT ![q[2]] = q]
      PROVE  Stays
  <2>1. CASE q[2] = r[2]
    BY <1>3, <2>1
  <2>2. CASE q[2] # r[2]
    BY <1>0, <1>1, <1>3, <2>2 DEF RoomInv, CoreInv
  <2> QED BY <2>1, <2>2
<1> SUFFICES Stays
  OBVIOUS
<1> HIDE DEF Stays
<1>4. ASSUME NEW tr \in Transports, Pub(tr) PROVE Stays
  <2> DEFINE q == <<tr, pubbing[tr].track>>
  <2>1. pubbing[tr].pc = "write" /\ publishers' = [publishers EXCEPT ![q[2]] = q]
    BY <1>4 DEF Pub
  <2>2. q \in Readers
    BY <2>1 DEF RoomInv, PubbingInv
  <2> HIDE DEF q
  <2>3. q[2] \in Tracks /\ publishers \in [Tracks -> Readers \cup {None}]
    BY <2>2, ReaderType DEF RoomInv, CoreInv
  <2>4. publishers'[q[2]] = q
    BY <2>1, <2>3
  <2>5. Displaces(q)
    BY <2>4 DEF Displaces
  <2>6. CASE q = r
    BY <2>4, <2>6 DEF Stays
  <2>7. CASE q # r
    BY <1>3, <2>1, <2>2, <2>5, <2>7
  <2> QED BY <2>6, <2>7
<1>5. ASSUME NEW q \in Readers, OnClose(q) PROVE Stays
  <2>1. rstate[q] = "closed" /\ rstate' = [rstate EXCEPT ![q] = "done"]
    BY Zenon, <1>5 DEF OnClose
  <2>2. UNCHANGED publishers \/ publishers' = [publishers EXCEPT ![q[2]] = None]
    BY Zenon, <1>5 DEF OnClose, Unpub, pubsubVars
  <2>3. rstate'[q] = "done" /\ q # r
    BY <1>0, <2>1 DEF RoomInv, CoreInv
  <2>4. Displaces(q)
    BY <2>1, <2>3 DEF Displaces
  <2>5. CASE UNCHANGED publishers
    BY <1>2, <2>5 DEF Stays
  <2>6. CASE publishers' = [publishers EXCEPT ![q[2]] = None]
    BY <1>3, <2>3, <2>4, <2>6
  <2> QED BY <2>2, <2>5, <2>6
<1>6. CASE TerminateReader
  <2> DEFINE c == ClientOf[lock[1].tr]
  <2>1. /\ lock # <<>> /\ lock \in Seq(Step) /\ Head(lock) = lock[1] /\ 1 \in 1..Len(lock)
        /\ lock[1].op = "terminate" /\ lock[1].tr \in Transports
    BY <1>6, TailType, StepType DEF TerminateReader, RoomInv, LockInv, LockOK
  <2>2. transports[c] = lock[1].tr /\ stage[lock[1].tr] # "open" /\ c \in Clients
    BY <2>1, ReaderType DEF RoomInv, LockInv, LockOK
  <2>3. PICK q \in byPub[c] : UNCHANGED publishers \/ publishers' = [publishers EXCEPT ![q[2]] = None]
    BY <1>6, <2>1 DEF TerminateReader, Unpub, pubsubVars
  <2>4. q \in Readers /\ Owner(q) = c
    BY <2>2 DEF RoomInv, CoreInv
  <2>5. q # r
    BY <1>0, <2>2, <2>4
  <2>6. Displaces(q)
    BY <2>1 DEF Displaces
  <2>7. CASE UNCHANGED publishers
    BY <1>2, <2>7 DEF Stays
  <2>8. CASE publishers' = [publishers EXCEPT ![q[2]] = None]
    BY <1>3, <2>4, <2>5, <2>6, <2>8
  <2> QED BY <2>3, <2>7, <2>8
<1>7. CASE Work
  <2>1. CASE TerminateSubs \/ AcceptEvent \/ Unsubscribe \/ Subscribe
    <3>1. UNCHANGED publishers
      BY Zenon, <2>1 DEF TerminateSubs, AcceptEvent, Unsubscribe, Subscribe, pubsubVars
    <3> QED BY <1>2, <3>1 DEF Stays
  <2>2. ASSUME NEW tr \in Transports, ReadTracks(tr) \/ Done(tr) \/ FanOut(tr) \/ ForwardEvent(tr)
               \/ ForwarderEnds(tr) \/ HandleEvent(tr)
        PROVE  Stays
    <3>1. UNCHANGED publishers
      BY <2>2 DEF ReadTracks, Done, FanOut, ForwardEvent, ForwarderEnds, HandleEvent, pubsubVars
    <3> QED BY <1>2, <3>1 DEF Stays
  <2> QED BY <1>4, <1>5, <1>6, <1>7, <2>1, <2>2 DEF Work
<1>8. CASE Environment
  <2>1. UNCHANGED publishers
    BY Zenon, <1>8 DEF Environment, Add, CloseTransport, TakeRemoteTrack, EndTrack, WriteFails, HandleSub,
                       HandleUnsub, pubsubVars
  <2> QED BY <1>2, <2>1 DEF Stays
<1>9. CASE UNCHANGED vars
  <2>1. UNCHANGED publishers
    BY <1>9 DEF vars, pubsubVars
  <2> QED BY <1>2, <2>1 DEF Stays
<1> QED BY <1>7, <1>8, <1>9 DEF Next

-----------------------------------------------------------------------------
(* The tables of subscriptions                                                *)

\* A step that does not touch the tables of subscriptions; readers do not go back.
LEMMA TableSame ==
  ASSUME TableInv, UNCHANGED <<subs, subTr, rsubs, local>>,
         \A r \in Readers : rstate[r] # "none" => rstate'[r] # "none"
  PROVE  TableInv'
<1>1. ForwardingIsRecorded' /\ LocalIsRecorded'
  BY Zenon DEF TableInv, ForwardingIsRecorded, LocalIsRecorded
<1>2. ASSUME NEW c \in Clients, NEW t \in Tracks, subs[c][t] # None
      PROVE  subs[c][t][2] = t /\ rstate'[subs[c][t]] # "none"
  <2>1. subs[c][t] \in Readers
    BY <1>2 DEF TableInv
  <2>2. subs[c][t][2] = t /\ rstate[subs[c][t]] # "none"
    BY Zenon, <1>2 DEF TableInv
  <2> QED BY Zenon, <2>1, <2>2
<1> QED BY Zenon, <1>1, <1>2 DEF TableInv

\* The steps that leave the tables and the transports alone.
LEMMA TableKept ==
  ASSUME TableInv, SubscriptionsBelong, UNCHANGED <<transports, subs, subTr, rsubs, local>>,
         \A r \in Readers : rstate[r] # "none" => rstate'[r] # "none"
  PROVE  TableInv' /\ SubscriptionsBelong'
<1>1. TableInv'
  BY TableSame
<1> QED BY <1>1 DEF SubscriptionsBelong

\* A reader that cannot write forgets the client; PubSub still has it.
LEMMA WriteFailsTable ==
  ASSUME TableInv, SubscriptionsBelong, NEW r \in Readers, NEW c \in Clients, WriteFails(r, c)
  PROVE  TableInv' /\ SubscriptionsBelong'
<1>1. /\ rsubs' = [rsubs EXCEPT ![r] = rsubs[r] \ {c}]
      /\ UNCHANGED <<transports, rstate, subs, subTr, local>>
  BY Zenon DEF WriteFails
<1>2. rsubs' \in [Readers -> SUBSET Clients] /\ \A q \in Readers : rsubs'[q] \subseteq rsubs[q]
  BY <1>1 DEF TableInv
<1>3. ForwardingIsRecorded' /\ LocalIsRecorded'
  BY <1>1, <1>2 DEF TableInv, ForwardingIsRecorded, LocalIsRecorded
<1> QED BY <1>1, <1>2, <1>3 DEF TableInv, SubscriptionsBelong

\* PubSub.Unpub removes the subscriptions of a track.
LEMMA UnpubTable ==
  ASSUME CoreInv, TableInv, SubscriptionsBelong, DistinctTracks, NEW c \in Clients, NEW t \in Tracks,
         publishers[t] # None, Unpub(c, t), UNCHANGED transports,
         \A q \in Readers : rstate[q] # "none" => rstate'[q] # "none"
  PROVE  TableInv' /\ SubscriptionsBelong'
<1> DEFINE r == publishers[t]
           P == rsubs[r] \X {r}
<1>0. publishers \in [Tracks -> Readers \cup {None}]
  BY Zenon DEF CoreInv
<1>1. r \in Readers /\ rstate[r] # "none"
  <2>1. r \in Readers
    BY <1>0
  <2>2. rstate[r] # "none"
    BY Zenon DEF CoreInv
  <2> QED BY <2>1, <2>2
<1>2. P \in SUBSET (Clients \X Readers)
  BY <1>1 DEF TableInv
<1>3. UnsubAll(P)
  BY DEF Unpub
<1>4. \A p \in P : rstate[p[2]] # "none"
  BY <1>1
<1> HIDE DEF P, r
<1>5. TableInv' /\ \A d \in Clients : subTr'[d] \in {None, subTr[d]}
  BY <1>2, <1>3, <1>4, UnsubAllInv
<1> QED BY <1>5 DEF SubscriptionsBelong

\* The onClose callback.
LEMMA OnCloseTable ==
  ASSUME RoomInv, TableInv, SubscriptionsBelong, DistinctTracks, NEW r \in Readers, OnClose(r)
  PROVE  TableInv' /\ SubscriptionsBelong'
<1>1. Owner(r) \in Clients /\ r[2] \in Tracks
  BY ReaderType
<1>2. UNCHANGED transports /\ rstate' = [rstate EXCEPT ![r] = "done"]
  BY DEF OnClose
<1>3. \A q \in Readers : rstate[q] # "none" => rstate'[q] # "none"
  BY Zenon, <1>2, ReaderStep DEF RoomInv
<1>4. \/ UNCHANGED pubsubVars
      \/ publishers[r[2]] # None /\ Unpub(Owner(r), r[2])
  BY DEF OnClose
<1>5. CASE UNCHANGED pubsubVars
  BY <1>2, <1>3, <1>5, TableKept DEF pubsubVars
<1>6. CASE publishers[r[2]] # None /\ Unpub(Owner(r), r[2])
  BY <1>1, <1>2, <1>3, <1>6, UnpubTable DEF RoomInv
<1> QED BY <1>4, <1>5, <1>6

\* Terminate takes away the next track of the client.
LEMMA TerminateReaderTable ==
  ASSUME RoomInv, TableInv, SubscriptionsBelong, DistinctTracks, TerminateReader
  PROVE  TableInv' /\ SubscriptionsBelong'
<1> DEFINE c == ClientOf[lock[1].tr]
<1>1. Head(lock) = lock[1] /\ lock[1].tr \in Transports
  BY Zenon, TailType, StepType DEF TerminateReader, RoomInv, LockInv, LockOK
<1>2. c \in Clients
  BY <1>1, ReaderType
<1>3. PICK r \in byPub[c] : UNCHANGED pubsubVars \/ (publishers[r[2]] # None /\ Unpub(c, r[2]))
  BY Zenon, <1>1 DEF TerminateReader
<1>4. UNCHANGED <<transports, rstate>>
  BY DEF TerminateReader
<1>5. r[2] \in Tracks
  BY <1>2, ReaderType DEF RoomInv, CoreInv
<1> HIDE DEF c
<1>6. CASE UNCHANGED pubsubVars
  BY <1>4, <1>6, TableKept DEF pubsubVars
<1>7. CASE publishers[r[2]] # None /\ Unpub(c, r[2])
  BY <1>2, <1>4, <1>5, <1>7, UnpubTable DEF RoomInv
<1> QED BY <1>3, <1>6, <1>7

\* The end of Terminate: the client has no subscription left, and no transport.
LEMMA TerminateSubsTable ==
  ASSUME RoomInv, TableInv, SubscriptionsBelong, DistinctTracks, TerminateSubs
  PROVE  TableInv' /\ SubscriptionsBelong'
<1> DEFINE c == ClientOf[lock[1].tr]
           P == {<<c, subs[c][t]>> : t \in {u \in Tracks : subs[c][u] # None}}
<1>1. Head(lock) = lock[1] /\ lock[1].tr \in Transports
  BY Zenon, TailType, StepType DEF TerminateSubs, RoomInv, LockInv, LockOK
<1>2. c \in Clients
  BY <1>1, ReaderType
<1>3. UnsubAll(P) /\ transports' = [transports EXCEPT ![c] = None] /\ UNCHANGED rstate
  BY Zenon, <1>1 DEF TerminateSubs
<1>4. /\ P \in SUBSET (Clients \X Readers) /\ \A p \in P : rstate[p[2]] # "none"
      /\ \A t \in Tracks : subs[c][t] # None => <<c, subs[c][t]>> \in P /\ subs[c][t][2] = t
  <2>1. \A t \in Tracks : subs[c][t] # None =>
          subs[c][t] \in Readers /\ subs[c][t][2] = t /\ rstate[subs[c][t]] # "none"
    <3> HIDE DEF P, c
    <3>1. ASSUME NEW t \in Tracks, subs[c][t] # None PROVE subs[c][t] \in Readers
      <4>1. subs \in [Clients -> [Tracks -> Readers \cup {None}]]
        BY Zenon DEF TableInv
      <4>2. subs[c][t] \in Readers \cup {None}
        BY <1>2, <4>1
      <4> QED BY Zenon, <3>1, <4>2
    <3>2. \A t \in Tracks : subs[c][t] # None => subs[c][t][2] = t /\ rstate[subs[c][t]] # "none"
      BY Zenon, <1>2 DEF TableInv
    <3> QED BY Zenon, <3>1, <3>2
  <2>2. \A t \in Tracks : subs[c][t] # None => <<c, subs[c][t]>> \in P
    OBVIOUS
  <2>3. \A p \in P : \E t \in Tracks : subs[c][t] # None /\ p = <<c, subs[c][t]>>
    OBVIOUS
  <2> HIDE DEF P, c
  <2>4. ASSUME NEW p \in P PROVE p \in Clients \X Readers /\ rstate[p[2]] # "none"
    BY <1>2, <2>1, <2>3
  <2> QED BY <2>1, <2>2, <2>4
<1>5. subTr'[c] = None
  <2> DEFINE cleared(d) == {p[2][2] : p \in {q \in P : q[1] = d}}
  <2>1. /\ subs' = [d \in Clients |-> [t \in Tracks |-> IF t \in cleared(d) THEN None ELSE subs[d][t]]]
        /\ subTr' = [d \in Clients |-> IF \A t \in Tracks : subs'[d][t] = None THEN None ELSE subTr[d]]
    BY Zenon, <1>3 DEF UnsubAll
  <2>2. ASSUME NEW t \in Tracks, subs[c][t] # None PROVE t \in cleared(c)
    <3> DEFINE p == <<c, subs[c][t]>>
    <3>1. p \in P /\ p[1] = c /\ p[2][2] = t
      BY Zenon, <1>4, <2>2
    <3> HIDE DEF p, P
    <3> QED BY <3>1
  <2> HIDE DEF cleared
  <2>3. \A t \in Tracks : subs'[c][t] = None
    BY <1>2, <2>1, <2>2
  <2> QED BY <1>2, <2>1, <2>3
<1> HIDE DEF P
<1>6. TableInv' /\ \A d \in Clients : subTr'[d] \in {None, subTr[d]}
  BY <1>3, <1>4, UnsubAllInv
<1> HIDE DEF c
<1>7. \A d \in Clients : transports'[d] = IF d = c THEN None ELSE transports[d]
  BY <1>3 DEF RoomInv, CoreInv
<1>8. SubscriptionsBelong'
  BY <1>5, <1>6, <1>7 DEF SubscriptionsBelong
<1> QED BY <1>6, <1>8

\* add registers a transport of a client that has none, and so no subscription.
LEMMA SubscribeTable ==
  ASSUME RoomInv, TableInv, SubscriptionsBelong, Subscribe
  PROVE  TableInv' /\ SubscriptionsBelong'
<1> DEFINE tr == lock[1].tr
           c == ClientOf[tr]
<1>1. lock \in Seq(Step) /\ lock # <<>> /\ Head(lock).op = "subscribe"
  BY Zenon DEF Subscribe, RoomInv, LockInv, LockOK
<1>2. Head(lock) = lock[1] /\ lock[1].op = "subscribe" /\ tr \in Transports /\ 1 \in 1..Len(lock)
  BY <1>1, TailType, StepType
<1>3. transports[c] = None
  BY Zenon, <1>2 DEF RoomInv, LockInv, LockOK
<1>4. c \in Clients
  BY <1>2, ReaderType
<1>5. transports' = [transports EXCEPT ![c] = tr] /\ UNCHANGED <<rstate, pubsubVars>>
  BY Zenon, <1>2 DEF Subscribe
<1> HIDE DEF c, tr
<1>6. subTr[c] = None
  BY <1>3, <1>4 DEF SubscriptionsBelong
<1>7. \A d \in Clients : transports'[d] = IF d = c THEN tr ELSE transports[d]
  BY <1>5 DEF RoomInv, CoreInv
<1>8. SubscriptionsBelong'
  BY <1>5, <1>6, <1>7 DEF SubscriptionsBelong, pubsubVars
<1>9. TableInv'
  BY <1>5, TableSame DEF pubsubVars
<1> QED BY <1>8, <1>9

\* The requests of browsers to subscribe and to unsubscribe.
LEMMA HandleSubTable ==
  ASSUME RoomInv, TableInv, SubscriptionsBelong, DistinctTracks, NEW tr \in Transports, NEW t \in Tracks,
         HandleSub(tr, t) \/ HandleUnsub(tr, t)
  PROVE  TableInv' /\ SubscriptionsBelong'
<1> DEFINE c == ClientOf[tr]
<1>1. /\ UNCHANGED <<transports, rstate>> /\ publishers[t] # None
      /\ (transports[c] # None /\ Sub(c, t)) \/ UnsubAll({<<c, publishers[t]>>})
  BY DEF HandleSub, HandleUnsub
<1>2. c \in Clients /\ publishers[t] \in Readers /\ rstate[publishers[t]] # "none"
  BY <1>1, ReaderType DEF RoomInv, CoreInv
<1> HIDE DEF c
<1>3. CASE transports[c] # None /\ Sub(c, t)
  BY <1>1, <1>2, <1>3, SubInv DEF RoomInv
<1>4. CASE UnsubAll({<<c, publishers[t]>>})
  <2> DEFINE P == {<<c, publishers[t]>>}
  <2>1. P \in SUBSET (Clients \X Readers) /\ \A p \in P : rstate[p[2]] # "none"
    BY <1>2
  <2>2. UnsubAll(P)
    BY <1>4
  <2> HIDE DEF P
  <2>3. TableInv' /\ \A d \in Clients : subTr'[d] \in {None, subTr[d]}
    BY <1>1, <2>1, <2>2, UnsubAllInv
  <2> QED BY <1>1, <2>3 DEF SubscriptionsBelong
<1> QED BY Zenon, <1>1, <1>3, <1>4

\* NodeManager subscribes a node.
LEMMA HandleEventTable ==
  ASSUME RoomInv, TableInv, SubscriptionsBelong, DistinctTracks, NEW tr \in Transports, HandleEvent(tr)
  PROVE  TableInv' /\ SubscriptionsBelong'
<1> DEFINE c == ClientOf[tr]
           t == cons[tr].track
<1>1. /\ cons[tr] # None /\ UNCHANGED <<transports, rstate>>
      /\ \/ transports[c] # None /\ publishers[t] # None /\ Sub(c, t)
         \/ UNCHANGED <<subs, subTr, rsubs, local>>
  BY Zenon DEF HandleEvent
<1>2. c \in Clients /\ t \in Tracks
  BY <1>1, ReaderType DEF RoomInv, EventType, Event
<1> HIDE DEF c, t
<1>3. CASE transports[c] # None /\ publishers[t] # None /\ Sub(c, t)
  BY <1>1, <1>2, <1>3, SubInv DEF RoomInv
<1>4. CASE UNCHANGED <<subs, subTr, rsubs, local>>
  BY <1>1, <1>4, TableKept
<1> QED BY <1>1, <1>3, <1>4

\* As long as the ids of the tracks are distinct, every step keeps the tables.
LEMMA TableStep ==
  ASSUME RoomInv, TableInv, SubscriptionsBelong, DistinctTracks, [Next]_vars
  PROVE  TableInv' /\ SubscriptionsBelong'
<1> DEFINE Kept == TableInv' /\ SubscriptionsBelong'
<1>1. ASSUME UNCHANGED <<transports, rstate, subs, subTr, rsubs, local>> PROVE Kept
  BY <1>1, TableKept
<1> SUFFICES Kept
  OBVIOUS
<1>2. CASE Work
  <2>1. CASE TerminateReader \/ TerminateSubs \/ Subscribe
    BY <2>1, TerminateReaderTable, TerminateSubsTable, SubscribeTable
  <2> HIDE DEF Kept
  <2>2. CASE AcceptEvent \/ Unsubscribe
    BY Zenon, <1>1, <2>2 DEF AcceptEvent, Unsubscribe, pubsubVars
  <2>3. CASE \E r \in Readers : OnClose(r)
    BY <2>3, OnCloseTable DEF Kept
  <2>4. ASSUME NEW tr \in Transports,
               Pub(tr) \/ ReadTracks(tr) \/ Done(tr) \/ FanOut(tr) \/ ForwardEvent(tr) \/ ForwarderEnds(tr)
        PROVE  Kept
    <3>1. UNCHANGED <<transports, rstate, subs, subTr, rsubs, local>>
      BY <2>4 DEF Pub, ReadTracks, Done, FanOut, ForwardEvent, ForwarderEnds, pubsubVars
    <3> QED BY <1>1, <3>1
  <2>5. ASSUME NEW tr \in Transports, HandleEvent(tr) PROVE Kept
    BY <2>5, HandleEventTable DEF Kept
  <2> QED BY <1>2, <2>1, <2>2, <2>3, <2>4, <2>5 DEF Work
<1>3. CASE Environment
  <2>1. ASSUME NEW tr \in Transports, Add(tr) \/ CloseTransport(tr) PROVE Kept
    <3>1. UNCHANGED <<transports, rstate, subs, subTr, rsubs, local>>
      BY <2>1 DEF Add, CloseTransport, pubsubVars
    <3> QED BY <1>1, <3>1
  <2>2. ASSUME NEW r \in Readers, TakeRemoteTrack(r[1], r[2]) \/ EndTrack(r) PROVE Kept
    <3>1. r = <<r[1], r[2]>>
      BY ReaderType
    <3>2. /\ UNCHANGED <<transports, subs, subTr, rsubs, local>>
          /\ \E s \in {"open", "closed"} : rstate' = [rstate EXCEPT ![r] = s]
      BY <2>2, <3>1 DEF TakeRemoteTrack, EndTrack, pubsubVars
    <3>3. \A q \in Readers : rstate[q] # "none" => rstate'[q] # "none"
      BY <3>2, ReaderStep DEF RoomInv
    <3> QED BY <3>2, <3>3, TableKept
  <2>3. ASSUME NEW r \in Readers, NEW c \in Clients, WriteFails(r, c) PROVE Kept
    BY <2>3, WriteFailsTable
  <2>4. ASSUME NEW tr \in Transports, NEW t \in Tracks, HandleSub(tr, t) \/ HandleUnsub(tr, t) PROVE Kept
    BY <2>4, HandleSubTable
  <2> HIDE DEF Kept
  <2> QED BY <1>3, <2>1, <2>2, <2>3, <2>4 DEF Environment
<1>4. CASE UNCHANGED vars
  BY <1>1, <1>4 DEF vars, pubsubVars
<1> HIDE DEF Kept
<1> QED BY <1>2, <1>3, <1>4 DEF Next

-----------------------------------------------------------------------------
\* In every room whose tracks have distinct ids, the tables of PubSub, of the
\* readers and of the transports agree, whatever joins, ends, fails or reconnects.
THEOREM TablesAgree == Spec /\ []DistinctTracks => []SubscriptionsAgree
<1> DEFINE Tables == TableInv /\ SubscriptionsBelong
<1>1. RoomInv /\ Tables => SubscriptionsAgree
  BY DEF RoomInv, CoreInv, TableInv, LockInv, LockOK, PubbingInv, EventType, SubscriptionsAgree, TypeOK
<1>2. Init => Tables
  <2> SUFFICES ASSUME Init PROVE Tables
    OBVIOUS
  <2>1. /\ \A c \in Clients : subTr[c] = None /\ \A t \in Tracks : subs[c][t] = None
        /\ \A r \in Readers : rsubs[r] = {}
        /\ \A tr \in Transports : local[tr] = {}
    BY DEF Init
  <2>2. /\ subs \in [Clients -> [Tracks -> Readers \cup {None}]]
        /\ subTr \in [Clients -> Transports \cup {None}]
        /\ rsubs \in [Readers -> SUBSET Clients]
        /\ local \in [Transports -> SUBSET Tracks]
    BY DEF Init
  <2>3. ForwardingIsRecorded /\ LocalIsRecorded /\ SubscriptionsBelong
    BY Zenon, <2>1 DEF ForwardingIsRecorded, LocalIsRecorded, SubscriptionsBelong
  <2> QED BY Zenon, <2>1, <2>2, <2>3 DEF TableInv
<1>3. RoomInv /\ Tables /\ DistinctTracks /\ [Next]_vars => Tables'
  BY TableStep
<1> HIDE DEF Tables
<1> QED BY <1>1, <1>2, <1>3, RoomInit, RoomStep, PTL DEF Spec

\* In every room, also when browsers come back and publish the same ids again, a
\* track that its open, registered transport still reads is taken away by nothing
\* but another reader of the same id.
THEOREM LiveTracksStay == Spec => LiveTrackStays
<1> DEFINE Stays == \A r \in Readers : LiveTrack(r) =>
                      publishers'[r[2]] = r \/ \E q \in Readers \ {r} : q[2] = r[2] /\ Displaces(q)
<1>1. RoomInv /\ [Next]_vars => Stays
  BY LiveTrackStep
<1>2. Spec => [][Stays]_vars
  <2> HIDE DEF Stays
  <2> QED BY <1>1, RoomInit, RoomStep, PTL DEF Spec
<1> QED BY <1>2 DEF LiveTrackStays
=============================================================================
