-------------------------- MODULE ServerTransport --------------------------
(* The two ends of one servertransport.Transport, which carries the tracks of  *)
(* a room to another node: the metadata transport with its read and its write  *)
(* loop, the buffers of the media stream, the data transport, and Close.       *)
(*                                                                             *)
(* A track of the transport is named by its SSRC, which is random and so fresh *)
(* for every AddTrack. The metadata events travel over a stream that keeps     *)
(* their order, through a mux that delivers one packet at a time and that      *)
(* Close of a connection waits for. AddTrack and RemoveTrack of one end are    *)
(* called under PeerManager.mu, one at a time.                                 *)
EXTENDS Integers, Sequences, FiniteSets

CONSTANTS Ends, Tracks,
          Offers,       \* [Ends -> SUBSET Tracks]: what the room of an end adds
          SSRCs,        \* [Ends -> set]: the numbers an end may draw
          Peer,         \* [Ends -> Ends]
          Budgets,      \* bounds: how many tracks are added, how many calls there
                        \* are of Subscribe and Unsubscribe and of CloseWrite and
                        \* Close, how many data messages arrive at an end, and
                        \* the SSRCs whose media comes out of step with the metadata
          None

VARIABLES
  local,       \* MetadataTransport.localTracks
  remote,      \* MetadataTransport.remoteTracks
  mu,          \* AddTrack holds MetadataTransport.mu while it sends
  room,        \* the call of AddTrack or RemoveTrack
  toggler,     \* the event that Subscribe or Unsubscribe is sending
  budget,      \* what is left of the bounds
  wloop,       \* the write loop: "select", "write" an event, "closed"
  wire,        \* events written by an end and not yet taken by the mux of the other
  mux,         \* the packet the mux of an end is delivering
  rloop,       \* the read loop: "read", "handle" an event, "hand" a track over, "closed"
  rtp, rtcp,   \* MediaStream.rtpBuffers and rtcpBuffers
  given,       \* tracks the room took from remoteTracksChannel
  subscribed,  \* trackRemote.subscribed
  subscribers, \* trackLocal.subscribers
  writeClosed, \* the ends whose CloseWrite was called
  torndown,    \* the ends whose metadata connection is closed
  data,        \* the data connection: packets to come, in the mux, in the loop
  closer,      \* how far Close is; "done" once Done is closed
  busy         \* the goroutines of PeerManager.Add with what they took from an end

trackVars == <<local, remote, subscribed, subscribers, given>>
bufferVars == <<rtp, rtcp>>
callVars == <<mu, room, toggler, budget>>
closeVars == <<writeClosed, torndown, data, closer, busy>>
vars == <<trackVars, bufferVars, callVars, wloop, wire, mux, rloop, closeVars>>

AllSSRCs == UNION {SSRCs[e] : e \in Ends}
Event == [type : {"add", "remove", "sub", "unsub"}, track : Tracks, ssrc : AllSSRCs]
Buffer == {"none", "open", "closed"}

Init ==
  /\ local = [e \in Ends |-> [t \in Tracks |-> None]]
  /\ remote = [e \in Ends |-> [t \in Tracks |-> None]]
  /\ mu = [e \in Ends |-> FALSE]
  /\ room = [e \in Ends |-> [pc |-> "idle"]]
  /\ toggler = [e \in Ends |-> None]
  /\ wloop = [e \in Ends |-> [pc |-> "select"]]
  /\ wire = [e \in Ends |-> <<>>]
  /\ mux = [e \in Ends |-> None]
  /\ rloop = [e \in Ends |-> [pc |-> "read"]]
  /\ rtp = [e \in Ends |-> [s \in AllSSRCs |-> "none"]]
  /\ rtcp = [e \in Ends |-> [s \in AllSSRCs |-> "none"]]
  /\ given = {} /\ subscribed = {}
  /\ subscribers = [s \in AllSSRCs |-> 0]
  /\ writeClosed = {} /\ torndown = {}
  /\ budget \in Budgets
  /\ data = [e \in Ends |-> [mux |-> FALSE, loop |-> "read"]]
  /\ closer = [e \in Ends |-> "no"]
  /\ busy = {}

-----------------------------------------------------------------------------
(* MediaStream                                                                *)

GetOrCreate(buffers, e, s) == [buffers EXCEPT ![e][s] = IF @ = "none" THEN "open" ELSE @]

\* removeRTPBuffer and removeRTCPBuffer close the buffer, and delete the entry of
\* the same SSRC from the other map.
removeRTPBuffer(e, s) ==
  IF rtp[e][s] = "none" THEN UNCHANGED bufferVars
  ELSE /\ rtp' = [rtp EXCEPT ![e][s] = "closed"]
       /\ rtcp' = [rtcp EXCEPT ![e][s] = "none"]

removeRTCPBuffer(e, s) ==
  IF rtcp[e][s] = "none" THEN UNCHANGED bufferVars
  ELSE /\ rtcp' = [rtcp EXCEPT ![e][s] = "closed"]
       /\ rtp' = [rtp EXCEPT ![e][s] = "none"]

\* Media of a track may come before the event that announces it, and after the
\* one that ends it.
handleRTP(e, s) ==
  /\ closer[e] \in {"no", "data"}
  /\ s \in budget.stray \cap SSRCs[Peer[e]] /\ rtcp[Peer[e]][s] # "none"
  /\ rtp' = GetOrCreate(rtp, e, s)
  /\ UNCHANGED <<trackVars, rtcp, callVars, wloop, wire, mux, rloop, closeVars>>

handleRTCP(e, s) ==
  /\ closer[e] \in {"no", "data"}
  /\ s \in budget.stray \cap SSRCs[Peer[e]] /\ rtcp[Peer[e]][s] # "none"
  /\ rtcp' = GetOrCreate(rtcp, e, s)
  /\ UNCHANGED <<trackVars, rtp, callVars, wloop, wire, mux, rloop, closeVars>>

-----------------------------------------------------------------------------
(* AddTrack, RemoveTrack, Subscribe and Unsubscribe                           *)

\* PubSub.sub adds the track, and removes it again when the reader refuses: the
\* reader has ended, or this transport reads it already.
AddTrack(e, t) ==
  /\ room[e].pc = "idle" /\ ~mu[e] /\ t \in Offers[e]
  /\ budget.adds > 0 /\ budget' = [budget EXCEPT !.adds = @ - 1]
  /\ \E s \in SSRCs[e], refused \in BOOLEAN :
       /\ rtcp[e][s] = "none"
       /\ local[e][t] # None => refused
       /\ local' = [local EXCEPT ![e][t] = s]
       /\ rtcp' = GetOrCreate(rtcp, e, s)
       /\ mu' = [mu EXCEPT ![e] = TRUE]
       /\ room' = [room EXCEPT ![e] = [pc |-> "send", refused |-> refused,
                                       ev |-> [type |-> "add", track |-> t, ssrc |-> s]]]
  /\ UNCHANGED <<remote, subscribed, subscribers, given, rtp, toggler,
                 wloop, wire, mux, rloop, closeVars>>

RemoveTrack(e, t) ==
  LET s == local[e][t]
  IN /\ \/ room[e].pc = "idle"
        \/ room[e].pc = "refused" /\ room[e].track = t
     /\ ~mu[e] /\ s # None
     /\ local' = [local EXCEPT ![e][t] = None]
     /\ removeRTCPBuffer(e, s)
     /\ room' = [room EXCEPT ![e] = [pc |-> "send", refused |-> FALSE,
                                     ev |-> [type |-> "remove", track |-> t, ssrc |-> s]]]
     /\ UNCHANGED <<remote, subscribed, subscribers, given, mu, toggler, budget,
                    wloop, wire, mux, rloop, closeVars>>

\* Mutant: an event is dropped when the write loop is busy.
sendMetadataEvent_Drops(e) ==
  /\ room[e].pc = "send"
  /\ wloop' = IF wloop[e].pc # "select" THEN wloop
              ELSE [wloop EXCEPT ![e] = [pc |-> "write", ev |-> room[e].ev]]
  /\ mu' = [mu EXCEPT ![e] = FALSE]
  /\ room' = [room EXCEPT ![e] = IF @.refused THEN [pc |-> "refused", track |-> @.ev.track]
                                 ELSE [pc |-> "idle"]]
  /\ UNCHANGED <<trackVars, bufferVars, toggler, budget, wire, mux, rloop, closeVars>>

\* sendMetadataEvent: the write loop takes the event, or has ended, which is an
\* error of the call. AddTrack then releases the mutex.
sendMetadataEvent(e) ==
  /\ room[e].pc = "send" /\ wloop[e].pc # "write"
  /\ wloop' = IF wloop[e].pc = "closed" THEN wloop
              ELSE [wloop EXCEPT ![e] = [pc |-> "write", ev |-> room[e].ev]]
  /\ mu' = [mu EXCEPT ![e] = FALSE]
  /\ room' = [room EXCEPT ![e] = IF @.refused /\ wloop[e].pc # "closed"
                                 THEN [pc |-> "refused", track |-> @.ev.track]
                                 ELSE [pc |-> "idle"]]
  /\ UNCHANGED <<trackVars, bufferVars, toggler, budget, wire, mux, rloop, closeVars>>

\* trackRemote.Subscribe and Unsubscribe: only a change is announced.
Toggle(e, t, s) ==
  /\ <<t, s>> \in given /\ s \in SSRCs[Peer[e]]
  /\ toggler[e] = None /\ budget.toggles > 0
  /\ budget' = [budget EXCEPT !.toggles = @ - 1]
  /\ toggler' = [toggler EXCEPT ![e] =
       [type |-> IF s \in subscribed THEN "unsub" ELSE "sub", track |-> t, ssrc |-> s]]
  /\ subscribed' = IF s \in subscribed THEN subscribed \ {s} ELSE subscribed \cup {s}
  /\ UNCHANGED <<local, remote, subscribers, given, bufferVars, mu, room,
                 wloop, wire, mux, rloop, closeVars>>

ToggleSends(e) ==
  /\ toggler[e] # None /\ wloop[e].pc # "write"
  /\ wloop' = IF wloop[e].pc = "closed" THEN wloop
              ELSE [wloop EXCEPT ![e] = [pc |-> "write", ev |-> toggler[e]]]
  /\ toggler' = [toggler EXCEPT ![e] = None]
  /\ UNCHANGED <<trackVars, bufferVars, mu, room, budget, wire, mux, rloop, closeVars>>

-----------------------------------------------------------------------------
(* The write loop and the stream                                              *)

\* An event that cannot be written is logged and forgotten.
Write(e) ==
  /\ wloop[e].pc = "write"
  /\ wloop' = [wloop EXCEPT ![e] = [pc |-> "select"]]
  /\ wire' = IF e \in writeClosed \cup torndown THEN wire
             ELSE [wire EXCEPT ![e] = Append(@, wloop[e].ev)]
  /\ UNCHANGED <<trackVars, bufferVars, callVars, mux, rloop, closeVars>>

\* The mux of the stream (StringMux) takes the next packet for this connection.
MuxTakes(e) ==
  /\ e \notin torndown /\ mux[e] = None /\ wire[Peer[e]] # <<>>
  /\ mux' = [mux EXCEPT ![e] = Head(wire[Peer[e]])]
  /\ wire' = [wire EXCEPT ![Peer[e]] = Tail(@)]
  /\ UNCHANGED <<trackVars, bufferVars, callVars, wloop, rloop, closeVars>>

-----------------------------------------------------------------------------
(* The read loop                                                              *)

ReadEvent(e) ==
  /\ rloop[e].pc = "read" /\ mux[e] # None
  /\ rloop' = [rloop EXCEPT ![e] = [pc |-> "handle", ev |-> mux[e]]]
  /\ mux' = [mux EXCEPT ![e] = None]
  /\ UNCHANGED <<trackVars, bufferVars, callVars, wloop, wire, closeVars>>

ReadFails(e) ==
  /\ rloop[e].pc = "read" /\ e \in torndown
  /\ rloop' = [rloop EXCEPT ![e] = [pc |-> "closed"]]
  /\ UNCHANGED <<trackVars, bufferVars, callVars, wloop, wire, mux, closeVars>>

\* A new track is recorded and its buffers are made, under the mutex; it is handed
\* over afterwards. A track that is known already is ignored.
HandleAdd(e) ==
  LET ev == rloop[e].ev
  IN /\ rloop[e].pc = "handle" /\ ev.type = "add" /\ ~mu[e]
     /\ IF remote[e][ev.track] # None
        THEN /\ rloop' = [rloop EXCEPT ![e] = [pc |-> "read"]]
             /\ UNCHANGED <<remote, bufferVars>>
        ELSE /\ remote' = [remote EXCEPT ![e][ev.track] = ev.ssrc]
             /\ rtp' = GetOrCreate(rtp, e, ev.ssrc)
             /\ rtcp' = GetOrCreate(rtcp, e, ev.ssrc)
             /\ rloop' = [rloop EXCEPT ![e] = [pc |-> "hand", track |-> ev.track, ssrc |-> ev.ssrc]]
     /\ UNCHANGED <<local, subscribed, subscribers, given, callVars, wloop, wire, mux, closeVars>>

\* Mutant: the buffer of the SSRC in the event is closed, not that of the track.
HandleRemove_EventSSRC(e) ==
  LET ev == rloop[e].ev
  IN /\ rloop[e].pc = "handle" /\ ev.type = "remove" /\ ~mu[e]
     /\ removeRTPBuffer(e, ev.ssrc)
     /\ remote' = [remote EXCEPT ![e][ev.track] = None]
     /\ rloop' = [rloop EXCEPT ![e] = [pc |-> "read"]]
     /\ UNCHANGED <<local, subscribed, subscribers, given, callVars, wloop, wire, mux, closeVars>>

HandleRemove(e) ==
  LET t == rloop[e].ev.track
  IN /\ rloop[e].pc = "handle" /\ rloop[e].ev.type = "remove" /\ ~mu[e]
     /\ IF remote[e][t] = None THEN UNCHANGED bufferVars
        ELSE removeRTPBuffer(e, remote[e][t])
     /\ remote' = [remote EXCEPT ![e][t] = None]
     /\ rloop' = [rloop EXCEPT ![e] = [pc |-> "read"]]
     /\ UNCHANGED <<local, subscribed, subscribers, given, callVars, wloop, wire, mux, closeVars>>

\* The count of the local track that has the id now.
HandleSub(e) ==
  LET ev == rloop[e].ev
      s == local[e][ev.track]
  IN /\ rloop[e].pc = "handle" /\ ev.type \in {"sub", "unsub"} /\ ~mu[e]
     /\ subscribers' = IF s = None THEN subscribers
                       ELSE [subscribers EXCEPT ![s] = @ + (IF ev.type = "sub" THEN 1 ELSE -1)]
     /\ rloop' = [rloop EXCEPT ![e] = [pc |-> "read"]]
     /\ UNCHANGED <<local, remote, subscribed, given, bufferVars, callVars, wloop, wire, mux, closeVars>>

\* Mutant: the goroutine ends when Close begins.
TakeTrack_UntilClose(e) ==
  /\ rloop[e].pc = "hand" /\ closer[e] = "no" /\ <<e, "track">> \notin busy
  /\ given' = given \cup {<<rloop[e].track, rloop[e].ssrc>>}
  /\ rloop' = [rloop EXCEPT ![e] = [pc |-> "read"]]
  /\ busy' = busy \cup {<<e, "track">>}
  /\ UNCHANGED <<local, remote, subscribed, subscribers, bufferVars, callVars,
                 wloop, wire, mux, writeClosed, torndown, data, closer>>

\* The goroutine of PeerManager.Add takes the track from remoteTracksChannel and
\* calls PubSub.Pub with it; it ends when Done is closed.
TakeTrack(e) ==
  /\ rloop[e].pc = "hand" /\ closer[e] # "done" /\ <<e, "track">> \notin busy
  /\ given' = given \cup {<<rloop[e].track, rloop[e].ssrc>>}
  /\ rloop' = [rloop EXCEPT ![e] = [pc |-> "read"]]
  /\ busy' = busy \cup {<<e, "track">>}
  /\ UNCHANGED <<local, remote, subscribed, subscribers, bufferVars, callVars,
                 wloop, wire, mux, writeClosed, torndown, data, closer>>

-----------------------------------------------------------------------------
(* DataTransport                                                              *)

dataRest == <<trackVars, bufferVars, mu, room, toggler, wloop, wire, mux, rloop,
              writeClosed, torndown, closer>>

\* PubSub.Pub or broadcast returns. Both wait for other transports of the room, and
\* nothing says that they return (PeerManager, DataTransceiver).
TakerReturns(e) ==
  /\ \E k \in {"track", "message"} : <<e, k>> \in busy /\ busy' = busy \ {<<e, k>>}
  /\ UNCHANGED <<dataRest, budget, data>>

DataArrives(e) ==
  /\ closer[e] \in {"no", "data"} /\ ~data[e].mux
  /\ budget.messages[e] > 0 /\ budget' = [budget EXCEPT !.messages[e] = @ - 1]
  /\ data' = [data EXCEPT ![e].mux = TRUE]
  /\ UNCHANGED <<dataRest, busy>>

ReadMessage(e) ==
  /\ data[e].loop = "read" /\ data[e].mux
  /\ data' = [data EXCEPT ![e] = [@ EXCEPT !.loop = "hand", !.mux = FALSE]]
  /\ UNCHANGED <<dataRest, budget, busy>>

\* PeerManager takes the message and broadcasts it.
TakeMessage(e) ==
  /\ data[e].loop = "hand" /\ <<e, "message">> \notin busy
  /\ data' = [data EXCEPT ![e].loop = "read"]
  /\ busy' = busy \cup {<<e, "message">>}
  /\ UNCHANGED <<dataRest, budget>>

ReadMessageFails(e) ==
  /\ data[e].loop = "read" /\ closer[e] \notin {"no", "data"}
  /\ data' = [data EXCEPT ![e].loop = "closed"]
  /\ UNCHANGED <<dataRest, budget, busy>>

-----------------------------------------------------------------------------
(* CloseWrite and Close                                                       *)

closeRest == <<trackVars, bufferVars, mu, room, toggler, wire, mux, rloop, data, busy>>

CloseWrite(e) ==
  /\ e \notin writeClosed
  /\ budget.closes > 0 /\ budget' = [budget EXCEPT !.closes = @ - 1]
  /\ writeClosed' = writeClosed \cup {e}
  /\ UNCHANGED <<closeRest, wloop, torndown, closer>>

Close(e) ==
  /\ closer[e] = "no"
  /\ budget.closes > 0 /\ budget' = [budget EXCEPT !.closes = @ - 1]
  /\ closer' = [closer EXCEPT ![e] = "data"]
  /\ UNCHANGED <<closeRest, wloop, writeClosed, torndown>>

\* DataTransport.Close and MediaStream.Close: the mux must be free to hear of it.
CloseData(e) ==
  /\ closer[e] = "data" /\ ~data[e].mux
  /\ closer' = [closer EXCEPT ![e] = "metadata"]
  /\ UNCHANGED <<closeRest, budget, wloop, writeClosed, torndown>>

CloseMetadata(e) ==
  /\ closer[e] = "metadata" /\ mux[e] = None
  /\ torndown' = torndown \cup {e}
  /\ closer' = [closer EXCEPT ![e] = "loops"]
  /\ UNCHANGED <<closeRest, budget, wloop, writeClosed>>

CloseWriteLoop(e) ==
  /\ closer[e] = "loops" /\ wloop[e].pc = "select"
  /\ wloop' = [wloop EXCEPT ![e] = [pc |-> "closed"]]
  /\ UNCHANGED <<closeRest, budget, writeClosed, torndown, closer>>

\* Both loops have ended: Done is closed.
CloseDone(e) ==
  /\ closer[e] = "loops" /\ wloop[e].pc = "closed" /\ rloop[e].pc = "closed"
  /\ closer' = [closer EXCEPT ![e] = "done"]
  /\ UNCHANGED <<closeRest, budget, wloop, writeClosed, torndown>>

-----------------------------------------------------------------------------
ReadLoop(e) == ReadEvent(e) \/ ReadFails(e) \/ HandleAdd(e) \/ HandleRemove(e) \/ HandleSub(e)
DataLoop(e) == ReadMessage(e) \/ ReadMessageFails(e)
Closing(e) == CloseData(e) \/ CloseMetadata(e) \/ CloseWriteLoop(e) \/ CloseDone(e)

Next ==
  \E e \in Ends :
    \/ sendMetadataEvent(e) \/ ToggleSends(e) \/ Write(e) \/ MuxTakes(e)
    \/ ReadLoop(e) \/ DataLoop(e) \/ Closing(e)
    \/ TakeTrack(e) \/ TakeMessage(e) \/ TakerReturns(e) \/ DataArrives(e)
    \/ CloseWrite(e) \/ Close(e)
    \/ \E t \in Tracks : AddTrack(e, t) \/ RemoveTrack(e, t)
    \/ \E s \in AllSSRCs : handleRTP(e, s) \/ handleRTCP(e, s) \/ \E t \in Tracks : Toggle(e, t, s)

\* The goroutines run, those of PeerManager.Add that read tracks and messages
\* included, as long as they have come back from what they do with them; a call
\* that was refused goes on to remove the track.
Fairness ==
  \A e \in Ends :
    /\ WF_vars(sendMetadataEvent(e)) /\ WF_vars(ToggleSends(e))
    /\ WF_vars(Write(e)) /\ WF_vars(MuxTakes(e)) /\ WF_vars(ReadLoop(e))
    /\ WF_vars(TakeTrack(e)) /\ WF_vars(DataLoop(e) \/ TakeMessage(e)) /\ WF_vars(Closing(e))
    /\ WF_vars(\E t \in Tracks : room[e].pc = "refused" /\ RemoveTrack(e, t))

Spec == Init /\ [][Next]_vars
FairSpec == Spec /\ Fairness

-----------------------------------------------------------------------------
\* Every variable keeps its type.
TypeOK ==
  /\ local \in [Ends -> [Tracks -> AllSSRCs \cup {None}]]
  /\ remote \in [Ends -> [Tracks -> AllSSRCs \cup {None}]]
  /\ mu \in [Ends -> BOOLEAN]
  /\ \A e \in Ends : room[e].pc \in {"idle", "send", "refused"}
  /\ \A e \in Ends : toggler[e] = None \/ toggler[e] \in Event
  /\ wloop \in [Ends -> [pc : {"select", "closed"}] \cup [pc : {"write"}, ev : Event]]
  /\ wire \in [Ends -> Seq(Event)]
  /\ \A e \in Ends : mux[e] = None \/ mux[e] \in Event
  /\ rloop \in [Ends -> [pc : {"read", "closed"}] \cup [pc : {"handle"}, ev : Event]
                        \cup [pc : {"hand"}, track : Tracks, ssrc : AllSSRCs]]
  /\ rtp \in [Ends -> [AllSSRCs -> Buffer]] /\ rtcp \in [Ends -> [AllSSRCs -> Buffer]]
  /\ given \subseteq Tracks \X AllSSRCs /\ subscribed \subseteq AllSSRCs
  /\ subscribers \in [AllSSRCs -> Int] 
  /\ closer \in [Ends -> {"no", "data", "metadata", "loops", "done"}]
  /\ busy \subseteq Ends \X {"track", "message"}

Quiet(e) ==
  /\ room[e].pc = "idle" /\ toggler[e] = None /\ wloop[e].pc = "select"
  /\ wire[e] = <<>> /\ mux[e] = None /\ rloop[e].pc = "read"

Open == writeClosed = {} /\ \A e \in Ends : closer[e] = "no"

\* When nothing is under way, the remote tracks of an end are the local tracks of
\* the other, each was handed to the room, and its media goes to the buffer the
\* room reads. So events of one track are never applied in another order, and a
\* subscription that was refused leaves nothing behind.
RemoteFollowsLocal ==
  (Open /\ \A e \in Ends : Quiet(e)) =>
    \A e \in Ends, t \in Tracks :
      LET s == local[Peer[e]][t]
      IN /\ remote[e][t] = s
         /\ s # None => <<t, s>> \in given /\ rtp[e][s] = "open" /\ rtcp[e][s] = "open"

\* The buffers of a track are in the maps of the media stream and open for as long
\* as the track is listed, also when media came before the announcement.
BuffersServeTracks ==
  \A e \in Ends, t \in Tracks :
    /\ remote[e][t] # None => rtp[e][remote[e][t]] = "open" /\ rtcp[e][remote[e][t]] = "open"
    /\ local[e][t] # None => rtcp[e][local[e][t]] = "open"

\* AddTrack, which holds the mutex, and RemoveTrack return, also while Close runs:
\* the room holds PeerManager.mu.
RoomCallsReturn == \A e \in Ends : room[e].pc # "idle" ~> room[e].pc = "idle"

\* Who takes the tracks and the messages of an end comes back for the next one.
TakersReturn(e) == []<>(<<e, "track">> \notin busy) /\ []<>(<<e, "message">> \notin busy)

\* Close returns, although it waits for a read loop that hands over tracks without
\* looking at Close ("TODO potential deadlock", metadata_transport.go:247), because
\* the room reads them until Done is closed; unless PubSub.Pub or broadcast, which
\* the room calls between two of them, never returns.
CloseReturns ==
  \A e \in Ends : TakersReturn(e) => (closer[e] # "no" ~> closer[e] = "done")

\* The reader of a track that the other end removed gets the end of the track (the
\* test of AddTrack says "Track should end here"), unless the transport closes or
\* PubSub.Pub of an earlier track of this end never returns.
TrackEnds ==
  \A e \in Ends : \A s \in SSRCs[Peer[e]] : TakersReturn(e) =>
    ((\E t \in Tracks : <<t, s>> \in given /\ local[Peer[e]][t] # s)
      ~> (rtp[e][s] = "closed" \/ ~Open))

\* The two ends agree on the tracks when nothing is under way, and the buffers of
\* a listed track serve it at all times.
EndsAgree == TypeOK /\ RemoteFollowsLocal /\ BuffersServeTracks

\* AddTrack, RemoveTrack and Close return, each of which waits for a loop that may
\* be waiting for its user; Close only if the user always comes back.
CallsReturn == RoomCallsReturn /\ CloseReturns
=============================================================================
