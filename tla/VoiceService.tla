---------------------------- MODULE VoiceService ----------------------------
(***************************************************************************)
(* The voice service of the user interface library and the window over it: *)
(* a PeerService whose outgoing streams carry the microphone to the friends*)
(* the user talks to, and whose incoming streams are played back.          *)
(*                                                                         *)
(* The service hears of its streams through the signals of PeerService, so *)
(* a step here is a step of PeerService together with what the slots of    *)
(* VoiceService do.  Assertions do nothing in the build that is shipped.   *)
(* Frames may go to a stream that was deleted: where the program ends of   *)
(* that, so does the behaviour.                                            *)
(***************************************************************************)
EXTENDS PeerService

CONSTANTS
  QueueMin,   \* frames queued before playback starts
  QueueMax    \* frames queued before frames are dropped

ASSUME VoiceAssumption == QueueMin \in Nat /\ QueueMax \in Nat /\ QueueMin < QueueMax

VARIABLES
  sending,  \* the outgoing streams that get the frames of the microphone
  send,     \* the streams with a SendStream entry
  vin,      \* the microphone is enabled
  talk,     \* the Talk column of the table, as last set, "Offline" without a row
  recv,     \* the incoming streams with a ReceiveStream entry
  queued,   \* frames in the playback queue of each incoming stream
  playing,  \* the streams whose playback is enabled
  dry,      \* streams whose queueEmpty signal was emitted and not delivered
  stray     \* history: streams of sending that were given up, or never were up

talkVars == <<sending, send, vin, talk>>
hearVars == <<recv, queued, playing, dry>>
vars == <<peerVars, talkVars, hearVars, stray>>

VoiceTypeOK ==
  /\ TypeOK
  /\ sending \subseteq OutStreams /\ send \subseteq OutStreams /\ vin \in BOOLEAN
  /\ talk \in [Hosts -> {"Offline", "Silent", "Talking"}]
  /\ recv \subseteq InStreams /\ playing \subseteq recv /\ dry \subseteq recv
  /\ queued \in [InStreams -> 0 .. QueueMax]
  /\ stray \subseteq sending

VoiceInit ==
  /\ Init
  /\ sending = {} /\ send = {} /\ vin = FALSE /\ stray = {}
  /\ talk = [h \in Hosts |-> "Offline"]
  /\ recv = {} /\ playing = {} /\ dry = {}
  /\ queued = [s \in InStreams |-> 0]

\* isConnected() of a stream: it may be true although the link is not up
\* (peer.cc:82).
IsConnected(s, up) == IF up[s] = "up" THEN {TRUE} ELSE BOOLEAN

\* What the column may say of the stream s, with the links up and the streams to
\* that get frames.
Status(s, up, to) ==
  IF s = None THEN {"Offline"}
  ELSE {IF ~online THEN "Offline" ELSE IF s \in to THEN "Talking" ELSE "Silent" :
          online \in IsConnected(s, up)}

\* updateStatus(h), of a host with a row in the table.
UpdateStatus(h, up, to) ==
  \E text \in Status(out[h], up, to) : talk' = [talk EXCEPT ![h] = text]

UpdateFriend(h, up, to) == IF h \in friends THEN UpdateStatus(h, up, to) ELSE UNCHANGED talk

-----------------------------------------------------------------------------
(* The user. *)

AddPeer(h) ==
  /\ PeerInsert(h)
  /\ UpdateStatus(h, link, sending)
  /\ UNCHANGED <<sending, send, vin, hearVars>>

\* The row of the table goes, and what its column said.
DeleteFriend(h) ==
  /\ PeerRemove(h)
  /\ talk' = [talk EXCEPT ![h] = "Offline"]
  /\ UNCHANGED <<sending, send, vin, hearVars>>

\* toggleTalkEnabled of a friend we do not talk to.
TalkEnabled(h) ==
  /\ out[h] \notin sending
  /\ \/ AskedToConnect(h) /\ UNCHANGED talkVars
     \/ /\ out[h] # None /\ TRUE \in IsConnected(out[h], link)
        /\ sending' = sending \cup {out[h]}
        /\ send' = send \cup {out[h]}
        /\ vin' = TRUE
        /\ UpdateStatus(h, link, sending')
        /\ UNCHANGED peerVars
  /\ UNCHANGED hearVars

\* Slip: the column is not brought up to date.
MutesUnseen(h, up) ==
  /\ sending' = sending \ {out[h]}
  /\ vin' = IF out[h] # None /\ sending' = {} THEN FALSE ELSE vin
  /\ UNCHANGED talk

\* setTalkEnabled(h, false): whatever stream the host has now stops sending.
Mute(h, up) ==
  /\ sending' = sending \ {out[h]}
  /\ vin' = IF out[h] # None /\ sending' = {} THEN FALSE ELSE vin
  /\ UpdateFriend(h, up, sending')

TalkDisabled(h) ==
  /\ out[h] \in sending
  /\ Mute(h, link)
  /\ UNCHANGED <<peerVars, send, hearVars>>

-----------------------------------------------------------------------------
(* The microphone and the outgoing streams. *)

\* vinReadyRead looks the entry of every stream up, and so creates it.
VinReadyRead ==
  /\ vin
  /\ send' = send \cup sending
  /\ UNCHANGED <<peerVars, sending, vin, talk, hearVars>>

OutStreamConnected(s) ==
  /\ OutConnected(s)
  /\ UpdateFriend(peer[s], link', sending)
  /\ UNCHANGED <<sending, send, vin, hearVars>>

\* updateStatus and outStreamDisconnected come before the new connection.
OutStreamDisconnected(s) ==
  /\ OutDisconnected(s)
  /\ Mute(peer[s], [link EXCEPT ![s] = "down"])
  /\ send' = send \ {s}
  /\ UNCHANGED hearVars

Timeout == ReconTimeout /\ UNCHANGED <<talkVars, hearVars>>

-----------------------------------------------------------------------------
(* The incoming streams and their playback. *)

InStreamConnected(h, s) ==
  /\ InAccepted(h, s)
  /\ recv' = recv \cup {s}
  /\ UNCHANGED <<talkVars, queued, playing, dry>>

InStreamRejected(h, s) == InRejected(h, s) /\ UNCHANGED <<talkVars, hearVars>>

InStreamDisconnected(s) ==
  LET h == peer[s]
  IN /\ InDisconnected(s)
     /\ recv' = recv \ {s} /\ playing' = playing \ {s} /\ dry' = dry \ {s}
     /\ queued' = [queued EXCEPT ![s] = 0]
     /\ UpdateFriend(h, link, sending)
     /\ UNCHANGED <<sending, send, vin>>

\* A frame arrives; the queue's length before it decides whether to play.
ReadyReadDatagram(s) ==
  /\ s \in recv /\ link[s] = "up"
  /\ queued' = [queued EXCEPT ![s] = IF @ < QueueMax THEN @ + 1 ELSE @]
  /\ playing' = IF queued[s] >= QueueMin THEN playing \cup {s} ELSE playing
  /\ UNCHANGED <<peerVars, talkVars, recv, dry>>

\* The sound output takes a frame, and signals when that was the last one.
PlayFrame(s) ==
  /\ s \in playing /\ queued[s] > 0
  /\ queued' = [queued EXCEPT ![s] = @ - 1]
  /\ dry' = IF queued[s] = 1 THEN dry \cup {s} ELSE dry
  /\ UNCHANGED <<peerVars, talkVars, recv, playing>>

\* Slip: the signal is answered and the output left on.
KeepsPlaying(s) ==
  /\ s \in dry /\ dry' = dry \ {s}
  /\ UNCHANGED <<peerVars, talkVars, recv, queued, playing>>

VoutQueueEmpty(s) ==
  /\ s \in dry
  /\ dry' = dry \ {s}
  /\ playing' = playing \ {s}
  /\ UNCHANGED <<peerVars, talkVars, recv, queued>>

StreamDeleted(s) == Delete(s) /\ UNCHANGED <<talkVars, hearVars>>

\* A friend's Talk column is clicked, or Talk chosen for the selected friend.
StartTalk(h) == h \in friends /\ (TalkEnabled(h) \/ TalkDisabled(h))

User == \E h \in Hosts : AddPeer(h) \/ DeleteFriend(h) \/ StartTalk(h)

Network ==
  \/ \E s \in OutStreams : OutStreamConnected(s) \/ OutStreamDisconnected(s)
  \/ \E h \in Hosts, s \in InStreams : InStreamConnected(h, s) \/ InStreamRejected(h, s)
  \/ \E s \in InStreams : InStreamDisconnected(s) \/ ReadyReadDatagram(s)

Local ==
  \/ Timeout \/ VinReadyRead
  \/ \E s \in InStreams : PlayFrame(s) \/ VoutQueueEmpty(s)
  \/ \E s \in Streams : StreamDeleted(s)

\* A stream goes stray when frames go to it and its host gives it up, or when
\* isConnected() was wrong about it; an address may come back as another stream's.
Strays ==
  stray' = {s \in sending' : s \in stray \/ s \in doomed' \/ (s \notin sending /\ link[s] # "up")}

Next == (User \/ Network \/ Local) /\ Strays

Spec == VoiceInit /\ [][Next]_vars
-----------------------------------------------------------------------------
\* An outgoing stream that is not on its way out is the stream of its host,
\* and the only one: no stream is leaked, none is used after deleteLater.
OneStreamPerPeer == \A s \in OutStreams :
  (peer[s] # None /\ s \notin doomed) <=> (peer[s] # None /\ out[peer[s]] = s)

\* No friend is forgotten: each has a stream that is connected, or the timer
\* that will renew it runs ("maintaining an outgoing stream to each listed
\* peer").
EveryFriendTended == \A h \in friends : out[h] # None /\ (Connected(h) \/ timer)

\* The microphone is on just as long as frames go anywhere.  They go to a stream
\* that is its host's, up, and has its entry of sequence numbers, as the assertions
\* at voice.cc:95 and 151 have it: unless it is a stray one, of which these fail.
TalkingIsConnected ==
  /\ vin <=> sending # {}
  /\ \A s \in sending \ stray :
       s \in send /\ link[s] = "up" /\ \E h \in Hosts : out[h] = s

\* The Talk column says of every friend who is connected whether he hears the user,
\* a friend included who got the address of a stray stream.
TalkColumnTruthful == \A h \in friends : Connected(h) =>
  talk[h] = IF out[h] \in sending THEN "Talking" ELSE "Silent"

\* Exactly the streams that friends opened and that are up are played back.
IncomingHeard == recv = UNION {in[h] : h \in Hosts}

\* Playback that has run dry is about to be stopped, to gather frames anew.
DryPlaybackStops == \A s \in playing : queued[s] = 0 => s \in dry

\* Whom the user talks to: the streams, the sequence numbers, and what the table
\* of friends says of them.
TalkTold == VoiceTypeOK /\ TalkingIsConnected /\ TalkColumnTruthful

\* Whom the user hears: every friend whose stream is up, for as long as frames come.
FriendsHeard == IncomingHeard /\ DryPlaybackStops
=============================================================================
