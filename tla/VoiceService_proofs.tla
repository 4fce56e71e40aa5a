------------------------ MODULE VoiceService_proofs ------------------------
(***************************************************************************)
(* For any number of hosts and streams: a host has one stream, the one that*)
(* is its host's, and no friend is forgotten.                              *)
(*                                                                         *)
(* A step of VoiceService is a step of PeerService or leaves its variables *)
(* alone, so the invariants are those of PeerService.  Besides the two     *)
(* properties they say whose a stream is, and that what waits for its      *)
(* deletion still occupies its address, so that the allocator gives out    *)
(* none that the event loop is about to delete.                            *)
(***************************************************************************)
EXTENDS VoiceService, TLAPS

\* The stream of a host is connected to that host.
StreamsOwned == \A h \in Hosts : out[h] # None => peer[out[h]] = h

\* A stream on its way out is still there.
DoomedUsed == \A s \in doomed : peer[s] # None

Inv == TypeOK /\ StreamsOwned /\ DoomedUsed /\ OneStreamPerPeer /\ EveryFriendTended

\* What the user and the sound devices do leaves the streams alone, or is a step
\* of PeerService.
LEMMA StepsOfPeers ==
  ASSUME [Next]_vars
  PROVE  [PeerNext]_peerVars
<1> USE DEF vars
<1>1. CASE User
  <2>1. PICK h \in Hosts : AddPeer(h) \/ DeleteFriend(h) \/ StartTalk(h)
    BY <1>1 DEF User
  <2>2. CASE AddPeer(h)
    BY <2>2 DEF AddPeer, PeerNext
  <2>3. CASE DeleteFriend(h)
    BY <2>3 DEF DeleteFriend, PeerNext
  <2>4. CASE StartTalk(h)
    BY <2>4 DEF StartTalk, TalkEnabled, TalkDisabled, PeerNext
  <2> QED
    BY <2>1, <2>2, <2>3, <2>4
<1>2. CASE Network
  <2>1. ASSUME NEW s \in OutStreams, OutStreamConnected(s) \/ OutStreamDisconnected(s)
        PROVE  PeerNext
    BY <2>1 DEF OutStreamConnected, OutStreamDisconnected, PeerNext
  <2>2. ASSUME NEW h \in Hosts, NEW s \in InStreams,
               InStreamConnected(h, s) \/ InStreamRejected(h, s)
        PROVE  PeerNext
    BY <2>2 DEF InStreamConnected, InStreamRejected, PeerNext
  <2>3. ASSUME NEW s \in InStreams, InStreamDisconnected(s) \/ ReadyReadDatagram(s)
        PROVE  [PeerNext]_peerVars
    BY <2>3 DEF InStreamDisconnected, ReadyReadDatagram, PeerNext
  <2> QED
    BY <1>2, <2>1, <2>2, <2>3 DEF Network
<1>3. CASE Local
  <2>1. ASSUME NEW s \in Streams, StreamDeleted(s)
        PROVE  PeerNext
    BY <2>1 DEF StreamDeleted, PeerNext
  <2> QED
    BY <1>3, <2>1 DEF Local, Timeout, VinReadyRead, PlayFrame, VoutQueueEmpty, PeerNext
<1> QED
  BY <1>1, <1>2, <1>3 DEF Next

\* The new streams of some hosts are theirs alone, and the old ones are abandoned.
LEMMA Reconnected ==
  ASSUME Inv, NEW hs \in SUBSET Hosts, NEW up \in [Streams -> {"wait", "up", "down"}],
         Reconnect(hs, up)
  PROVE  /\ out' \in [Hosts -> OutStreams \cup {None}]
         /\ peer' \in [Streams -> Hosts \cup {None}]
         /\ link' \in [Streams -> {"wait", "up", "down"}]
         /\ doomed' \subseteq Streams /\ timer' = (timer \/ hs # {})
         /\ (StreamsOwned /\ DoomedUsed /\ OneStreamPerPeer)'
         /\ \A h \in hs : out'[h] # None
         /\ \A h \in Hosts \ hs : out'[h] = out[h]
<1> USE PeerAssumption
<1>1. PICK new \in [hs -> Free] :
        /\ \A g, h \in hs : new[g] = new[h] => g = h
        /\ out' = [h \in Hosts |-> IF h \in hs THEN new[h] ELSE out[h]]
        /\ peer' = [s \in Streams |->
                      IF \E h \in hs : new[h] = s
                      THEN CHOOSE h \in hs : new[h] = s ELSE peer[s]]
        /\ link' = [s \in Streams |->
                      IF \E h \in hs : new[h] = s THEN "wait" ELSE up[s]]
        /\ doomed' = doomed \cup Abandoned(hs)
        /\ timer' = (timer \/ hs # {})
  BY DEF Reconnect
<1>2. \A h \in hs : new[h] \in OutStreams /\ new[h] \in Streams /\ peer[new[h]] = None
  BY <1>1 DEF Free, Streams
<1>3. \A h \in hs : peer'[new[h]] = h
  BY <1>1, <1>2
<1>4. \A s \in Streams : (\A h \in hs : new[h] # s) => peer'[s] = peer[s]
  BY <1>1
<1>5. \A h \in Hosts : out'[h] = IF h \in hs THEN new[h] ELSE out[h]
  BY <1>1
<1>6. \A h \in Hosts : out[h] # None => out[h] \in OutStreams /\ out[h] \in Streams
                                        /\ peer[out[h]] = h
  BY DEF Inv, TypeOK, StreamsOwned, Streams
<1>7. \A s \in Streams : peer'[s] \in Hosts \cup {None}
  BY <1>3, <1>4 DEF Inv, TypeOK
<1>8. doomed' = doomed \cup ({out[h] : h \in hs} \ {None})
  BY <1>1 DEF Abandoned
<1>9. \A s \in doomed' : s \in Streams /\ peer[s] # None
  BY <1>8, <1>6 DEF Inv, TypeOK, DoomedUsed
<1>10. StreamsOwned'
  <2> SUFFICES ASSUME NEW h \in Hosts, out'[h] # None
               PROVE  peer'[out'[h]] = h
    BY DEF StreamsOwned
  <2>1. CASE h \in hs
    BY <2>1, <1>3, <1>5
  <2>2. CASE h \notin hs
    <3>1. out'[h] = out[h] /\ out[h] \in Streams /\ peer[out[h]] = h
      BY <2>2, <1>5, <1>6
    <3>2. \A g \in hs : new[g] # out[h]
      BY <3>1, <1>2
    <3> QED
      BY <3>1, <3>2, <1>4
  <2> QED
    BY <2>1, <2>2
<1>11. DoomedUsed'
  BY <1>2, <1>4, <1>9 DEF DoomedUsed
<1>12. OneStreamPerPeer'
  <2> SUFFICES ASSUME NEW s \in OutStreams, peer'[s] # None
               PROVE  s \notin doomed' <=> out'[peer'[s]] = s
    BY DEF OneStreamPerPeer
  <2>0. s \in Streams
    BY DEF Streams
  <2>1. CASE \E h \in hs : new[h] = s
    <3>1. PICK h \in hs : new[h] = s
      BY <2>1
    <3>2. peer'[s] = h /\ out'[h] = s /\ peer[s] = None
      BY <3>1, <1>2, <1>3, <1>5
    <3> QED
      BY <3>2, <1>9
  <2>2. CASE \A h \in hs : new[h] # s
    <3>1. peer'[s] = peer[s] /\ peer[s] \in Hosts
      BY <2>2, <2>0, <1>4 DEF Inv, TypeOK
    <3>2. s \notin doomed <=> out[peer[s]] = s
      BY <3>1 DEF Inv, OneStreamPerPeer
    <3>3. CASE peer[s] \in hs
      <4>1. out'[peer[s]] # s
        BY <3>3, <2>2, <1>5
      <4>2. s \in doomed'
        BY <3>2, <3>3, <1>8, PeerAssumption
      <4> QED
        BY <3>1, <4>1, <4>2
    <3>4. CASE peer[s] \notin hs
      <4>1. out'[peer[s]] = out[peer[s]]
        BY <3>1, <3>4, <1>5
      <4>2. \A h \in hs : out[h] # s
        BY <3>4, <1>6, PeerAssumption
      <4>3. s \in doomed' <=> s \in doomed
        BY <4>2, <1>8
      <4> QED
        BY <3>1, <3>2, <4>1, <4>3
    <3> QED
      BY <3>3, <3>4
  <2> QED
    BY <2>1, <2>2
<1>13. /\ out' \in [Hosts -> OutStreams \cup {None}]
       /\ \A h \in hs : out'[h] # None /\ \A g \in Hosts \ hs : out'[g] = out[g]
  BY <1>1, <1>2, <1>5 DEF Inv, TypeOK
<1>14. peer' \in [Streams -> Hosts \cup {None}] /\ link' \in [Streams -> {"wait", "up", "down"}]
  <2>1. peer' = [s \in Streams |-> peer'[s]]
    BY <1>1
  <2> QED
    BY <2>1, <1>1, <1>7
<1> QED
  BY <1>1, <1>5, <1>9, <1>10, <1>11, <1>12, <1>13, <1>14

\* The first streams of the friends in the settings are theirs, and connecting.
LEMMA InitHolds == Init => Inv
<1> SUFFICES ASSUME Init PROVE Inv
  OBVIOUS
<1> USE PeerAssumption
<1>1. PICK first \in [friends -> OutStreams] :
        /\ \A g, h \in friends : first[g] = first[h] => g = h
        /\ out = [h \in Hosts |-> IF h \in friends THEN first[h] ELSE None]
        /\ peer = [s \in Streams |->
                     IF \E h \in friends : first[h] = s
                     THEN CHOOSE h \in friends : first[h] = s ELSE None]
  BY DEF Init
<1>2. friends \subseteq Hosts /\ doomed = {} /\ timer = (friends # {})
  BY DEF Init
<1>3. \A h \in friends : first[h] \in Streams /\ first[h] \in OutStreams /\ peer[first[h]] = h
  BY <1>1 DEF Streams
<1>4. \A s \in Streams : peer[s] # None => peer[s] \in friends /\ first[peer[s]] = s
  BY <1>1
<1>5. TypeOK
  <2>1. peer \in [Streams -> Hosts \cup {None}]
    <3>1. \A s \in Streams : peer[s] \in Hosts \cup {None}
      BY <1>2, <1>4
    <3> QED
      BY <1>1, <3>1
  <2>2. out \in [Hosts -> OutStreams \cup {None}]
    BY <1>1
  <2>3. link \in [Streams -> {"wait", "up", "down"}] /\ in \in [Hosts -> SUBSET InStreams]
    BY DEF Init
  <2> QED
    BY <1>2, <2>1, <2>2, <2>3 DEF TypeOK
<1>6. StreamsOwned /\ DoomedUsed
  BY <1>1, <1>2, <1>3 DEF StreamsOwned, DoomedUsed
<1>7. OneStreamPerPeer
  <2> SUFFICES ASSUME NEW s \in OutStreams, peer[s] # None PROVE out[peer[s]] = s
    BY <1>2 DEF OneStreamPerPeer
  <2> QED
    BY <1>1, <1>2, <1>4 DEF Streams
<1>8. EveryFriendTended
  <2>1. \A h \in friends : out[h] # None
    BY <1>1, <1>2, <1>3
  <2>2. ASSUME NEW h \in friends PROVE timer
    <3>1. friends # {}
      OBVIOUS
    <3> QED
      BY <3>1, <1>2, Zenon
  <2> QED
    BY <2>1, <2>2, Zenon DEF EveryFriendTended
<1> QED
  BY <1>5, <1>6, <1>7, <1>8 DEF Inv

\* Every slot keeps the streams in order.
LEMMA StepKeeps == Inv /\ [PeerNext]_peerVars => Inv'
<1> SUFFICES ASSUME Inv, [PeerNext]_peerVars PROVE Inv'
  OBVIOUS
<1> USE PeerAssumption
<1>a. TypeOK /\ StreamsOwned /\ DoomedUsed /\ OneStreamPerPeer /\ EveryFriendTended
  BY DEF Inv
<1>b. \A h \in Hosts : out[h] # None => out[h] \in OutStreams /\ out[h] \in Streams
                                        /\ peer[out[h]] = h /\ out[h] \notin doomed
  BY <1>a DEF TypeOK, StreamsOwned, OneStreamPerPeer, Streams
<1>c. ASSUME NEW hs \in SUBSET Hosts, NEW up \in [Streams -> {"wait", "up", "down"}],
             Reconnect(hs, up), hs # {}, friends' \subseteq friends \cup hs, UNCHANGED in
      PROVE  Inv'
  <2>1. /\ out' \in [Hosts -> OutStreams \cup {None}]
        /\ peer' \in [Streams -> Hosts \cup {None}]
        /\ link' \in [Streams -> {"wait", "up", "down"}]
        /\ doomed' \subseteq Streams /\ timer' = TRUE
        /\ (StreamsOwned /\ DoomedUsed /\ OneStreamPerPeer)'
        /\ \A h \in hs : out'[h] # None
        /\ \A h \in Hosts \ hs : out'[h] = out[h]
    BY <1>c, Reconnected
  <2>2. TypeOK'
    BY <2>1, <1>a, <1>c DEF TypeOK
  <2>3. EveryFriendTended'
    BY <2>1, <1>a, <1>c DEF EveryFriendTended, TypeOK
  <2> QED
    BY <2>1, <2>2, <2>3 DEF Inv
<1>1. ASSUME NEW h \in Hosts, PeerInsert(h) \/ AskedToConnect(h)
      PROVE  Inv'
  <2>1. Reconnect({h}, link) /\ friends' \subseteq friends \cup {h} /\ UNCHANGED in
    BY <1>1 DEF PeerInsert, AskedToConnect
  <2> QED
    BY <2>1, <1>a, <1>c DEF TypeOK
<1>2. ASSUME NEW h \in Hosts, PeerRemove(h)
      PROVE  Inv'
  <2>1. /\ friends' = friends \ {h} /\ out' = [out EXCEPT ![h] = None]
        /\ doomed' = doomed \cup ({out[h]} \ {None}) /\ UNCHANGED <<in, peer, link, timer>>
    BY <1>2 DEF PeerRemove, Abandoned
  <2>2. TypeOK'
    BY <2>1, <1>a, <1>b DEF TypeOK
  <2>3. \A g \in Hosts : out'[g] = IF g = h THEN None ELSE out[g]
    BY <2>1, <1>a DEF TypeOK
  <2>4. StreamsOwned' /\ DoomedUsed'
    BY <2>1, <2>3, <1>a, <1>b DEF StreamsOwned, DoomedUsed
  <2>5. OneStreamPerPeer'
    BY <2>1, <2>3, <1>a, <1>b DEF OneStreamPerPeer, TypeOK, Streams
  <2>6. EveryFriendTended'
    BY <2>1, <2>3, <1>a DEF EveryFriendTended, Connected, TypeOK
  <2> QED
    BY <2>2, <2>4, <2>5, <2>6 DEF Inv
<1>3. ASSUME ReconTimeout
      PROVE  Inv'
  <2>1. CASE Unconnected # {} /\ Reconnect(Unconnected, link)
    <3>1. Unconnected \subseteq Hosts /\ UNCHANGED <<friends, in>>
      BY <1>3, <1>a DEF ReconTimeout, Unconnected, TypeOK
    <3> QED
      BY <2>1, <3>1, <1>a, <1>c DEF TypeOK
  <2>2. CASE Unconnected = {} /\ timer' = FALSE /\ UNCHANGED <<friends, out, in, peer, link, doomed>>
    <3>1. \A g \in friends : Connected(g)
      BY <2>2 DEF Unconnected
    <3>2. EveryFriendTended'
      BY <2>2, <3>1, <1>a DEF EveryFriendTended, Connected
    <3> QED
      BY <2>2, <3>2, <1>a DEF Inv, TypeOK, StreamsOwned, DoomedUsed, OneStreamPerPeer
  <2> QED
    BY <1>3, <2>1, <2>2 DEF ReconTimeout
<1>4. ASSUME NEW s \in OutStreams, OutConnected(s)
      PROVE  Inv'
  <2>1. EveryFriendTended'
    BY <1>4, <1>a DEF OutConnected, EveryFriendTended, Connected, TypeOK, Streams
  <2> QED
    BY <1>4, <2>1, <1>a DEF OutConnected, Inv, TypeOK, StreamsOwned, DoomedUsed,
         OneStreamPerPeer, Streams
<1>5. ASSUME NEW s \in OutStreams, OutDisconnected(s)
      PROVE  Inv'
  <2> DEFINE down == [link EXCEPT ![s] = "down"]
  <2>1. peer[s] \in Hosts /\ down \in [Streams -> {"wait", "up", "down"}] /\ UNCHANGED <<friends, in>>
    BY <1>5, <1>a DEF OutDisconnected, TypeOK, Streams
  <2>2. CASE timer /\ link' = down /\ UNCHANGED <<out, peer, doomed, timer>>
    <3>1. EveryFriendTended'
      BY <2>1, <2>2, <1>a DEF EveryFriendTended
    <3> QED
      BY <2>1, <2>2, <3>1, <1>a DEF Inv, TypeOK, StreamsOwned, DoomedUsed, OneStreamPerPeer
  <2>3. CASE Reconnect({peer[s]}, down)
    BY <2>1, <2>3, <1>c
  <2> QED
    BY <1>5, <2>2, <2>3 DEF OutDisconnected
<1>6. ASSUME NEW h \in Hosts, NEW s \in InStreams, InRejected(h, s)
      PROVE  Inv'
  <2>1. /\ peer[s] = None /\ peer' = [peer EXCEPT ![s] = h] /\ link' = [link EXCEPT ![s] = "up"]
        /\ doomed' = doomed \cup {s} /\ UNCHANGED <<friends, out, in, timer>>
    BY <1>6 DEF InRejected
  <2>2. s \in Streams /\ s \notin OutStreams
    BY DEF Streams
  <2>3. TypeOK'
    BY <2>1, <2>2, <1>a DEF TypeOK
  <2>4. \A r \in Streams : r # s => peer'[r] = peer[r] /\ link'[r] = link[r]
    BY <2>1, <1>a DEF TypeOK
  <2>5. StreamsOwned' /\ DoomedUsed'
    BY <2>1, <2>2, <2>4, <1>a, <1>b DEF StreamsOwned, DoomedUsed, TypeOK
  <2>6. OneStreamPerPeer'
    BY <2>1, <2>2, <2>4, <1>a DEF OneStreamPerPeer, Streams
  <2>7. EveryFriendTended'
    BY <2>1, <2>2, <2>4, <1>a, <1>b DEF EveryFriendTended, Connected, TypeOK
  <2> QED
    BY <2>3, <2>5, <2>6, <2>7 DEF Inv
<1>7. ASSUME NEW h \in Hosts, NEW s \in InStreams, InAccepted(h, s)
      PROVE  Inv'
  <2>1. /\ peer[s] = None /\ UNCHANGED friends
        /\ in' = [in EXCEPT ![h] = @ \cup {s}] /\ s \in Streams /\ s \notin OutStreams
    BY <1>7 DEF InAccepted, Streams
  <2>2. CASE /\ peer' = [peer EXCEPT ![s] = h] /\ link' = [link EXCEPT ![s] = "up"]
             /\ UNCHANGED <<out, doomed, timer>>
    <3>1. TypeOK'
      BY <2>1, <2>2, <1>a DEF TypeOK
    <3>2. \A r \in Streams : r # s => peer'[r] = peer[r] /\ link'[r] = link[r]
      BY <2>2, <1>a DEF TypeOK
    <3>3. StreamsOwned' /\ DoomedUsed'
      BY <2>1, <2>2, <3>2, <1>a, <1>b DEF StreamsOwned, DoomedUsed, TypeOK
    <3>4. OneStreamPerPeer'
      BY <2>1, <2>2, <3>2, <1>a DEF OneStreamPerPeer, Streams
    <3>5. EveryFriendTended'
      BY <2>1, <2>2, <3>2, <1>a, <1>b DEF EveryFriendTended, Connected, TypeOK
    <3> QED
      BY <3>1, <3>3, <3>4, <3>5 DEF Inv
  <2>3. CASE /\ out[h] # None
             /\ \E n \in Free :
                  /\ out' = [out EXCEPT ![h] = n]
                  /\ peer' = [peer EXCEPT ![s] = h, ![n] = h]
                  /\ link' = [[link EXCEPT ![s] = "up"] EXCEPT ![n] = "wait"]
             /\ doomed' = doomed \cup {out[h]}
             /\ timer' = TRUE
    <3>1. PICK n \in Free : /\ out' = [out EXCEPT ![h] = n]
                            /\ peer' = [peer EXCEPT ![s] = h, ![n] = h]
                            /\ link' = [[link EXCEPT ![s] = "up"] EXCEPT ![n] = "wait"]
      BY <2>3
    <3>2. n \in OutStreams /\ n \in Streams /\ peer[n] = None /\ n # s
      BY <2>1 DEF Free, Streams
    <3>3. /\ \A g \in Hosts : out'[g] = IF g = h THEN n ELSE out[g]
          /\ \A r \in Streams : peer'[r] = IF r \in {s, n} THEN h ELSE peer[r]
      BY <2>1, <3>1, <3>2, <1>a DEF TypeOK
    <3>4. TypeOK'
      BY <2>1, <2>3, <3>1, <3>2, <1>a, <1>b DEF TypeOK
    <3>5. StreamsOwned' /\ DoomedUsed'
      BY <2>1, <2>3, <3>2, <3>3, <3>4, <1>a, <1>b DEF StreamsOwned, DoomedUsed, TypeOK
    <3>6. OneStreamPerPeer'
      <4> SUFFICES ASSUME NEW r \in OutStreams, peer'[r] # None
                   PROVE  r \notin doomed' <=> out'[peer'[r]] = r
        BY DEF OneStreamPerPeer
      <4>0. r \in Streams /\ r # s
        BY <2>1 DEF Streams
      <4>1. CASE r = n
        <5>1. n \notin doomed /\ n # out[h]
          BY <2>3, <3>2, <1>a, <1>b DEF DoomedUsed
        <5> QED
          BY <4>1, <5>1, <2>3, <3>2, <3>3
      <4>2. CASE r # n
        <5>1. peer'[r] = peer[r] /\ peer[r] \in Hosts
          BY <4>0, <4>2, <3>3, <1>a DEF TypeOK
        <5>2. r \notin doomed <=> out[peer[r]] = r
          BY <5>1, <1>a DEF OneStreamPerPeer
        <5> QED
          BY <4>2, <5>1, <5>2, <2>3, <3>3, <1>b
      <4> QED
        BY <4>1, <4>2
    <3>7. EveryFriendTended'
      BY <2>1, <2>3, <3>2, <3>3, <1>a DEF EveryFriendTended, TypeOK
    <3> QED
      BY <3>4, <3>5, <3>6, <3>7 DEF Inv
  <2> QED
    BY <1>7, <2>2, <2>3 DEF InAccepted
<1>8. ASSUME NEW s \in InStreams, InDisconnected(s)
      PROVE  Inv'
  <2>1. /\ peer[s] \in Hosts /\ s \in Streams /\ s \notin OutStreams
        /\ link' = [link EXCEPT ![s] = "down"] /\ doomed' = doomed \cup {s}
        /\ in' = [in EXCEPT ![peer[s]] = @ \ {s}] /\ UNCHANGED <<friends, out, peer, timer>>
    BY <1>8, <1>a DEF InDisconnected, TypeOK, Streams
  <2>2. \A r \in Streams : r # s => link'[r] = link[r]
    BY <2>1, <1>a DEF TypeOK
  <2>3. TypeOK'
    BY <2>1, <1>a DEF TypeOK
  <2>4. StreamsOwned' /\ DoomedUsed' /\ OneStreamPerPeer'
    BY <2>1, <1>a DEF StreamsOwned, DoomedUsed, OneStreamPerPeer
  <2>5. EveryFriendTended'
    BY <2>1, <2>2, <1>a, <1>b DEF EveryFriendTended, Connected, TypeOK
  <2> QED
    BY <2>3, <2>4, <2>5 DEF Inv
<1>9. ASSUME NEW s \in Streams, Delete(s)
      PROVE  Inv'
  <2>1. /\ s \in doomed /\ doomed' = doomed \ {s} /\ peer' = [peer EXCEPT ![s] = None]
        /\ link' = [link EXCEPT ![s] = "wait"] /\ UNCHANGED <<friends, out, in, timer>>
    BY <1>9 DEF Delete
  <2>2. \A r \in Streams : r # s => peer'[r] = peer[r] /\ link'[r] = link[r]
    BY <2>1, <1>a DEF TypeOK
  <2>3. \A h \in Hosts : out[h] # s \/ out[h] = None
    BY <2>1, <1>b
  <2>4. TypeOK'
    BY <2>1, <1>a DEF TypeOK
  <2>5. StreamsOwned' /\ DoomedUsed'
    BY <2>1, <2>2, <2>3, <1>a, <1>b DEF StreamsOwned, DoomedUsed, TypeOK
  <2>6. peer'[s] = None
    BY <2>1, <1>a DEF TypeOK
  <2>7. OneStreamPerPeer'
    BY <2>1, <2>2, <2>6, <1>a DEF OneStreamPerPeer, Streams
  <2>8. EveryFriendTended'
    BY <2>1, <2>2, <2>3, <1>a, <1>b DEF EveryFriendTended, Connected, TypeOK
  <2> QED
    BY <2>4, <2>5, <2>7, <2>8 DEF Inv
<1>10. ASSUME UNCHANGED peerVars
       PROVE  Inv'
  BY <1>10, <1>a DEF peerVars, Inv, TypeOK, StreamsOwned, DoomedUsed, OneStreamPerPeer,
       EveryFriendTended, Connected
<1> QED
  BY <1>1, <1>2, <1>3, <1>4, <1>5, <1>6, <1>7, <1>8, <1>9, <1>10 DEF PeerNext

\* For any hosts and streams: the streams' owners keep their types, whatever the
\* links, the users and the event loop do.
THEOREM PeersTypeCorrect == Spec => []TypeOK
<1>1. VoiceInit => Inv
  BY InitHolds DEF VoiceInit
<1>2. Inv /\ [Next]_vars => Inv'
  BY StepsOfPeers, StepKeeps
<1>3. Inv => TypeOK
  BY DEF Inv
<1> QED
  BY <1>1, <1>2, <1>3, PTL DEF Spec

\* For any hosts and streams: an outgoing stream that is not on its way out is the
\* stream of its host (disconnectFromPeer, peer.cc:147), so that none is leaked and
\* none is used after deleteLater.
THEOREM StreamsAreTheirHosts == Spec => []OneStreamPerPeer
<1>1. VoiceInit => Inv
  BY InitHolds DEF VoiceInit
<1>2. Inv /\ [Next]_vars => Inv'
  BY StepsOfPeers, StepKeeps
<1>3. Inv => OneStreamPerPeer
  BY DEF Inv
<1> QED
  BY <1>1, <1>2, <1>3, PTL DEF Spec

\* For any hosts and streams: the one timer, shared by all friends (peer.cc:135),
\* runs whenever one of them is not connected.
THEOREM FriendsAreTended == Spec => []EveryFriendTended
<1>1. VoiceInit => Inv
  BY InitHolds DEF VoiceInit
<1>2. Inv /\ [Next]_vars => Inv'
  BY StepsOfPeers, StepKeeps
<1>3. Inv => EveryFriendTended
  BY DEF Inv
<1> QED
  BY <1>1, <1>2, <1>3, PTL DEF Spec

-----------------------------------------------------------------------------
(* Whom the user hears. *)

\* A stream that is counted as its host's is up, and not on its way out.
HeardAreUp == \A h \in Hosts : \A s \in in[h] :
  peer[s] = h /\ link[s] = "up" /\ s \notin doomed

\* Frames are queued for the streams that are played back only.
QueuesOfHeard == \A s \in InStreams : queued[s] > 0 => s \in recv

HeardInv == Inv /\ VoiceTypeOK /\ HeardAreUp /\ QueuesOfHeard /\ FriendsHeard

\* The column has one of its three texts.
LEMMA StatusTyped ==
  \A s, up, to : Status(s, up, to) \subseteq {"Offline", "Silent", "Talking"}
BY DEF Status

\* So has the column that is brought up to date.
LEMMA UpdateTyped ==
  ASSUME VoiceTypeOK, NEW h, NEW up, NEW to, UpdateStatus(h, up, to) \/ UpdateFriend(h, up, to)
  PROVE  talk' \in [Hosts -> {"Offline", "Silent", "Talking"}]
<1>1. (\E text \in Status(out[h], up, to) : talk' = [talk EXCEPT ![h] = text]) \/ talk' = talk
  BY DEF UpdateStatus, UpdateFriend
<1> QED
  BY <1>1, StatusTyped DEF VoiceTypeOK

\* To stop sending to a host keeps the types.
LEMMA MuteTyped ==
  ASSUME VoiceTypeOK, NEW h \in Hosts, NEW up, Mute(h, up)
  PROVE  /\ sending' \subseteq OutStreams /\ vin' \in BOOLEAN
         /\ talk' \in [Hosts -> {"Offline", "Silent", "Talking"}]
<1>1. vin' \in BOOLEAN
  <2>1. vin' = IF out[h] # None /\ sending' = {} THEN FALSE ELSE vin
    BY DEF Mute
  <2>2. vin \in BOOLEAN
    BY DEF VoiceTypeOK
  <2> QED
    BY <2>1, <2>2, Zenon
<1>2. UpdateFriend(h, up, sending')
  BY DEF Mute
<1> QED
  BY <1>1, <1>2, UpdateTyped DEF Mute, VoiceTypeOK

\* Every slot keeps the types of the voice service.
LEMMA VoiceTypes == Inv /\ VoiceTypeOK /\ [Next]_vars => VoiceTypeOK'
<1> SUFFICES ASSUME Inv, VoiceTypeOK, [Next]_vars PROVE VoiceTypeOK'
  OBVIOUS
<1> USE VoiceAssumption
<1>a. TypeOK'
  BY StepsOfPeers, StepKeeps DEF Inv
<1>b. /\ TypeOK /\ sending \subseteq OutStreams /\ send \subseteq OutStreams /\ vin \in BOOLEAN
      /\ talk \in [Hosts -> {"Offline", "Silent", "Talking"}]
      /\ recv \subseteq InStreams /\ playing \subseteq recv /\ dry \subseteq recv
      /\ queued \in [InStreams -> 0 .. QueueMax]
  BY DEF VoiceTypeOK
<1>s. stray' \subseteq sending'
  BY DEF Next, Strays, vars, talkVars, VoiceTypeOK
<1>1. ASSUME NEW h \in Hosts, AddPeer(h) \/ DeleteFriend(h)
      PROVE  VoiceTypeOK'
  BY <1>1, <1>a, <1>b, <1>s, UpdateTyped DEF AddPeer, DeleteFriend, VoiceTypeOK, talkVars, hearVars
<1>2. ASSUME NEW h \in Hosts, StartTalk(h)
      PROVE  VoiceTypeOK'
  <2>1. CASE TalkDisabled(h)
    BY <2>1, <1>a, <1>b, <1>s, MuteTyped DEF TalkDisabled, VoiceTypeOK, hearVars
  <2>2. CASE AskedToConnect(h) /\ UNCHANGED <<talkVars, hearVars>>
    BY <2>2, <1>a, <1>b, <1>s DEF VoiceTypeOK, talkVars, hearVars
  <2>3. CASE /\ out[h] # None /\ sending' = sending \cup {out[h]} /\ send' = send \cup {out[h]}
             /\ vin' = TRUE /\ UpdateStatus(h, link, sending')
             /\ UNCHANGED <<peerVars, hearVars>>
    BY <2>3, <1>a, <1>b, <1>s, UpdateTyped DEF VoiceTypeOK, TypeOK, hearVars
  <2> QED
    BY <1>2, <2>1, <2>2, <2>3 DEF StartTalk, TalkEnabled
<1>3. ASSUME NEW s \in OutStreams, OutStreamConnected(s)
      PROVE  VoiceTypeOK'
  <2>1. peer[s] \in Hosts
    BY <1>3, <1>b DEF OutStreamConnected, OutConnected, TypeOK, Streams
  <2> QED
    BY <1>3, <2>1, <1>a, <1>b, <1>s, UpdateTyped DEF OutStreamConnected, VoiceTypeOK, hearVars
<1>4. ASSUME NEW s \in OutStreams, OutStreamDisconnected(s)
      PROVE  VoiceTypeOK'
  <2>1. peer[s] \in Hosts
    BY <1>4, <1>b DEF OutStreamDisconnected, OutDisconnected, TypeOK, Streams
  <2> QED
    BY <1>4, <2>1, <1>a, <1>b, <1>s, MuteTyped DEF OutStreamDisconnected, VoiceTypeOK, hearVars
<1>5. ASSUME NEW h \in Hosts, NEW s \in InStreams, InStreamConnected(h, s) \/ InStreamRejected(h, s)
      PROVE  VoiceTypeOK'
  BY <1>5, <1>a, <1>b, <1>s DEF InStreamConnected, InStreamRejected, VoiceTypeOK, talkVars, hearVars
<1>6. ASSUME NEW s \in InStreams, InStreamDisconnected(s)
      PROVE  VoiceTypeOK'
  <2>1. peer[s] \in Hosts
    BY <1>6, <1>b DEF InStreamDisconnected, InDisconnected, TypeOK, Streams
  <2> QED
    BY <1>6, <2>1, <1>a, <1>b, <1>s, UpdateTyped DEF InStreamDisconnected, VoiceTypeOK
<1>7. ASSUME NEW s \in InStreams, ReadyReadDatagram(s)
      PROVE  VoiceTypeOK'
  <2>1. queued' \in [InStreams -> 0 .. QueueMax]
    BY <1>7, <1>b DEF ReadyReadDatagram
  <2> QED
    BY <1>7, <2>1, <1>a, <1>b, <1>s DEF ReadyReadDatagram, VoiceTypeOK, talkVars
<1>8. ASSUME NEW s \in InStreams, PlayFrame(s) \/ VoutQueueEmpty(s)
      PROVE  VoiceTypeOK'
  BY <1>8, <1>a, <1>b, <1>s DEF PlayFrame, VoutQueueEmpty, VoiceTypeOK, talkVars
<1>9. CASE Timeout \/ VinReadyRead \/ (\E s \in Streams : StreamDeleted(s)) \/ UNCHANGED vars
  BY <1>9, <1>a, <1>b, <1>s DEF Timeout, VinReadyRead, StreamDeleted, VoiceTypeOK, talkVars, hearVars, vars
<1> QED
  BY <1>1, <1>2, <1>3, <1>4, <1>5, <1>6, <1>7, <1>8, <1>9 DEF Next, User, Network, Local

\* What happens to the outgoing streams leaves the incoming ones alone.
LEMMA OutgoingOnly ==
  ASSUME Inv,
         \/ \E h \in Hosts : PeerInsert(h) \/ PeerRemove(h) \/ AskedToConnect(h)
         \/ ReconTimeout
         \/ \E s \in OutStreams : OutConnected(s) \/ OutDisconnected(s)
  PROVE  /\ in' = in
         /\ \A s \in InStreams : peer'[s] = peer[s] /\ link'[s] = link[s]
                                 /\ (s \in doomed' => s \in doomed)
<1> USE PeerAssumption
<1>a. TypeOK
  BY DEF Inv
<1>1. ASSUME NEW hs \in SUBSET Hosts, NEW up \in [Streams -> {"wait", "up", "down"}],
             Reconnect(hs, up)
      PROVE  \A s \in InStreams : peer'[s] = peer[s] /\ link'[s] = up[s]
                                  /\ (s \in doomed' => s \in doomed)
  <2>1. PICK new \in [hs -> Free] :
          /\ peer' = [s \in Streams |-> IF \E h \in hs : new[h] = s
                                        THEN CHOOSE h \in hs : new[h] = s ELSE peer[s]]
          /\ link' = [s \in Streams |-> IF \E h \in hs : new[h] = s THEN "wait" ELSE up[s]]
          /\ doomed' = doomed \cup Abandoned(hs)
    BY <1>1 DEF Reconnect
  <2>2. \A s \in InStreams : s \in Streams /\ ~\E h \in hs : new[h] = s
    BY DEF Free, Streams
  <2>3. \A s \in InStreams : s \notin Abandoned(hs)
    BY <1>a DEF Abandoned, TypeOK
  <2> QED
    BY <2>1, <2>2, <2>3
<1>2. ASSUME NEW h \in Hosts, PeerInsert(h) \/ AskedToConnect(h)
      PROVE  in' = in /\ Reconnect({h}, link)
  BY <1>2 DEF PeerInsert, AskedToConnect
<1>3. ASSUME NEW h \in Hosts, PeerRemove(h)
      PROVE  in' = in /\ \A s \in InStreams : peer'[s] = peer[s] /\ link'[s] = link[s]
                                              /\ (s \in doomed' => s \in doomed)
  BY <1>3, <1>a DEF PeerRemove, Abandoned, TypeOK
<1>4. ASSUME ReconTimeout
      PROVE  in' = in /\ (Reconnect(Unconnected, link) \/ UNCHANGED <<peer, link, doomed>>)
  BY <1>4 DEF ReconTimeout
<1>5. Unconnected \in SUBSET Hosts /\ link \in [Streams -> {"wait", "up", "down"}]
  BY <1>a DEF Unconnected, TypeOK
<1>6. ASSUME NEW s \in OutStreams, OutConnected(s)
      PROVE  in' = in /\ \A r \in InStreams : peer'[r] = peer[r] /\ link'[r] = link[r]
                                              /\ (r \in doomed' => r \in doomed)
  <2>1. \A r \in InStreams : r # s /\ r \in Streams
    BY DEF Streams
  <2> QED
    BY <1>6, <2>1, <1>a DEF OutConnected, TypeOK
<1>7. ASSUME NEW s \in OutStreams, OutDisconnected(s)
      PROVE  in' = in /\ \A r \in InStreams : peer'[r] = peer[r] /\ link'[r] = link[r]
                                              /\ (r \in doomed' => r \in doomed)
  <2> DEFINE down == [link EXCEPT ![s] = "down"]
  <2>1. /\ \A r \in InStreams : down[r] = link[r]
        /\ down \in [Streams -> {"wait", "up", "down"}] /\ peer[s] \in Hosts
    BY <1>7, <1>a DEF OutDisconnected, TypeOK, Streams
  <2>2. in' = in /\ (Reconnect({peer[s]}, down) \/ (link' = down /\ UNCHANGED <<peer, doomed>>))
    BY <1>7 DEF OutDisconnected
  <2>3. {peer[s]} \in SUBSET Hosts
    BY <2>1
  <2> HIDE DEF down
  <2> QED
    BY <2>1, <2>2, <2>3, <1>1
<1>8. \A h \in Hosts : {h} \in SUBSET Hosts
  OBVIOUS
<1>9. ASSUME NEW h \in Hosts, PeerInsert(h) \/ AskedToConnect(h)
      PROVE  in' = in /\ \A s \in InStreams : peer'[s] = peer[s] /\ link'[s] = link[s]
                                              /\ (s \in doomed' => s \in doomed)
  BY <1>9, <1>1, <1>2, <1>5, <1>8
<1>10. ASSUME ReconTimeout
       PROVE  in' = in /\ \A s \in InStreams : peer'[s] = peer[s] /\ link'[s] = link[s]
                                               /\ (s \in doomed' => s \in doomed)
  BY <1>10, <1>1, <1>4, <1>5
<1> QED
  BY <1>3, <1>6, <1>7, <1>9, <1>10

\* The service starts without frames, and talking to nobody.
LEMMA VoiceStarts == VoiceInit => VoiceTypeOK
<1> SUFFICES ASSUME VoiceInit PROVE VoiceTypeOK
  OBVIOUS
<1>1. TypeOK
  BY InitHolds DEF VoiceInit, Inv
<1>2. 0 \in 0 .. QueueMax
  BY VoiceAssumption
<1>3. queued \in [InStreams -> 0 .. QueueMax]
  BY <1>2 DEF VoiceInit
<1> QED
  BY <1>1, <1>3 DEF VoiceInit, VoiceTypeOK

\* An outgoing slot, or one that changes no stream, leaves what is heard alone.
LEMMA HeardUntouched ==
  ASSUME HeardInv, UNCHANGED <<in, hearVars>>,
         \A s \in InStreams : peer'[s] = peer[s] /\ link'[s] = link[s]
                              /\ (s \in doomed' => s \in doomed)
  PROVE  (HeardAreUp /\ QueuesOfHeard /\ FriendsHeard)'
<1>1. HeardAreUp'
  BY DEF HeardInv, HeardAreUp, Inv, TypeOK
<1> QED
  BY <1>1 DEF HeardInv, QueuesOfHeard, FriendsHeard, IncomingHeard, DryPlaybackStops, hearVars

\* Every slot keeps the playback in step with the streams.
LEMMA HeardKept ==
  ASSUME HeardInv, [Next]_vars
  PROVE  (HeardAreUp /\ QueuesOfHeard /\ FriendsHeard)'
<1> USE PeerAssumption, VoiceAssumption
<1>a. /\ Inv /\ VoiceTypeOK /\ HeardAreUp /\ QueuesOfHeard /\ IncomingHeard /\ DryPlaybackStops
      /\ TypeOK
  BY DEF HeardInv, FriendsHeard, Inv
<1>b. /\ recv \subseteq InStreams /\ playing \subseteq recv /\ dry \subseteq recv
      /\ queued \in [InStreams -> Nat] /\ in \in [Hosts -> SUBSET InStreams]
  BY <1>a DEF VoiceTypeOK, TypeOK
<1>c. \A s \in InStreams : s \in Streams
  BY DEF Streams
<1>1. CASE \/ \E h \in Hosts : AddPeer(h) \/ DeleteFriend(h) \/ StartTalk(h)
           \/ Timeout \/ \E s \in OutStreams : OutStreamConnected(s) \/ OutStreamDisconnected(s)
  <2>1. UNCHANGED hearVars
    BY <1>1 DEF AddPeer, DeleteFriend, StartTalk, TalkEnabled, TalkDisabled, Timeout,
         OutStreamConnected, OutStreamDisconnected
  <2>2. \/ UNCHANGED peerVars
        \/ \E h \in Hosts : PeerInsert(h) \/ PeerRemove(h) \/ AskedToConnect(h)
        \/ ReconTimeout
        \/ \E s \in OutStreams : OutConnected(s) \/ OutDisconnected(s)
    BY <1>1 DEF AddPeer, DeleteFriend, StartTalk, TalkEnabled, TalkDisabled, Timeout,
         OutStreamConnected, OutStreamDisconnected
  <2>3. CASE UNCHANGED peerVars
    BY <2>1, <2>3, HeardUntouched DEF peerVars
  <2> QED
    BY <1>a, <2>1, <2>2, <2>3, OutgoingOnly, HeardUntouched
<1>2. ASSUME NEW h \in Hosts, NEW s \in InStreams, InStreamConnected(h, s)
      PROVE  (HeardAreUp /\ QueuesOfHeard /\ FriendsHeard)'
  <2>1. /\ peer[s] = None /\ in' = [in EXCEPT ![h] = @ \cup {s}] /\ recv' = recv \cup {s}
        /\ UNCHANGED <<queued, playing, dry>>
    BY <1>2 DEF InStreamConnected, InAccepted
  <2>2. /\ \A r \in InStreams : r # s => peer'[r] = peer[r] /\ link'[r] = link[r]
        /\ peer'[s] = h /\ link'[s] = "up"
        /\ \A r \in InStreams : r \in doomed' => r \in doomed
    <3>1. CASE UNCHANGED doomed /\ peer' = [peer EXCEPT ![s] = h] /\ link' = [link EXCEPT ![s] = "up"]
      BY <3>1, <1>a, <1>c DEF TypeOK
    <3>2. CASE /\ out[h] # None /\ doomed' = doomed \cup {out[h]}
               /\ \E n \in Free : /\ peer' = [peer EXCEPT ![s] = h, ![n] = h]
                                  /\ link' = [[link EXCEPT ![s] = "up"] EXCEPT ![n] = "wait"]
      <4>1. PICK n \in Free : /\ peer' = [peer EXCEPT ![s] = h, ![n] = h]
                              /\ link' = [[link EXCEPT ![s] = "up"] EXCEPT ![n] = "wait"]
        BY <3>2
      <4>2. n \notin InStreams /\ out[h] \notin InStreams
        BY <3>2, <1>a DEF Free, TypeOK
      <4> QED
        BY <3>2, <4>1, <4>2, <1>a, <1>c DEF TypeOK
    <3> QED
      BY <1>2, <3>1, <3>2 DEF InStreamConnected, InAccepted
  <2>3. s \notin recv /\ s \notin doomed
    BY <2>1, <1>a DEF HeardAreUp, IncomingHeard, Inv, DoomedUsed
  <2>4. HeardAreUp'
    <3>1. \A g \in Hosts : \A r \in in'[g] : r \in in[g] \/ (g = h /\ r = s)
      BY <2>1, <1>b
    <3>2. \A g \in Hosts : \A r \in in[g] : r # s /\ r \in InStreams
      BY <2>3, <1>a, <1>b DEF IncomingHeard
    <3> QED
      BY <3>1, <3>2, <2>2, <2>3, <1>a DEF HeardAreUp
  <2>5. IncomingHeard'
    <3>1. \A g \in Hosts : in'[g] = IF g = h THEN in[g] \cup {s} ELSE in[g]
      BY <2>1, <1>b
    <3> QED
      BY <3>1, <2>1, <1>a DEF IncomingHeard
  <2> QED
    BY <2>1, <2>4, <2>5, <1>a DEF QueuesOfHeard, FriendsHeard, DryPlaybackStops
<1>3. ASSUME NEW h \in Hosts, NEW s \in InStreams, InStreamRejected(h, s)
      PROVE  (HeardAreUp /\ QueuesOfHeard /\ FriendsHeard)'
  <2>1. /\ peer[s] = None /\ peer' = [peer EXCEPT ![s] = h] /\ link' = [link EXCEPT ![s] = "up"]
        /\ doomed' = doomed \cup {s} /\ UNCHANGED <<in, hearVars>>
    BY <1>3 DEF InStreamRejected, InRejected
  <2>2. \A g \in Hosts : \A r \in in[g] : r # s /\ r \in Streams
    BY <2>1, <1>a, <1>b, <1>c DEF HeardAreUp
  <2>3. HeardAreUp'
    BY <2>1, <2>2, <1>a DEF HeardAreUp, TypeOK
  <2> QED
    BY <2>1, <2>3, <1>a DEF QueuesOfHeard, FriendsHeard, IncomingHeard, DryPlaybackStops, hearVars
<1>4. ASSUME NEW s \in InStreams, InStreamDisconnected(s)
      PROVE  (HeardAreUp /\ QueuesOfHeard /\ FriendsHeard)'
  <2>1. /\ s \in in[peer[s]] /\ peer[s] \in Hosts /\ link' = [link EXCEPT ![s] = "down"]
        /\ in' = [in EXCEPT ![peer[s]] = @ \ {s}] /\ doomed' = doomed \cup {s} /\ peer' = peer
        /\ recv' = recv \ {s} /\ playing' = playing \ {s} /\ dry' = dry \ {s}
        /\ queued' = [queued EXCEPT ![s] = 0]
    BY <1>4, <1>a, <1>c DEF InStreamDisconnected, InDisconnected, TypeOK
  <2>2. \A g \in Hosts : s \in in[g] => g = peer[s]
    BY <1>a DEF HeardAreUp
  <2>3. \A g \in Hosts : in'[g] = in[g] \ {s}
    BY <2>1, <2>2, <1>b
  <2>4. HeardAreUp'
    BY <2>1, <2>3, <1>a, <1>b, <1>c DEF HeardAreUp, TypeOK
  <2>5. IncomingHeard'
    BY <2>1, <2>3, <1>a DEF IncomingHeard
  <2>6. QueuesOfHeard' /\ DryPlaybackStops'
    BY <2>1, <1>a, <1>b DEF QueuesOfHeard, DryPlaybackStops
  <2> QED
    BY <2>4, <2>5, <2>6 DEF FriendsHeard
<1>5. ASSUME NEW s \in InStreams, ReadyReadDatagram(s) \/ PlayFrame(s) \/ VoutQueueEmpty(s)
      PROVE  (HeardAreUp /\ QueuesOfHeard /\ FriendsHeard)'
  <2>1. UNCHANGED <<in, peer, link, doomed, recv>>
    BY <1>5 DEF ReadyReadDatagram, PlayFrame, VoutQueueEmpty, peerVars
  <2>2. HeardAreUp' /\ IncomingHeard'
    BY <2>1, <1>a DEF HeardAreUp, IncomingHeard
  <2>3. QueuesOfHeard'
    BY <1>5, <2>1, <1>a, <1>b DEF ReadyReadDatagram, PlayFrame, VoutQueueEmpty, QueuesOfHeard
  <2>4. DryPlaybackStops'
    <3>1. CASE ReadyReadDatagram(s)
      <4>1. queued'[s] > 0 /\ \A r \in InStreams : r # s => queued'[r] = queued[r]
        BY <3>1, <1>a, <1>b DEF ReadyReadDatagram
      <4>2. playing' \subseteq playing \cup {s} /\ dry' = dry
        BY <3>1 DEF ReadyReadDatagram
      <4> QED
        BY <4>1, <4>2, <1>a, <1>b DEF DryPlaybackStops
    <3>2. CASE PlayFrame(s)
      <4>1. /\ \A r \in InStreams : queued'[r] = IF r = s THEN queued[s] - 1 ELSE queued[r]
            /\ playing' = playing /\ dry' = IF queued[s] = 1 THEN dry \cup {s} ELSE dry
            /\ queued[s] \in Nat /\ queued[s] > 0
        BY <3>2, <1>b DEF PlayFrame
      <4> QED
        BY <4>1, <1>a, <1>b DEF DryPlaybackStops
    <3>3. CASE VoutQueueEmpty(s)
      BY <3>3, <1>a DEF VoutQueueEmpty, DryPlaybackStops
    <3> QED
      BY <1>5, <3>1, <3>2, <3>3
  <2> QED
    BY <2>2, <2>3, <2>4 DEF FriendsHeard
<1>6. ASSUME NEW s \in Streams, StreamDeleted(s)
      PROVE  (HeardAreUp /\ QueuesOfHeard /\ FriendsHeard)'
  <2>1. /\ s \in doomed /\ doomed' = doomed \ {s} /\ peer' = [peer EXCEPT ![s] = None]
        /\ link' = [link EXCEPT ![s] = "wait"] /\ UNCHANGED <<in, hearVars>>
    BY <1>6 DEF StreamDeleted, Delete
  <2>2. \A g \in Hosts : \A r \in in[g] : r # s /\ r \in Streams
    BY <2>1, <1>a, <1>b, <1>c DEF HeardAreUp
  <2>3. HeardAreUp'
    BY <2>1, <2>2, <1>a DEF HeardAreUp, TypeOK
  <2> QED
    BY <2>1, <2>3, <1>a DEF QueuesOfHeard, FriendsHeard, IncomingHeard, DryPlaybackStops, hearVars
<1>7. CASE VinReadyRead \/ UNCHANGED vars
  BY <1>7, HeardUntouched DEF VinReadyRead, vars, peerVars
<1> QED
  BY <1>1, <1>2, <1>3, <1>4, <1>5, <1>6, <1>7 DEF Next, User, Network, Local

\* For any hosts, streams and queue limits: exactly the streams that friends opened
\* and that are up have a playback (gotInStreamConnected and -Disconnected,
\* voice.cc:106, 127), and one that has run dry is about to be stopped (voutQueueEmpty, 199),
\* however the frames, the sound output and the closing of streams interleave.
THEOREM FriendsAreHeard == Spec => []FriendsHeard
<1>1. VoiceInit => HeardInv
  <2>1. VoiceInit => VoiceTypeOK /\ HeardAreUp /\ QueuesOfHeard /\ FriendsHeard
    BY VoiceStarts DEF VoiceInit, Init, HeardAreUp, QueuesOfHeard, FriendsHeard,
         IncomingHeard, DryPlaybackStops
  <2> QED
    BY <2>1, InitHolds DEF VoiceInit, HeardInv
<1>2. HeardInv /\ [Next]_vars => HeardInv'
  BY StepsOfPeers, StepKeeps, VoiceTypes, HeardKept DEF HeardInv
<1>3. HeardInv => FriendsHeard
  BY DEF HeardInv
<1> QED
  BY <1>1, <1>2, <1>3, PTL DEF Spec

-----------------------------------------------------------------------------
(* Whom the user talks to. *)

TalkInv == Inv /\ VoiceTypeOK /\ TalkingIsConnected /\ TalkColumnTruthful

\* A step of the peer service that is not the end of the stream s.
OtherStep(s) ==
  \/ \E h \in Hosts : PeerInsert(h) \/ PeerRemove(h) \/ AskedToConnect(h)
  \/ ReconTimeout
  \/ \E r \in OutStreams : OutConnected(r) \/ (r # s /\ OutDisconnected(r))
  \/ \E h \in Hosts, r \in InStreams : InRejected(h, r) \/ InAccepted(h, r)
  \/ \E r \in InStreams : InDisconnected(r)
  \/ \E r \in Streams : Delete(r)
  \/ UNCHANGED peerVars

\* A stream in use that is up stays so.
LEMMA StreamKept ==
  ASSUME Inv, NEW s \in OutStreams, peer[s] # None, s \notin doomed, link[s] = "up", OtherStep(s)
  PROVE  peer'[s] # None /\ link'[s] = "up"
<1> USE PeerAssumption
<1>a. /\ peer \in [Streams -> Hosts \cup {None}] /\ link \in [Streams -> {"wait", "up", "down"}]
      /\ s \in Streams /\ s \notin InStreams
  BY DEF Inv, TypeOK, Streams
<1>1. ASSUME NEW hs, NEW up, up \in [Streams -> {"wait", "up", "down"}], up[s] = "up", Reconnect(hs, up)
      PROVE  peer'[s] = peer[s] /\ link'[s] = "up"
  <2>1. PICK new \in [hs -> Free] :
          /\ peer' = [r \in Streams |-> IF \E h \in hs : new[h] = r
                                        THEN CHOOSE h \in hs : new[h] = r ELSE peer[r]]
          /\ link' = [r \in Streams |-> IF \E h \in hs : new[h] = r THEN "wait" ELSE up[r]]
    BY <1>1 DEF Reconnect
  <2>2. ~\E h \in hs : new[h] = s
    BY DEF Free
  <2> QED
    BY <2>1, <2>2, <1>1, <1>a
<1>2. CASE \E h \in Hosts : PeerInsert(h) \/ PeerRemove(h) \/ AskedToConnect(h)
  BY <1>1, <1>2, <1>a DEF PeerInsert, PeerRemove, AskedToConnect
<1>3. CASE ReconTimeout
  BY <1>1, <1>3, <1>a DEF ReconTimeout
<1>4. CASE \E r \in OutStreams : OutConnected(r)
  BY <1>4, <1>a DEF OutConnected
<1>5. ASSUME NEW r \in OutStreams, r # s, OutDisconnected(r)
      PROVE  peer'[s] # None /\ link'[s] = "up"
  <2> DEFINE down == [link EXCEPT ![r] = "down"]
  <2>2. down \in [Streams -> {"wait", "up", "down"}] /\ down[s] = "up"
    BY <1>5, <1>a
  <2>3. (link' = down /\ peer' = peer) \/ Reconnect({peer[r]}, down)
    BY <1>5 DEF OutDisconnected
  <2> HIDE DEF down
  <2> QED
    BY <2>2, <2>3, <1>1
<1>6. CASE \E h \in Hosts, r \in InStreams : InRejected(h, r)
  BY <1>6, <1>a DEF InRejected
<1>7. ASSUME NEW h \in Hosts, NEW r \in InStreams, InAccepted(h, r)
      PROVE  peer'[s] # None /\ link'[s] = "up"
  <2>1. CASE peer' = [peer EXCEPT ![r] = h] /\ link' = [link EXCEPT ![r] = "up"]
    BY <2>1, <1>a
  <2>2. CASE \E n \in Free : /\ peer' = [peer EXCEPT ![r] = h, ![n] = h]
                             /\ link' = [[link EXCEPT ![r] = "up"] EXCEPT ![n] = "wait"]
    BY <2>2, <1>a DEF Free
  <2> QED
    BY <1>7, <2>1, <2>2 DEF InAccepted
<1>8. CASE \E r \in InStreams : InDisconnected(r)
  BY <1>8, <1>a DEF InDisconnected
<1>9. CASE \E r \in Streams : Delete(r)
  BY <1>9, <1>a DEF Delete
<1>10. CASE UNCHANGED peerVars
  BY <1>10 DEF peerVars
<1> QED
  BY <1>2, <1>3, <1>4, <1>5, <1>6, <1>7, <1>8, <1>9, <1>10 DEF OtherStep

\* The microphone goes off with the last stream.
LEMMA MuteSends ==
  ASSUME VoiceTypeOK, TalkingIsConnected, NEW h \in Hosts, NEW up, Mute(h, up)
  PROVE  (vin' <=> sending' # {}) /\ sending' = sending \ {out[h]}
<1>1. /\ sending' = sending \ {out[h]} /\ None \notin sending
      /\ vin' = IF out[h] # None /\ sending' = {} THEN FALSE ELSE vin
  BY PeerAssumption DEF Mute, VoiceTypeOK
<1>2. vin <=> sending # {}
  BY DEF TalkingIsConnected
<1>3. CASE out[h] # None /\ sending' = {}
  <2>1. ~vin'
    BY <1>1, <1>3, Zenon
  <2> QED
    BY <1>1, <1>3, <2>1
<1>4. CASE ~(out[h] # None /\ sending' = {})
  <2>1. vin' = vin
    BY <1>1, <1>4, Zenon
  <2>2. sending # {} <=> sending' # {}
    BY <1>1, <1>4
  <2> QED
    BY <1>1, <1>2, <2>1, <2>2, Zenon
<1> QED
  BY <1>3, <1>4

\* What sending holds after a step: a stream that the user chose now, or one that
\* was there before and that the step does not end.
Steps ==
  /\ vin' <=> sending' # {}
  /\ \A s \in sending' :
       \/ s \notin sending /\ s \in send' /\ UNCHANGED peerVars /\ \E h \in Hosts : out[h] = s
       \/ s \in sending /\ (s \in send /\ out[peer[s]] = s => s \in send' /\ OtherStep(s))

LEMMA SendingSteps ==
  ASSUME Inv, VoiceTypeOK, TalkingIsConnected, [Next]_vars
  PROVE  Steps
<1>a. vin <=> sending # {}
  BY DEF TalkingIsConnected
<1>1. ASSUME UNCHANGED <<sending, vin>>, send \subseteq send', \A s \in sending : OtherStep(s)
      PROVE  Steps
  BY <1>1, <1>a DEF Steps
<1>2. ASSUME NEW h \in Hosts, AddPeer(h) \/ DeleteFriend(h) PROVE Steps
  BY <1>1, <1>2 DEF AddPeer, DeleteFriend, OtherStep
<1>3. ASSUME NEW h \in Hosts, StartTalk(h) PROVE Steps
  <2>1. CASE AskedToConnect(h) /\ UNCHANGED talkVars
    BY <1>1, <2>1 DEF talkVars, OtherStep
  <2>2. CASE sending' = sending \cup {out[h]} /\ send' = send \cup {out[h]} /\ vin' = TRUE
             /\ UNCHANGED peerVars
    <3>1. sending' # {}
      BY <2>2
    <3>2. \A s \in sending' :
            \/ s \notin sending /\ s \in send' /\ UNCHANGED peerVars /\ \E g \in Hosts : out[g] = s
            \/ s \in sending /\ (s \in send /\ out[peer[s]] = s => s \in send' /\ OtherStep(s))
      BY <2>2 DEF OtherStep
    <3> QED
      BY <2>2, <3>1, <3>2 DEF Steps
  <2>3. CASE TalkDisabled(h)
    <3>1. Mute(h, link) /\ UNCHANGED <<peerVars, send>>
      BY <2>3 DEF TalkDisabled
    <3>2. (vin' <=> sending' # {}) /\ sending' \subseteq sending
      BY <3>1, MuteSends
    <3> QED
      BY <3>1, <3>2 DEF OtherStep, Steps
  <2> QED
    BY <1>3, <2>1, <2>2, <2>3 DEF StartTalk, TalkEnabled
<1>4. ASSUME NEW r \in OutStreams, OutStreamConnected(r) PROVE Steps
  BY <1>1, <1>4 DEF OutStreamConnected, OtherStep
<1>5. ASSUME NEW r \in OutStreams, OutStreamDisconnected(r) PROVE Steps
  <2>1. OutDisconnected(r) /\ send' = send \ {r} /\ Mute(peer[r], [link EXCEPT ![r] = "down"])
    BY <1>5 DEF OutStreamDisconnected
  <2>2. peer[r] \in Hosts
    BY <2>1 DEF OutDisconnected, Inv, TypeOK, Streams
  <2>3. (vin' <=> sending' # {}) /\ sending' = sending \ {out[peer[r]]}
    BY <2>1, <2>2, MuteSends
  <2>4. ASSUME NEW s \in sending', s \in send, out[peer[s]] = s PROVE s \in send' /\ OtherStep(s)
    BY <2>1, <2>3, <2>4 DEF OtherStep
  <2> QED
    BY <2>3, <2>4 DEF Steps
<1>6. CASE Timeout \/ \E s \in Streams : StreamDeleted(s)
  BY <1>1, <1>6 DEF Timeout, StreamDeleted, OtherStep, talkVars
<1>7. CASE VinReadyRead
  BY <1>1, <1>7 DEF VinReadyRead, OtherStep
<1>8. ASSUME NEW h \in Hosts, NEW s \in InStreams, InStreamConnected(h, s) \/ InStreamRejected(h, s)
      PROVE  Steps
  BY <1>1, <1>8 DEF InStreamConnected, InStreamRejected, OtherStep, talkVars
<1>9. ASSUME NEW s \in InStreams, InStreamDisconnected(s) PROVE Steps
  BY <1>1, <1>9 DEF InStreamDisconnected, OtherStep
<1>10. ASSUME NEW s \in InStreams, ReadyReadDatagram(s) \/ PlayFrame(s) \/ VoutQueueEmpty(s)
       PROVE  Steps
  BY <1>1, <1>10 DEF ReadyReadDatagram, PlayFrame, VoutQueueEmpty, OtherStep, talkVars
<1>11. CASE UNCHANGED vars
  BY <1>1, <1>11 DEF vars, talkVars, OtherStep
<1>12. CASE User
  BY <1>2, <1>3, <1>12 DEF User
<1>13. CASE Network
  BY <1>4, <1>5, <1>8, <1>9, <1>10, <1>13 DEF Network
<1>14. CASE Local
  BY <1>6, <1>7, <1>10, <1>14 DEF Local
<1> QED
  BY <1>11, <1>12, <1>13, <1>14 DEF Next

\* A stream that is not stray is its host's and up: given up or ended, it would be
\* stray or out of sending.
LEMMA TalkingKept ==
  ASSUME TalkInv, [Next]_vars
  PROVE  TalkingIsConnected'
<1>a. Inv /\ VoiceTypeOK /\ TalkingIsConnected /\ Inv'
  BY StepsOfPeers, StepKeeps DEF TalkInv
<1>1. /\ vin' <=> sending' # {}
      /\ \A s \in sending' :
           \/ s \notin sending /\ s \in send' /\ UNCHANGED peerVars /\ \E h \in Hosts : out[h] = s
           \/ s \in sending /\ (s \in send /\ out[peer[s]] = s => s \in send' /\ OtherStep(s))
  BY <1>a, SendingSteps DEF Steps
<1>2. ASSUME NEW s \in sending' \ stray'
      PROVE  s \in send' /\ link'[s] = "up" /\ \E h \in Hosts : out'[h] = s
  <2>1. CASE UNCHANGED vars
    BY <2>1, <1>2, <1>a DEF vars, peerVars, talkVars, TalkingIsConnected
  <2>2. CASE Next
    <3>1. s \notin stray /\ s \notin doomed' /\ (s \in sending \/ link[s] = "up")
      BY <1>2, <2>2 DEF Next, Strays
    <3>2. CASE s \notin sending
      BY <1>1, <1>2, <3>1, <3>2 DEF peerVars
    <3>3. CASE s \in sending
      <4>1. s \in OutStreams /\ s \in Streams
        BY <3>3, <1>a DEF VoiceTypeOK, Streams
      <4>2. PICK h \in Hosts : out[h] = s
        BY <3>1, <3>3, <1>a DEF TalkingIsConnected
      <4>3. s \in send /\ link[s] = "up"
        BY <3>1, <3>3, <1>a DEF TalkingIsConnected
      <4>4. peer[s] = h /\ peer[s] # None
        BY <4>1, <4>2, <1>a, PeerAssumption DEF Inv, StreamsOwned
      <4>5. s \notin doomed
        BY <4>1, <4>2, <4>4, <1>a DEF Inv, OneStreamPerPeer
      <4>6. s \in send' /\ OtherStep(s)
        BY <1>1, <1>2, <3>3, <4>2, <4>3, <4>4
      <4>7. peer'[s] # None /\ link'[s] = "up"
        BY <4>1, <4>3, <4>4, <4>5, <4>6, <1>a, StreamKept
      <4>8. out'[peer'[s]] = s
        BY <3>1, <4>1, <4>7, <1>a DEF Inv, OneStreamPerPeer
      <4>9. peer'[s] \in Hosts
        BY <4>1, <4>7, <1>a DEF Inv, TypeOK
      <4> QED
        BY <4>6, <4>7, <4>8, <4>9
    <3> QED
      BY <3>2, <3>3
  <2> QED
    BY <2>1, <2>2
<1> QED
  BY <1>1, <1>2 DEF TalkingIsConnected

\* The new streams of some hosts are not connected yet.
LEMMA NewStreamsWait ==
  ASSUME Inv, NEW hs \in SUBSET Hosts,
         NEW up \in [Streams -> {"wait", "up", "down"}], Reconnect(hs, up)
  PROVE  /\ \A h \in hs : ~Connected(h)'
         /\ \A h \in Hosts \ hs : /\ out'[h] = out[h]
                                  /\ out[h] # None => link'[out[h]] = up[out[h]]
<1> USE PeerAssumption
<1>1. PICK new \in [hs -> Free] :
        /\ out' = [h \in Hosts |-> IF h \in hs THEN new[h] ELSE out[h]]
        /\ link' = [s \in Streams |-> IF \E h \in hs : new[h] = s THEN "wait" ELSE up[s]]
  BY DEF Reconnect
<1>2. \A h \in hs : /\ out'[h] = new[h] /\ peer[new[h]] = None /\ new[h] \in Streams
  BY <1>1 DEF Free, Streams
<1>3. ASSUME NEW h \in hs PROVE ~Connected(h)'
  <2>1. link'[new[h]] = "wait"
    BY <1>1, <1>2
  <2> QED
    BY <2>1, <1>2 DEF Connected
<1>4. ASSUME NEW h \in Hosts \ hs
      PROVE  out'[h] = out[h] /\ (out[h] # None => link'[out[h]] = up[out[h]])
  <2>1. out[h] # None => out[h] \in Streams /\ peer[out[h]] = h
    BY DEF Inv, TypeOK, StreamsOwned, Streams
  <2>2. \A g \in hs : new[g] = out[h] => out[h] = None
    BY <2>1, <1>2
  <2> QED
    BY <2>1, <2>2, <1>1
<1> QED
  BY <1>3, <1>4

\* A friend to whom nothing happens, ...
Steady(h) ==
  /\ h \in friends /\ out'[h] = out[h] /\ talk'[h] = talk[h]
  /\ out[h] \in sending' <=> out[h] \in sending
  /\ out[h] # None => link'[out[h]] = link[out[h]]

\* ... or whose row is brought up to date.
Said(h) == talk'[h] = IF out'[h] \in sending' THEN "Talking" ELSE "Silent"

\* Of a stream that is up updateStatus says what is so.
LEMMA StatusSays ==
  \A s, up, to : s # None /\ up[s] = "up" =>
    \A text \in Status(s, up, to) : text = IF s \in to THEN "Talking" ELSE "Silent"
BY DEF Status, IsConnected

LEMMA ColumnFollows ==
  ASSUME TalkColumnTruthful, \A h \in friends' : Steady(h) \/ ~Connected(h)' \/ Said(h)
  PROVE  TalkColumnTruthful'
<1> SUFFICES ASSUME NEW h \in friends', Connected(h)' PROVE Said(h)
  BY DEF TalkColumnTruthful, Said
<1>1. CASE Steady(h)
  <2>1. Connected(h)
    BY <1>1 DEF Steady, Connected
  <2> QED
    BY <1>1, <2>1 DEF Steady, TalkColumnTruthful, Said
<1> QED
  BY <1>1

\* Every slot leaves a friend's row true.
LEMMA ColumnKept ==
  ASSUME TalkInv, [Next]_vars
  PROVE  TalkColumnTruthful'
<1> USE PeerAssumption
<1>a. /\ TypeOK /\ Inv /\ VoiceTypeOK /\ TalkColumnTruthful /\ friends \subseteq Hosts
      /\ None \notin sending
  BY DEF TalkInv, Inv, TypeOK, VoiceTypeOK
<1>b. \A h \in Hosts : out[h] # None => out[h] \in Streams /\ out[h] \in OutStreams /\ peer[out[h]] = h
                                        /\ out[h] \notin doomed
  BY <1>a DEF Inv, StreamsOwned, OneStreamPerPeer, TypeOK, Streams
<1>c. /\ peer \in [Streams -> Hosts \cup {None}] /\ link \in [Streams -> {"wait", "up", "down"}]
      /\ talk \in [Hosts -> {"Offline", "Silent", "Talking"}] /\ out \in [Hosts -> OutStreams \cup {None}]
  BY <1>a DEF TypeOK, VoiceTypeOK
<1>d. \A g, h \in Hosts : g # h => out[g] # out[h] \/ (out[g] = None /\ out[h] = None)
  BY <1>b
<1> DEFINE Right(h) == Steady(h) \/ ~Connected(h)' \/ Said(h)
<1>1. ASSUME NEW h \in Hosts, AddPeer(h), NEW g \in friends' PROVE Right(g)
  <2>1. /\ friends' = friends \cup {h} /\ Reconnect({h}, link) /\ UNCHANGED sending
        /\ \E text \in Status(out[h], link, sending) : talk' = [talk EXCEPT ![h] = text]
    BY <1>1 DEF AddPeer, PeerInsert, UpdateStatus
  <2>2. {h} \in SUBSET Hosts
    OBVIOUS
  <2>3. /\ ~Connected(h)'
        /\ \A f \in Hosts \ {h} : out'[f] = out[f] /\ (out[f] # None => link'[out[f]] = link[out[f]])
    BY <2>1, <2>2, <1>a, <1>c, NewStreamsWait
  <2>4. g # h => talk'[g] = talk[g] /\ g \in friends /\ g \in Hosts
    BY <2>1, <1>a, <1>c, <1>1
  <2> QED
    BY <2>1, <2>3, <2>4 DEF Steady
<1>2. ASSUME NEW h \in Hosts, DeleteFriend(h), NEW g \in friends' PROVE Right(g)
  <2>1. /\ g \in friends /\ g # h /\ out'[g] = out[g] /\ talk'[g] = talk[g]
        /\ UNCHANGED <<link, sending>>
    BY <1>2, <1>a, <1>c DEF DeleteFriend, PeerRemove
  <2> QED
    BY <2>1 DEF Steady
<1>3. ASSUME NEW hs \in SUBSET friends, Reconnect(hs, link), UNCHANGED <<friends, talkVars>>,
             NEW g \in friends'
      PROVE  Right(g)
  <2>1. hs \in SUBSET Hosts /\ g \in Hosts /\ g \in friends
    BY <1>3, <1>a
  <2>2. /\ g \in hs => ~Connected(g)'
        /\ g \notin hs => out'[g] = out[g] /\ (out[g] # None => link'[out[g]] = link[out[g]])
    BY <2>1, <1>3, <1>a, <1>c, NewStreamsWait
  <2> QED
    BY <2>1, <2>2, <1>3 DEF Steady, talkVars
<1>4. ASSUME NEW h \in friends, out[h] # None, sending' = sending \cup {out[h]}, UNCHANGED peerVars,
             UpdateStatus(h, link, sending'), NEW g \in friends'
      PROVE  Right(g)
  <2>1. h \in Hosts /\ g \in friends /\ g \in Hosts /\ UNCHANGED <<out, link>>
    BY <1>4, <1>a DEF peerVars
  <2>2. PICK text \in Status(out[h], link, sending') : talk' = [talk EXCEPT ![h] = text]
    BY <1>4 DEF UpdateStatus
  <2>3. CASE g = h
    <3>1. talk'[h] = text
      BY <2>1, <2>2, <1>c
    <3> QED
      BY <2>1, <2>3, <3>1, <1>4, StatusSays DEF Connected, Said
  <2>4. CASE g # h
    BY <2>1, <2>2, <2>4, <1>4, <1>c, <1>d DEF Steady
  <2> QED
    BY <2>3, <2>4
<1>5. ASSUME NEW h \in friends, TalkDisabled(h), NEW g \in friends' PROVE Right(g)
  <2>1. /\ h \in Hosts /\ g \in friends /\ g \in Hosts /\ UNCHANGED <<out, link>>
        /\ sending' = sending \ {out[h]}
    BY <1>5, <1>a DEF TalkDisabled, Mute, peerVars
  <2>2. PICK text \in Status(out[h], link, sending') : talk' = [talk EXCEPT ![h] = text]
    BY <1>5 DEF TalkDisabled, Mute, UpdateFriend, UpdateStatus
  <2>3. CASE g = h
    <3>1. talk'[h] = text
      BY <2>1, <2>2, <1>c
    <3> QED
      BY <2>1, <2>3, <3>1, StatusSays DEF Connected, Said
  <2>4. CASE g # h
    BY <2>1, <2>2, <2>4, <1>a, <1>c, <1>d DEF Steady
  <2> QED
    BY <2>3, <2>4
<1>6. ASSUME NEW s \in OutStreams, OutStreamConnected(s), NEW g \in friends' PROVE Right(g)
  <2>1. /\ peer[s] \in Hosts /\ link' = [link EXCEPT ![s] = "up"] /\ g \in friends /\ g \in Hosts
        /\ UNCHANGED <<friends, out, sending>> /\ UpdateFriend(peer[s], link', sending)
    BY <1>6, <1>a, <1>c DEF OutStreamConnected, OutConnected, Streams
  <2>2. CASE g = peer[s]
    <3>1. PICK text \in Status(out[g], link', sending) : talk' = [talk EXCEPT ![g] = text]
      BY <2>1, <2>2 DEF UpdateFriend, UpdateStatus
    <3>2. talk'[g] = text
      BY <2>1, <3>1, <1>c
    <3> QED
      BY <2>1, <3>1, <3>2, StatusSays DEF Connected, Said
  <2>3. CASE g # peer[s]
    <3>1. out[g] # None => out[g] # s /\ out[g] \in Streams
      BY <2>1, <2>3, <1>b
    <3>2. talk'[g] = talk[g]
      BY <2>1, <2>3, <1>c DEF UpdateFriend, UpdateStatus
    <3> QED
      BY <2>1, <3>1, <3>2, <1>c DEF Steady
  <2> QED
    BY <2>2, <2>3
<1>7. ASSUME NEW s \in OutStreams, OutStreamDisconnected(s), NEW g \in friends' PROVE Right(g)
  <2> DEFINE down == [link EXCEPT ![s] = "down"]
  <2>0. PICK h \in Hosts : h = peer[s]
    BY <1>7, <1>c DEF OutStreamDisconnected, OutDisconnected, Streams
  <2>1. /\ g \in friends /\ g \in Hosts /\ sending' = sending \ {out[h]}
        /\ UpdateFriend(h, down, sending')
        /\ (link' = down /\ UNCHANGED out) \/ Reconnect({h}, down)
    BY <1>7, <2>0, <1>a DEF OutStreamDisconnected, OutDisconnected, Mute
  <2>2. down \in [Streams -> {"wait", "up", "down"}] /\ {h} \in SUBSET Hosts
    BY <1>c
  <2>3. \A r \in Streams : r # s => down[r] = link[r]
    BY <1>c
  <2> HIDE DEF down
  <2>4. CASE g = h
    <3>1. PICK text \in Status(out[g], down, sending') : talk' = [talk EXCEPT ![g] = text]
      BY <2>1, <2>4 DEF UpdateFriend, UpdateStatus
    <3>2. talk'[g] = text
      BY <2>1, <3>1, <1>c
    <3>3. CASE link' = down /\ UNCHANGED out
      BY <3>1, <3>2, <3>3, StatusSays DEF Connected, Said
    <3>4. CASE Reconnect({h}, down)
      BY <2>2, <2>4, <3>4, <1>a, NewStreamsWait
    <3> QED
      BY <2>1, <3>3, <3>4
  <2>5. CASE g # h
    <3>1. out[g] # None => out[g] # s /\ out[g] \in Streams
      BY <2>0, <2>1, <2>5, <1>b
    <3>2. talk'[g] = talk[g]
      BY <2>1, <2>5, <1>c DEF UpdateFriend, UpdateStatus
    <3>3. out'[g] = out[g] /\ (out[g] # None => link'[out[g]] = down[out[g]])
      BY <2>1, <2>2, <2>5, <1>a, NewStreamsWait
    <3>4. out[g] \in sending' <=> out[g] \in sending
      BY <2>1, <2>5, <1>a, <1>d
    <3> QED
      BY <2>1, <2>3, <3>1, <3>2, <3>3, <3>4 DEF Steady
  <2> QED
    BY <2>4, <2>5
<1>8. ASSUME NEW h \in Hosts, NEW s \in InStreams, InStreamConnected(h, s), NEW g \in friends'
      PROVE  Right(g)
  <2>1. /\ g \in friends /\ g \in Hosts /\ peer[s] = None /\ s \notin OutStreams /\ UNCHANGED talkVars
    BY <1>8, <1>a DEF InStreamConnected, InAccepted, Allowed
  <2>2. CASE UNCHANGED out /\ link' = [link EXCEPT ![s] = "up"]
    BY <2>1, <2>2, <1>b, <1>c DEF Steady, talkVars
  <2>3. CASE \E n \in Free : /\ out' = [out EXCEPT ![h] = n]
                             /\ link' = [[link EXCEPT ![s] = "up"] EXCEPT ![n] = "wait"]
    <3>1. PICK n \in Free : /\ out' = [out EXCEPT ![h] = n]
                            /\ link' = [[link EXCEPT ![s] = "up"] EXCEPT ![n] = "wait"]
      BY <2>3
    <3>2. n \in OutStreams /\ n \in Streams /\ peer[n] = None
      BY DEF Free, Streams
    <3>3. link'[n] = "wait" /\ \A r \in Streams : r \notin {n, s} => link'[r] = link[r]
      BY <3>1, <3>2, <1>c
    <3>4. \A f \in Hosts : out'[f] = IF f = h THEN n ELSE out[f]
      BY <3>1, <1>c
    <3>5. CASE g = h
      BY <3>3, <3>4, <3>5 DEF Connected
    <3>6. CASE g # h
      <4>1. out[g] # None => out[g] \in Streams /\ out[g] \notin {n, s}
        BY <2>1, <3>2, <1>b
      <4> QED
        BY <2>1, <3>3, <3>4, <3>6, <4>1 DEF Steady, talkVars
    <3> QED
      BY <3>5, <3>6
  <2> QED
    BY <1>8, <2>2, <2>3 DEF InStreamConnected, InAccepted
<1>9. ASSUME NEW h \in Hosts, NEW s \in InStreams, InStreamRejected(h, s), NEW g \in friends'
      PROVE  Right(g)
  <2>1. /\ link' = [link EXCEPT ![s] = "up"] /\ s \notin OutStreams
        /\ UNCHANGED <<friends, out, talkVars>>
    BY <1>9 DEF InStreamRejected, InRejected
  <2> QED
    BY <2>1, <1>9, <1>a, <1>b, <1>c DEF Steady, talkVars
<1>10. ASSUME NEW s \in InStreams, InStreamDisconnected(s), NEW g \in friends' PROVE Right(g)
  <2>1. /\ link' = [link EXCEPT ![s] = "down"] /\ s \notin OutStreams /\ g \in friends /\ g \in Hosts
        /\ UNCHANGED <<friends, out, sending>> /\ UpdateFriend(peer[s], link, sending)
    BY <1>10, <1>a DEF InStreamDisconnected, InDisconnected
  <2>2. out[g] # None => link'[out[g]] = link[out[g]]
    BY <2>1, <1>b, <1>c
  <2>3. CASE g = peer[s]
    <3>1. PICK text \in Status(out[g], link, sending) : talk' = [talk EXCEPT ![g] = text]
      BY <2>1, <2>3 DEF UpdateFriend, UpdateStatus
    <3>2. talk'[g] = text
      BY <2>1, <3>1, <1>c
    <3> QED
      BY <2>1, <2>2, <3>1, <3>2, StatusSays DEF Connected, Said
  <2>4. CASE g # peer[s]
    <3>1. talk'[g] = talk[g]
      BY <2>1, <2>4, <1>c DEF UpdateFriend, UpdateStatus
    <3> QED
      BY <2>1, <2>2, <3>1 DEF Steady
  <2> QED
    BY <2>3, <2>4
<1>11. ASSUME NEW s \in Streams, StreamDeleted(s), NEW g \in friends' PROVE Right(g)
  <2>1. /\ s \in doomed /\ link' = [link EXCEPT ![s] = "wait"] /\ UNCHANGED <<friends, out, talkVars>>
    BY <1>11 DEF StreamDeleted, Delete
  <2>2. g \in friends /\ g \in Hosts
    BY <2>1, <1>11, <1>a
  <2> QED
    BY <2>1, <2>2, <1>b, <1>c DEF Steady, talkVars
<1>12. ASSUME UNCHANGED <<friends, out, link, sending, talk>>, NEW g \in friends' PROVE Right(g)
  BY <1>12 DEF Steady
<1>13. ASSUME Timeout, NEW g \in friends' PROVE Right(g)
  <2>1. Unconnected \in SUBSET friends
    BY DEF Unconnected
  <2>2. UNCHANGED <<friends, talkVars>> /\ (Reconnect(Unconnected, link) \/ UNCHANGED <<out, link>>)
    BY <1>13 DEF Timeout, ReconTimeout
  <2> QED
    BY <1>3, <1>12, <2>1, <2>2 DEF talkVars
<1>14. ASSUME NEW h \in Hosts, StartTalk(h), NEW g \in friends' PROVE Right(g)
  <2>1. h \in friends /\ {h} \in SUBSET friends
    BY <1>14 DEF StartTalk
  <2>2. CASE AskedToConnect(h) /\ UNCHANGED talkVars
    BY <2>1, <2>2, <1>3 DEF AskedToConnect
  <2>3. CASE TalkDisabled(h)
    BY <2>1, <2>3, <1>5
  <2>4. CASE /\ out[h] # None /\ sending' = sending \cup {out[h]} /\ UNCHANGED peerVars
             /\ UpdateStatus(h, link, sending')
    BY <2>1, <2>4, <1>4
  <2> QED
    BY <1>14, <2>2, <2>3, <2>4 DEF StartTalk, TalkEnabled
<1>15. ASSUME \/ VinReadyRead \/ UNCHANGED vars
              \/ \E s \in InStreams : ReadyReadDatagram(s) \/ PlayFrame(s) \/ VoutQueueEmpty(s),
              NEW g \in friends'
       PROVE  Right(g)
  <2>1. UNCHANGED <<friends, out, link, sending, talk>>
    BY <1>15 DEF VinReadyRead, ReadyReadDatagram, PlayFrame, VoutQueueEmpty, vars, talkVars, peerVars
  <2> QED
    BY <2>1, <1>12
<1> HIDE DEF Right
<1>16. \A g \in friends' : Right(g)
  BY <1>1, <1>2, <1>6, <1>7, <1>8, <1>9, <1>10, <1>11, <1>13, <1>14, <1>15
     DEF Next, User, Network, Local
<1> QED
  BY <1>16, <1>a, ColumnFollows DEF Right

\* For any hosts, streams and queue limits, whatever the links, the timer, the user, the
\* allocator and isConnected() do: the microphone is on just as long as frames go
\* anywhere, a stream that gets them is its host's and up unless it was given up or
\* never was up, and the Talk column says of each friend who is connected whether he
\* hears the user (setTalkEnabled, gotOutStreamDisconnected, updateStatus, voice.cc:32, 90, 213).
THEOREM TalkIsTold == Spec => []TalkTold
<1>1. VoiceInit => TalkInv
  <2> SUFFICES ASSUME VoiceInit PROVE TalkInv
    OBVIOUS
  <2>1. Inv /\ VoiceTypeOK
    BY InitHolds, VoiceStarts DEF VoiceInit
  <2>2. \A h \in Hosts : ~Connected(h)
    BY <2>1, PeerAssumption DEF VoiceInit, Init, Inv, TypeOK, Streams, Connected
  <2>3. TalkingIsConnected
    BY DEF VoiceInit, TalkingIsConnected
  <2> QED
    BY <2>1, <2>2, <2>3 DEF TalkInv, TalkColumnTruthful, Inv, TypeOK
<1>2. TalkInv /\ [Next]_vars => TalkInv'
  BY StepsOfPeers, StepKeeps, VoiceTypes, TalkingKept, ColumnKept DEF TalkInv
<1>3. TalkInv => TalkTold
  BY DEF TalkInv, TalkTold
<1> QED
  BY <1>1, <1>2, <1>3, PTL DEF Spec
=============================================================================
