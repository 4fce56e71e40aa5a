------------------------- MODULE ChunkShare_proofs -------------------------
(***************************************************************************)
(* Theorems about ChunkShare, for any number of readers, peers and chunks, *)
(* and in the second part about the downloads that its readers serve, for  *)
(* any tree of files and directories (UpdateAction, by MCUpdateAction's    *)
(* names).                                                                 *)
(***************************************************************************)
EXTENDS ChunkShare, MCUpdateAction, FiniteSetTheorems, WellFoundedInduction, TLAPS

LEMMA MessageTypes ==
  ASSUME NEW c \in Chunks
  PROVE  /\ StatusRequest(c) \in Request
         /\ ChunkRequest(c) \in Request
         /\ \A st \in {"online", "unknown"} : StatusReply(c, st) \in Reply
         /\ \A d \in {"data", "bad", "empty"} : ChunkReply(c, d) \in Reply
  BY DEF StatusRequest, ChunkRequest, StatusReply, ChunkReply, Request, Reply

\* What check_peers may do to a peer: nothing, or start one download of a chunk
\* that no other peer is downloading.
Kept(p, cur, out) == current'[p] = cur[p] /\ toPeer'[p] = out[p]
Started(p, cur, out) ==
  /\ p \in connected
  /\ cur[p] = NoChunk
  /\ current'[p] \in Chunks
  /\ toPeer'[p] = Append(out[p], ChunkRequest(current'[p]))
  /\ \A q \in Peers \ {p} : current'[q] # current'[p]

LEMMA CheckPeersEffect ==
  ASSUME NEW reqs \in SUBSET Chunks,
         NEW wish \in [Peers -> SUBSET Chunks],
         NEW cur \in [Peers -> Chunks \cup {NoChunk}],
         NEW out \in [Peers -> Seq(Request)],
         CheckPeers(reqs, wish, cur, out)
  PROVE  /\ current' \in [Peers -> Chunks \cup {NoChunk}]
         /\ wishlist' \in [Peers -> SUBSET Chunks]
         /\ toPeer' \in [Peers -> Seq(Request)]
         /\ \A p \in Peers : Kept(p, cur, out) \/ Started(p, cur, out)
<1> DEFINE Idle(p) == CanWork(p, cur, wish)
           Wanted(p) == wish[p] \cap reqs
<1>1. PICK pick \in [Peers -> Chunks \cup {NoChunk}], keep \in [Peers -> SUBSET Chunks] :
        /\ \A p \in Peers :
             IF Idle(p)
             THEN /\ pick[p] \in Wanted(p) \cup {NoChunk}
                  /\ \A q \in Peers \ {p} : pick[p] # NoChunk => pick[q] # pick[p]
             ELSE pick[p] = cur[p]
        /\ current' = pick
        /\ wishlist' = keep
        /\ toPeer' = [p \in Peers |-> IF Idle(p) /\ pick[p] # NoChunk
                                      THEN Append(out[p], ChunkRequest(pick[p]))
                                      ELSE out[p]]
  BY DEF CheckPeers, NoOneElse
<1>2. toPeer' \in [Peers -> Seq(Request)]
  <2> SUFFICES ASSUME NEW p \in Peers, Idle(p), pick[p] # NoChunk
               PROVE  Append(out[p], ChunkRequest(pick[p])) \in Seq(Request)
    BY <1>1
  <2>1. ChunkRequest(pick[p]) \in Request
    BY <1>1, MessageTypes
  <2>2. QED
    BY <2>1
<1>3. ASSUME NEW p \in Peers
      PROVE  Kept(p, cur, out) \/ Started(p, cur, out)
  <2>1. CASE Idle(p) /\ pick[p] # NoChunk
    BY <1>1, <2>1 DEF Started, CanWork
  <2>2. CASE Idle(p) /\ pick[p] = NoChunk
    BY <1>1, <2>2 DEF Kept, CanWork
  <2>3. CASE ~Idle(p)
    BY <1>1, <2>3 DEF Kept
  <2>4. QED
    BY <2>1, <2>2, <2>3
<1>4. QED
  BY <1>1, <1>2, <1>3

\* The part of TypeOK that the request table and the callback loop make up.
TableOK ==
  /\ requests \subseteq Chunks
  /\ readers \in [Chunks -> SUBSET Readers]
  /\ potentials \in [Chunks -> SUBSET Peers]
  /\ status \in [Chunks -> [Peers -> ChunkStatus]]
  /\ call \in [kind : {"none", "got_data", "no_data"}, ohash : Chunks \cup {NoChunk},
               left : SUBSET Readers, begun : BOOLEAN]

LEMMA DropPotentialType ==
  ASSUME TableOK, NEW p \in Peers, NEW c \in Chunks, NEW st \in ChunkStatus,
         DropPotential(p, c, st)
  PROVE  TableOK'
<1>1. CASE OtherSources(p, c) = {}
  <2>1. Forget(c) /\ call' = CallReaders("no_data", c)
    BY <1>1 DEF DropPotential
  <2>2. QED
    BY <2>1 DEF TableOK, Forget, CallReaders, ChunkStatus
<1>2. CASE OtherSources(p, c) # {}
  <2>1. /\ potentials' = [potentials EXCEPT ![c] = OtherSources(p, c)]
        /\ status' = [status EXCEPT ![c] = [@ EXCEPT ![p] = st]]
        /\ UNCHANGED <<requests, readers, call>>
    BY <1>2 DEF DropPotential
  <2>2. [status[c] EXCEPT ![p] = st] \in [Peers -> ChunkStatus]
    BY DEF TableOK
  <2>3. QED
    BY <2>1, <2>2 DEF TableOK, OtherSources
<1>3. QED
  BY <1>1, <1>2

\* Every variable keeps its type, for any constants.
THEOREM TypeCorrect == Spec => []TypeOK
<1>1. Init => TypeOK
  BY ChunkAssumption DEF Init, TypeOK, NoCall, ChunkStatus
<1>2. TypeOK /\ [Next]_vars => TypeOK'
  <2> SUFFICES ASSUME TypeOK, [Next]_vars PROVE TypeOK'
    OBVIOUS
  <2>table. TableOK
    BY DEF TypeOK, TableOK
  <2>1. ASSUME NEW r \in Readers, NEW c \in Chunks, ReadChunk(r, c) PROVE TypeOK'
    <3>1. reads' \in 0 .. MaxReads
      BY <2>1, ChunkAssumption DEF TypeOK, ReadChunk
    <3>2. UNCHANGED <<peerVars, connected, fromPeer, stores, ctlVars>>
      BY <2>1 DEF ReadChunk
    <3>3. CASE c \in LocalChunks
      BY <2>1, <3>1, <3>2, <3>3 DEF TypeOK, ReadChunk, reqVars, peerVars, ctlVars
    <3>4. CASE c \notin LocalChunks
      <4>1. StatusRequest(c) \in Request
        BY MessageTypes
      <4>2. toPeer' = [q \in Peers |-> IF q \in connected
                                       THEN Append(toPeer[q], StatusRequest(c))
                                       ELSE toPeer[q]]
        BY <2>1, <3>4 DEF ReadChunk
      <4>3. toPeer' \in [Peers -> Seq(Request)]
        BY <4>1, <4>2 DEF TypeOK
      <4>4. status' \in [Chunks -> [Peers -> ChunkStatus]]
        <5>1. status' = [status EXCEPT ![c] =
                          [q \in Peers |-> IF q \in connected THEN "invalid" ELSE status[c][q]]]
          BY <2>1, <3>4 DEF ReadChunk, Reachable
        <5>2. [q \in Peers |-> IF q \in connected THEN "invalid" ELSE status[c][q]]
                \in [Peers -> ChunkStatus]
          BY DEF TypeOK, ChunkStatus
        <5>3. QED
          BY <5>1, <5>2 DEF TypeOK
      <4>5. potentials' \in [Chunks -> SUBSET Peers]
        <5>1. potentials' = [potentials EXCEPT ![c] = @ \cup connected]
          BY <2>1, <3>4 DEF ReadChunk, Reachable
        <5>2. QED
          BY <5>1 DEF TypeOK
      <4>6. /\ requests' \subseteq Chunks
            /\ readers' \in [Chunks -> SUBSET Readers]
            /\ pending' \subseteq Readers \X Chunks
        <5>1. /\ requests' = requests \cup {c}
              /\ readers' = [readers EXCEPT ![c] = @ \cup {r}]
              /\ pending' = pending \cup {<<r, c>>}
          BY <2>1, <3>4 DEF ReadChunk
        <5>2. readers' \in [Chunks -> SUBSET Readers]
          BY <5>1 DEF TypeOK
        <5>3. <<r, c>> \in Readers \X Chunks
          OBVIOUS
        <5>4. QED
          BY <5>1, <5>2, <5>3 DEF TypeOK
      <4>7. QED
        BY <3>1, <3>2, <4>3, <4>4, <4>5, <4>6 DEF TypeOK, peerVars, ctlVars
    <3>5. QED
      BY <3>3, <3>4
  <2>2. ASSUME NEW r \in Readers, CallReader(r) PROVE TypeOK'
    BY <2>2 DEF TypeOK, CallReader, reqVars, peerVars, netVars
  <2>3. ASSUME EndNoData PROVE TypeOK'
    BY <2>3, ChunkAssumption
    DEF TypeOK, EndNoData, NoCall, reqVars, peerVars, netVars, histVars
  <2>4. ASSUME EndGotData PROVE TypeOK'
    <3>1. /\ current' \in [Peers -> Chunks \cup {NoChunk}]
          /\ wishlist' \in [Peers -> SUBSET Chunks]
          /\ toPeer' \in [Peers -> Seq(Request)]
      BY <2>4, CheckPeersEffect DEF TypeOK, EndGotData
    <3>2. TableOK'
      BY <2>4, <2>table DEF TableOK, EndGotData, Forget, NoCall, ChunkStatus
    <3>3. QED
      BY <2>4, <3>1, <3>2 DEF TypeOK, TableOK, EndGotData, histVars
  <2>5. ASSUME NEW p \in Peers, GotStatusReply(p) PROVE TypeOK'
    <3> DEFINE c == Head(fromPeer[p]).ohash
               st == Head(fromPeer[p]).body
    <3>1. /\ fromPeer' \in [Peers -> Seq(Reply)]
          /\ c \in Chunks /\ st \in {"online", "unknown"}
      <4>1. fromPeer[p] \in Seq(Reply) /\ fromPeer[p] # <<>>
        BY <2>5 DEF TypeOK, GotStatusReply, Receive
      <4>2. Head(fromPeer[p]) \in Reply /\ Tail(fromPeer[p]) \in Seq(Reply)
        BY <4>1
      <4>3. Head(fromPeer[p]).type = "status_reply"
        BY <2>5 DEF GotStatusReply, Receive
      <4>4. QED
        BY <2>5, <4>2, <4>3 DEF TypeOK, GotStatusReply, Receive, Reply
    <3>2. CASE c \notin requests
      BY <2>5, <3>1, <3>2 DEF TypeOK, GotStatusReply, reqVars, histVars
    <3>3. CASE c \in requests /\ st = "online"
      <4>1. CheckPeers(requests, Wishing(p, c), current, toPeer)
        BY <2>5, <3>3 DEF GotStatusReply
      <4>2. Wishing(p, c) \in [Peers -> SUBSET Chunks]
        BY <3>1 DEF TypeOK, Wishing
      <4> HIDE DEF c, st
      <4>3. /\ current' \in [Peers -> Chunks \cup {NoChunk}]
            /\ wishlist' \in [Peers -> SUBSET Chunks]
            /\ toPeer' \in [Peers -> Seq(Request)]
        BY <4>1, <4>2, CheckPeersEffect DEF TypeOK
      <4>4. QED
        <5>1. UNCHANGED <<requests, readers, potentials, call, peers, connected, stores,
                          sweep, histVars>>
          BY <2>5, <3>3 DEF GotStatusReply, c, st
        <5>2. status' = [status EXCEPT ![c] = [@ EXCEPT ![p] = "online"]]
          BY <2>5, <3>3 DEF GotStatusReply, c, st
        <5>3. status' \in [Chunks -> [Peers -> ChunkStatus]]
          <6>1. [status[c] EXCEPT ![p] = "online"] \in [Peers -> ChunkStatus]
            BY <3>1 DEF TypeOK, ChunkStatus
          <6>2. QED
            BY <5>2, <6>1 DEF TypeOK
        <5>4. QED
          BY <3>1, <4>3, <5>1, <5>3 DEF TypeOK, histVars
    <3>4. CASE c \in requests /\ st # "online"
      <4>1. DropPotential(p, c, st)
        BY <2>5, <3>4 DEF GotStatusReply
      <4>2. TableOK'
        BY <2>table, <3>1, <4>1, DropPotentialType DEF ChunkStatus
      <4>3. UNCHANGED <<wishlist, current, toPeer, peers, connected, stores, sweep, histVars>>
        BY <2>5, <3>4 DEF GotStatusReply
      <4>4. QED
        BY <3>1, <4>2, <4>3 DEF TypeOK, TableOK, histVars
    <3>5. QED
      BY <3>2, <3>3, <3>4
  <2>6. ASSUME NEW p \in Peers, GotChunkReply(p) PROVE TypeOK'
    <3> DEFINE c == Head(fromPeer[p]).ohash
    <3>1. fromPeer' \in [Peers -> Seq(Reply)] /\ c \in Chunks
      <4>1. fromPeer[p] \in Seq(Reply) /\ fromPeer[p] # <<>>
        BY <2>6 DEF TypeOK, GotChunkReply, Receive
      <4>2. Head(fromPeer[p]) \in Reply /\ Tail(fromPeer[p]) \in Seq(Reply)
        BY <4>1
      <4>3. QED
        BY <2>6, <4>2 DEF TypeOK, GotChunkReply, Receive, Reply
    <3>2. /\ wishlist' \in [Peers -> SUBSET Chunks]
          /\ current' \in [Peers -> Chunks \cup {NoChunk}]
      <4>1. CASE UNCHANGED <<wishlist, current>>
        BY <4>1 DEF TypeOK
      <4>2. CASE /\ wishlist' = [wishlist EXCEPT ![p] = @ \ {c}]
                 /\ current' = [current EXCEPT ![p] = IF @ = c THEN NoChunk ELSE @]
        <5> HIDE DEF c
        <5>1. QED
          BY <4>2 DEF TypeOK
      <4>3. QED
        BY <2>6, <4>1, <4>2 DEF GotChunkReply
    <3>3. TableOK'
      <4>1. CASE UNCHANGED <<reqVars, call>>
        BY <4>1, <2>table DEF TableOK, reqVars
      <4>2. CASE call' = CallReaders("got_data", c) /\ UNCHANGED reqVars
        BY <4>2, <3>1, <2>table DEF TableOK, reqVars, CallReaders
      <4>3. CASE DropPotential(p, c, "lost")
        BY <4>3, <3>1, <2>table, DropPotentialType DEF ChunkStatus
      <4>4. QED
        BY <2>6, <4>1, <4>2, <4>3 DEF GotChunkReply
    <3>4. QED
      BY <2>6, <3>1, <3>2, <3>3 DEF TypeOK, TableOK, GotChunkReply, histVars
  <2>7. ASSUME NEW p \in Peers, GotOutStreamConnected(p) PROVE TypeOK'
    <3>1. toPeer' \in [Peers -> Seq(Request)]
      <4>1. PICK order \in [1 .. Cardinality(requests) -> requests] :
              toPeer' = [toPeer EXCEPT ![p] = [i \in DOMAIN order |-> StatusRequest(order[i])]]
        BY <2>7 DEF GotOutStreamConnected, Resent
      <4>2. [i \in DOMAIN order |-> StatusRequest(order[i])] \in Seq(Request)
        <5>1. \A i \in DOMAIN order : StatusRequest(order[i]) \in Request
          BY <4>1, MessageTypes DEF TypeOK
        <5>2. Cardinality(requests) \in Nat
          BY ChunkAssumption, FS_Subset, FS_CardinalityType DEF TypeOK
        <5>3. QED
          BY <4>1, <5>1, <5>2
      <4>3. QED
        BY <4>1, <4>2 DEF TypeOK
    <3>2. QED
      BY <2>7, <3>1 DEF TypeOK, GotOutStreamConnected, Resent, FindOrCreate, ChunkStatus, ctlVars, histVars
  <2>8. ASSUME NEW p \in Peers, GotOutStreamDisconnected(p) PROVE TypeOK'
    BY <2>8 DEF TypeOK, GotOutStreamDisconnected, reqVars, peerVars, histVars
  <2>9. ASSUME NEW p \in Peers, GotInStreamConnected(p) PROVE TypeOK'
    BY <2>9 DEF TypeOK, GotInStreamConnected, FindOrCreate, reqVars, netVars, ctlVars, histVars
  <2>10. ASSUME NEW p \in Peers, NEW type, NEW reply \in Reply, Answer(p, type, reply)
         PROVE TypeOK'
    BY <2>10 DEF TypeOK, Answer, reqVars, peerVars, ctlVars, histVars
  <2>11. ASSUME NEW p \in Peers, toPeer[p] # <<>>
         PROVE  Head(toPeer[p]).ohash \in Chunks
    <3>1. toPeer[p] \in Seq(Request)
      BY DEF TypeOK
    <3>2. Head(toPeer[p]) \in Request
      BY <2>11, <3>1
    <3>3. QED
      BY <3>2 DEF Request
  <2>12. ASSUME NEW p \in Peers, GotStatusRequest(p) PROVE TypeOK'
    BY <2>10, <2>11, <2>12, MessageTypes DEF GotStatusRequest, Answer
  <2>13. ASSUME NEW p \in Peers, GotChunkRequest(p) PROVE TypeOK'
    BY <2>10, <2>11, <2>13, MessageTypes DEF GotChunkRequest, Answer
  <2>14. ASSUME NEW p \in Peers, GotChunkRequestCorrupt(p) PROVE TypeOK'
    BY <2>10, <2>11, <2>14, MessageTypes DEF GotChunkRequestCorrupt, Answer
  <2>15. ASSUME NEW p \in Peers, NEW c \in Chunks, RemoveFromRequest(p, c) PROVE TypeOK'
    <3>1. TableOK'
      BY <2>15, <2>table, DropPotentialType DEF RemoveFromRequest, ChunkStatus
    <3>2. QED
      BY <2>15, <3>1 DEF TypeOK, TableOK, RemoveFromRequest, peerVars, netVars, histVars
  <2>16. ASSUME NEW p \in Peers, NEW c \in Chunks, StoreChanges(p, c) PROVE TypeOK'
    BY <2>16 DEF TypeOK, StoreChanges, reqVars, peerVars, netVars, ctlVars, histVars
  <2>17. ASSUME UNCHANGED vars PROVE TypeOK'
    BY <2>17 DEF TypeOK, vars, reqVars, peerVars, netVars, ctlVars, histVars
  <2>18. QED
    BY <2>1, <2>2, <2>3, <2>4, <2>5, <2>6, <2>7, <2>8, <2>9, <2>12, <2>13, <2>14,
       <2>15, <2>16, <2>17 DEF Next
<1>3. QED
  BY <1>1, <1>2, PTL DEF Spec

-----------------------------------------------------------------------------
(* One downloader per chunk. *)

LEMMA CheckPeersExclusive ==
  ASSUME NEW reqs \in SUBSET Chunks,
         NEW wish \in [Peers -> SUBSET Chunks],
         NEW out \in [Peers -> Seq(Request)],
         TypeOK, ExclusiveDownload,
         CheckPeers(reqs, wish, current, out)
  PROVE  ExclusiveDownload'
<1>1. \A p \in Peers : Kept(p, current, out) \/ Started(p, current, out)
  <2>1. current \in [Peers -> Chunks \cup {NoChunk}]
    BY DEF TypeOK
  <2>2. QED
    BY <2>1, CheckPeersEffect
<1>2. \A p \in Peers :
         \/ current'[p] = current[p]
         \/ \A q \in Peers \ {p} : current'[q] # current'[p]
  BY <1>1 DEF Kept, Started
<1>3. QED
  BY <1>2 DEF ExclusiveDownload

\* Never are two peers downloading one chunk, for any number of peers.
THEOREM OneDownloader == Spec => []ExclusiveDownload
<1>1. Init => ExclusiveDownload
  BY DEF Init, ExclusiveDownload
<1>2. TypeOK /\ ExclusiveDownload /\ [Next]_vars => ExclusiveDownload'
  <2> SUFFICES ASSUME TypeOK, ExclusiveDownload, [Next]_vars PROVE ExclusiveDownload'
    OBVIOUS
  <2>1. ASSUME UNCHANGED current PROVE ExclusiveDownload'
    BY <2>1 DEF ExclusiveDownload
  <2>2. ASSUME NEW p \in Peers, NEW b \in {NoChunk, current[p]},
               current' = [current EXCEPT ![p] = b]
        PROVE  ExclusiveDownload'
    BY <2>2 DEF ExclusiveDownload, TypeOK
  <2>3. ASSUME EndGotData PROVE ExclusiveDownload'
    BY <2>3, CheckPeersExclusive DEF EndGotData, TypeOK
  <2>4. ASSUME NEW p \in Peers, GotStatusReply(p) PROVE ExclusiveDownload'
    <3> DEFINE c == Head(fromPeer[p]).ohash
    <3>1. CASE UNCHANGED current
      BY <2>1, <3>1
    <3>2. CASE /\ c \in requests
               /\ CheckPeers(requests, Wishing(p, c), current, toPeer)
      <4>1. Wishing(p, c) \in [Peers -> SUBSET Chunks]
        <5>1. c \in Chunks
          BY <3>2 DEF TypeOK
        <5> HIDE DEF c
        <5>2. QED
          BY <5>1 DEF TypeOK, Wishing
      <4>2. QED
        BY <3>2, <4>1, CheckPeersExclusive DEF TypeOK
    <3>3. QED
      BY <2>4, <3>1, <3>2 DEF GotStatusReply
  <2>5. ASSUME NEW p \in Peers, GotChunkReply(p) PROVE ExclusiveDownload'
    <3>1. \/ UNCHANGED current
          \/ \E b \in {NoChunk, current[p]} : current' = [current EXCEPT ![p] = b]
      BY <2>5 DEF GotChunkReply
    <3>2. QED
      BY <2>1, <2>2, <3>1
  <2>6. ASSUME NEW p \in Peers, GotOutStreamConnected(p) PROVE ExclusiveDownload'
    BY <2>2, <2>6 DEF GotOutStreamConnected, Resent
  <2>7. ASSUME \/ \E r \in Readers, c \in Chunks : ReadChunk(r, c)
               \/ \E r \in Readers : CallReader(r)
               \/ EndNoData
               \/ \E p \in Peers : \/ GotOutStreamDisconnected(p)
                                   \/ GotInStreamConnected(p)
                                   \/ GotStatusRequest(p)
                                   \/ GotChunkRequest(p)
                                   \/ GotChunkRequestCorrupt(p)
               \/ \E p \in Peers, c \in Chunks : RemoveFromRequest(p, c) \/ StoreChanges(p, c)
               \/ UNCHANGED vars
        PROVE  ExclusiveDownload'
    BY <2>1, <2>7
    DEF ReadChunk, CallReader, EndNoData, GotOutStreamDisconnected, GotInStreamConnected,
        GotStatusRequest, GotChunkRequest, GotChunkRequestCorrupt, Answer,
        RemoveFromRequest, StoreChanges, peerVars, vars
  <2>8. QED
    BY <2>3, <2>4, <2>5, <2>6, <2>7 DEF Next
<1>3. QED
  BY <1>1, <1>2, TypeCorrect, PTL DEF Spec

-----------------------------------------------------------------------------
(* One chunk message per stream. *)

LEMMA StatusRequestAppended ==
  ASSUME NEW to \in Seq(Request), NEW from, NEW cur, NEW c \in Chunks,
         OneChunkMessage(to, from, cur)
  PROVE  OneChunkMessage(Append(to, StatusRequest(c)), from, cur)
  BY DEF OneChunkMessage, StatusRequest, Request

LEMMA ChunkRequestAppended ==
  ASSUME NEW to \in Seq(Request), NEW from \in Seq(Reply), NEW c \in Chunks,
         OneChunkMessage(to, from, NoChunk)
  PROVE  OneChunkMessage(Append(to, ChunkRequest(c)), from, c)
<1>1. \A i \in DOMAIN to : to[i].ohash # NoChunk
  <2>1. \A i \in DOMAIN to : to[i] \in Request
    OBVIOUS
  <2>2. QED
    BY <2>1, ChunkAssumption DEF Request
<1>2. \A i \in DOMAIN from : from[i] \in Reply
  OBVIOUS
<1>3. \A i \in DOMAIN from : from[i].ohash # NoChunk
  BY <1>2, ChunkAssumption DEF Reply
<1>4. QED
  BY <1>1, <1>3 DEF OneChunkMessage, ChunkRequest

LEMMA ReplyTaken ==
  ASSUME NEW to, NEW from \in Seq(Reply), from # <<>>, NEW cur,
         OneChunkMessage(to, from, cur)
  PROVE  /\ OneChunkMessage(to, Tail(from), cur)
         /\ Head(from).type = "chunk_reply" =>
              \A any : OneChunkMessage(to, Tail(from), any)
<1>1. \A i \in DOMAIN Tail(from) : i + 1 \in DOMAIN from /\ Tail(from)[i] = from[i + 1]
  OBVIOUS
<1>2. \A i \in DOMAIN Tail(from) : i \in Int
  OBVIOUS
<1>3. OneChunkMessage(to, Tail(from), cur)
  BY <1>1, <1>2 DEF OneChunkMessage
<1>4. ASSUME Head(from).type = "chunk_reply", NEW any
      PROVE  OneChunkMessage(to, Tail(from), any)
  <2>1. 1 \in DOMAIN from /\ from[1].type = "chunk_reply"
    BY <1>4
  <2>2. \A i \in DOMAIN Tail(from) : i + 1 # 1
    BY <1>2
  <2>3. QED
    BY <1>1, <2>1, <2>2 DEF OneChunkMessage
<1>5. QED
  BY <1>3, <1>4

LEMMA RequestAnswered ==
  ASSUME NEW to \in Seq(Request), to # <<>>, NEW from \in Seq(Reply), NEW cur,
         NEW reply \in Reply,
         reply.type = "chunk_reply" =>
           Head(to).type = "chunk_request" /\ reply.ohash = Head(to).ohash,
         OneChunkMessage(to, from, cur)
  PROVE  OneChunkMessage(Tail(to), Append(from, reply), cur)
<1>1. \A i \in DOMAIN Tail(to) : i \in Int /\ i + 1 # 1 /\ i + 1 \in DOMAIN to
                                /\ Tail(to)[i] = to[i + 1]
  OBVIOUS
<1>2. 1 \in DOMAIN to /\ Head(to) = to[1]
  OBVIOUS
<1>3. DOMAIN Append(from, reply) = DOMAIN from \cup {Len(from) + 1}
      /\ Append(from, reply)[Len(from) + 1] = reply
      /\ \A i \in DOMAIN from : i # Len(from) + 1 /\ Append(from, reply)[i] = from[i]
  OBVIOUS
<1>4. QED
  BY <1>1, <1>2, <1>3 DEF OneChunkMessage

\* A stream that is not connected carries nothing.
ClosedStreamsEmpty ==
  \A p \in Peers \ connected : toPeer[p] = <<>> /\ fromPeer[p] = <<>>

StreamInv == ClosedStreamsEmpty /\ NoUnexpectedChunk

\* check_peers keeps the streams in order, whatever was just taken from them.
LEMMA CheckPeersStreams ==
  ASSUME TypeOK, fromPeer' \in [Peers -> Seq(Reply)], connected' = connected,
         NEW reqs \in SUBSET Chunks,
         NEW wish \in [Peers -> SUBSET Chunks],
         CheckPeers(reqs, wish, current, toPeer),
         \A p \in Peers : OneChunkMessage(toPeer[p], fromPeer'[p], current[p]),
         \A p \in Peers \ connected : toPeer[p] = <<>> /\ fromPeer'[p] = <<>>
  PROVE  StreamInv'
<1>1. /\ current \in [Peers -> Chunks \cup {NoChunk}]
      /\ toPeer \in [Peers -> Seq(Request)]
  BY DEF TypeOK
<1>2. \A p \in Peers : Kept(p, current, toPeer) \/ Started(p, current, toPeer)
  BY <1>1, CheckPeersEffect
<1>3. NoUnexpectedChunk'
  <2> SUFFICES ASSUME NEW p \in Peers
               PROVE  OneChunkMessage(toPeer'[p], fromPeer'[p], current'[p])
    BY DEF NoUnexpectedChunk
  <2>1. toPeer[p] \in Seq(Request) /\ fromPeer'[p] \in Seq(Reply)
    BY <1>1
  <2>2. CASE Kept(p, current, toPeer)
    BY <2>2 DEF Kept
  <2>3. CASE Started(p, current, toPeer)
    <3> DEFINE c == current'[p]
    <3>1. /\ c \in Chunks
          /\ toPeer'[p] = Append(toPeer[p], ChunkRequest(c))
          /\ OneChunkMessage(toPeer[p], fromPeer'[p], NoChunk)
      BY <2>3 DEF Started
    <3> HIDE DEF c
    <3>2. OneChunkMessage(Append(toPeer[p], ChunkRequest(c)), fromPeer'[p], c)
      BY <2>1, <3>1, ChunkRequestAppended
    <3>3. QED
      BY <3>1, <3>2 DEF c
  <2>4. QED
    BY <1>2, <2>2, <2>3
<1>4. ClosedStreamsEmpty'
  BY <1>2 DEF ClosedStreamsEmpty, Kept, Started
<1>5. QED
  BY <1>3, <1>4 DEF StreamInv

\* A peer never has two chunks underway, nor one it is not recorded to have.
THEOREM ChunkMessagesExpected == Spec => []NoUnexpectedChunk
<1>1. Init => StreamInv
  BY DEF Init, StreamInv, ClosedStreamsEmpty, NoUnexpectedChunk, OneChunkMessage
<1>2. TypeOK /\ TypeOK' /\ StreamInv /\ [Next]_vars => StreamInv'
  <2> SUFFICES ASSUME TypeOK, TypeOK', StreamInv, [Next]_vars PROVE StreamInv'
    OBVIOUS
  <2> USE DEF StreamInv
  <2>types. \A p \in Peers : /\ toPeer[p] \in Seq(Request)
                             /\ fromPeer[p] \in Seq(Reply)
                             /\ toPeer'[p] \in Seq(Request)
                             /\ fromPeer'[p] \in Seq(Reply)
    BY DEF TypeOK
  <2>1. ASSUME UNCHANGED <<connected, toPeer, fromPeer, current>> PROVE StreamInv'
    BY <2>1 DEF ClosedStreamsEmpty, NoUnexpectedChunk
  <2>2. ASSUME NEW r \in Readers, NEW c \in Chunks, ReadChunk(r, c) PROVE StreamInv'
    <3>1. UNCHANGED <<connected, fromPeer, current>>
      BY <2>2 DEF ReadChunk, peerVars
    <3>2. \A p \in Peers :
             \/ toPeer'[p] = toPeer[p]
             \/ p \in connected /\ toPeer'[p] = Append(toPeer[p], StatusRequest(c))
      <4>1. CASE c \in LocalChunks
        <5>1. toPeer' = toPeer
          BY <2>2, <4>1 DEF ReadChunk
        <5>2. QED
          BY <5>1
      <4>2. CASE c \notin LocalChunks
        <5>1. toPeer' = [p \in Peers |-> IF p \in connected
                                         THEN Append(toPeer[p], StatusRequest(c))
                                         ELSE toPeer[p]]
          BY <2>2, <4>2 DEF ReadChunk
        <5>2. QED
          BY <5>1
      <4>3. QED
        BY <4>1, <4>2
    <3>3. ClosedStreamsEmpty'
      BY <3>1, <3>2 DEF ClosedStreamsEmpty
    <3>4. ASSUME NEW p \in Peers PROVE OneChunkMessage(toPeer'[p], fromPeer'[p], current'[p])
      BY <3>1, <3>2, <2>types, StatusRequestAppended DEF NoUnexpectedChunk
    <3>5. QED
      BY <3>3, <3>4 DEF NoUnexpectedChunk
  <2>3. ASSUME EndGotData PROVE StreamInv'
    <3>1. CheckPeers(requests \ {call.ohash}, wishlist, current, toPeer)
          /\ UNCHANGED <<connected, fromPeer>>
      BY <2>3 DEF EndGotData
    <3>2. QED
      BY <3>1, CheckPeersStreams DEF TypeOK, ClosedStreamsEmpty, NoUnexpectedChunk
  <2>4. ASSUME NEW p \in Peers, NEW type, Receive(p, type)
        PROVE  /\ \A q \in Peers : OneChunkMessage(toPeer[q], fromPeer'[q], current[q])
               /\ \A q \in Peers \ connected : toPeer[q] = <<>> /\ fromPeer'[q] = <<>>
               /\ type = "chunk_reply" =>
                    \A any : OneChunkMessage(toPeer[p], fromPeer'[p], any)
    <3>1. fromPeer[p] # <<>> /\ Head(fromPeer[p]).type = type
          /\ fromPeer'[p] = Tail(fromPeer[p])
          /\ \A q \in Peers \ {p} : fromPeer'[q] = fromPeer[q]
      BY <2>4 DEF Receive, TypeOK
    <3>2. OneChunkMessage(toPeer[p], fromPeer[p], current[p])
      BY DEF NoUnexpectedChunk
    <3>3. /\ OneChunkMessage(toPeer[p], fromPeer'[p], current[p])
          /\ type = "chunk_reply" => \A any : OneChunkMessage(toPeer[p], fromPeer'[p], any)
      BY <3>1, <3>2, <2>types, ReplyTaken
    <3>4. QED
      BY <3>1, <3>3 DEF ClosedStreamsEmpty, NoUnexpectedChunk
  <2>5. ASSUME NEW p \in Peers, GotStatusReply(p) PROVE StreamInv'
    <3> DEFINE c == Head(fromPeer[p]).ohash
    <3>1. Receive(p, "status_reply") /\ connected' = connected
      BY <2>5 DEF GotStatusReply
    <3>2. CASE UNCHANGED <<current, toPeer>>
      BY <3>1, <3>2, <2>4 DEF ClosedStreamsEmpty, NoUnexpectedChunk
    <3>3. CASE /\ c \in requests
               /\ CheckPeers(requests, Wishing(p, c), current, toPeer)
      <4>1. Wishing(p, c) \in [Peers -> SUBSET Chunks]
        <5>1. c \in Chunks
          BY <3>3 DEF TypeOK
        <5> HIDE DEF c
        <5>2. QED
          BY <5>1 DEF TypeOK, Wishing
      <4>2. QED
        BY <3>1, <3>3, <4>1, <2>4, CheckPeersStreams DEF TypeOK
    <3>4. QED
      BY <2>5, <3>2, <3>3 DEF GotStatusReply
  <2>6. ASSUME NEW p \in Peers, GotChunkReply(p) PROVE StreamInv'
    <3>1. /\ Receive(p, "chunk_reply")
          /\ UNCHANGED <<connected, toPeer>>
          /\ \A q \in Peers \ {p} : current'[q] = current[q]
      BY <2>6 DEF GotChunkReply, TypeOK
    <3>2. QED
      BY <3>1, <2>4 DEF ClosedStreamsEmpty, NoUnexpectedChunk
  <2>7. ASSUME NEW p \in Peers, GotOutStreamConnected(p) PROVE StreamInv'
    <3>1. PICK order \in [1 .. Cardinality(requests) -> requests] :
            toPeer' = [toPeer EXCEPT ![p] = [i \in DOMAIN order |-> StatusRequest(order[i])]]
      BY <2>7 DEF GotOutStreamConnected, Resent
    <3>2. /\ fromPeer' = fromPeer /\ fromPeer[p] = <<>>
          /\ connected' = connected \cup {p}
          /\ \A q \in Peers \ {p} : current'[q] = current[q] /\ toPeer'[q] = toPeer[q]
      BY <2>7, <3>1 DEF GotOutStreamConnected, Resent, ClosedStreamsEmpty, TypeOK
    <3>3. \A i \in DOMAIN toPeer'[p] : toPeer'[p][i].type = "status_request"
      BY <3>1 DEF StatusRequest, TypeOK
    <3>4. OneChunkMessage(toPeer'[p], fromPeer'[p], current'[p])
      BY <3>2, <3>3 DEF OneChunkMessage
    <3>5. QED
      BY <3>2, <3>4 DEF ClosedStreamsEmpty, NoUnexpectedChunk
  <2>8. ASSUME NEW p \in Peers, GotOutStreamDisconnected(p) PROVE StreamInv'
    <3>1. /\ connected' = connected \ {p} /\ current' = current
          /\ toPeer'[p] = <<>> /\ fromPeer'[p] = <<>>
          /\ \A q \in Peers \ {p} : toPeer'[q] = toPeer[q] /\ fromPeer'[q] = fromPeer[q]
      BY <2>8 DEF GotOutStreamDisconnected, TypeOK, peerVars
    <3>2. OneChunkMessage(toPeer'[p], fromPeer'[p], current'[p])
      BY <3>1 DEF OneChunkMessage
    <3>3. QED
      BY <3>1, <3>2 DEF ClosedStreamsEmpty, NoUnexpectedChunk
  <2>9. ASSUME NEW p \in Peers, NEW type, NEW reply \in Reply, Answer(p, type, reply),
               reply.type = "chunk_reply" =>
                 type = "chunk_request" /\ reply.ohash = Head(toPeer[p]).ohash
        PROVE  StreamInv'
    <3>1. /\ toPeer[p] # <<>> /\ Head(toPeer[p]).type = type
          /\ toPeer'[p] = Tail(toPeer[p]) /\ fromPeer'[p] = Append(fromPeer[p], reply)
          /\ UNCHANGED <<connected, current>>
          /\ \A q \in Peers \ {p} : toPeer'[q] = toPeer[q] /\ fromPeer'[q] = fromPeer[q]
      BY <2>9 DEF Answer, TypeOK, peerVars
    <3>2. OneChunkMessage(toPeer[p], fromPeer[p], current[p])
      BY DEF NoUnexpectedChunk
    <3>3. OneChunkMessage(toPeer'[p], fromPeer'[p], current'[p])
      BY <3>1, <3>2, <2>9, <2>types, RequestAnswered
    <3>4. p \in connected
      BY <3>1 DEF ClosedStreamsEmpty
    <3>5. QED
      BY <3>1, <3>3, <3>4 DEF ClosedStreamsEmpty, NoUnexpectedChunk
  <2>10. ASSUME NEW p \in Peers, toPeer[p] # <<>>
         PROVE  Head(toPeer[p]).ohash \in Chunks
    <3>1. Head(toPeer[p]) \in Request
      BY <2>10, <2>types
    <3>2. QED
      BY <3>1 DEF Request
  <2>11. ASSUME NEW p \in Peers, GotStatusRequest(p) PROVE StreamInv'
    <3> DEFINE c == Head(toPeer[p]).ohash
               st == IF c \in stores[p] THEN "online" ELSE "unknown"
    <3>1. c \in Chunks /\ Answer(p, "status_request", StatusReply(c, st))
      BY <2>10, <2>11 DEF GotStatusRequest, Answer
    <3>2. StatusReply(c, st) \in Reply /\ StatusReply(c, st).type = "status_reply"
      BY <3>1, MessageTypes DEF StatusReply
    <3>3. QED
      BY <2>9, <3>1, <3>2
  <2>12. ASSUME NEW p \in Peers, NEW d \in {"data", "bad", "empty"},
                Answer(p, "chunk_request", ChunkReply(Head(toPeer[p]).ohash, d))
         PROVE  StreamInv'
    <3> DEFINE c == Head(toPeer[p]).ohash
    <3>1. c \in Chunks
      BY <2>10, <2>12 DEF Answer
    <3>2. ChunkReply(c, d) \in Reply /\ ChunkReply(c, d).ohash = c
      BY <3>1, MessageTypes DEF ChunkReply
    <3>3. QED
      BY <2>9, <2>12, <3>2
  <2>13. ASSUME NEW p \in Peers, GotChunkRequest(p) \/ GotChunkRequestCorrupt(p)
         PROVE  StreamInv'
    BY <2>12, <2>13 DEF GotChunkRequest, GotChunkRequestCorrupt
  <2>14. ASSUME \/ \E r \in Readers : CallReader(r)
                \/ EndNoData
                \/ \E p \in Peers : GotInStreamConnected(p)
                \/ \E p \in Peers, c \in Chunks : RemoveFromRequest(p, c) \/ StoreChanges(p, c)
                \/ UNCHANGED vars
         PROVE  StreamInv'
    BY <2>1, <2>14
    DEF CallReader, EndNoData, GotInStreamConnected, RemoveFromRequest, StoreChanges,
        netVars, peerVars, vars
  <2>15. QED
    BY <2>2, <2>3, <2>5, <2>6, <2>7, <2>8, <2>11, <2>13, <2>14 DEF Next
<1>3. StreamInv => NoUnexpectedChunk
  BY DEF StreamInv
<1>4. QED
  BY <1>1, <1>2, <1>3, TypeCorrect, PTL DEF Spec

-----------------------------------------------------------------------------
(* The detailed specification implements the promise made to readers. *)

ReadingInv == ReadersMatchReads /\ SweepIsSound

\* Dropping a source either leaves readers and reads alone or decides no_data.
LEMMA DropPotentialDecides ==
  ASSUME TypeOK, ReadersMatchReads, call = NoCall, NEW p \in Peers, NEW c \in Chunks,
         c \in requests, NEW st, DropPotential(p, c, st), pending' = pending
  PROVE  /\ ReadersMatchReads'
         /\ UNCHANGED Reading!absVars \/ Reading!Decide(c, "no_data")
         /\ requests \ {c} \subseteq requests'
         /\ call'.kind # "got_data"
<1>1. CASE OtherSources(p, c) = {}
  <2>1. /\ requests' = requests \ {c}
        /\ readers' = [readers EXCEPT ![c] = {}]
        /\ call' = [kind |-> "no_data", ohash |-> c, left |-> readers[c], begun |-> FALSE]
    BY <1>1 DEF DropPotential, Forget, CallReaders
  <2>2. readers[c] = Reading!Waiting(c) /\ readers[c] # {} /\ readers[c] \subseteq Readers
    BY DEF ReadersMatchReads, Reading!Waiting, NoCall, TypeOK
  <2>3. Reading!Decide(c, "no_data")
    BY <2>1, <2>2 DEF Reading!Decide, NoCall
  <2>4. ReadersMatchReads'
    BY <2>1, <2>2 DEF ReadersMatchReads, NoCall, TypeOK
  <2>5. QED
    BY <2>1, <2>3, <2>4
<1>2. CASE OtherSources(p, c) # {}
  <2>1. UNCHANGED <<requests, readers, call, pending>>
    BY <1>2 DEF DropPotential
  <2>2. QED
    BY <2>1 DEF ReadersMatchReads, Reading!absVars, NoCall
<1>3. QED
  BY <1>1, <1>2

\* As long as no reader asks again for the very chunk it is being handed, every
\* step of chunk sharing is a step of the promise, or is invisible to readers.
THEOREM PromiseImplemented ==
  ASSUME "reread" \notin Faults
  PROVE  Spec => ImplementsReading
<1>1. Init => ReadingInv /\ Reading!AbsInit
  BY DEF Init, ReadingInv, ReadersMatchReads, SweepIsSound, Reading!AbsInit, NoCall
<1>2. TypeOK /\ ReadingInv /\ [Next]_vars => ReadingInv' /\ [Reading!AbsNext]_(Reading!absVars)
  <2> SUFFICES ASSUME TypeOK, ReadingInv, [Next]_vars
               PROVE  ReadingInv' /\ [Reading!AbsNext]_(Reading!absVars)
    OBVIOUS
  <2> DEFINE Goal == ReadersMatchReads' /\ [Reading!AbsNext]_(Reading!absVars)
  <2> USE DEF ReadingInv
  <2>1. ASSUME UNCHANGED <<requests, readers, call, pending>> PROVE Goal
    <3>1. UNCHANGED Reading!absVars
      BY <2>1 DEF Reading!absVars
    <3>2. ReadersMatchReads'
      BY <2>1 DEF ReadersMatchReads
    <3>3. QED
      BY <3>1, <3>2
  <2>2. ASSUME NEW r \in Readers, NEW c \in Chunks, ReadChunk(r, c) PROVE Goal
    <3>1. CASE c \in LocalChunks
      BY <2>1, <2>2, <3>1 DEF ReadChunk, reqVars, ctlVars
    <3>2. CASE c \notin LocalChunks
      <4>1. /\ requests' = requests \cup {c}
            /\ readers' = [readers EXCEPT ![c] = @ \cup {r}]
            /\ pending' = pending \cup {<<r, c>>}
            /\ <<r, c>> \notin pending
            /\ call' = call
            /\ ~(call.kind = "got_data" /\ call.ohash = c)
        BY <2>2, <3>2 DEF ReadChunk, ctlVars
      <4>2. Reading!Read(r, c)
        BY <4>1 DEF Reading!Read
      <4>3. ReadersMatchReads'
        <5>1. /\ readers'[c] = readers[c] \cup {r}
              /\ \A d \in Chunks \ {c} : readers'[d] = readers[d]
          BY <4>1 DEF TypeOK
        <5>2. \A q \in Readers, d \in Chunks :
                <<q, d>> \in pending' <=> <<q, d>> \in pending \/ (q = r /\ d = c)
          BY <4>1
        <5>3. r \in call.left => call.ohash # c
          BY <4>1 DEF ReadersMatchReads
        <5>4. \A q \in Readers, d \in Chunks :
                <<q, d>> \in pending' <=>
                  \/ q \in readers'[d] /\ ~(call'.kind = "got_data" /\ call'.ohash = d)
                  \/ q \in call'.left /\ call'.ohash = d
          BY <4>1, <5>1, <5>2 DEF ReadersMatchReads
        <5>5. QED
          BY <4>1, <5>1, <5>3, <5>4 DEF ReadersMatchReads
      <4>4. QED
        BY <4>2, <4>3 DEF Reading!AbsNext
    <3>3. QED
      BY <3>1, <3>2
  <2>3. ASSUME NEW r \in Readers, CallReader(r) PROVE Goal
    <3>1. /\ r \in call.left /\ call.ohash \in Chunks
          /\ call'.kind = call.kind /\ call'.ohash = call.ohash
          /\ call'.left = call.left \ {r}
          /\ pending' = pending \ {<<r, call.ohash>>}
          /\ UNCHANGED <<requests, readers>>
      <4>1. call \in [kind : {"none", "got_data", "no_data"}, ohash : Chunks \cup {NoChunk},
                     left : SUBSET Readers, begun : BOOLEAN]
        BY DEF TypeOK
      <4>2. call.kind # "none"
        BY <2>3 DEF ReadersMatchReads, CallReader, NoCall
      <4>3. QED
        BY <2>3, <4>1, <4>2 DEF CallReader, reqVars, ReadersMatchReads
    <3>2. Reading!CallBack(r)
      BY <3>1 DEF Reading!CallBack
    <3>3. call.kind # "none"
      BY <3>1 DEF ReadersMatchReads, NoCall
    <3>4. ReadersMatchReads'
      BY <3>1, <3>3 DEF ReadersMatchReads, TypeOK
    <3>5. QED
      BY <3>2, <3>4 DEF Reading!AbsNext
  <2>4. ASSUME EndNoData PROVE Goal
    <3>1. Reading!Done
      BY <2>4 DEF EndNoData, Reading!Done, NoCall, histVars
    <3>2. ReadersMatchReads'
      BY <2>4 DEF EndNoData, ReadersMatchReads, NoCall, reqVars, histVars
    <3>3. QED
      BY <3>1, <3>2 DEF Reading!AbsNext
  <2>5. ASSUME EndGotData PROVE Goal
    <3>1. Reading!Done
      BY <2>5 DEF EndGotData, Reading!Done, NoCall, histVars
    <3>2. /\ call.kind = "got_data" /\ call.left = {} /\ call' = NoCall
          /\ requests' = requests \ {call.ohash}
          /\ readers' = [readers EXCEPT ![call.ohash] = {}]
          /\ pending' = pending
      BY <2>5 DEF EndGotData, Forget, histVars
    <3>3. ReadersMatchReads'
      BY <3>2 DEF ReadersMatchReads, NoCall, TypeOK
    <3>4. QED
      BY <3>1, <3>3 DEF Reading!AbsNext
  <2>6. ASSUME NEW p \in Peers, NEW c \in Chunks, c \in requests, NEW st, call = NoCall,
               DropPotential(p, c, st), pending' = pending
        PROVE  Goal
    <3>1. /\ ReadersMatchReads'
          /\ UNCHANGED Reading!absVars \/ Reading!Decide(c, "no_data")
      BY <2>6, DropPotentialDecides
    <3>2. QED
      BY <3>1 DEF Reading!AbsNext
  <2>7. ASSUME NEW p \in Peers, GotStatusReply(p) PROVE Goal
    <3> DEFINE c == Head(fromPeer[p]).ohash
    <3>1. /\ call = NoCall /\ pending' = pending
          /\ \/ UNCHANGED <<requests, readers, call>>
             \/ c \in requests /\ DropPotential(p, c, Head(fromPeer[p]).body)
      BY <2>7 DEF GotStatusReply, Receive, AtRest, reqVars, histVars
    <3>2. CASE UNCHANGED <<requests, readers, call>>
      BY <2>1, <3>1, <3>2
    <3>3. CASE c \in requests /\ DropPotential(p, c, Head(fromPeer[p]).body)
      <4>1. c \in Chunks
        BY <3>3 DEF TypeOK
      <4>2. QED
        BY <2>6, <3>1, <3>3, <4>1
    <3>4. QED
      BY <3>1, <3>2, <3>3
  <2>8. ASSUME NEW p \in Peers, GotChunkReply(p) PROVE Goal
    <3> DEFINE c == Head(fromPeer[p]).ohash
    <3>1. /\ call = NoCall /\ pending' = pending
          /\ \/ UNCHANGED <<requests, readers, call>>
             \/ c \in requests /\ DropPotential(p, c, "lost")
             \/ c \in requests /\ call' = CallReaders("got_data", c) /\ UNCHANGED reqVars
      BY <2>8 DEF GotChunkReply, Receive, AtRest, reqVars, histVars
    <3>2. CASE c \in requests /\ call' = CallReaders("got_data", c) /\ UNCHANGED reqVars
      <4>1. c \in Chunks
        BY <3>2 DEF TypeOK
      <4>2. /\ call' = [kind |-> "got_data", ohash |-> c, left |-> readers[c], begun |-> FALSE]
            /\ UNCHANGED <<requests, readers>>
        BY <3>2 DEF CallReaders, reqVars
      <4> HIDE DEF c
      <4>3. readers[c] = Reading!Waiting(c) /\ readers[c] # {} /\ readers[c] \subseteq Readers
        BY <3>1, <3>2, <4>1 DEF ReadersMatchReads, Reading!Waiting, NoCall, TypeOK
      <4>4. Reading!Decide(c, "got_data")
        BY <3>1, <4>2, <4>3 DEF Reading!Decide, NoCall
      <4>5. ReadersMatchReads'
        BY <3>1, <4>1, <4>2, <4>3 DEF ReadersMatchReads, NoCall, TypeOK
      <4>6. QED
        BY <4>1, <4>4, <4>5 DEF Reading!AbsNext
    <3>3. CASE UNCHANGED <<requests, readers, call>>
      BY <2>1, <3>1, <3>3
    <3>4. CASE c \in requests /\ DropPotential(p, c, "lost")
      <4>1. c \in Chunks
        BY <3>4 DEF TypeOK
      <4>2. QED
        BY <2>6, <3>1, <3>4, <4>1
    <3>5. QED
      BY <3>1, <3>2, <3>3, <3>4
  <2>9. ASSUME NEW p \in Peers, NEW c \in Chunks, RemoveFromRequest(p, c) PROVE Goal
    <3>1. c \in requests
      BY <2>9 DEF RemoveFromRequest, SweepIsSound
    <3>2. QED
      BY <2>6, <2>9, <3>1 DEF RemoveFromRequest, histVars
  <2>10. ASSUME \/ \E p \in Peers : \/ GotOutStreamConnected(p)
                                   \/ GotOutStreamDisconnected(p)
                                   \/ GotInStreamConnected(p)
                                   \/ GotStatusRequest(p)
                                   \/ GotChunkRequest(p)
                                   \/ GotChunkRequestCorrupt(p)
                \/ \E p \in Peers, c \in Chunks : StoreChanges(p, c)
                \/ UNCHANGED vars
         PROVE  Goal
    BY <2>1, <2>10
    DEF GotOutStreamConnected, Resent, GotOutStreamDisconnected, GotInStreamConnected,
        GotStatusRequest, GotChunkRequest, GotChunkRequestCorrupt, Answer, StoreChanges,
        reqVars, ctlVars, histVars, vars
  <2>11. Goal
    BY <2>2, <2>3, <2>4, <2>5, <2>7, <2>8, <2>9, <2>10 DEF Next
  <2>12. SweepIsSound'
    <3>1. ASSUME sweep' = {} PROVE SweepIsSound'
      BY <3>1 DEF SweepIsSound
    <3>2. ASSUME sweep' = sweep, requests \subseteq requests',
                 call'.kind = "got_data" => call.kind = "got_data"
          PROVE  SweepIsSound'
      BY <3>2 DEF SweepIsSound
    <3>3. ASSUME NEW p \in Peers, GotStatusReply(p) \/ GotChunkReply(p) PROVE SweepIsSound'
      BY <3>1, <3>3 DEF GotStatusReply, GotChunkReply, Receive, AtRest
    <3>4. ASSUME EndGotData PROVE SweepIsSound'
      BY <3>1, <3>4 DEF EndGotData, SweepIsSound
    <3>5. ASSUME EndNoData PROVE SweepIsSound'
      BY <3>2, <3>5 DEF EndNoData, NoCall, reqVars
    <3>6. ASSUME NEW r \in Readers, CallReader(r) PROVE SweepIsSound'
      <4>1. call'.kind = call.kind
        <5>1. call \in [kind : {"none", "got_data", "no_data"}, ohash : Chunks \cup {NoChunk},
                        left : SUBSET Readers, begun : BOOLEAN]
          BY DEF TypeOK
        <5>2. QED
          BY <3>6, <5>1 DEF CallReader
      <4>2. QED
        BY <3>2, <3>6, <4>1 DEF CallReader, reqVars
    <3>7. ASSUME NEW r \in Readers, NEW c \in Chunks, ReadChunk(r, c) PROVE SweepIsSound'
      <4>1. requests \subseteq requests' /\ sweep' = sweep /\ call' = call
        BY <3>7 DEF ReadChunk, reqVars, ctlVars
      <4>2. QED
        BY <3>2, <4>1
    <3>8. ASSUME NEW p \in Peers, GotOutStreamDisconnected(p) PROVE SweepIsSound'
      <4>1. sweep' = {<<p, c>> : c \in requests} /\ UNCHANGED <<requests, call>> /\ call = NoCall
        BY <3>8 DEF GotOutStreamDisconnected, AtRest, reqVars
      <4>2. QED
        BY <4>1 DEF SweepIsSound, NoCall
    <3>9. ASSUME NEW p \in Peers, NEW c \in Chunks, RemoveFromRequest(p, c) PROVE SweepIsSound'
      <4>1. /\ call = NoCall /\ <<p, c>> \in sweep /\ sweep' = sweep \ {<<p, c>>}
            /\ DropPotential(p, c, "none") /\ pending' = pending
        BY <3>9 DEF RemoveFromRequest, histVars
      <4>2. c \in requests
        BY <4>1 DEF SweepIsSound
      <4>3. requests \ {c} \subseteq requests' /\ call'.kind # "got_data"
        BY <4>1, <4>2, DropPotentialDecides
      <4>4. QED
        BY <4>1, <4>3 DEF SweepIsSound
    <3>10. ASSUME \/ \E p \in Peers : \/ GotOutStreamConnected(p)
                                     \/ GotInStreamConnected(p)
                                     \/ GotStatusRequest(p)
                                     \/ GotChunkRequest(p)
                                     \/ GotChunkRequestCorrupt(p)
                  \/ \E p \in Peers, c \in Chunks : StoreChanges(p, c)
                  \/ UNCHANGED vars
           PROVE  SweepIsSound'
      <4>1. UNCHANGED <<requests, call, sweep>>
        BY <3>10
        DEF GotOutStreamConnected, Resent, GotInStreamConnected, GotStatusRequest, GotChunkRequest,
            GotChunkRequestCorrupt, Answer, StoreChanges, reqVars, ctlVars, vars
      <4>2. QED
        BY <3>2, <4>1
    <3>11. QED
      BY <3>3, <3>4, <3>5, <3>6, <3>7, <3>8, <3>9, <3>10 DEF Next
  <2>13. QED
    BY <2>11, <2>12
<1>3. QED
  BY <1>1, <1>2, TypeCorrect, PTL DEF Spec, ImplementsReading, Reading!AbsSpec

-----------------------------------------------------------------------------
(* The request table agrees with the rest, whatever a reader asks for inside a callback. *)

\* A chunk nobody asked for has no sources and no status: what is left over of an
\* earlier request cannot be taken for an answer to a later one.
NothingUnrequested == \A c \in Chunks \ requests :
  potentials[c] = {} /\ \A p \in Peers : status[c][p] = "none"

\* Where no handler calls readers back, none waits to be called; and nobody is told
\* no_data for the request it has just made anew.
CallsMatch ==
  /\ call.kind = "none" => call = NoCall
  /\ call.kind # "none" => call.ohash \in Chunks
  /\ call.kind = "no_data" => call.left \cap readers[call.ohash] = {}

\* The readers of a request wait for it, except those that were called with its
\* chunk while it is still in the table.
ReadersPending == \A c \in Chunks : \A r \in readers[c] :
  <<r, c>> \in pending \/ (call.kind = "got_data" /\ call.ohash = c)

SourcesInv == NothingUnrequested /\ PotentialsReachable /\ SourceIsWished /\ SweepIsSound
CallsInv == CallsMatch /\ ReadersPending /\ OnlyPendingAnswered
TableInv == TypeOK /\ SourcesInv /\ InvalidMeansAsked /\ CallsInv

\* What becomes of a request that loses a source.
LEMMA DropPotentialEffect ==
  ASSUME TypeOK, NEW p \in Peers, NEW c \in Chunks, NEW st, DropPotential(p, c, st)
  PROVE  /\ \A d \in Chunks : potentials'[d] \subseteq potentials[d]
         /\ p \notin potentials'[c]
         /\ \A d \in Chunks, q \in Peers :
              \/ status'[d][q] = status[d][q]
              \/ d = c /\ status'[d][q] = "none" /\ potentials'[d] = {}
              \/ d = c /\ q = p /\ status'[d][q] = st
         /\ \/ UNCHANGED <<requests, readers, call>>
            \/ /\ requests' = requests \ {c} /\ readers' = [readers EXCEPT ![c] = {}]
               /\ potentials'[c] = {} /\ \A q \in Peers : status'[c][q] = "none"
               /\ call' = [kind |-> "no_data", ohash |-> c, left |-> readers[c], begun |-> FALSE]
<1>1. CASE OtherSources(p, c) = {}
  <2>1. Forget(c) /\ call' = CallReaders("no_data", c)
    BY <1>1 DEF DropPotential
  <2>2. /\ potentials'[c] = {} /\ \A q \in Peers : status'[c][q] = "none"
        /\ \A d \in Chunks \ {c} : potentials'[d] = potentials[d] /\ status'[d] = status[d]
    BY <2>1 DEF Forget, TypeOK
  <2> QED
    BY <2>1, <2>2 DEF Forget, CallReaders
<1>2. CASE OtherSources(p, c) # {}
  <2>1. /\ potentials' = [potentials EXCEPT ![c] = potentials[c] \ {p}]
        /\ status' = [status EXCEPT ![c] = [@ EXCEPT ![p] = st]]
        /\ UNCHANGED <<requests, readers, call>>
    BY <1>2 DEF DropPotential, OtherSources
  <2>2. /\ potentials'[c] = potentials[c] \ {p}
        /\ status'[c] = [status[c] EXCEPT ![p] = st]
        /\ \A d \in Chunks \ {c} : potentials'[d] = potentials[d] /\ status'[d] = status[d]
    BY <2>1 DEF TypeOK
  <2>3. \A q \in Peers : status'[c][q] = IF q = p THEN st ELSE status[c][q]
    BY <2>2 DEF TypeOK
  <2> QED
    BY <2>1, <2>2, <2>3
<1> QED
  BY <1>1, <1>2

\* check_peers drops nothing from a wishlist that is still asked for.
LEMMA CheckPeersKeepsWanted ==
  ASSUME NEW reqs \in SUBSET Chunks, NEW wish \in [Peers -> SUBSET Chunks], NEW cur, NEW out,
         CheckPeers(reqs, wish, cur, out)
  PROVE  \A p \in Peers : wish[p] \cap reqs \subseteq wishlist'[p]
BY DEF CheckPeers

\* Losing a source keeps the sources in order, be it for an answer or in a sweep.
LEMMA DropKeepsSources ==
  ASSUME TypeOK, SourcesInv, call = NoCall, NEW p \in Peers, NEW c \in requests, NEW st,
         DropPotential(p, c, st), connected' = connected,
         wishlist' = wishlist \/ wishlist' = [wishlist EXCEPT ![p] = @ \ {c}],
         \/ sweep = {} /\ sweep' = {}
         \/ <<p, c>> \in sweep /\ sweep' = sweep \ {<<p, c>>}
  PROVE  SourcesInv'
<1>0. c \in Chunks /\ requests \subseteq Chunks
  BY DEF TypeOK
<1>1. /\ \A d \in Chunks : potentials'[d] \subseteq potentials[d]
      /\ p \notin potentials'[c]
      /\ \A d \in Chunks, q \in Peers :
           \/ status'[d][q] = status[d][q]
           \/ d = c /\ status'[d][q] = "none" /\ potentials'[d] = {}
           \/ d = c /\ q = p /\ status'[d][q] = st
  BY <1>0, DropPotentialEffect
<1>2. \/ UNCHANGED <<requests, call>>
      \/ /\ requests' = requests \ {c} /\ call'.kind = "no_data"
         /\ potentials'[c] = {} /\ \A q \in Peers : status'[c][q] = "none"
  BY <1>0, DropPotentialEffect
<1>3. \A d \in Chunks : \A q \in potentials'[d] :
        /\ q \in potentials[d] /\ q \in Peers /\ ~(d = c /\ q = p)
        /\ status'[d][q] = status[d][q]
  <2> SUFFICES ASSUME NEW d \in Chunks, NEW q \in potentials'[d]
               PROVE  /\ q \in potentials[d] /\ q \in Peers /\ ~(d = c /\ q = p)
                      /\ status'[d][q] = status[d][q]
    OBVIOUS
  <2>1. potentials[d] \subseteq Peers
    BY DEF TypeOK
  <2>2. q \in potentials[d] /\ q \in Peers
    BY <1>1, <2>1
  <2>3. ~(d = c /\ q = p)
    BY <1>1
  <2>4. potentials'[d] # {}
    OBVIOUS
  <2> QED
    BY <1>1, <2>2, <2>3, <2>4
<1>4. NothingUnrequested'
  BY <1>0, <1>1, <1>2 DEF SourcesInv, NothingUnrequested
<1>5. PotentialsReachable'
  BY <1>3 DEF SourcesInv, PotentialsReachable
<1>6. SourceIsWished'
  <2> SUFFICES ASSUME NEW d \in Chunks, NEW q \in potentials'[d]
               PROVE  /\ status'[d][q] \in {"invalid", "online"}
                      /\ status'[d][q] = "online" => d \in wishlist'[q]
    BY DEF SourceIsWished
  <2>1. /\ status[d][q] \in {"invalid", "online"}
        /\ status[d][q] = "online" => d \in wishlist[q]
    BY <1>3 DEF SourcesInv, SourceIsWished, NoCall
  <2>2. d \in wishlist[q] => d \in wishlist'[q]
    <3>1. q \in Peers /\ ~(d = c /\ q = p) /\ wishlist \in [Peers -> SUBSET Chunks]
      BY <1>3 DEF TypeOK
    <3>2. CASE wishlist' = wishlist
      BY <3>2
    <3>3. CASE wishlist' = [wishlist EXCEPT ![p] = @ \ {c}]
      BY <3>1, <3>3
    <3> QED
      BY <3>2, <3>3
  <2> QED
    BY <2>1, <2>2, <1>3
<1>7. SweepIsSound'
  <2>1. call'.kind # "got_data"
    BY <1>2 DEF NoCall
  <2> QED
    BY <2>1, <1>2 DEF SourcesInv, SweepIsSound
<1> QED
  BY <1>4, <1>5, <1>6, <1>7 DEF SourcesInv

LEMMA SourcesKept ==
  ASSUME TableInv, [Next]_vars
  PROVE  SourcesInv'
<1>a. /\ TypeOK /\ SourcesInv /\ NothingUnrequested /\ PotentialsReachable /\ SourceIsWished
      /\ SweepIsSound /\ CallsMatch
  BY DEF TableInv, SourcesInv, CallsInv
<1>b. /\ requests \subseteq Chunks /\ potentials \in [Chunks -> SUBSET Peers]
      /\ status \in [Chunks -> [Peers -> ChunkStatus]] /\ connected \subseteq Peers
      /\ wishlist \in [Peers -> SUBSET Chunks]
      /\ call \in [kind : {"none", "got_data", "no_data"}, ohash : Chunks \cup {NoChunk},
                   left : SUBSET Readers, begun : BOOLEAN]
  BY <1>a DEF TypeOK
<1>1. ASSUME UNCHANGED <<requests, potentials, status, connected, wishlist, sweep>>,
             call'.kind = call.kind, call'.ohash = call.ohash
      PROVE  SourcesInv'
  BY <1>1, <1>a DEF SourcesInv, NothingUnrequested, PotentialsReachable, SourceIsWished, SweepIsSound
<1>2. ASSUME NEW r \in Readers, NEW c \in Chunks, ReadChunk(r, c)
      PROVE  SourcesInv'
  <2>1. UNCHANGED <<connected, wishlist, sweep, call>>
    BY <1>2 DEF ReadChunk, peerVars, ctlVars
  <2>2. CASE c \in LocalChunks
    BY <1>1, <1>2, <2>1, <2>2 DEF ReadChunk, reqVars
  <2>3. CASE c \notin LocalChunks
    <3>1. /\ requests' = requests \cup {c}
          /\ potentials' = [potentials EXCEPT ![c] = @ \cup connected]
          /\ status' = [status EXCEPT ![c] =
                          [p \in Peers |-> IF p \in connected THEN "invalid" ELSE @[p]]]
      BY <1>2, <2>3 DEF ReadChunk, Reachable
    <3>2. /\ potentials'[c] = potentials[c] \cup connected
          /\ \A p \in Peers : status'[c][p] = IF p \in connected THEN "invalid" ELSE status[c][p]
          /\ \A d \in Chunks \ {c} : potentials'[d] = potentials[d] /\ status'[d] = status[d]
      BY <3>1, <1>b
    <3>3. NothingUnrequested' /\ PotentialsReachable' /\ SweepIsSound'
      BY <2>1, <3>1, <3>2, <1>a DEF NothingUnrequested, PotentialsReachable, SweepIsSound
    <3>4. SourceIsWished'
      BY <2>1, <3>2, <1>a, <1>b DEF SourceIsWished
    <3> QED
      BY <3>3, <3>4 DEF SourcesInv
  <2> QED
    BY <2>2, <2>3
<1>3. ASSUME NEW r \in Readers, CallReader(r)
      PROVE  SourcesInv'
  BY <1>1, <1>3, <1>b DEF CallReader, reqVars, peerVars, netVars
<1>4. ASSUME EndNoData
      PROVE  SourcesInv'
  <2>1. UNCHANGED <<requests, potentials, status, connected, wishlist, sweep>>
        /\ call.kind = "no_data" /\ call'.kind = "none"
    BY <1>4 DEF EndNoData, reqVars, peerVars, netVars, NoCall
  <2> QED
    BY <2>1, <1>a DEF SourcesInv, NothingUnrequested, PotentialsReachable, SourceIsWished, SweepIsSound
<1>5. ASSUME EndGotData
      PROVE  SourcesInv'
  <2> DEFINE c == call.ohash
  <2>1. /\ call.kind = "got_data" /\ call'.kind = "none" /\ c \in Chunks
        /\ sweep = {} /\ sweep' = {} /\ connected' = connected /\ requests' = requests \ {c}
        /\ potentials' = [potentials EXCEPT ![c] = {}]
        /\ status' = [status EXCEPT ![c] = [p \in Peers |-> "none"]]
        /\ CheckPeers(requests \ {c}, wishlist, current, toPeer)
    BY <1>5, <1>a DEF EndGotData, Forget, NoCall, CallsMatch, SweepIsSound
  <2> HIDE DEF c
  <2>2. /\ potentials'[c] = {} /\ \A p \in Peers : status'[c][p] = "none"
        /\ \A d \in Chunks \ {c} : potentials'[d] = potentials[d] /\ status'[d] = status[d]
    BY <2>1, <1>b
  <2>3. \A p \in Peers : wishlist[p] \cap (requests \ {c}) \subseteq wishlist'[p]
    BY <2>1, <1>b, CheckPeersKeepsWanted
  <2>4. NothingUnrequested' /\ PotentialsReachable' /\ SweepIsSound'
    BY <2>1, <2>2, <1>a DEF NothingUnrequested, PotentialsReachable, SweepIsSound
  <2>5. SourceIsWished'
    <3> SUFFICES ASSUME NEW d \in Chunks, NEW p \in potentials'[d]
                 PROVE  /\ status'[d][p] \in {"invalid", "online"}
                        /\ status'[d][p] = "online" => d \in wishlist'[p]
      BY DEF SourceIsWished
    <3>1. d # c /\ p \in potentials[d] /\ status'[d][p] = status[d][p] /\ p \in Peers
      BY <2>2, <1>b
    <3>2. d \in requests
      BY <3>1, <1>a DEF NothingUnrequested
    <3>3. /\ status[d][p] \in {"invalid", "online"}
          /\ status[d][p] = "online" => d \in wishlist[p]
      BY <3>1, <1>a DEF SourceIsWished, c
    <3> QED
      BY <3>1, <3>2, <3>3, <2>3
  <2> QED
    BY <2>4, <2>5 DEF SourcesInv
<1>6. ASSUME NEW p \in Peers, GotStatusReply(p)
      PROVE  SourcesInv'
  <2> DEFINE c == Head(fromPeer[p]).ohash
             st == Head(fromPeer[p]).body
  <2>1. /\ call = NoCall /\ sweep = {} /\ sweep' = {} /\ connected' = connected
        /\ \/ UNCHANGED <<reqVars, wishlist, call>>
           \/ /\ c \in requests /\ status' = [status EXCEPT ![c] = [@ EXCEPT ![p] = "online"]]
              /\ CheckPeers(requests, Wishing(p, c), current, toPeer)
              /\ UNCHANGED <<requests, potentials, call>>
           \/ c \in requests /\ DropPotential(p, c, st) /\ wishlist' = wishlist
    BY <1>6 DEF GotStatusReply, Receive, AtRest
  <2> HIDE DEF c, st
  <2>2. CASE UNCHANGED <<reqVars, wishlist, call>>
    BY <1>1, <2>1, <2>2 DEF reqVars
  <2>3. CASE /\ c \in requests /\ status' = [status EXCEPT ![c] = [@ EXCEPT ![p] = "online"]]
             /\ CheckPeers(requests, Wishing(p, c), current, toPeer)
             /\ UNCHANGED <<requests, potentials, call>>
    <3>1. c \in Chunks /\ Wishing(p, c) \in [Peers -> SUBSET Chunks]
          /\ c \in Wishing(p, c)[p] /\ \A q \in Peers : wishlist[q] \subseteq Wishing(p, c)[q]
      BY <2>3, <1>b DEF Wishing
    <3>2. \A q \in Peers : Wishing(p, c)[q] \cap requests \subseteq wishlist'[q]
      BY <2>3, <3>1, <1>b, CheckPeersKeepsWanted
    <3>3. \A d \in Chunks, q \in Peers :
            status'[d][q] = IF d = c /\ q = p THEN "online" ELSE status[d][q]
      BY <2>3, <1>b
    <3>4. NothingUnrequested' /\ PotentialsReachable' /\ SweepIsSound'
      BY <2>1, <2>3, <3>3, <1>a DEF NothingUnrequested, PotentialsReachable, SweepIsSound, NoCall
    <3>5. SourceIsWished'
      <4> SUFFICES ASSUME NEW d \in Chunks, NEW q \in potentials[d]
                   PROVE  /\ status'[d][q] \in {"invalid", "online"}
                          /\ status'[d][q] = "online" => d \in wishlist'[q]
        BY <2>3 DEF SourceIsWished
      <4>1. d \in requests /\ q \in Peers
        BY <1>a, <1>b DEF NothingUnrequested
      <4>2. /\ status[d][q] \in {"invalid", "online"}
            /\ status[d][q] = "online" => d \in wishlist[q]
        BY <2>1, <1>a DEF SourceIsWished, NoCall
      <4> QED
        BY <4>1, <4>2, <3>1, <3>2, <3>3
    <3> QED
      BY <3>4, <3>5 DEF SourcesInv
  <2>4. CASE c \in requests /\ DropPotential(p, c, st) /\ wishlist' = wishlist
    BY <2>1, <2>4, <1>a, DropKeepsSources
  <2> QED
    BY <2>1, <2>2, <2>3, <2>4
<1>7. ASSUME NEW p \in Peers, GotChunkReply(p)
      PROVE  SourcesInv'
  <2> DEFINE c == Head(fromPeer[p]).ohash
  <2>1. /\ call = NoCall /\ sweep = {} /\ sweep' = {} /\ connected' = connected
        /\ \/ UNCHANGED <<reqVars, wishlist, call>>
           \/ /\ c \in requests /\ wishlist' = [wishlist EXCEPT ![p] = @ \ {c}]
              /\ \/ call' = CallReaders("got_data", c) /\ UNCHANGED reqVars
                 \/ DropPotential(p, c, "lost")
    BY <1>7 DEF GotChunkReply, Receive, AtRest
  <2> HIDE DEF c
  <2>2. CASE UNCHANGED <<reqVars, wishlist, call>>
    BY <1>1, <2>1, <2>2 DEF reqVars
  <2>3. CASE /\ c \in requests /\ wishlist' = [wishlist EXCEPT ![p] = @ \ {c}]
             /\ call' = CallReaders("got_data", c) /\ UNCHANGED reqVars
    <3>1. call'.kind = "got_data" /\ call'.ohash = c
      BY <2>3 DEF CallReaders
    <3>2. NothingUnrequested' /\ PotentialsReachable' /\ SweepIsSound'
      BY <2>1, <2>3, <1>a DEF NothingUnrequested, PotentialsReachable, SweepIsSound, reqVars
    <3>3. SourceIsWished'
      BY <2>1, <2>3, <3>1, <1>a, <1>b DEF SourceIsWished, reqVars, NoCall
    <3> QED
      BY <3>2, <3>3 DEF SourcesInv
  <2>4. CASE /\ c \in requests /\ wishlist' = [wishlist EXCEPT ![p] = @ \ {c}]
             /\ DropPotential(p, c, "lost")
    BY <2>1, <2>4, <1>a, DropKeepsSources
  <2> QED
    BY <2>1, <2>2, <2>3, <2>4
<1>8. ASSUME NEW p \in Peers, GotOutStreamConnected(p)
      PROVE  SourcesInv'
  <2>0. /\ connected' = connected \cup {p} /\ UNCHANGED <<requests, wishlist, sweep, call>>
        /\ potentials' = [c \in Chunks |-> IF c \in requests THEN potentials[c] \cup {p}
                                                              ELSE potentials[c]]
        /\ status' = [c \in Chunks |-> IF c \in requests THEN [status[c] EXCEPT ![p] = "invalid"]
                                                          ELSE status[c]]
    BY <1>8, Zenon DEF GotOutStreamConnected, Resent, ctlVars
  <2>1. \A c \in Chunks :
          potentials'[c] = IF c \in requests THEN potentials[c] \cup {p} ELSE potentials[c]
    BY <2>0
  <2>2. \A c \in Chunks, q \in Peers :
          status'[c][q] = IF c \in requests /\ q = p THEN "invalid" ELSE status[c][q]
    BY <2>0, <1>b
  <2>3. NothingUnrequested' /\ PotentialsReachable' /\ SweepIsSound'
    BY <2>0, <2>1, <2>2, <1>a DEF NothingUnrequested, PotentialsReachable, SweepIsSound
  <2>4. SourceIsWished'
    BY <2>0, <2>1, <2>2, <1>a, <1>b DEF SourceIsWished
  <2> QED
    BY <2>3, <2>4 DEF SourcesInv
<1>9. ASSUME NEW p \in Peers, GotOutStreamDisconnected(p)
      PROVE  SourcesInv'
  <2>1. /\ connected' = connected \ {p} /\ sweep' = {<<p, c>> : c \in requests}
        /\ UNCHANGED <<requests, potentials, status, wishlist, call>> /\ call = NoCall /\ sweep = {}
    BY <1>9 DEF GotOutStreamDisconnected, AtRest, reqVars, peerVars
  <2>2. NothingUnrequested'
    BY <2>1, <1>a DEF NothingUnrequested
  <2>3. SourceIsWished'
    BY <2>1, <1>a DEF SourceIsWished
  <2>5. PotentialsReachable'
    <3> SUFFICES ASSUME NEW c \in Chunks, NEW q \in potentials'[c]
                 PROVE  q \in connected' \/ <<q, c>> \in sweep'
      BY DEF PotentialsReachable
    <3>1. q \in connected /\ c \in requests
      BY <2>1, <1>a DEF NothingUnrequested, PotentialsReachable
    <3> QED
      BY <2>1, <3>1
  <2>4. SweepIsSound'
    BY <2>1 DEF SweepIsSound, NoCall
  <2> QED
    BY <2>2, <2>3, <2>4, <2>5 DEF SourcesInv
<1>10. ASSUME NEW p \in Peers, NEW c \in Chunks, RemoveFromRequest(p, c)
       PROVE  SourcesInv'
  <2>1. /\ call = NoCall /\ <<p, c>> \in sweep /\ sweep' = sweep \ {<<p, c>>} /\ c \in requests
        /\ DropPotential(p, c, "none") /\ UNCHANGED <<connected, wishlist>>
    BY <1>10, <1>a DEF RemoveFromRequest, SweepIsSound, peerVars, netVars
  <2> QED
    BY <2>1, <1>a, DropKeepsSources
<1>11. ASSUME \/ \E p \in Peers : \/ GotInStreamConnected(p)
                                  \/ GotStatusRequest(p)
                                  \/ GotChunkRequest(p)
                                  \/ GotChunkRequestCorrupt(p)
              \/ \E p \in Peers, c \in Chunks : StoreChanges(p, c)
              \/ UNCHANGED vars
       PROVE  SourcesInv'
  <2>1. UNCHANGED <<requests, potentials, status, connected, wishlist, sweep, call>>
    BY <1>11 DEF GotInStreamConnected, GotStatusRequest, GotChunkRequest, GotChunkRequestCorrupt,
         Answer, StoreChanges, reqVars, peerVars, netVars, ctlVars, vars
  <2> QED
    BY <1>1, <2>1
<1> QED
  BY <1>2, <1>3, <1>4, <1>5, <1>6, <1>7, <1>8, <1>9, <1>10, <1>11 DEF Next

\* Losing a source keeps the calls in order: those told no_data are those that waited.
LEMMA DropKeepsCalls ==
  ASSUME TypeOK, CallsInv, call = NoCall, NEW p \in Peers, NEW c \in Chunks, NEW st,
         DropPotential(p, c, st), pending' = pending
  PROVE  CallsInv'
<1>1. \/ UNCHANGED <<readers, call>>
      \/ /\ readers' = [readers EXCEPT ![c] = {}]
         /\ call' = [kind |-> "no_data", ohash |-> c, left |-> readers[c], begun |-> FALSE]
  BY DropPotentialEffect
<1>2. CASE UNCHANGED <<readers, call>>
  BY <1>2 DEF CallsInv, CallsMatch, ReadersPending, OnlyPendingAnswered
<1>3. CASE /\ readers' = [readers EXCEPT ![c] = {}]
           /\ call' = [kind |-> "no_data", ohash |-> c, left |-> readers[c], begun |-> FALSE]
  <2>1. readers'[c] = {} /\ \A d \in Chunks \ {c} : readers'[d] = readers[d]
    BY <1>3 DEF TypeOK
  <2>2. call'.kind = "no_data" /\ call'.ohash = c /\ call'.left = readers[c]
    BY <1>3
  <2>3. \A d \in Chunks : \A r \in readers[d] : <<r, d>> \in pending
    BY DEF CallsInv, ReadersPending, NoCall
  <2> QED
    BY <2>1, <2>2, <2>3 DEF CallsInv, CallsMatch, ReadersPending, OnlyPendingAnswered
<1> QED
  BY <1>1, <1>2, <1>3

LEMMA CallsKept ==
  ASSUME TableInv, [Next]_vars
  PROVE  CallsInv'
<1>a. /\ TypeOK /\ CallsInv /\ CallsMatch /\ ReadersPending /\ OnlyPendingAnswered
      /\ requests \subseteq Chunks /\ readers \in [Chunks -> SUBSET Readers]
      /\ call \in [kind : {"none", "got_data", "no_data"}, ohash : Chunks \cup {NoChunk},
                   left : SUBSET Readers, begun : BOOLEAN]
  BY DEF TableInv, CallsInv, TypeOK
<1>1. ASSUME UNCHANGED <<readers, pending, call>>
      PROVE  CallsInv'
  BY <1>1, <1>a DEF CallsInv, CallsMatch, ReadersPending, OnlyPendingAnswered
<1>2. ASSUME NEW r \in Readers, NEW c \in Chunks, ReadChunk(r, c)
      PROVE  CallsInv'
  <2>1. call' = call /\ <<r, c>> \notin pending
    BY <1>2 DEF ReadChunk, ctlVars
  <2>2. CASE c \in LocalChunks
    BY <1>1, <1>2, <2>1, <2>2 DEF ReadChunk, reqVars
  <2>3. CASE c \notin LocalChunks
    <3>1. readers' = [readers EXCEPT ![c] = @ \cup {r}] /\ pending' = pending \cup {<<r, c>>}
      BY <1>2, <2>3 DEF ReadChunk
    <3>2. readers'[c] = readers[c] \cup {r} /\ \A d \in Chunks \ {c} : readers'[d] = readers[d]
      BY <3>1, <1>a
    <3>3. call.ohash = c => r \notin call.left
      BY <2>1, <1>a DEF OnlyPendingAnswered
    <3>4. CallsMatch'
      BY <2>1, <3>2, <3>3, <1>a DEF CallsMatch
    <3>5. ReadersPending' /\ OnlyPendingAnswered'
      BY <2>1, <3>1, <3>2, <1>a DEF ReadersPending, OnlyPendingAnswered
    <3> QED
      BY <3>4, <3>5 DEF CallsInv
  <2> QED
    BY <2>2, <2>3
<1>3. ASSUME NEW r \in Readers, CallReader(r)
      PROVE  CallsInv'
  <2>1. /\ r \in call.left /\ readers' = readers /\ pending' = pending \ {<<r, call.ohash>>}
        /\ call'.kind = call.kind /\ call'.ohash = call.ohash /\ call'.left = call.left \ {r}
    BY <1>3, <1>a DEF CallReader, reqVars
  <2>2. call.kind \in {"got_data", "no_data"} /\ call.ohash \in Chunks
    BY <2>1, <1>a DEF CallsMatch, NoCall
  <2>3. call.kind = "no_data" => r \notin readers[call.ohash]
    BY <2>1, <1>a DEF CallsMatch
  <2>4. CallsMatch' /\ OnlyPendingAnswered'
    BY <2>1, <2>2, <1>a DEF CallsMatch, OnlyPendingAnswered
  <2>5. ReadersPending'
    BY <2>1, <2>2, <2>3, <1>a DEF ReadersPending
  <2> QED
    BY <2>4, <2>5 DEF CallsInv
<1>4. ASSUME EndNoData
      PROVE  CallsInv'
  BY <1>4, <1>a DEF EndNoData, NoCall, reqVars, histVars, CallsInv, CallsMatch, ReadersPending,
     OnlyPendingAnswered
<1>5. ASSUME EndGotData
      PROVE  CallsInv'
  <2>1. /\ call.kind = "got_data" /\ call' = NoCall /\ pending' = pending
        /\ readers' = [readers EXCEPT ![call.ohash] = {}]
    BY <1>5 DEF EndGotData, Forget, histVars
  <2>2. \A c \in Chunks : readers'[c] = IF c = call.ohash THEN {} ELSE readers[c]
    BY <2>1, <1>a
  <2>3. CallsMatch' /\ OnlyPendingAnswered'
    BY <2>1 DEF CallsMatch, OnlyPendingAnswered, NoCall
  <2>4. ReadersPending'
    BY <2>1, <2>2, <1>a DEF ReadersPending
  <2> QED
    BY <2>3, <2>4 DEF CallsInv
<1>6. ASSUME NEW p \in Peers, GotStatusReply(p)
      PROVE  CallsInv'
  <2>1. PICK c : /\ call = NoCall /\ pending' = pending
                 /\ \/ UNCHANGED <<readers, call>>
                    \/ c \in requests /\ \E st : DropPotential(p, c, st)
    BY <1>6 DEF GotStatusReply, Receive, AtRest, reqVars, histVars
  <2> QED
    BY <2>1, <1>1, <1>a, DropKeepsCalls
<1>7. ASSUME NEW p \in Peers, GotChunkReply(p)
      PROVE  CallsInv'
  <2>1. PICK c : /\ call = NoCall /\ pending' = pending
                 /\ \/ UNCHANGED <<readers, call>>
                    \/ c \in requests /\ call' = CallReaders("got_data", c) /\ readers' = readers
                    \/ c \in requests /\ DropPotential(p, c, "lost")
    BY <1>7 DEF GotChunkReply, Receive, AtRest, reqVars, histVars
  <2>2. CASE c \in requests /\ call' = CallReaders("got_data", c) /\ readers' = readers
    <3>1. call'.kind = "got_data" /\ call'.ohash = c /\ call'.left = readers[c]
      BY <2>2 DEF CallReaders
    <3>2. \A d \in Chunks : \A r \in readers[d] : <<r, d>> \in pending
      BY <2>1, <1>a DEF ReadersPending, NoCall
    <3> QED
      BY <2>1, <2>2, <3>1, <3>2, <1>a DEF CallsInv, CallsMatch, ReadersPending, OnlyPendingAnswered
  <2> QED
    BY <2>1, <2>2, <1>1, <1>a, DropKeepsCalls
<1>8. ASSUME NEW p \in Peers, NEW c \in Chunks, RemoveFromRequest(p, c)
      PROVE  CallsInv'
  BY <1>8, <1>a, DropKeepsCalls DEF RemoveFromRequest, histVars
<1>9. ASSUME \/ \E p \in Peers : \/ GotOutStreamConnected(p)
                                 \/ GotOutStreamDisconnected(p)
                                 \/ GotInStreamConnected(p)
                                 \/ GotStatusRequest(p)
                                 \/ GotChunkRequest(p)
                                 \/ GotChunkRequestCorrupt(p)
             \/ \E p \in Peers, c \in Chunks : StoreChanges(p, c)
             \/ UNCHANGED vars
      PROVE  CallsInv'
  <2>1. UNCHANGED <<readers, pending, call>>
    BY <1>9 DEF GotOutStreamConnected, GotOutStreamDisconnected, GotInStreamConnected,
         GotStatusRequest, GotChunkRequest, GotChunkRequestCorrupt, Answer, StoreChanges, reqVars,
         ctlVars, histVars, vars
  <2> QED
    BY <1>1, <2>1
<1> QED
  BY <1>2, <1>3, <1>4, <1>5, <1>6, <1>7, <1>8, <1>9 DEF Next

\* A question about c is under way on a stream: asked, or answered and not yet read.
Asked(to, from, c) ==
  \/ \E i \in DOMAIN to : to[i] = StatusRequest(c)
  \/ \E i \in DOMAIN from : from[i].type = "status_reply" /\ from[i].ohash = c

\* A message sent after the question leaves it under way.
LEMMA AskedAppend ==
  ASSUME NEW to \in Seq(Request), NEW from, NEW m, NEW c, Asked(to, from, c)
  PROVE  Asked(Append(to, m), from, c)
BY DEF Asked

LEMMA AskedNow ==
  ASSUME NEW to \in Seq(Request), NEW from, NEW c
  PROVE  Asked(Append(to, StatusRequest(c)), from, c)
<1>1. Len(to) + 1 \in DOMAIN Append(to, StatusRequest(c))
      /\ Append(to, StatusRequest(c))[Len(to) + 1] = StatusRequest(c)
  OBVIOUS
<1> QED
  BY <1>1 DEF Asked

\* Only reading the answer itself takes it from the stream.
LEMMA AskedTaken ==
  ASSUME NEW to, NEW from \in Seq(Reply), from # <<>>, NEW c, Asked(to, from, c),
         ~(Head(from).type = "status_reply" /\ Head(from).ohash = c)
  PROVE  Asked(to, Tail(from), c)
<1>1. CASE \E i \in DOMAIN to : to[i] = StatusRequest(c)
  BY <1>1 DEF Asked
<1>2. ASSUME NEW i \in DOMAIN from, from[i].type = "status_reply", from[i].ohash = c
      PROVE  Asked(to, Tail(from), c)
  <2>1. Head(from) = from[1] /\ i \in Int /\ i # 1
    BY <1>2
  <2>2. i - 1 \in DOMAIN Tail(from) /\ Tail(from)[i - 1] = from[i]
    BY <2>1
  <2> QED
    BY <1>2, <2>2 DEF Asked
<1> QED
  BY <1>1, <1>2 DEF Asked

\* The host that takes a question writes its answer.
LEMMA AskedAnswered ==
  ASSUME NEW to \in Seq(Request), to # <<>>, NEW from \in Seq(Reply), NEW c,
         NEW reply \in Reply,
         Head(to).type = "status_request" =>
           reply.type = "status_reply" /\ reply.ohash = Head(to).ohash,
         Asked(to, from, c)
  PROVE  Asked(Tail(to), Append(from, reply), c)
<1>1. Len(from) + 1 \in DOMAIN Append(from, reply) /\ Append(from, reply)[Len(from) + 1] = reply
      /\ \A i \in DOMAIN from : i \in DOMAIN Append(from, reply) /\ Append(from, reply)[i] = from[i]
  OBVIOUS
<1>2. CASE \E i \in DOMAIN from : from[i].type = "status_reply" /\ from[i].ohash = c
  BY <1>1, <1>2 DEF Asked
<1>3. ASSUME NEW i \in DOMAIN to, to[i] = StatusRequest(c)
      PROVE  Asked(Tail(to), Append(from, reply), c)
  <2>1. CASE i = 1
    <3>1. Head(to).type = "status_request" /\ Head(to).ohash = c
      BY <2>1, <1>3 DEF StatusRequest
    <3> QED
      BY <1>1, <3>1 DEF Asked
  <2>2. CASE i # 1
    <3>1. i - 1 \in DOMAIN Tail(to) /\ Tail(to)[i - 1] = to[i]
      BY <2>2, <1>3
    <3> QED
      BY <1>3, <3>1 DEF Asked
  <2> QED
    BY <2>1, <2>2
<1> QED
  BY <1>2, <1>3 DEF Asked

\* check_peers only adds chunk requests to the streams.
LEMMA CheckPeersKeepsAsked ==
  ASSUME TypeOK, NEW reqs \in SUBSET Chunks, NEW wish \in [Peers -> SUBSET Chunks],
         CheckPeers(reqs, wish, current, toPeer),
         NEW p \in Peers, NEW from, NEW c, Asked(toPeer[p], from, c)
  PROVE  Asked(toPeer'[p], from, c)
<1>1. current \in [Peers -> Chunks \cup {NoChunk}] /\ toPeer \in [Peers -> Seq(Request)]
  BY DEF TypeOK
<1>2. Kept(p, current, toPeer) \/ Started(p, current, toPeer)
  BY <1>1, CheckPeersEffect
<1>3. PICK m : toPeer'[p] = toPeer[p] \/ toPeer'[p] = Append(toPeer[p], m)
  BY <1>2 DEF Kept, Started
<1> QED
  BY <1>1, <1>3, AskedAppend

LEMMA QuestionsKept ==
  ASSUME TableInv, TypeOK', [Next]_vars
  PROVE  InvalidMeansAsked'
<1>a. /\ TypeOK /\ NothingUnrequested /\ SweepIsSound
      /\ \A c \in Chunks, p \in Peers :
           status[c][p] = "invalid" => Asked(toPeer[p], fromPeer[p], c) \/ <<p, c>> \in sweep
  BY DEF TableInv, SourcesInv, InvalidMeansAsked, Asked
<1>b. /\ requests \subseteq Chunks /\ status \in [Chunks -> [Peers -> ChunkStatus]]
      /\ wishlist \in [Peers -> SUBSET Chunks]
      /\ connected \subseteq Peers
      /\ toPeer \in [Peers -> Seq(Request)] /\ fromPeer \in [Peers -> Seq(Reply)]
      /\ \A p \in Peers : toPeer[p] \in Seq(Request) /\ fromPeer[p] \in Seq(Reply)
  BY <1>a DEF TypeOK
<1> SUFFICES \A c \in Chunks, p \in Peers :
               status'[c][p] = "invalid" => Asked(toPeer'[p], fromPeer'[p], c) \/ <<p, c>> \in sweep'
  BY DEF InvalidMeansAsked, Asked
<1>1. ASSUME UNCHANGED <<status, toPeer, fromPeer, sweep>>
      PROVE  \A c \in Chunks, p \in Peers :
               status'[c][p] = "invalid" => Asked(toPeer'[p], fromPeer'[p], c) \/ <<p, c>> \in sweep'
  BY <1>1, <1>a
<1>2. ASSUME NEW r \in Readers, NEW c \in Chunks, ReadChunk(r, c), NEW d \in Chunks, NEW p \in Peers,
             status'[d][p] = "invalid"
      PROVE  Asked(toPeer'[p], fromPeer'[p], d) \/ <<p, d>> \in sweep'
  <2>1. UNCHANGED <<fromPeer, sweep>>
    BY <1>2 DEF ReadChunk, ctlVars
  <2>2. CASE c \in LocalChunks
    BY <1>1, <1>2, <2>1, <2>2 DEF ReadChunk, reqVars
  <2>3. CASE c \notin LocalChunks
    <3>1. /\ status' = [status EXCEPT ![c] =
                          [q \in Peers |-> IF q \in connected THEN "invalid" ELSE @[q]]]
          /\ toPeer' = [q \in Peers |-> IF q \in connected
                                        THEN Append(toPeer[q], StatusRequest(c))
                                        ELSE toPeer[q]]
      BY <1>2, <2>3 DEF ReadChunk, Reachable
    <3>2. toPeer'[p] = IF p \in connected THEN Append(toPeer[p], StatusRequest(c)) ELSE toPeer[p]
      BY <3>1
    <3>3. CASE d = c /\ p \in connected
      BY <3>2, <3>3, <1>b, AskedNow
    <3>4. CASE ~(d = c /\ p \in connected)
      <4>1. status'[d][p] = status[d][p]
        BY <3>1, <3>4, <1>b
      <4>2. Asked(toPeer[p], fromPeer[p], d) \/ <<p, d>> \in sweep
        BY <4>1, <1>2, <1>a
      <4>3. Asked(toPeer[p], fromPeer[p], d) => Asked(toPeer'[p], fromPeer[p], d)
        BY <3>2, <1>b, AskedAppend
      <4> QED
        BY <4>2, <4>3, <2>1
    <3> QED
      BY <3>3, <3>4
  <2> QED
    BY <2>2, <2>3
<1>3. ASSUME EndGotData, NEW d \in Chunks, NEW p \in Peers, status'[d][p] = "invalid"
      PROVE  Asked(toPeer'[p], fromPeer'[p], d) \/ <<p, d>> \in sweep'
  <2>1. PICK c : /\ UNCHANGED <<fromPeer, sweep>>
                 /\ status' = [status EXCEPT ![c] = [q \in Peers |-> "none"]]
                 /\ CheckPeers(requests \ {c}, wishlist, current, toPeer)
    BY <1>3 DEF EndGotData, Forget
  <2>2. status[d][p] = "invalid"
    BY <2>1, <1>3, <1>b
  <2>3. Asked(toPeer[p], fromPeer[p], d) => Asked(toPeer'[p], fromPeer[p], d)
    BY <2>1, <1>a, <1>b, CheckPeersKeepsAsked
  <2> QED
    BY <2>1, <2>2, <2>3, <1>a
<1>4. ASSUME NEW p \in Peers, GotStatusReply(p), NEW d \in Chunks, NEW q \in Peers,
             status'[d][q] = "invalid"
      PROVE  Asked(toPeer'[q], fromPeer'[q], d) \/ <<q, d>> \in sweep'
  <2>1. PICK c, st :
          /\ c = Head(fromPeer[p]).ohash /\ st = Head(fromPeer[p]).body
          /\ Head(fromPeer[p]).type = "status_reply" /\ fromPeer[p] # <<>>
          /\ fromPeer' = [fromPeer EXCEPT ![p] = Tail(@)] /\ sweep = {}
          /\ \/ c \notin requests /\ UNCHANGED <<status, toPeer>>
             \/ /\ c \in requests /\ status' = [status EXCEPT ![c] = [@ EXCEPT ![p] = "online"]]
                /\ CheckPeers(requests, Wishing(p, c), current, toPeer)
             \/ c \in requests /\ DropPotential(p, c, st) /\ toPeer' = toPeer
    BY <1>4 DEF GotStatusReply, Receive, AtRest, reqVars
  <2>2. Head(fromPeer[p]) \in Reply
    BY <2>1, <1>b
  <2>3. st # "invalid" /\ c \in Chunks
    BY <2>1, <2>2 DEF Reply
  <2>4. status[d][q] = "invalid" /\ ~(d = c /\ q = p)
    <3>1. CASE c \notin requests /\ UNCHANGED <<status, toPeer>>
      BY <3>1, <1>4, <1>a, <2>3 DEF NothingUnrequested
    <3>2. CASE c \in requests /\ status' = [status EXCEPT ![c] = [@ EXCEPT ![p] = "online"]]
      BY <3>2, <1>4, <1>b
    <3>3. CASE c \in requests /\ DropPotential(p, c, st) /\ toPeer' = toPeer
      <4>1. /\ p \notin potentials'[c]
            /\ \/ status'[d][q] = status[d][q]
               \/ d = c /\ status'[d][q] = "none"
               \/ d = c /\ q = p /\ status'[d][q] = st
        BY <3>3, <1>a, <2>3, DropPotentialEffect
      <4>2. d = c /\ q = p => status'[d][q] \in {st, "none"}
        BY <3>3, <1>b, <2>3 DEF DropPotential, Forget
      <4> QED
        BY <4>1, <4>2, <2>3, <1>4
    <3> QED
      BY <2>1, <3>1, <3>2, <3>3
  <2>5. Asked(toPeer[q], fromPeer[q], d)
    BY <2>4, <2>1, <1>a
  <2>6. fromPeer'[q] = IF q = p THEN Tail(fromPeer[p]) ELSE fromPeer[q]
    BY <2>1, <1>b
  <2>7. Asked(toPeer[q], fromPeer'[q], d)
    <3>1. CASE q = p
      <4>1. Asked(toPeer[q], Tail(fromPeer[q]), d)
        BY <3>1, <2>1, <2>4, <2>5, <1>b, AskedTaken
      <4> QED
        BY <4>1, <3>1, <2>6
    <3> QED
      BY <3>1, <2>5, <2>6
  <2>8. CASE toPeer' = toPeer
    BY <2>7, <2>8
  <2>9. CASE CheckPeers(requests, Wishing(p, c), current, toPeer)
    <3>1. Wishing(p, c) \in [Peers -> SUBSET Chunks]
      BY <2>3, <1>b DEF Wishing
    <3> QED
      BY <2>7, <2>9, <3>1, <1>a, <1>b, CheckPeersKeepsAsked
  <2> QED
    BY <2>1, <2>8, <2>9
<1>5. ASSUME NEW p \in Peers, GotChunkReply(p), NEW d \in Chunks, NEW q \in Peers,
             status'[d][q] = "invalid"
      PROVE  Asked(toPeer'[q], fromPeer'[q], d) \/ <<q, d>> \in sweep'
  <2>0. PICK c :
          \/ UNCHANGED <<requests, readers, potentials, status>>
          \/ c \in requests /\ DropPotential(p, c, "lost")
    BY <1>5 DEF GotChunkReply, reqVars
  <2>1. /\ Head(fromPeer[p]).type = "chunk_reply" /\ fromPeer[p] # <<>>
        /\ fromPeer' = [fromPeer EXCEPT ![p] = Tail(@)] /\ sweep = {} /\ toPeer' = toPeer
    BY <1>5 DEF GotChunkReply, Receive, AtRest
  <2>2. status[d][q] = "invalid"
    <3>1. CASE c \in requests /\ DropPotential(p, c, "lost")
      <4>1. \/ status'[d][q] = status[d][q]
            \/ status'[d][q] = "none"
            \/ status'[d][q] = "lost"
        BY <3>1, <1>a, <1>b, DropPotentialEffect
      <4> QED
        BY <4>1, <1>5
    <3> QED
      BY <3>1, <2>0, <1>5
  <2>3. Asked(toPeer[q], fromPeer[q], d)
    BY <2>1, <2>2, <1>a
  <2>4. fromPeer'[q] = IF q = p THEN Tail(fromPeer[p]) ELSE fromPeer[q]
    BY <2>1, <1>b
  <2>5. CASE q = p
    <3>1. Asked(toPeer[q], Tail(fromPeer[q]), d)
      BY <2>1, <2>3, <2>5, <1>b, AskedTaken
    <3> QED
      BY <3>1, <2>1, <2>4, <2>5
  <2> QED
    BY <2>1, <2>3, <2>4, <2>5
<1>6. ASSUME NEW p \in Peers, GotOutStreamConnected(p), NEW d \in Chunks, NEW q \in Peers,
             status'[d][q] = "invalid"
      PROVE  Asked(toPeer'[q], fromPeer'[q], d) \/ <<q, d>> \in sweep'
  <2>1. PICK order \in [1 .. Cardinality(Resent) -> Resent] :
          /\ \A c \in Resent : \E i \in DOMAIN order : order[i] = c
          /\ toPeer' = [toPeer EXCEPT ![p] = [i \in DOMAIN order |-> StatusRequest(order[i])]]
    BY <1>6 DEF GotOutStreamConnected
  <2>2. /\ UNCHANGED <<fromPeer, sweep>>
        /\ status' = [c \in Chunks |-> IF c \in requests THEN [status[c] EXCEPT ![p] = "invalid"]
                                                         ELSE status[c]]
    BY <1>6, Zenon DEF GotOutStreamConnected, Resent, ctlVars
  <2>3. d \in requests
    BY <2>2, <1>6, <1>a DEF NothingUnrequested
  <2>4. CASE q = p
    <3>1. PICK i \in DOMAIN order : order[i] = d
      BY <2>1, <2>3 DEF Resent
    <3>2. toPeer'[q] = [j \in DOMAIN order |-> StatusRequest(order[j])]
      BY <2>1, <2>4, <1>b
    <3>3. i \in DOMAIN toPeer'[q] /\ toPeer'[q][i] = StatusRequest(d)
      BY <3>1, <3>2
    <3> QED
      BY <3>3 DEF Asked
  <2>5. CASE q # p
    <3>1. toPeer'[q] = toPeer[q] /\ status'[d][q] = status[d][q]
      BY <2>1, <2>2, <2>5, <1>b
    <3> QED
      BY <3>1, <2>2, <1>6, <1>a
  <2> QED
    BY <2>4, <2>5
<1>7. ASSUME NEW p \in Peers, GotOutStreamDisconnected(p), NEW d \in Chunks, NEW q \in Peers,
             status'[d][q] = "invalid"
      PROVE  Asked(toPeer'[q], fromPeer'[q], d) \/ <<q, d>> \in sweep'
  <2>1. /\ sweep = {} /\ sweep' = {<<p, c>> : c \in requests} /\ status' = status
        /\ toPeer' = [toPeer EXCEPT ![p] = <<>>] /\ fromPeer' = [fromPeer EXCEPT ![p] = <<>>]
    BY <1>7 DEF GotOutStreamDisconnected, AtRest, reqVars
  <2>2. d \in requests
    BY <2>1, <1>7, <1>a DEF NothingUnrequested
  <2>3. CASE q = p
    BY <2>1, <2>2, <2>3
  <2>4. CASE q # p
    <3>1. toPeer'[q] = toPeer[q] /\ fromPeer'[q] = fromPeer[q]
      BY <2>1, <2>4, <1>b
    <3> QED
      BY <3>1, <2>1, <1>7, <1>a
  <2> QED
    BY <2>3, <2>4
<1>8. ASSUME NEW p \in Peers, NEW c \in Chunks, RemoveFromRequest(p, c), NEW d \in Chunks,
             NEW q \in Peers, status'[d][q] = "invalid"
      PROVE  Asked(toPeer'[q], fromPeer'[q], d) \/ <<q, d>> \in sweep'
  <2>1. /\ DropPotential(p, c, "none") /\ sweep' = sweep \ {<<p, c>>}
        /\ UNCHANGED <<toPeer, fromPeer>>
    BY <1>8 DEF RemoveFromRequest, netVars
  <2>2. status[d][q] = "invalid"
    <3>1. \/ status'[d][q] = status[d][q]
          \/ status'[d][q] = "none"
      BY <2>1, <1>a, DropPotentialEffect
    <3> QED
      BY <3>1, <1>8
  <2>3. d = c /\ q = p => status'[d][q] = "none"
    BY <2>1, <1>b DEF DropPotential, Forget
  <2> QED
    BY <2>1, <2>2, <2>3, <1>8, <1>a
<1>9. ASSUME NEW p \in Peers, NEW reply \in Reply, NEW type, Answer(p, type, reply),
             type = "status_request" =>
               reply.type = "status_reply" /\ reply.ohash = Head(toPeer[p]).ohash,
             NEW d \in Chunks, NEW q \in Peers, status'[d][q] = "invalid"
      PROVE  Asked(toPeer'[q], fromPeer'[q], d) \/ <<q, d>> \in sweep'
  <2>1. /\ toPeer[p] # <<>> /\ Head(toPeer[p]).type = type /\ UNCHANGED <<status, sweep>>
        /\ toPeer' = [toPeer EXCEPT ![p] = Tail(@)]
        /\ fromPeer' = [fromPeer EXCEPT ![p] = Append(@, reply)]
    BY <1>9 DEF Answer, reqVars, ctlVars
  <2>2. CASE q = p
    <3>1. toPeer'[q] = Tail(toPeer[q]) /\ fromPeer'[q] = Append(fromPeer[q], reply)
      BY <2>1, <2>2, <1>b
    <3>2. Asked(toPeer[q], fromPeer[q], d) => Asked(Tail(toPeer[q]), Append(fromPeer[q], reply), d)
      BY <2>1, <2>2, <1>9, <1>b, AskedAnswered
    <3> QED
      BY <3>1, <3>2, <2>1, <1>9, <1>a
  <2>3. CASE q # p
    <3>1. toPeer'[q] = toPeer[q] /\ fromPeer'[q] = fromPeer[q]
      BY <2>1, <2>3, <1>b
    <3> QED
      BY <3>1, <2>1, <1>9, <1>a
  <2> QED
    BY <2>2, <2>3
<1>10. ASSUME NEW p \in Peers, GotStatusRequest(p) \/ GotChunkRequest(p) \/ GotChunkRequestCorrupt(p)
       PROVE  \E reply \in Reply : \E type :
                /\ Answer(p, type, reply)
                /\ type = "status_request" =>
                     reply.type = "status_reply" /\ reply.ohash = Head(toPeer[p]).ohash
  <2>1. PICK c : c = Head(toPeer[p]).ohash
    OBVIOUS
  <2>2. c \in Chunks
    <3>1. toPeer[p] # <<>>
      BY <1>10 DEF GotStatusRequest, GotChunkRequest, GotChunkRequestCorrupt, Answer
    <3>2. Head(toPeer[p]) \in Request
      BY <3>1, <1>b
    <3> QED
      BY <3>2, <2>1 DEF Request
  <2>3. CASE GotStatusRequest(p)
    <3>1. PICK st \in {"online", "unknown"} : Answer(p, "status_request", StatusReply(c, st))
      BY <2>1, <2>3 DEF GotStatusRequest
    <3>2. StatusReply(c, st) \in Reply
      BY <2>2, MessageTypes
    <3>3. StatusReply(c, st).type = "status_reply" /\ StatusReply(c, st).ohash = c
      BY DEF StatusReply
    <3> QED
      BY <2>1, <3>1, <3>2, <3>3
  <2>4. CASE GotChunkRequest(p) \/ GotChunkRequestCorrupt(p)
    <3>1. PICK data \in {"data", "bad", "empty"} : Answer(p, "chunk_request", ChunkReply(c, data))
      BY <2>1, <2>4 DEF GotChunkRequest, GotChunkRequestCorrupt
    <3>2. ChunkReply(c, data) \in Reply
      BY <2>2, MessageTypes
    <3> QED
      BY <3>1, <3>2
  <2> QED
    BY <1>10, <2>3, <2>4
<1>11. ASSUME \/ \E r \in Readers : CallReader(r)
              \/ EndNoData
              \/ \E p \in Peers : GotInStreamConnected(p)
              \/ \E p \in Peers, c \in Chunks : StoreChanges(p, c)
              \/ UNCHANGED vars
       PROVE  UNCHANGED <<status, toPeer, fromPeer, sweep>>
  BY <1>11 DEF CallReader, EndNoData, GotInStreamConnected, StoreChanges, reqVars, netVars, ctlVars,
     vars
<1> QED
  BY <1>1, <1>2, <1>3, <1>4, <1>5, <1>6, <1>7, <1>8, <1>9, <1>10, <1>11 DEF Next

\* Whatever is lost, corrupted, taken away or asked again inside a callback, a request's
\* sources, the wishlists, the questions under way and the callbacks agree.
THEOREM TableIsSound == Spec => []TableAgrees
<1>1. Init => SourcesInv /\ InvalidMeansAsked /\ CallsInv
  BY DEF Init, SourcesInv, NothingUnrequested, PotentialsReachable, SourceIsWished, SweepIsSound,
     InvalidMeansAsked, CallsInv, CallsMatch, ReadersPending, OnlyPendingAnswered, NoCall
<1>2. TypeOK /\ TypeOK' /\ (SourcesInv /\ InvalidMeansAsked /\ CallsInv) /\ [Next]_vars
        => (SourcesInv /\ InvalidMeansAsked /\ CallsInv)'
  BY SourcesKept, QuestionsKept, CallsKept DEF TableInv
<1>3. SourcesInv /\ InvalidMeansAsked /\ CallsInv => TableAgrees
  BY DEF SourcesInv, CallsInv, TableAgrees
<1> QED
  BY <1>1, <1>2, <1>3, TypeCorrect, PTL DEF Spec

-----------------------------------------------------------------------------
(* Downloads: the chunks that a tree of Updates reads.                     *)

Actions == [st : Download!Statuses, timer : BOOLEAN, tot : Nat, got : Nat, nerr : Nat]
Disks == [tmp : BOOLEAN, written : SUBSET Nat, file : {"none", "whole", "partial"}]
Lists == [recs : Seq(Nat), parts : Seq(Updates), done : BOOLEAN]
Waits == UNION {[Download!Pieces(u) -> Nat] : u \in Updates}
Worlds == [up : [Updates -> Actions], regions : [Updates -> Waits],
           disk : [Download!Files -> Disks], list : [Download!Dirs -> Lists],
           failed : SUBSET {"done", "bytes", "order"}]

\* The pieces of u for which no region waits, with the one at hand.
Ready(w, u, H) == {p \in Download!Pieces(u) : w.regions[u][p] = 0 \/ <<u, p>> \in H}

\* What is so of a file at any time, and what is so again after each handler: a
\* file at work asks for what is not written, and has counted what is ready.
FileSound(w, f) ==
  /\ w.up[f].tot <= Size[f] /\ w.disk[f].written \subseteq 1..Size[f]
  /\ w.up[f].st = "Success" => w.disk[f].file = "whole"
FileHeld(w, f, H) ==
  LET a == w.up[f]
      ready == Ready(w, f, H)
  IN  /\ a.st = "Error" => a.timer
      /\ a.st = "Running" =>
           /\ Size[f] > 0 /\ a.tot = Size[f]
           /\ a.got > 0 => w.disk[f].tmp
           /\ ready \subseteq w.disk[f].written /\ Cardinality(ready) <= a.got

Has(w, d, r) == \E n \in DOMAIN w.list[d].recs : w.list[d].recs[n] = r

\* The parts of a directory are in order, and are those of the blocks that have
\* been read; those of a directory that succeeds have all succeeded.
Ordered(l, d) ==
  /\ Len(l.parts) = Len(l.recs)
  /\ \A n \in DOMAIN l.recs : /\ l.recs[n] \in 0..Len(Entries[d]) - 1
                              /\ l.parts[n] = Entries[d][l.recs[n] + 1]
  /\ \A m, n \in DOMAIN l.recs : m < n => l.recs[m] < l.recs[n]

ListHeld(w, d, H, L) ==
  /\ Ordered(w.list[d], d)
  /\ d \notin L =>
       /\ w.list[d].done => \A r \in 0..Len(Entries[d]) - 1 : Has(w, d, r)
       /\ (\E b \in Download!Pieces(d) : w.regions[d][b] > 0) =>
            \A b \in Ready(w, d, H) : \A r \in Download!Records(d, b) : Has(w, d, r)
       /\ w.up[d].st = "Success" =>
            /\ w.list[d].done
            /\ \A n \in DOMAIN w.list[d].parts : w.up[w.list[d].parts[n]].st = "Success"

SumsTold(w, d) ==
  ~Download!IsDone(w.up[d].st) =>
    w.up[d].tot = Download!TotOf(w, d) /\ w.up[d].got = Download!GotOf(w, d)

\* Each time that a piece is asked for there was a fault, but the first; a timer
\* that runs is going to ask once more.
Counted(w, u, n) ==
  /\ w.up[u].got <= w.up[u].tot
  /\ w.regions[u] \in [Download!Pieces(u) -> Nat]
  /\ \A p \in Download!Pieces(u) :
       w.regions[u][p] + (IF w.up[u].timer THEN 1 ELSE 0) <= n + 1

\* The Update is made: it is a part.
Part(w, v) == v = Root \/ \E d \in Download!Dirs : \E n \in DOMAIN w.list[d].parts : w.list[d].parts[n] = v
Unmade(w, v) ==
  /\ w.up[v] = Download!Blank /\ \A p \in Download!Pieces(v) : w.regions[v][p] = 0
  /\ v \in Download!Dirs => w.list[v] = Download!NoList

OwnHeld(w, u, S, H, L, n) ==
  /\ Counted(w, u, n)
  /\ u \in Download!Files => FileSound(w, u) /\ (u \notin S => FileHeld(w, u, H))
  /\ u \in Download!Dirs => ListHeld(w, u, H, L) /\ (u \notin S => SumsTold(w, u))

\* All but the Updates S are as they should be between handlers; H: the piece at
\* hand; L: directories of which something was not found; n: the faults.
DownloadHeld(w, S, H, L, n) ==
  /\ w \in Worlds /\ "bytes" \notin w.failed
  /\ \A u \in Updates : OwnHeld(w, u, S, H, L, n) /\ (Part(w, u) \/ Unmade(w, u))

DownloadNow ==
  /\ DownloadHeld(Download!World, {}, {}, lost, mishaps)
  /\ odd \subseteq MaybeOdd /\ mishaps \in 0..MaxMishaps /\ lost \subseteq Download!Dirs

\* A set of numbers has a least one.
LEMMA LeastNumber ==
  ASSUME NEW S \in SUBSET Nat, S # {}
  PROVE  \E k \in S : \A j \in S : k <= j
<1>1. PICK x \in S : \A y \in S : ~ (<<y, x>> \in OpToRel(<, Nat))
  BY WFMin, NatLessThanWellFounded
<1>2. \A y \in S : ~ (y < x)
  BY <1>1 DEF OpToRel
<1> QED
  BY <1>2

(***************************************************************************)
(* What holds of 0, and of each number up to n if of the one before, holds *)
(* of all numbers up to n.                                                 *)
(***************************************************************************)
LEMMA StepByStep ==
  ASSUME NEW n \in Nat, NEW P, 0 \in P, \A k \in 1..n : k - 1 \in P => k \in P
  PROVE  0..n \subseteq P
<1> SUFFICES ASSUME ~(0..n \subseteq P) PROVE FALSE
  OBVIOUS
<1> DEFINE Rest == 0..n \ P
<1>1. Rest \in SUBSET Nat /\ Rest # {}
  OBVIOUS
<1>2. PICK m \in Rest : \A l \in Rest : m <= l
  BY <1>1, LeastNumber
<1>3. m \in 1..n /\ m - 1 \in 0..n /\ m - 1 \notin Rest
  BY <1>2
<1> QED
  BY <1>2, <1>3

\* The sums of the first numbers of s.
Sums(f, s, n) ==
  f = [k \in 0..n |-> IF k = 0 THEN 0 ELSE f[k - 1] + s[k]]
Adding(f, s) ==
  /\ f \in [0..Len(s) -> Nat] /\ f[0] = 0
  /\ \A k \in 1..Len(s) : f[k] = f[k - 1] + s[k]

(***************************************************************************)
(* The total of natural numbers is the last of the sums of the first ones. *)
(***************************************************************************)
LEMMA TotalAdded ==
  ASSUME NEW s \in Seq(Nat)
  PROVE  \E f : Adding(f, s) /\ Download!Total(s) = f[Len(s)]
<1> DEFINE P == {m \in 0..Len(s) : \E f \in [0..m -> Nat] : Sums(f, s, m)}
<1>0. Len(s) \in Nat /\ \A k \in 1..Len(s) : s[k] \in Nat
  OBVIOUS
<1>1. 0 \in P
  <2>1. [k \in 0..0 |-> 0] \in [0..0 -> Nat] /\ Sums([k \in 0..0 |-> 0], s, 0)
    BY DEF Sums
  <2> QED
    BY <2>1, <1>0
<1>2. ASSUME NEW m \in 1..Len(s), m - 1 \in P PROVE m \in P
  <2>1. PICK f \in [0..(m - 1) -> Nat] : Sums(f, s, m - 1)
    BY <1>2
  <2> DEFINE g == [k \in 0..m |-> IF k = m THEN f[m - 1] + s[m] ELSE f[k]]
  <2>2. \A k \in 0..(m - 1) : f[k] = IF k = 0 THEN 0 ELSE f[k - 1] + s[k]
    BY <2>1 DEF Sums
  <2>3. g \in [0..m -> Nat]
    BY <1>0
  <2>4. \A k \in 0..m : g[k] = IF k = 0 THEN 0 ELSE g[k - 1] + s[k]
    BY <2>2
  <2>5. Sums(g, s, m)
    BY <2>3, <2>4 DEF Sums
  <2>6. m \in 0..Len(s)
    BY <1>0
  <2> QED
    BY <2>3, <2>5, <2>6
<1> HIDE DEF P
<1>3. 0..Len(s) \subseteq P
  BY <1>0, <1>1, <1>2, StepByStep
<1>4. \E f : Sums(f, s, Len(s))
  BY <1>0, <1>3 DEF P
<1> DEFINE sum == CHOOSE f : Sums(f, s, Len(s))
<1>5. Sums(sum, s, Len(s))
  BY <1>4
<1>6. Download!Total(s) = sum[Len(s)]
  BY DEF Download!Total, Sums
<1> HIDE DEF sum
<1> DEFINE Q == {k \in 0..Len(s) : sum[k] \in Nat}
<1>7. 0 \in Q
  BY <1>0, <1>5 DEF Sums
<1>8. ASSUME NEW k \in 1..Len(s), k - 1 \in Q PROVE k \in Q
  <2>1. sum[k] = sum[k - 1] + s[k]
    BY <1>0, <1>5 DEF Sums
  <2> QED
    BY <2>1, <1>0, <1>8
<1> HIDE DEF Q
<1>9. 0..Len(s) \subseteq Q
  BY <1>0, <1>7, <1>8, StepByStep
<1>10. Adding(sum, s)
  <2>1. \A k \in 0..Len(s) : sum[k] = IF k = 0 THEN 0 ELSE sum[k - 1] + s[k]
    BY <1>5 DEF Sums
  <2>2. sum \in [0..Len(s) -> Nat]
    BY <1>5, <1>9 DEF Sums, Q
  <2> QED
    BY <2>1, <2>2, <1>0 DEF Adding
<1> QED
  BY <1>6, <1>10

LEMMA TotalTyped == ASSUME NEW s \in Seq(Nat) PROVE Download!Total(s) \in Nat
<1>1. PICK f : Adding(f, s) /\ Download!Total(s) = f[Len(s)]
  BY TotalAdded
<1> QED
  BY <1>1 DEF Adding

\* Smaller numbers have a smaller total.
LEMMA TotalAtMost ==
  ASSUME NEW s \in Seq(Nat), NEW t \in Seq(Nat), Len(s) = Len(t),
         \A k \in 1..Len(s) : s[k] <= t[k]
  PROVE  Download!Total(s) <= Download!Total(t)
<1>1. PICK f : Adding(f, s) /\ Download!Total(s) = f[Len(s)]
  BY TotalAdded
<1>2. PICK g : Adding(g, t) /\ Download!Total(t) = g[Len(t)]
  BY TotalAdded
<1>3. /\ Len(s) \in Nat /\ f \in [0..Len(s) -> Nat] /\ f[0] = 0
      /\ g \in [0..Len(s) -> Nat] /\ g[0] = 0
  BY <1>1, <1>2 DEF Adding
<1> DEFINE P == {k \in 0..Len(s) : f[k] <= g[k]}
<1>4. 0 \in P
  BY <1>3
<1>5. ASSUME NEW k \in 1..Len(s), k - 1 \in P PROVE k \in P
  <2>1. k - 1 \in 0..Len(s) /\ k \in 0..Len(s) /\ f[k - 1] <= g[k - 1]
    BY <1>3, <1>5
  <2>2. f[k - 1] \in Nat /\ g[k - 1] \in Nat
    BY <2>1, <1>3
  <2>3. f[k] = f[k - 1] + s[k] /\ g[k] = g[k - 1] + t[k]
    BY <1>1, <1>2 DEF Adding
  <2>4. s[k] \in Nat /\ t[k] \in Nat /\ s[k] <= t[k]
    OBVIOUS
  <2>5. f[k] <= g[k]
    BY <2>1, <2>2, <2>3, <2>4
  <2> QED
    BY <2>1, <2>5
<1> HIDE DEF P
<1>6. 0..Len(s) \subseteq P
  BY <1>3, <1>4, <1>5, StepByStep
<1>7. f[Len(s)] <= g[Len(s)]
  BY <1>3, <1>6 DEF P
<1> QED
  BY <1>1, <1>2, <1>7

\* Only the total of zeros is zero.
LEMMA TotalZero ==
  ASSUME NEW s \in Seq(Nat), Download!Total(s) = 0, NEW j \in 1..Len(s)
  PROVE  s[j] = 0
<1>1. PICK f : Adding(f, s) /\ Download!Total(s) = f[Len(s)]
  BY TotalAdded
<1>2. Len(s) \in Nat /\ f \in [0..Len(s) -> Nat] /\ s[j] \in Nat /\ j \in 1..Len(s)
  BY <1>1 DEF Adding
<1> DEFINE P == {k \in 0..Len(s) : k < j \/ f[k] >= s[j]}
<1>3. 0 \in P
  BY <1>2
<1>4. ASSUME NEW k \in 1..Len(s), k - 1 \in P PROVE k \in P
  <2>1. k \in 0..Len(s) /\ k - 1 \in 0..Len(s) /\ (k - 1 < j \/ f[k - 1] >= s[j])
    BY <1>4, <1>2
  <2>2. f[k - 1] \in Nat /\ s[k] \in Nat
    <3>1. s[k] \in Nat
      OBVIOUS
    <3> QED
      BY <3>1, <2>1, <1>2
  <2>3. f[k] = f[k - 1] + s[k]
    BY <1>1 DEF Adding
  <2>4. CASE k = j
    BY <2>4, <2>1, <2>2, <2>3
  <2>5. CASE k < j
    BY <2>5, <2>1
  <2>6. CASE k > j
    <3>1. f[k - 1] >= s[j]
      BY <2>6, <2>1, <1>2
    <3> QED
      BY <3>1, <2>1, <2>2, <2>3, <1>2
  <2> QED
    BY <2>4, <2>5, <2>6, <1>2
<1> HIDE DEF P
<1>5. 0..Len(s) \subseteq P
  BY <1>2, <1>3, <1>4, StepByStep
<1>6. Len(s) < j \/ f[Len(s)] >= s[j]
  BY <1>2, <1>5 DEF P
<1> QED
  BY <1>1, <1>2, <1>6

\* Zeros between the numbers do not change the total.
LEMMA TotalSpliced ==
  ASSUME NEW s \in Seq(Nat), NEW t \in Seq(Nat), NEW pos \in 0..Len(s), NEW m \in Nat,
         Len(t) = Len(s) + m,
         \A k \in 1..Len(t) : t[k] = IF k <= pos THEN s[k] ELSE IF k <= pos + m THEN 0 ELSE s[k - m]
  PROVE  Download!Total(t) = Download!Total(s)
<1>1. PICK f : Adding(f, s) /\ Download!Total(s) = f[Len(s)]
  BY TotalAdded
<1>2. PICK g : Adding(g, t) /\ Download!Total(t) = g[Len(t)]
  BY TotalAdded
<1>3. /\ Len(s) \in Nat /\ Len(t) \in Nat /\ Len(t) = Len(s) + m
      /\ f \in [0..Len(s) -> Nat] /\ f[0] = 0 /\ g[0] = 0
  BY <1>1, <1>2 DEF Adding
<1> DEFINE P == {k \in 0..Len(t) : /\ k <= pos => g[k] = f[k]
                                   /\ k > pos /\ k <= pos + m => g[k] = f[pos]
                                   /\ k > pos + m => g[k] = f[k - m]}
<1>4. 0 \in P
  BY <1>3
<1>5. ASSUME NEW k \in 1..Len(t), k - 1 \in P PROVE k \in P
  <2>1. /\ k - 1 <= pos => g[k - 1] = f[k - 1]
        /\ k - 1 > pos /\ k - 1 <= pos + m => g[k - 1] = f[pos]
        /\ k - 1 > pos + m => g[k - 1] = f[(k - 1) - m]
    BY <1>5
  <2>2. g[k] = g[k - 1] + t[k]
    BY <1>2 DEF Adding
  <2>3. k \in 0..Len(t)
    BY <1>3
  <2>4. t[k] = IF k <= pos THEN s[k] ELSE IF k <= pos + m THEN 0 ELSE s[k - m]
    OBVIOUS
  <2>5. ASSUME k <= pos PROVE g[k] = f[k]
    <3>1. k \in 1..Len(s) /\ t[k] = s[k] /\ g[k - 1] = f[k - 1]
      BY <2>1, <2>4, <2>5, <1>3
    <3>2. f[k] = f[k - 1] + s[k]
      BY <3>1, <1>1 DEF Adding
    <3> QED
      BY <3>1, <3>2, <2>2
  <2>6. ASSUME k > pos /\ k <= pos + m PROVE g[k] = f[pos]
    <3>1. k - 1 = pos => g[k - 1] = f[pos]
      BY <2>1
    <3>2. g[k - 1] = f[pos]
      BY <3>1, <2>1, <2>6, <1>3
    <3>3. f[pos] \in Nat
      BY <1>3
    <3>4. ~(k <= pos)
      BY <2>6, <1>3
    <3>5. t[k] = 0
      BY <3>4, <2>4, <2>6
    <3> QED
      BY <2>2, <3>2, <3>3, <3>5
  <2>7. ASSUME k > pos + m PROVE g[k] = f[k - m]
    <3>1. t[k] = s[k - m] /\ k - m \in 1..Len(s) /\ (k - m) - 1 = (k - 1) - m
      BY <2>4, <2>7, <1>3
    <3>2. f[k - m] = f[(k - m) - 1] + s[k - m]
      BY <3>1, <1>1 DEF Adding
    <3>3. g[k - 1] = f[(k - 1) - m]
      <4>1. CASE k - 1 > pos + m
        BY <4>1, <2>1
      <4>2. CASE k - 1 = pos + m /\ m = 0
        <5>1. k - 1 = pos /\ (k - 1) - m = k - 1
          BY <4>2
        <5> QED
          BY <5>1, <2>1
      <4>3. CASE k - 1 = pos + m /\ m > 0
        <5>1. k - 1 > pos /\ k - 1 <= pos + m /\ (k - 1) - m = pos
          BY <4>3
        <5> QED
          BY <5>1, <2>1
      <4> QED
        BY <4>1, <4>2, <4>3, <2>7, <1>3
    <3> QED
      BY <3>1, <3>2, <3>3, <2>2
  <2> QED
    BY <2>3, <2>5, <2>6, <2>7
<1> HIDE DEF P
<1>6. 0..Len(t) \subseteq P
  BY <1>3, <1>4, <1>5, StepByStep
<1>7. Len(t) \in P
  BY <1>3, <1>6
<1>8. g[Len(t)] = f[Len(s)]
  <2>1. /\ Len(t) <= pos => g[Len(t)] = f[Len(t)]
        /\ Len(t) > pos /\ Len(t) <= pos + m => g[Len(t)] = f[pos]
        /\ Len(t) > pos + m => g[Len(t)] = f[Len(t) - m]
    BY <1>7 DEF P
  <2>2. CASE m = 0 /\ pos = Len(s)
    <3>1. Len(t) <= pos /\ Len(t) = Len(s)
      BY <2>2, <1>3
    <3> QED
      BY <3>1, <2>1
  <2>3. CASE m > 0 /\ pos = Len(s)
    <3>1. Len(t) > pos /\ Len(t) <= pos + m
      BY <2>3, <1>3
    <3> QED
      BY <3>1, <2>1, <2>3
  <2>4. CASE pos < Len(s)
    <3>1. Len(t) > pos + m /\ Len(t) - m = Len(s)
      BY <2>4, <1>3
    <3> QED
      BY <3>1, <2>1
  <2> QED
    BY <2>2, <2>3, <2>4, <1>3
<1> QED
  BY <1>1, <1>2, <1>8

\* Where the k-th of those that an Update reports to is: it comes first.
At(u, k) == IF k = 0 THEN u ELSE Above[u][k]
Holders(u) == {d \in Download!Dirs : u \in Download!Entry(d)}

LEMMA ConsTail ==
  ASSUME NEW S, NEW d \in S, NEW t \in Seq(S)
  PROVE  <<d>> \o t # <<>> /\ (<<d>> \o t)[1] = d /\ Tail(<<d>> \o t) = t
<1> DEFINE c == <<d>> \o t
<1>1. c \in Seq(S) /\ Len(c) = Len(t) + 1 /\ c[1] = d /\ Len(t) \in Nat
  OBVIOUS
<1>2. \A n \in 1..Len(t) : c[n + 1] = t[n]
  OBVIOUS
<1> HIDE DEF c
<1>3. Tail(c) \in Seq(S) /\ Len(Tail(c)) = Len(t) /\ \A n \in 1..Len(t) : Tail(c)[n] = t[n]
  BY <1>1, <1>2
<1>4. Tail(c) = t
  BY <1>3
<1>5. c # <<>>
  BY <1>1
<1> QED
  BY <1>1, <1>4, <1>5 DEF c

LEMMA RestTail ==
  ASSUME NEW S, NEW s \in Seq(S), NEW k \in 0..Len(s), k < Len(s)
  PROVE  LET r == SubSeq(s, k + 1, Len(s))
         IN  r # <<>> /\ r[1] = s[k + 1] /\ Tail(r) = SubSeq(s, k + 2, Len(s)) /\ Len(r) = Len(s) - k
<1> DEFINE r == SubSeq(s, k + 1, Len(s))
           q == SubSeq(s, k + 2, Len(s))
<1>1. Len(s) \in Nat
  OBVIOUS
<1>2. r \in Seq(S) /\ Len(r) = Len(s) - k /\ \A n \in 1..Len(s) - k : r[n] = s[k + n]
  BY <1>1
<1>3. q \in Seq(S) /\ Len(q) = Len(s) - k - 1 /\ \A n \in 1..Len(s) - k - 1 : q[n] = s[k + n + 1]
  BY <1>1
<1> HIDE DEF r, q
<1>4. /\ Tail(r) \in Seq(S) /\ Len(Tail(r)) = Len(s) - k - 1
      /\ \A n \in 1..Len(s) - k - 1 : Tail(r)[n] = s[k + n + 1]
  BY <1>1, <1>2
<1>5. Tail(r) = q
  <2> DEFINE m == Len(s) - k - 1
  <2>1. /\ Tail(r) \in Seq(S) /\ Len(Tail(r)) = m /\ q \in Seq(S) /\ Len(q) = m
        /\ \A n \in 1..m : Tail(r)[n] = q[n]
    BY <1>3, <1>4
  <2> HIDE DEF m
  <2> QED
    BY <2>1
<1>6. r # <<>> /\ r[1] = s[k + 1]
  BY <1>1, <1>2
<1> QED
  BY <1>2, <1>5, <1>6 DEF r, q

(***************************************************************************)
(* Each Update but the root is an entry of one directory, which is the     *)
(* nearest above it.                                                       *)
(***************************************************************************)
LEMMA Tree ==
  /\ Updates = Download!Dirs \cup Download!Files /\ Download!Dirs \cap Download!Files = {}
  /\ Root \in Updates /\ MaybeOdd \subseteq Download!Files /\ MaxMishaps \in Nat
  /\ \A f \in Download!Files : Size[f] \in Nat
  /\ \A u \in Updates : Above[u] \in Seq(Download!Dirs)
  /\ \A u \in Updates \ {Root} : Holders(u) # {}
  /\ \A u \in Updates : \A d \in Holders(u) :
       u # Root /\ Above[u] # <<>> /\ d = Above[u][1] /\ Above[d] = Tail(Above[u])
  /\ Above[Root] = <<>>
<1> USE UpdateAssumption DEF Download!UpdateAssumption
<1>1. /\ Updates = Download!Dirs \cup Download!Files /\ Download!Dirs \cap Download!Files = {}
      /\ Root \in Updates /\ MaybeOdd \subseteq Download!Files /\ MaxMishaps \in Nat
      /\ \A f \in Download!Files : Size[f] \in Nat
  OBVIOUS
<1>2. \A u \in Updates : Above[u] \in Seq(Download!Dirs)
  OBVIOUS
<1>3. \A u \in Updates \ {Root} : Holders(u) # {}
  BY DEF Holders
<1>4. ASSUME NEW u \in Updates, NEW d \in Holders(u)
      PROVE  u # Root /\ Above[u] # <<>> /\ d = Above[u][1] /\ Above[d] = Tail(Above[u])
  <2>1. /\ d \in Download!Dirs /\ u \in Download!Entry(d) /\ Above[u] = <<d>> \o Above[d]
        /\ Entries[d] \in Seq(Updates \ {Root})
    BY DEF Holders
  <2>2. u # Root
    BY <2>1 DEF Download!Entry
  <2>3. Above[d] \in Seq(Download!Dirs)
    BY <1>1, <2>1
  <2>4. Above[u] # <<>> /\ d = Above[u][1] /\ Above[d] = Tail(Above[u])
    <3>1. LET c == <<d>> \o Above[d] IN c # <<>> /\ c[1] = d /\ Tail(c) = Above[d]
      BY ONLY <2>1, <2>3, ConsTail
    <3> QED
      BY ONLY <3>1, <2>1
  <2> QED
    BY <2>2, <2>4
<1>5. Above[Root] = <<>>
  OBVIOUS
<1> QED
  BY <1>1, <1>2, <1>3, <1>4, <1>5

(***************************************************************************)
(* Those that an Update reports to are each the one that holds the one     *)
(* before, up to one that is an entry of none.                             *)
(***************************************************************************)
LEMMA Chain ==
  ASSUME NEW u \in Updates
  PROVE  /\ Len(Above[u]) \in Nat
         /\ \A k \in 1..Len(Above[u]) : /\ At(u, k) \in Download!Dirs /\ At(u, k) # u
                                        /\ Len(Above[At(u, k)]) = Len(Above[u]) - k
                                        /\ Holders(At(u, k - 1)) = {At(u, k)}
         /\ Holders(At(u, Len(Above[u]))) = {}
<1> DEFINE n == Len(Above[u])
           P == {k \in 0..n : At(u, k) \in Updates /\ Above[At(u, k)] = SubSeq(Above[u], k + 1, n)}
<1>1. Above[u] \in Seq(Download!Dirs) /\ n \in Nat
  BY Tree
<1>2. 0 \in P
  BY <1>1 DEF At
<1>3. \A k \in 1..n : Above[u][k] \in Download!Dirs /\ Above[u][k] \in Updates
  BY <1>1, Tree
<1>4. ASSUME NEW k \in 0..n, k \in P, k < n
      PROVE  Holders(At(u, k)) = {At(u, k + 1)} /\ k + 1 \in P
  <2> DEFINE x == At(u, k)
  <2>1. x \in Updates /\ Above[x] = SubSeq(Above[u], k + 1, n)
    BY <1>4
  <2>2. k + 1 \in 1..n /\ At(u, k + 1) = Above[u][k + 1]
    <3>1. k + 1 \in 1..n
      BY ONLY n \in Nat, k \in 0..n, k < n
    <3>2. k + 1 # 0
      BY ONLY k \in 0..n
    <3> QED
      BY <3>1, <3>2, <1>1, <1>4 DEF At
  <2>3. Above[x] # <<>> /\ Above[x][1] = Above[u][k + 1] /\ Tail(Above[x]) = SubSeq(Above[u], k + 2, n)
    BY <2>1, <1>1, <1>4, RestTail
  <2>4. \A d \in Holders(x) : d = Above[u][k + 1] /\ Above[d] = SubSeq(Above[u], k + 2, n)
    BY <2>1, <2>3, Tree
  <2>5. Holders(x) # {}
    BY <2>1, <2>3, Tree
  <2>6. Holders(x) = {Above[u][k + 1]} /\ Above[Above[u][k + 1]] = SubSeq(Above[u], k + 2, n)
    BY <2>4, <2>5
  <2>7. k + 1 \in 0..n /\ (k + 1) + 1 = k + 2
    BY <2>2
  <2> QED
    BY <2>2, <2>6, <2>7, <1>3
<1> HIDE DEF P
<1>5. ASSUME NEW k \in 1..n, k - 1 \in P PROVE k \in P
  <2>1. k - 1 \in 0..n /\ k - 1 < n /\ (k - 1) + 1 = k
    BY <1>1
  <2> QED
    BY <2>1, <1>4, <1>5
<1>6. 0..n \subseteq P
  BY <1>1, <1>2, <1>5, StepByStep
<1>7. ASSUME NEW k \in 1..n
      PROVE  /\ At(u, k) \in Download!Dirs /\ At(u, k) # u
             /\ Len(Above[At(u, k)]) = n - k
             /\ Holders(At(u, k - 1)) = {At(u, k)}
  <2>1. k \in 0..n /\ k - 1 \in 0..n /\ k - 1 < n /\ (k - 1) + 1 = k
    BY <1>1
  <2>2. Holders(At(u, k - 1)) = {At(u, k)}
    BY <2>1, <1>4, <1>6
  <2>3. Above[At(u, k)] = SubSeq(Above[u], k + 1, n)
    BY <2>1, <1>6 DEF P
  <2>4. Len(Above[At(u, k)]) = n - k
    BY <2>1, <2>3, <1>1
  <2>5. At(u, k) # u
    BY <2>4, <1>1
  <2>6. At(u, k) \in Download!Dirs
    BY <1>3 DEF At
  <2> QED
    BY <2>2, <2>4, <2>5, <2>6
<1>8. Holders(At(u, n)) = {}
  <2>1. At(u, n) \in Updates /\ Above[At(u, n)] = SubSeq(Above[u], n + 1, n)
    <3>1. n \in P
      BY <1>1, <1>6
    <3> QED
      BY <3>1 DEF P
  <2>2. Above[At(u, n)] = <<>>
    BY <2>1, <1>1
  <2> QED
    BY <2>1, <2>2, Tree
<1> QED
  BY <1>1, <1>7, <1>8

\* The entries of a directory do not report to each other.
LEMMA Siblings ==
  ASSUME NEW u \in Updates, NEW v \in Updates, Len(Above[u]) = Len(Above[v]),
         NEW k \in 1..Len(Above[u])
  PROVE  At(u, k) # v
<1>1. Len(Above[At(u, k)]) = Len(Above[u]) - k /\ Len(Above[u]) \in Nat
  BY Chain
<1> QED
  BY <1>1

(***************************************************************************)
(* What the entries of a directory are.                                    *)
(***************************************************************************)
LEMMA EntriesOf ==
  ASSUME NEW d \in Download!Dirs
  PROVE  /\ Len(Entries[d]) \in Nat
         /\ \A n \in 1..Len(Entries[d]) :
              /\ Entries[d][n] \in Updates /\ Entries[d][n] # Root /\ Entries[d][n] # d
              /\ Entries[d][n] \in Download!Entry(d) /\ d \in Holders(Entries[d][n])
              /\ Len(Above[Entries[d][n]]) = Len(Above[d]) + 1
         /\ \A m, n \in 1..Len(Entries[d]) : Entries[d][m] = Entries[d][n] => m = n
         /\ \A b \in Download!Pieces(d) :
              /\ Blocks[d][b].recno \in Nat /\ Blocks[d][b].nrecs \in Nat
              /\ Blocks[d][b].nrecs > 0
              /\ Blocks[d][b].recno + Blocks[d][b].nrecs <= Len(Entries[d])
         /\ \A r \in 0..Len(Entries[d]) - 1 : \E b \in Download!Pieces(d) : r \in Download!Records(d, b)
<1> USE UpdateAssumption DEF Download!UpdateAssumption
<1>1. Entries[d] \in Seq(Updates \ {Root}) /\ Download!IsInjective(Entries[d])
  OBVIOUS
<1>2. Len(Entries[d]) \in Nat /\ DOMAIN Entries[d] = 1..Len(Entries[d])
  BY <1>1
<1>3. \A m, n \in 1..Len(Entries[d]) : Entries[d][m] = Entries[d][n] => m = n
  BY <1>1, <1>2 DEF Download!IsInjective
<1>4. ASSUME NEW n \in 1..Len(Entries[d])
      PROVE  /\ Entries[d][n] \in Updates /\ Entries[d][n] # Root /\ Entries[d][n] # d
             /\ Entries[d][n] \in Download!Entry(d) /\ d \in Holders(Entries[d][n])
             /\ Len(Above[Entries[d][n]]) = Len(Above[d]) + 1
  <2> DEFINE x == Entries[d][n]
  <2>1. x \in Updates /\ x # Root /\ x \in Download!Entry(d)
    <3>1. x \in Updates \ {Root}
      BY <1>1
    <3> QED
      BY <3>1, <1>2 DEF Download!Entry
  <2>2. d \in Holders(x)
    BY <2>1 DEF Holders
  <2>3. Above[x] # <<>> /\ Above[d] = Tail(Above[x]) /\ Above[x] \in Seq(Download!Dirs)
    BY <2>1, <2>2, Tree
  <2>4. Len(Above[x]) = Len(Above[d]) + 1 /\ Len(Above[d]) \in Nat
    BY <2>3
  <2> QED
    BY <2>1, <2>2, <2>4
<1>5. ASSUME NEW b \in Download!Pieces(d)
      PROVE  /\ Blocks[d][b].recno \in Nat /\ Blocks[d][b].nrecs \in Nat
             /\ Blocks[d][b].nrecs > 0
             /\ Blocks[d][b].recno + Blocks[d][b].nrecs <= Len(Entries[d])
  <2>1. b \in DOMAIN Blocks[d]
    BY DEF Download!Pieces
  <2>2. /\ Blocks[d][b] \in [recno : Nat, nrecs : Nat \ {0}]
        /\ Download!Records(d, b) \subseteq 0..Len(Entries[d]) - 1
    BY <2>1
  <2>3. Blocks[d][b].recno \in Nat /\ Blocks[d][b].nrecs \in Nat /\ Blocks[d][b].nrecs > 0
    BY <2>2
  <2>4. Blocks[d][b].recno + Blocks[d][b].nrecs - 1 \in Download!Records(d, b)
    BY <2>3 DEF Download!Records
  <2>5. Blocks[d][b].recno + Blocks[d][b].nrecs - 1 \in 0..Len(Entries[d]) - 1
    BY <2>2, <2>4
  <2> QED
    <3> DEFINE i == Blocks[d][b].recno
               j == Blocks[d][b].nrecs
    <3>1. i + j - 1 \in 0..Len(Entries[d]) - 1 /\ i \in Nat /\ j \in Nat
      BY <2>3, <2>5
    <3> HIDE DEF i, j
    <3>2. i + j <= Len(Entries[d])
      BY <3>1, <1>2
    <3> QED
      BY <3>2, <2>3 DEF i, j
<1>6. \A r \in 0..Len(Entries[d]) - 1 : \E b \in Download!Pieces(d) : r \in Download!Records(d, b)
  BY DEF Download!Pieces
<1> QED
  BY <1>2, <1>3, <1>4, <1>5, <1>6

Rising(recs) == \A m, n \in 1..Len(recs) : m < n => recs[m] < recs[n]
Listed(recs, N) == /\ \A n \in 1..Len(recs) : recs[n] \in 0..N - 1
                   /\ \A r \in 0..N - 1 : \E n \in 1..Len(recs) : recs[n] = r

(***************************************************************************)
(* Records in order that are all there are the directory's records.        *)
(***************************************************************************)
LEMMA AllListed ==
  ASSUME NEW N \in Nat, NEW recs \in Seq(Nat), Rising(recs), Listed(recs, N)
  PROVE  Len(recs) = N /\ \A n \in 1..Len(recs) : recs[n] = n - 1
<1> DEFINE P == {k \in 0..Len(recs) : k = 0 \/ recs[k] >= k - 1}
           Q == {k \in 0..Len(recs) : \A j \in 1..k : recs[j] = j - 1}
<1>1. Len(recs) \in Nat /\ \A n \in 1..Len(recs) : recs[n] \in Nat
  OBVIOUS
<1>2. 0 \in P
  BY <1>1
<1>3. ASSUME NEW k \in 1..Len(recs), k - 1 \in P PROVE k \in P
  <2>1. k - 1 = 0 \/ recs[k - 1] >= (k - 1) - 1
    BY <1>3
  <2>2. k \in 0..Len(recs) /\ recs[k] \in Nat
    BY <1>1
  <2>3. CASE k - 1 = 0
    BY <2>2, <2>3
  <2>4. CASE k - 1 # 0
    <3>1. k - 1 \in 1..Len(recs) /\ k - 1 < k
      BY <2>4, <1>1
    <3>2. recs[k - 1] < recs[k] /\ recs[k - 1] \in Nat
      BY <3>1, <1>1 DEF Rising
    <3> QED
      BY <3>2, <2>1, <2>2, <2>4
  <2> QED
    BY <2>3, <2>4
<1> HIDE DEF P
<1>4. 0..Len(recs) \subseteq P
  BY <1>1, <1>2, <1>3, StepByStep
<1>5. \A k \in 1..Len(recs) : recs[k] >= k - 1
  <2> SUFFICES ASSUME NEW k \in 1..Len(recs) PROVE recs[k] >= k - 1
    OBVIOUS
  <2>1. k \in P
    BY <1>1, <1>4
  <2> QED
    BY <2>1 DEF P
<1>6. ASSUME NEW r \in 0..N - 1, NEW k \in 0..Len(recs), k = r, \A j \in 1..k : recs[j] = j - 1
      PROVE  k + 1 \in 1..Len(recs) /\ recs[k + 1] = k
  <2>1. PICK n \in 1..Len(recs) : recs[n] = r
    BY DEF Listed
  <2>2. n > k
    BY <2>1, <1>6, <1>1
  <2>3. CASE n = k + 1
    BY <2>1, <2>3, <1>6
  <2>4. CASE n > k + 1
    <3>1. k + 1 \in 1..Len(recs)
      BY <2>4, <1>1
    <3>2. recs[k + 1] < recs[n] /\ recs[k + 1] >= (k + 1) - 1
      BY <3>1, <2>4, <1>5 DEF Rising
    <3> QED
      BY <3>1, <3>2, <2>1, <1>6, <1>1
  <2> QED
    BY <2>2, <2>3, <2>4, <1>1
<1>7. 0 \in Q
  BY <1>1
<1>8. ASSUME NEW k \in 1..Len(recs), k - 1 \in Q PROVE k \in Q
  <2>1. recs[k] >= k - 1 /\ recs[k] \in 0..N - 1
    BY <1>5 DEF Listed
  <2>2. k - 1 \in 0..N - 1 /\ k - 1 \in 0..Len(recs) /\ (k - 1) + 1 = k
    BY <2>1, <1>1
  <2>3. \A j \in 1..k - 1 : recs[j] = j - 1
    BY <1>8
  <2>4. recs[k] = k - 1
    BY <2>2, <2>3, <1>6
  <2>5. \A j \in 1..k : recs[j] = j - 1
    BY <2>2, <2>3, <2>4
  <2> QED
    BY <2>5, <1>1
<1>9. \A n \in 1..Len(recs) : recs[n] = n - 1
  <2> HIDE DEF Q
  <2>1. 0..Len(recs) \subseteq Q
    BY <1>1, <1>7, <1>8, StepByStep
  <2>2. Len(recs) \in Q
    BY <1>1, <2>1
  <2> QED
    BY <2>2 DEF Q
<1>10. Len(recs) <= N
  <2>1. CASE Len(recs) = 0
    BY <2>1
  <2>2. CASE Len(recs) # 0
    <3>1. Len(recs) \in 1..Len(recs)
      BY <2>2, <1>1
    <3>2. recs[Len(recs)] \in 0..N - 1 /\ recs[Len(recs)] = Len(recs) - 1
      BY <3>1, <1>9 DEF Listed
    <3> QED
      BY <3>2, <1>1
  <2> QED
    BY <2>1, <2>2
<1>11. ASSUME Len(recs) < N PROVE FALSE
  <2>1. Len(recs) \in 0..N - 1 /\ Len(recs) \in 0..Len(recs)
    BY <1>1, <1>11
  <2>2. Len(recs) + 1 \in 1..Len(recs)
    BY <2>1, <1>6, <1>9
  <2> QED
    BY <2>2, <1>1
<1> QED
  BY <1>1, <1>9, <1>10, <1>11

(***************************************************************************)
(* FindPos finds a place between smaller and other records.                *)
(***************************************************************************)
LEMMA PlaceFound ==
  ASSUME NEW recs \in Seq(Nat), NEW recno \in Nat, Rising(recs)
  PROVE  LET pos == Download!FindPos(recs, recno)
         IN  /\ pos \in 0..Len(recs)
             /\ \A n \in 1..pos : recs[n] < recno
             /\ \A n \in pos + 1..Len(recs) : recs[n] >= recno
<1> DEFINE Fits(pos) == /\ \A n \in 1..pos : recs[n] < recno
                        /\ \A n \in pos + 1..Len(recs) : recs[n] >= recno
           From == {pos \in 0..Len(recs) : \A n \in pos + 1..Len(recs) : recs[n] >= recno}
<1>1. Len(recs) \in Nat /\ \A n \in 1..Len(recs) : recs[n] \in Nat
  OBVIOUS
<1>2. From \in SUBSET Nat /\ Len(recs) \in From
  BY <1>1
<1>3. PICK pos \in From : \A j \in From : pos <= j
  BY <1>2, LeastNumber
<1>4. pos \in 0..Len(recs) /\ \A n \in pos + 1..Len(recs) : recs[n] >= recno
  OBVIOUS
<1>5. ASSUME NEW n \in 1..pos PROVE recs[n] < recno
  <2>1. pos \in 1..Len(recs) /\ pos - 1 \in 0..Len(recs) /\ pos \in Nat /\ n \in 1..Len(recs)
    BY <1>1, <1>4
  <2>2. pos - 1 \notin From
    <3>1. ASSUME pos - 1 \in From PROVE pos <= pos - 1
      BY <1>3, <3>1
    <3> QED
      BY <3>1, <2>1
  <2>3. PICK k \in (pos - 1) + 1..Len(recs) : ~(recs[k] >= recno)
    BY <2>1, <2>2
  <2>4. k = pos
    BY <1>4, <2>1, <2>3
  <2>5. recs[pos] < recno
    BY <2>1, <2>3, <2>4, <1>1
  <2>6. n = pos \/ recs[n] < recs[pos]
    BY <2>1 DEF Rising
  <2> QED
    BY <2>1, <2>5, <2>6, <1>1
<1>6. Fits(pos)
  BY <1>4, <1>5
<1> HIDE DEF Fits
<1>7. Fits(CHOOSE p \in 0..Len(recs) : Fits(p)) /\ (CHOOSE p \in 0..Len(recs) : Fits(p)) \in 0..Len(recs)
  BY <1>4, <1>6
<1>8. Download!FindPos(recs, recno) = CHOOSE p \in 0..Len(recs) : Fits(p)
  BY DEF Download!FindPos, Fits
<1> QED
  BY <1>7, <1>8 DEF Fits

(***************************************************************************)
(* What InsertAll makes of a sequence.                                     *)
(***************************************************************************)
LEMMA AllInserted ==
  ASSUME NEW S, NEW s \in Seq(S), NEW new \in Seq(S), NEW pos \in 0..Len(s)
  PROVE  LET t == Download!InsertAll(s, pos, new)
         IN  /\ t \in Seq(S) /\ Len(t) = Len(s) + Len(new)
             /\ \A n \in 1..Len(t) :
                  t[n] = IF n <= pos THEN s[n]
                         ELSE IF n <= pos + Len(new) THEN new[n - pos] ELSE s[n - Len(new)]
<1> DEFINE a == SubSeq(s, 1, pos)
           c == SubSeq(s, pos + 1, Len(s))
<1>1. Len(s) \in Nat /\ Len(new) \in Nat /\ pos \in Nat /\ pos <= Len(s)
  OBVIOUS
<1>2. a \in Seq(S) /\ Len(a) = pos /\ \A n \in 1..pos : a[n] = s[n]
  BY <1>1
<1>3. c \in Seq(S) /\ Len(c) = Len(s) - pos /\ \A n \in 1..Len(s) - pos : c[n] = s[pos + n]
  BY <1>1
<1> HIDE DEF a, c
<1> DEFINE b == a \o new
<1>4. b \in Seq(S) /\ Len(b) = pos + Len(new)
  BY <1>1, <1>2
<1>5. \A n \in 1..pos + Len(new) : b[n] = IF n <= pos THEN s[n] ELSE new[n - pos]
  BY <1>1, <1>2
<1> HIDE DEF b
<1> DEFINE t == b \o c
<1>6. t \in Seq(S) /\ Len(t) = Len(s) + Len(new)
  <2>1. b \in Seq(S) /\ c \in Seq(S)
    BY <1>3, <1>4
  <2>2. Len(t) = Len(b) + Len(c) /\ t \in Seq(S)
    BY <2>1
  <2> QED
    BY <2>2, <1>1, <1>3, <1>4
<1>7. ASSUME NEW n \in 1..Len(t)
      PROVE  t[n] = IF n <= pos THEN s[n]
                    ELSE IF n <= pos + Len(new) THEN new[n - pos] ELSE s[n - Len(new)]
  <2>1. CASE n <= pos + Len(new)
    <3>1. t[n] = b[n] /\ n \in 1..pos + Len(new)
      BY <2>1, <1>1, <1>3, <1>4, <1>6
    <3> QED
      BY <3>1, <2>1, <1>5
  <2>2. CASE n > pos + Len(new)
    <3>1. t[n] = c[n - Len(b)]
      <4>1. b \in Seq(S) /\ c \in Seq(S) /\ Len(b) \in Nat /\ Len(c) \in Nat
        BY <1>1, <1>3, <1>4
      <4>2. n \in 1..Len(b) + Len(c) /\ n > Len(b)
        BY <2>2, <1>1, <1>3, <1>4, <1>6
      <4> QED
        BY ONLY <4>1, <4>2
    <3>2. n - Len(b) \in 1..Len(s) - pos /\ pos + (n - Len(b)) = n - Len(new)
      BY <2>2, <1>1, <1>4, <1>6
    <3>3. ~(n <= pos) /\ ~(n <= pos + Len(new))
      BY <2>2, <1>1
    <3> QED
      BY <3>1, <3>2, <3>3, <1>3
  <2> QED
    BY <2>1, <2>2, <1>1
<1>8. Download!InsertAll(s, pos, new) = t
  BY DEF Download!InsertAll, a, b, c
<1> HIDE DEF t
<1> QED
  BY <1>6, <1>7, <1>8

-----------------------------------------------------------------------------
\* v is w, but for what u shows.
Only(w, v, u) ==
  /\ v \in Worlds /\ v.regions = w.regions /\ v.disk = w.disk /\ v.list = w.list
  /\ v.failed = w.failed /\ \A x \in Updates \ {u} : v.up[x] = w.up[x]

LEMMA WorldTypes ==
  ASSUME NEW w \in Worlds
  PROVE  /\ w.up \in [Updates -> Actions] /\ w.regions \in [Updates -> Waits]
         /\ w.disk \in [Download!Files -> Disks] /\ w.list \in [Download!Dirs -> Lists]
         /\ w.failed \in SUBSET {"done", "bytes", "order"}
  BY DEF Worlds

LEMMA ActionTypes ==
  ASSUME NEW w \in Worlds, NEW u \in Updates
  PROVE  /\ w.up[u] \in Actions /\ w.up[u].st \in Download!Statuses /\ w.up[u].timer \in BOOLEAN
         /\ w.up[u].tot \in Nat /\ w.up[u].got \in Nat /\ w.up[u].nerr \in Nat
<1>1. w.up[u] \in Actions
  BY WorldTypes
<1> QED
  BY <1>1 DEF Actions

LEMMA ListTypes ==
  ASSUME NEW w \in Worlds, NEW d \in Download!Dirs
  PROVE  /\ w.list[d] \in Lists /\ w.list[d].recs \in Seq(Nat) /\ w.list[d].parts \in Seq(Updates)
         /\ Len(w.list[d].parts) \in Nat /\ Len(w.list[d].recs) \in Nat
         /\ DOMAIN w.list[d].parts = 1..Len(w.list[d].parts)
         /\ DOMAIN w.list[d].recs = 1..Len(w.list[d].recs)
         /\ \A n \in 1..Len(w.list[d].parts) : w.list[d].parts[n] \in Updates
         /\ w.list[d].done \in BOOLEAN
<1>1. w.list[d] \in Lists
  BY WorldTypes
<1>2. w.list[d].recs \in Seq(Nat) /\ w.list[d].parts \in Seq(Updates) /\ w.list[d].done \in BOOLEAN
  BY <1>1 DEF Lists
<1>3. \A q \in Seq(Updates) : /\ Len(q) \in Nat /\ DOMAIN q = 1..Len(q)
                              /\ \A n \in 1..Len(q) : q[n] \in Updates
  OBVIOUS
<1>4. \A q \in Seq(Nat) : Len(q) \in Nat /\ DOMAIN q = 1..Len(q)
  OBVIOUS
<1> QED
  BY <1>1, <1>2, <1>3, <1>4

LEMMA PutOnly ==
  ASSUME NEW w \in Worlds, NEW u \in Updates, NEW rec \in Actions
  PROVE  Only(w, Download!Put(w, u, rec), u) /\ Download!Put(w, u, rec).up[u] = rec
<1> DEFINE v == [w EXCEPT !.up[u] = rec]
<1>1. v.up = [w.up EXCEPT ![u] = rec] /\ v.regions = w.regions /\ v.disk = w.disk
      /\ v.list = w.list /\ v.failed = w.failed
  BY DEF Worlds
<1>2. v.up \in [Updates -> Actions]
  BY <1>1, WorldTypes
<1>3. v \in Worlds
  BY <1>2 DEF Worlds
<1>4. v.up[u] = rec /\ \A x \in Updates \ {u} : v.up[x] = w.up[x]
  BY <1>1, WorldTypes
<1> QED
  BY <1>1, <1>3, <1>4 DEF Only, Download!Put

LEMMA OnlyTwice ==
  ASSUME NEW w, NEW v, NEW x, NEW u, Only(w, v, u), Only(v, x, u)
  PROVE  Only(w, x, u)
  BY DEF Only

\* setStatus of an Action that is not done.
LEMMA StatusSet ==
  ASSUME NEW w \in Worlds, NEW u \in Updates, NEW st \in Download!Statuses,
         ~Download!IsDone(w.up[u].st)
  PROVE  LET v == Download!SetStatus(w, u, st)
         IN  /\ Only(w, v, u) /\ v.up[u].st = st /\ v.up[u].timer = w.up[u].timer
             /\ v.up[u].tot = w.up[u].tot /\ v.up[u].got = w.up[u].got /\ v.up[u].nerr = w.up[u].nerr
<1> DEFINE rec == [w.up[u] EXCEPT !.st = st]
<1>1. w.up[u] \in Actions
  BY WorldTypes
<1>2. /\ rec \in Actions /\ rec.st = st /\ rec.timer = w.up[u].timer
      /\ rec.tot = w.up[u].tot /\ rec.got = w.up[u].got /\ rec.nerr = w.up[u].nerr
  BY <1>1 DEF Actions
<1>3. Download!SetStatus(w, u, st) = Download!Put(w, u, rec)
  BY DEF Download!SetStatus
<1> HIDE DEF rec
<1> QED
  BY <1>2, <1>3, PutOnly

\* setStatus of one that is done fails.
LEMMA StatusRefused ==
  ASSUME NEW w \in Worlds, NEW u \in Updates, NEW st, Download!IsDone(w.up[u].st)
  PROVE  LET v == Download!SetStatus(w, u, st)
         IN  /\ v \in Worlds /\ v.up = w.up /\ v.regions = w.regions /\ v.disk = w.disk
             /\ v.list = w.list /\ v.failed = w.failed \cup {"done"}
<1> DEFINE v == [w EXCEPT !.failed = @ \cup {"done"}]
<1>1. v.up = w.up /\ v.regions = w.regions /\ v.disk = w.disk
      /\ v.list = w.list /\ v.failed = w.failed \cup {"done"}
  BY DEF Worlds
<1>2. v.failed \in SUBSET {"done", "bytes", "order"}
  BY <1>1, WorldTypes
<1>3. v \in Worlds
  BY <1>2 DEF Worlds
<1> QED
  BY <1>1, <1>3 DEF Download!SetStatus, Download!Fail

-----------------------------------------------------------------------------
\* What the parts of a directory show, as sequences.
Shown(w, d) ==
  [tot |-> [n \in DOMAIN Download!Parts(w, d) |-> w.up[Download!Parts(w, d)[n]].tot],
   got |-> [n \in DOMAIN Download!Parts(w, d) |-> w.up[Download!Parts(w, d)[n]].got],
   err |-> [n \in DOMAIN Download!Parts(w, d) |-> Download!Errors(w.up[Download!Parts(w, d)[n]])]]

LEMMA ShownNumbers ==
  ASSUME NEW w \in Worlds, NEW d \in Download!Dirs
  PROVE  /\ Shown(w, d).tot \in Seq(Nat) /\ Shown(w, d).got \in Seq(Nat) /\ Shown(w, d).err \in Seq(Nat)
         /\ Len(Shown(w, d).tot) = Len(w.list[d].parts)
         /\ Len(Shown(w, d).got) = Len(w.list[d].parts)
         /\ Len(Shown(w, d).err) = Len(w.list[d].parts)
         /\ \A n \in 1..Len(w.list[d].parts) :
              /\ Shown(w, d).tot[n] = w.up[w.list[d].parts[n]].tot
              /\ Shown(w, d).got[n] = w.up[w.list[d].parts[n]].got
              /\ Shown(w, d).err[n] = Download!Errors(w.up[w.list[d].parts[n]])
         /\ Download!TotOf(w, d) = Download!Total(Shown(w, d).tot)
         /\ Download!GotOf(w, d) = Download!Total(Shown(w, d).got)
         /\ Download!ErrorsOf(w, d) = Download!Total(Shown(w, d).err)
<1> DEFINE q == w.list[d].parts
<1>1. Len(q) \in Nat /\ DOMAIN q = 1..Len(q) /\ \A n \in 1..Len(q) : q[n] \in Updates
  BY ListTypes
<1>2. \A n \in 1..Len(q) : w.up[q[n]].tot \in Nat /\ w.up[q[n]].got \in Nat /\ w.up[q[n]].nerr \in Nat
  BY <1>1, ActionTypes
<1>3. \A n \in 1..Len(q) : Download!Errors(w.up[q[n]]) \in Nat
  BY <1>2 DEF Download!Errors
<1>4. /\ Shown(w, d).tot = [n \in 1..Len(q) |-> w.up[q[n]].tot]
      /\ Shown(w, d).got = [n \in 1..Len(q) |-> w.up[q[n]].got]
      /\ Shown(w, d).err = [n \in 1..Len(q) |-> Download!Errors(w.up[q[n]])]
  BY <1>1 DEF Shown, Download!Parts
<1> HIDE DEF q
<1>5. /\ Shown(w, d).tot \in Seq(Nat) /\ Len(Shown(w, d).tot) = Len(q)
      /\ \A n \in 1..Len(q) : Shown(w, d).tot[n] = w.up[q[n]].tot
  BY <1>1, <1>2, <1>4
<1>6. /\ Shown(w, d).got \in Seq(Nat) /\ Len(Shown(w, d).got) = Len(q)
      /\ \A n \in 1..Len(q) : Shown(w, d).got[n] = w.up[q[n]].got
  BY <1>1, <1>2, <1>4
<1>7. /\ Shown(w, d).err \in Seq(Nat) /\ Len(Shown(w, d).err) = Len(q)
      /\ \A n \in 1..Len(q) : Shown(w, d).err[n] = Download!Errors(w.up[q[n]])
  BY <1>1, <1>3, <1>4
<1>8. /\ Download!TotOf(w, d) = Download!Total(Shown(w, d).tot)
      /\ Download!GotOf(w, d) = Download!Total(Shown(w, d).got)
      /\ Download!ErrorsOf(w, d) = Download!Total(Shown(w, d).err)
  BY DEF Download!TotOf, Download!GotOf, Download!ErrorsOf, Shown
<1> QED
  BY <1>5, <1>6, <1>7, <1>8 DEF q

LEMMA SumsTyped ==
  ASSUME NEW w \in Worlds, NEW d \in Download!Dirs
  PROVE  /\ Download!TotOf(w, d) \in Nat /\ Download!GotOf(w, d) \in Nat
         /\ Download!ErrorsOf(w, d) \in Nat
  BY ShownNumbers, TotalTyped

\* A directory has not got more than there is.
LEMMA SumsOrdered ==
  ASSUME NEW w \in Worlds, NEW d \in Download!Dirs, \A u \in Updates : w.up[u].got <= w.up[u].tot
  PROVE  Download!GotOf(w, d) <= Download!TotOf(w, d)
<1>1. \A n \in 1..Len(w.list[d].parts) : Shown(w, d).got[n] <= Shown(w, d).tot[n]
  BY ShownNumbers, ListTypes
<1> DEFINE s == Shown(w, d).got
           t == Shown(w, d).tot
<1>2. s \in Seq(Nat) /\ t \in Seq(Nat) /\ Len(s) = Len(t) /\ Len(s) = Len(w.list[d].parts)
  BY ShownNumbers
<1>3. \A n \in 1..Len(s) : s[n] <= t[n]
  BY <1>1, <1>2
<1> HIDE DEF s, t
<1>4. Download!Total(s) <= Download!Total(t)
  BY <1>2, <1>3, TotalAtMost
<1> QED
  BY <1>4, ShownNumbers DEF s, t

\* Without errors no part is blocked.
LEMMA NoErrors ==
  ASSUME NEW w \in Worlds, NEW d \in Download!Dirs, Download!ErrorsOf(w, d) = 0,
         NEW n \in 1..Len(w.list[d].parts)
  PROVE  ~Download!IsBlocked(w.up[w.list[d].parts[n]].st)
<1>1. Shown(w, d).err[n] = 0
  BY ShownNumbers, TotalZero
<1>2. Download!Errors(w.up[w.list[d].parts[n]]) = 0 /\ w.up[w.list[d].parts[n]].nerr \in Nat
  BY <1>1, ShownNumbers, ListTypes, ActionTypes
<1> QED
  BY <1>2 DEF Download!Errors

\* The sums depend on what the parts show.
LEMMA SumsSame ==
  ASSUME NEW w, NEW v, NEW d, v.list[d].parts = w.list[d].parts,
         \A n \in DOMAIN w.list[d].parts :
           /\ v.up[w.list[d].parts[n]].tot = w.up[w.list[d].parts[n]].tot
           /\ v.up[w.list[d].parts[n]].got = w.up[w.list[d].parts[n]].got
  PROVE  Download!TotOf(v, d) = Download!TotOf(w, d) /\ Download!GotOf(v, d) = Download!GotOf(w, d)
<1> DEFINE q == w.list[d].parts
<1>1. [n \in DOMAIN q |-> v.up[q[n]].tot] = [n \in DOMAIN q |-> w.up[q[n]].tot]
  OBVIOUS
<1>2. [n \in DOMAIN q |-> v.up[q[n]].got] = [n \in DOMAIN q |-> w.up[q[n]].got]
  OBVIOUS
<1> QED
  BY <1>1, <1>2 DEF Download!TotOf, Download!GotOf, Download!Parts

-----------------------------------------------------------------------------
(***************************************************************************)
(* The parts of a directory are some of its entries.                       *)
(***************************************************************************)
LEMMA PartsAreEntries ==
  ASSUME NEW w \in Worlds, NEW d \in Download!Dirs, Ordered(w.list[d], d),
         NEW n \in 1..Len(w.list[d].parts)
  PROVE  /\ w.list[d].parts[n] \in Updates /\ d \in Holders(w.list[d].parts[n])
         /\ w.list[d].parts[n] # d /\ w.list[d].parts[n] # Root
         /\ w.list[d].recs[n] + 1 \in 1..Len(Entries[d])
         /\ w.list[d].parts[n] = Entries[d][w.list[d].recs[n] + 1]
<1>1. n \in DOMAIN w.list[d].recs
  BY ListTypes DEF Ordered
<1>2. /\ w.list[d].recs[n] \in 0..Len(Entries[d]) - 1
      /\ w.list[d].parts[n] = Entries[d][w.list[d].recs[n] + 1]
  BY <1>1 DEF Ordered
<1>3. Len(Entries[d]) \in Nat
  BY EntriesOf
<1>4. w.list[d].recs[n] + 1 \in 1..Len(Entries[d])
  BY <1>2, <1>3
<1> QED
  BY <1>2, <1>4, EntriesOf

(***************************************************************************)
(* A handler that changes one Update, which is a part, leaves the others   *)
(* as they should be: but the directory above has to be told what it shows.*)
(***************************************************************************)
Changes(w, v, u, T) ==
  /\ v \in Worlds /\ v.failed \subseteq w.failed \cup {"done", "order"}
  /\ \A x \in Updates \ {u} : v.up[x] = w.up[x] /\ v.regions[x] = w.regions[x]
  /\ \A f \in Download!Files \ {u} : v.disk[f] = w.disk[f]
  /\ \A d \in Download!Dirs : /\ v.list[d].recs = w.list[d].recs /\ v.list[d].parts = w.list[d].parts
                              /\ d # u => v.list[d] = w.list[d]
  /\ w.up[u].st = "Success" => v.up[u].st = "Success"
  /\ Holders(u) \subseteq T \/ (v.up[u].tot = w.up[u].tot /\ v.up[u].got = w.up[u].got)

\* What is wanted of the other Updates is not more.
Eases(u, S, T, H, I) ==
  \A x \in Updates \ {u} : /\ x \notin T => x \notin S
                           /\ \A p : <<x, p>> \in I <=> <<x, p>> \in H

LEMMA Changed ==
  ASSUME NEW w, NEW v, NEW u \in Updates, NEW S, NEW T, NEW H, NEW I, NEW L, NEW M,
         NEW n \in Nat, NEW k \in Nat,
         DownloadHeld(w, S, H, L, n), Part(w, u), Changes(w, v, u, T), Eases(u, S, T, H, I),
         L \subseteq M, n <= k, OwnHeld(v, u, T, I, M, k)
  PROVE  DownloadHeld(v, T, I, M, k)
<1>1. w \in Worlds /\ v \in Worlds /\ "bytes" \notin v.failed
  BY DEF DownloadHeld, Changes
<1>2. ASSUME NEW x \in Updates, x # u PROVE OwnHeld(v, x, T, I, M, k)
  <2>1. OwnHeld(w, x, S, H, L, n)
    BY DEF DownloadHeld
  <2>2. /\ v.up[x] = w.up[x] /\ v.regions[x] = w.regions[x]
        /\ x \in Download!Files => v.disk[x] = w.disk[x]
        /\ x \in Download!Dirs => v.list[x] = w.list[x]
    BY <1>2 DEF Changes
  <2>3. /\ x \notin T => x \notin S
        /\ Ready(v, x, I) = Ready(w, x, H)
    BY <1>2, <2>2 DEF Eases, Ready
  <2>4. Counted(v, x, k)
    <3>1. Counted(w, x, n)
      BY <2>1 DEF OwnHeld
    <3>2. \A p \in Download!Pieces(x) : w.regions[x][p] \in Nat
      BY <3>1 DEF Counted
    <3>3. \A p \in Download!Pieces(x) : w.regions[x][p] + (IF w.up[x].timer THEN 1 ELSE 0) <= k + 1
      BY <3>1, <3>2 DEF Counted
    <3> QED
      BY <3>1, <3>3, <2>2 DEF Counted
  <2>5. ASSUME x \in Download!Files
        PROVE  FileSound(v, x) /\ (x \notin T => FileHeld(v, x, I))
    BY <2>1, <2>2, <2>3, <2>5 DEF OwnHeld, FileSound, FileHeld
  <2>6. ASSUME x \in Download!Dirs PROVE ListHeld(v, x, I, M)
    <3>1. ListHeld(w, x, H, L)
      BY <2>1, <2>6 DEF OwnHeld
    <3>2. \A m \in DOMAIN w.list[x].parts :
            w.up[w.list[x].parts[m]].st = "Success" => v.up[w.list[x].parts[m]].st = "Success"
      BY <1>1, <2>6, ListTypes DEF Changes
    <3>3. \A r : Has(v, x, r) <=> Has(w, x, r)
      BY <2>2, <2>6 DEF Has
    <3> QED
      BY <3>1, <3>2, <3>3, <2>2, <2>3, <2>6 DEF ListHeld
  <2>7. ASSUME x \in Download!Dirs, x \notin T PROVE SumsTold(v, x)
    <3>1. SumsTold(w, x) /\ Ordered(w.list[x], x)
      BY <2>1, <2>3, <2>7 DEF OwnHeld, ListHeld
    <3>2. \A m \in DOMAIN w.list[x].parts :
            /\ v.up[w.list[x].parts[m]].tot = w.up[w.list[x].parts[m]].tot
            /\ v.up[w.list[x].parts[m]].got = w.up[w.list[x].parts[m]].got
      <4> SUFFICES ASSUME NEW m \in 1..Len(w.list[x].parts)
                   PROVE  /\ v.up[w.list[x].parts[m]].tot = w.up[w.list[x].parts[m]].tot
                          /\ v.up[w.list[x].parts[m]].got = w.up[w.list[x].parts[m]].got
        BY <1>1, <2>7, ListTypes
      <4>1. w.list[x].parts[m] \in Updates /\ x \in Holders(w.list[x].parts[m])
        BY <1>1, <2>7, <3>1, PartsAreEntries
      <4>2. CASE w.list[x].parts[m] = u
        BY <4>1, <4>2, <2>7 DEF Changes
      <4>3. CASE w.list[x].parts[m] # u
        BY <4>1, <4>3 DEF Changes
      <4> QED
        BY <4>2, <4>3
    <3>3. Download!TotOf(v, x) = Download!TotOf(w, x) /\ Download!GotOf(v, x) = Download!GotOf(w, x)
      BY <2>2, <2>7, <3>2, SumsSame
    <3> QED
      BY <3>1, <3>3, <2>2 DEF SumsTold
  <2> QED
    BY <2>4, <2>5, <2>6, <2>7 DEF OwnHeld
<1>3. ASSUME NEW x \in Updates PROVE Part(v, x) \/ Unmade(v, x)
  <2>1. Part(w, x) \/ (x # u /\ Unmade(w, x))
    BY DEF DownloadHeld
  <2>2. Part(w, x) => Part(v, x)
    BY DEF Part, Changes
  <2>3. x # u /\ Unmade(w, x) => Unmade(v, x)
    BY DEF Unmade, Changes
  <2> QED
    BY <2>1, <2>2, <2>3
<1> QED
  BY <1>1, <1>2, <1>3 DEF DownloadHeld

-----------------------------------------------------------------------------
(***************************************************************************)
(* check of a directory reader adds up what the parts show, and succeeds   *)
(* only when all has been read and all parts have.                         *)
(***************************************************************************)
LEMMA CheckEffect ==
  ASSUME NEW w \in Worlds, NEW d \in Download!Dirs, Ordered(w.list[d], d),
         \A u \in Updates : w.up[u].got <= w.up[u].tot
  PROVE  LET v == Download!Check(w, d)
         IN  /\ Only(w, v, d) /\ v.up[d].timer = w.up[d].timer /\ v.up[d].got <= v.up[d].tot
             /\ SumsTold(v, d)
             /\ w.up[d].st = "Success" => v.up[d].st = "Success"
             /\ v.up[d].st = "Success" /\ w.up[d].st # "Success" =>
                  /\ w.list[d].done
                  /\ \A n \in 1..Len(w.list[d].parts) : w.up[w.list[d].parts[n]].st = "Success"
<1> DEFINE v == Download!Check(w, d)
           a == w.up[d]
<1>1. d \in Updates /\ a \in Actions /\ a.st \in Download!Statuses
  BY Tree, ActionTypes
<1>2. CASE Download!IsDone(a.st)
  <2>1. v = w
    BY <1>2 DEF Download!Check
  <2>2. Only(w, w, d)
    BY DEF Only
  <2>3. SumsTold(w, d)
    BY <1>2 DEF SumsTold
  <2>4. w.up[d].got <= w.up[d].tot
    BY <1>1
  <2> QED
    BY <2>1, <2>2, <2>3, <2>4
<1>3. CASE ~Download!IsDone(a.st)
  <2> DEFINE rec == [a EXCEPT !.tot = Download!TotOf(w, d), !.got = Download!GotOf(w, d),
                              !.nerr = Download!ErrorsOf(w, d)]
             w1 == IF rec = a THEN w
                   ELSE Download!SetStatus(Download!Put(w, d, rec), d, "Running")
             over == w.list[d].done /\ \A n \in DOMAIN Download!Parts(w, d) :
                                         Download!IsDone(w.up[Download!Parts(w, d)[n]].st)
             st == IF rec.nerr > 0 THEN "FatalError" ELSE "Success"
  <2>1. /\ rec \in Actions /\ rec.tot = Download!TotOf(w, d) /\ rec.got = Download!GotOf(w, d)
        /\ rec.nerr = Download!ErrorsOf(w, d) /\ rec.st = a.st /\ rec.timer = a.timer
    BY <1>1, SumsTyped DEF Actions
  <2>2. v = IF over THEN Download!SetStatus(w1, d, st) ELSE w1
    BY <1>3 DEF Download!Check
  <2> HIDE DEF rec, v
  <2>3. /\ Only(w, w1, d) /\ w1.up[d].tot = rec.tot /\ w1.up[d].got = rec.got
        /\ w1.up[d].timer = a.timer /\ ~Download!IsDone(w1.up[d].st)
    <3>1. CASE rec = a
      <4>1. Only(w, w, d)
        BY DEF Only
      <4> QED
        BY <3>1, <4>1, <1>3
    <3>2. CASE rec # a
      <4> DEFINE w0 == Download!Put(w, d, rec)
      <4>1. Only(w, w0, d) /\ w0.up[d] = rec
        BY <1>1, <2>1, PutOnly
      <4> HIDE DEF w0
      <4>2. w0 \in Worlds /\ ~Download!IsDone(w0.up[d].st) /\ "Running" \in Download!Statuses
        BY <4>1, <2>1, <1>3 DEF Only, Download!Statuses
      <4> DEFINE w2 == Download!SetStatus(w0, d, "Running")
      <4>3. /\ Only(w0, w2, d) /\ w2.up[d].st = "Running" /\ w2.up[d].timer = w0.up[d].timer
            /\ w2.up[d].tot = w0.up[d].tot /\ w2.up[d].got = w0.up[d].got
        BY <4>2, <1>1, StatusSet
      <4>4. w1 = w2
        BY <3>2 DEF w0
      <4> HIDE DEF w1, w2
      <4>5. Only(w, w1, d)
        BY <4>1, <4>3, <4>4, OnlyTwice
      <4>6. ~Download!IsDone("Running")
        BY DEF Download!IsDone
      <4> QED
        BY <4>1, <4>3, <4>4, <4>5, <4>6, <2>1
    <3> QED
      BY <3>1, <3>2
  <2> HIDE DEF w1
  <2>4. /\ Only(w, v, d) /\ v.up[d].tot = rec.tot /\ v.up[d].got = rec.got
        /\ v.up[d].timer = a.timer
        /\ v.up[d].st = "Success" => over /\ rec.nerr = 0
    <3>1. CASE over
      <4>1. st \in Download!Statuses /\ w1 \in Worlds
        BY <2>3 DEF Only, Download!Statuses
      <4>2. /\ Only(w1, v, d) /\ v.up[d].st = st /\ v.up[d].timer = w1.up[d].timer
            /\ v.up[d].tot = w1.up[d].tot /\ v.up[d].got = w1.up[d].got
        BY <1>1, <2>2, <2>3, <3>1, <4>1, StatusSet
      <4>3. Only(w, v, d)
        BY <2>3, <4>2, OnlyTwice
      <4>4. st = "Success" => rec.nerr = 0
        BY <2>1, SumsTyped
      <4> QED
        BY <2>3, <3>1, <4>2, <4>3, <4>4
    <3>2. CASE ~over
      <4>1. v = w1
        BY <2>2, <3>2
      <4>2. v.up[d].st # "Success"
        BY <2>3, <4>1 DEF Download!IsDone
      <4> QED
        BY <2>3, <4>1, <4>2
    <3> QED
      BY <3>1, <3>2
  <2>5. SumsTold(v, d)
    <3>1. \A n \in DOMAIN w.list[d].parts : v.up[w.list[d].parts[n]] = w.up[w.list[d].parts[n]]
      <4>1. \A n \in 1..Len(w.list[d].parts) :
              w.list[d].parts[n] \in Updates /\ w.list[d].parts[n] # d
        BY PartsAreEntries
      <4>2. \A x \in Updates \ {d} : v.up[x] = w.up[x]
        BY <2>4 DEF Only
      <4>3. DOMAIN w.list[d].parts = 1..Len(w.list[d].parts)
        BY ListTypes
      <4> QED
        BY <4>1, <4>2, <4>3
    <3>2. v.list[d].parts = w.list[d].parts
      BY <2>4 DEF Only
    <3>3. Download!TotOf(v, d) = Download!TotOf(w, d) /\ Download!GotOf(v, d) = Download!GotOf(w, d)
      BY <3>1, <3>2, SumsSame
    <3> QED
      BY <2>1, <2>4, <3>3 DEF SumsTold
  <2>6. v.up[d].got <= v.up[d].tot
    BY <2>1, <2>4, SumsOrdered
  <2>7. ASSUME v.up[d].st = "Success"
        PROVE  /\ w.list[d].done
               /\ \A n \in 1..Len(w.list[d].parts) : w.up[w.list[d].parts[n]].st = "Success"
    <3>1. over /\ Download!ErrorsOf(w, d) = 0
      BY <2>1, <2>4, <2>7
    <3>2. w.list[d].done /\ \A n \in 1..Len(w.list[d].parts) : Download!IsDone(w.up[w.list[d].parts[n]].st)
      BY <3>1, ListTypes DEF Download!Parts
    <3>3. \A n \in 1..Len(w.list[d].parts) : ~Download!IsBlocked(w.up[w.list[d].parts[n]].st)
      BY <3>1, NoErrors
    <3> QED
      BY <3>2, <3>3 DEF Download!IsDone, Download!IsBlocked
  <2>8. w.up[d].st # "Success"
    BY <1>3 DEF Download!IsDone
  <2> QED
    BY <2>4, <2>5, <2>6, <2>7, <2>8 DEF v
<1> QED
  BY <1>2, <1>3

(***************************************************************************)
(* After check the directory is as it should be, but the one above it has  *)
(* to be told.                                                             *)
(***************************************************************************)
LEMMA CheckHeld ==
  ASSUME NEW w, NEW d \in Download!Dirs, NEW S, NEW H, NEW L, NEW n \in Nat,
         DownloadHeld(w, S, H, L, n), Part(w, d)
  PROVE  LET v == Download!Check(w, d)
         IN  /\ DownloadHeld(v, (S \ {d}) \cup Holders(d), H, L, n)
             /\ Only(w, v, d) /\ v.up[d].timer = w.up[d].timer
<1> DEFINE v == Download!Check(w, d)
           T == (S \ {d}) \cup Holders(d)
<1>1. w \in Worlds /\ d \in Updates /\ d \notin Download!Files
  BY Tree DEF DownloadHeld
<1>2. /\ \A u \in Updates : Counted(w, u, n) /\ w.up[u].got <= w.up[u].tot
      /\ ListHeld(w, d, H, L) /\ Ordered(w.list[d], d)
  BY <1>1 DEF DownloadHeld, OwnHeld, Counted, ListHeld
<1>3. /\ Only(w, v, d) /\ v.up[d].timer = w.up[d].timer /\ v.up[d].got <= v.up[d].tot
      /\ SumsTold(v, d)
      /\ w.up[d].st = "Success" => v.up[d].st = "Success"
      /\ v.up[d].st = "Success" /\ w.up[d].st # "Success" =>
           /\ w.list[d].done
           /\ \A m \in 1..Len(w.list[d].parts) : w.up[w.list[d].parts[m]].st = "Success"
  BY <1>1, <1>2, CheckEffect
<1> HIDE DEF v
<1>4. v.regions = w.regions /\ v.disk = w.disk /\ v.list = w.list /\ v.failed = w.failed
  BY <1>3 DEF Only
<1>5. Changes(w, v, d, T)
  BY <1>3, <1>1 DEF Only, Changes
<1>6. Eases(d, S, T, H, H)
  BY DEF Eases
<1>7. Counted(v, d, n)
  BY <1>1, <1>2, <1>3, <1>4 DEF Counted
<1>8. ListHeld(v, d, H, L)
  <2>1. v.list[d] = w.list[d] /\ Ready(v, d, H) = Ready(w, d, H) /\ \A r : Has(v, d, r) <=> Has(w, d, r)
    BY <1>4 DEF Ready, Has
  <2>2. ASSUME d \notin L, v.up[d].st = "Success"
        PROVE  /\ w.list[d].done
               /\ \A m \in DOMAIN w.list[d].parts : v.up[w.list[d].parts[m]].st = "Success"
    <3>1. DOMAIN w.list[d].parts = 1..Len(w.list[d].parts)
      BY <1>1, ListTypes
    <3>2. w.list[d].done /\ \A m \in 1..Len(w.list[d].parts) : w.up[w.list[d].parts[m]].st = "Success"
      <4>1. CASE w.up[d].st = "Success"
        BY <4>1, <2>2, <3>1, <1>2 DEF ListHeld
      <4>2. CASE w.up[d].st # "Success"
        BY <4>2, <2>2, <1>3
      <4> QED
        BY <4>1, <4>2
    <3>3. \A m \in 1..Len(w.list[d].parts) :
            w.list[d].parts[m] \in Updates /\ w.list[d].parts[m] # d
      BY <1>1, <1>2, PartsAreEntries
    <3>4. \A x \in Updates \ {d} : v.up[x] = w.up[x]
      BY <1>3 DEF Only
    <3> QED
      BY <3>1, <3>2, <3>3, <3>4
  <2> QED
    BY <2>1, <2>2, <1>2, <1>4 DEF ListHeld
<1>9. OwnHeld(v, d, T, H, L, n)
  BY <1>1, <1>3, <1>7, <1>8 DEF OwnHeld
<1>10. DownloadHeld(v, T, H, L, n)
  BY <1>1, <1>5, <1>6, <1>9, Changed
<1> QED
  BY <1>3, <1>10 DEF v

\* What holds a part is a part.
LEMMA PartAbove ==
  ASSUME NEW w, NEW x \in Updates, NEW d \in Holders(x), NEW S, NEW H, NEW L, NEW n,
         DownloadHeld(w, S, H, L, n), Part(w, x)
  PROVE  d \in Download!Dirs /\ Part(w, d)
<1>1. w \in Worlds /\ d \in Download!Dirs /\ d \in Updates /\ x # Root /\ d = Above[x][1]
  BY Tree DEF DownloadHeld, Holders
<1>2. PICK e \in Download!Dirs : \E m \in DOMAIN w.list[e].parts : w.list[e].parts[m] = x
  BY <1>1 DEF Part
<1>3. PICK m \in DOMAIN w.list[e].parts : w.list[e].parts[m] = x
  BY <1>2
<1>4. e \in Updates /\ m \in 1..Len(w.list[e].parts) /\ Len(w.list[e].parts) \in Nat
  BY <1>1, <1>3, Tree, ListTypes
<1>5. Ordered(w.list[e], e)
  BY <1>4 DEF DownloadHeld, OwnHeld, ListHeld
<1>6. e \in Holders(x)
  BY <1>1, <1>3, <1>4, <1>5, PartsAreEntries
<1>7. e = d
  BY <1>1, <1>6, Tree
<1>8. w.list[d] # Download!NoList
  BY <1>4, <1>7 DEF Download!NoList
<1> QED
  BY <1>1, <1>8 DEF DownloadHeld, Unmade

-----------------------------------------------------------------------------
(***************************************************************************)
(* Reports pass from directory to directory.                               *)
(***************************************************************************)
LEMMA ReportsPass ==
  ASSUME NEW w, NEW u \in Updates
  PROVE  \E t : /\ t[0] = w /\ Download!Reported(w, u) = t[Len(Above[u])]
                /\ \A k \in 1..Len(Above[u]) : t[k] = Download!Check(t[k - 1], At(u, k))
<1> DEFINE n == Len(Above[u])
           Upto(t, m) == t = [k \in 0..m |-> IF k = 0 THEN w ELSE Download!Check(t[k - 1], Above[u][k])]
           P == {m \in 0..n : \E t : Upto(t, m)}
<1>1. n \in Nat
  BY Chain
<1> HIDE DEF n
<1>2. 0 \in P
  <2>1. Upto([k \in 0..0 |-> w], 0)
    OBVIOUS
  <2>2. 0 \in 0..n
    BY <1>1
  <2> HIDE DEF Upto
  <2> QED
    BY <2>1, <2>2
<1>3. ASSUME NEW m \in 1..n, m - 1 \in P PROVE m \in P
  <2>1. PICK t : Upto(t, m - 1)
    BY <1>3
  <2> DEFINE s == [k \in 0..m |-> IF k = m THEN Download!Check(t[m - 1], Above[u][m]) ELSE t[k]]
  <2>2. \A k \in 0..m - 1 : t[k] = IF k = 0 THEN w ELSE Download!Check(t[k - 1], Above[u][k])
    BY <2>1
  <2>3. \A k \in 0..m : s[k] = IF k = 0 THEN w ELSE Download!Check(s[k - 1], Above[u][k])
    <3> SUFFICES ASSUME NEW k \in 0..m
                 PROVE  s[k] = IF k = 0 THEN w ELSE Download!Check(s[k - 1], Above[u][k])
      OBVIOUS
    <3>1. CASE k = m
      <4>1. k # 0 /\ m - 1 \in 0..m /\ s[m - 1] = t[m - 1] /\ s[k] = Download!Check(t[m - 1], Above[u][m])
        BY <3>1
      <4> QED
        BY <3>1, <4>1
    <3>2. CASE k # m
      <4>1. k \in 0..m - 1 /\ s[k] = t[k] /\ (k # 0 => k - 1 \in 0..m /\ k - 1 # m /\ s[k - 1] = t[k - 1])
        BY <3>2
      <4> HIDE DEF s
      <4> QED
        BY <4>1, <2>2
    <3> QED
      BY <3>1, <3>2
  <2>4. Upto(s, m)
    BY <2>3
  <2>5. m \in 0..n
    BY <1>1
  <2> HIDE DEF Upto
  <2> QED
    BY <2>4, <2>5
<1> HIDE DEF P
<1>4. 0..n \subseteq P
  BY <1>1, <1>2, <1>3, StepByStep
<1>5. \E t : Upto(t, n)
  BY <1>1, <1>4 DEF P
<1>6. Upto(CHOOSE t : Upto(t, n), n)
  BY <1>5
<1> DEFINE told == CHOOSE t : Upto(t, n)
<1>7. Download!Reported(w, u) = told[n]
  BY DEF Download!Reported, n
<1> HIDE DEF told
<1>8. \A k \in 0..n : told[k] = IF k = 0 THEN w ELSE Download!Check(told[k - 1], Above[u][k])
  BY <1>6 DEF told
<1>9. told[0] = w
  BY <1>1, <1>8
<1>10. ASSUME NEW k \in 1..n PROVE told[k] = Download!Check(told[k - 1], At(u, k))
  <2>1. k \in 0..n /\ k # 0
    BY <1>1
  <2> QED
    BY <2>1, <1>8 DEF At
<1> QED
  BY <1>7, <1>9, <1>10 DEF n

\* v is w after u has reported.
Reports(w, v, u) ==
  /\ v.regions = w.regions /\ v.disk = w.disk /\ v.list = w.list /\ v.failed = w.failed
  /\ \A x \in Updates : v.up[x].timer = w.up[x].timer
  /\ \A x \in Updates : (\A k \in 1..Len(Above[u]) : At(u, k) # x) => v.up[x] = w.up[x]

(***************************************************************************)
(* When an Update has reported, the directory above has been told, and all *)
(* those that it reports to.                                               *)
(***************************************************************************)
LEMMA ReportHeld ==
  ASSUME NEW w, NEW u \in Updates, NEW S \in SUBSET Download!Files, NEW H, NEW L, NEW n \in Nat,
         DownloadHeld(w, S \cup Holders(u), H, L, n), Part(w, u)
  PROVE  LET v == Download!Reported(w, u)
         IN  /\ DownloadHeld(v, S, H, L, n) /\ Part(v, u) /\ Reports(w, v, u) /\ v.up[u] = w.up[u]
<1> DEFINE m == Len(Above[u])
<1>1. PICK t : /\ t[0] = w /\ Download!Reported(w, u) = t[m]
               /\ \A k \in 1..m : t[k] = Download!Check(t[k - 1], At(u, k))
  BY ReportsPass
<1>2. /\ m \in Nat /\ Holders(At(u, m)) = {}
      /\ \A k \in 1..m : /\ At(u, k) \in Download!Dirs /\ At(u, k) # u
                         /\ Holders(At(u, k - 1)) = {At(u, k)}
  BY Chain
<1>3. At(u, 0) = u
  BY DEF At
<1> HIDE DEF m
<1> DEFINE Good(k) == /\ At(u, k) \in Updates
                      /\ DownloadHeld(t[k], S \cup Holders(At(u, k)), H, L, n)
                      /\ Part(t[k], At(u, k)) /\ Part(t[k], u) /\ Reports(w, t[k], u)
           P == {k \in 0..m : Good(k)}
<1>4. 0 \in P
  <2>1. Reports(w, w, u)
    BY DEF Reports
  <2>2. 0 \in 0..m
    BY <1>2
  <2> QED
    BY <2>1, <2>2, <1>1, <1>3
<1>5. ASSUME NEW k \in 1..m, k - 1 \in P PROVE k \in P
  <2> DEFINE x == t[k - 1]
             d == At(u, k)
             c == At(u, k - 1)
  <2>1. /\ c \in Updates /\ DownloadHeld(x, S \cup Holders(c), H, L, n)
        /\ Part(x, c) /\ Part(x, u) /\ Reports(w, x, u)
    BY <1>5
  <2>2. /\ d \in Download!Dirs /\ d \in Updates /\ d \notin Download!Files /\ d # u
        /\ Holders(c) = {d} /\ t[k] = Download!Check(x, d) /\ k \in 0..m
    BY <1>1, <1>2, Tree
  <2> HIDE DEF x, d, c, Good
  <2>3. Part(x, d)
    BY <2>1, <2>2, PartAbove
  <2>4. /\ DownloadHeld(t[k], ((S \cup {d}) \ {d}) \cup Holders(d), H, L, n)
        /\ Only(x, t[k], d) /\ t[k].up[d].timer = x.up[d].timer
    BY <2>1, <2>2, <2>3, CheckHeld
  <2>5. ((S \cup {d}) \ {d}) \cup Holders(d) = S \cup Holders(d)
    BY <2>2
  <2>6. Part(t[k], d) /\ Part(t[k], u)
    BY <2>1, <2>3, <2>4 DEF Part, Only
  <2>7. Reports(w, t[k], u)
    <3>1. /\ t[k].regions = w.regions /\ t[k].disk = w.disk /\ t[k].list = w.list
          /\ t[k].failed = w.failed
      BY <2>1, <2>4 DEF Reports, Only
    <3>2. \A y \in Updates : t[k].up[y].timer = w.up[y].timer
      BY <2>1, <2>4 DEF Reports, Only
    <3>3. ASSUME NEW y \in Updates, \A j \in 1..Len(Above[u]) : At(u, j) # y
          PROVE  t[k].up[y] = w.up[y]
      <4>1. y # d
        BY <3>3 DEF d, m
      <4>2. x.up[y] = w.up[y]
        BY <2>1, <3>3 DEF Reports
      <4> QED
        BY <4>1, <4>2, <2>4 DEF Only
    <3> QED
      BY <3>1, <3>2, <3>3 DEF Reports
  <2>8. Good(k)
    BY <2>2, <2>4, <2>5, <2>6, <2>7 DEF Good, d
  <2> QED
    BY <2>2, <2>8
<1> HIDE DEF P
<1>6. 0..m \subseteq P
  BY <1>2, <1>4, <1>5, StepByStep
<1>7. Good(m)
  BY <1>2, <1>6 DEF P
<1>8. t[m].up[u] = w.up[u]
  BY <1>2, <1>7 DEF Reports, m
<1>9. S \cup Holders(At(u, m)) = S
  BY <1>2
<1> QED
  BY <1>1, <1>7, <1>8, <1>9

\* setStatus of an Action: its status stays if it is done.
LEMMA StatusSets ==
  ASSUME NEW w \in Worlds, NEW u \in Updates, NEW st \in Download!Statuses
  PROVE  LET v == Download!SetStatus(w, u, st)
         IN  /\ v \in Worlds /\ v.regions = w.regions /\ v.disk = w.disk /\ v.list = w.list
             /\ v.failed \subseteq w.failed \cup {"done"}
             /\ \A x \in Updates \ {u} : v.up[x] = w.up[x]
             /\ v.up[u].timer = w.up[u].timer /\ v.up[u].tot = w.up[u].tot
             /\ v.up[u].got = w.up[u].got /\ v.up[u].nerr = w.up[u].nerr
             /\ v.up[u].st = IF Download!IsDone(w.up[u].st) THEN w.up[u].st ELSE st
<1>1. CASE Download!IsDone(w.up[u].st)
  BY <1>1, StatusRefused
<1>2. CASE ~Download!IsDone(w.up[u].st)
  BY <1>2, StatusSet DEF Only
<1> QED
  BY <1>1, <1>2

\* What a handler of u leaves alone.
Touches(w, v, u) ==
  /\ \A d \in Download!Dirs : v.list[d].recs = w.list[d].recs /\ v.list[d].parts = w.list[d].parts
  /\ \A x \in Updates \ {u} :
       /\ v.regions[x] = w.regions[x]
       /\ (\A k \in 1..Len(Above[u]) : At(u, k) # x) => v.up[x] = w.up[x]

LEMMA PartStays ==
  ASSUME NEW w, NEW v, NEW u, NEW x, Touches(w, v, u), Part(w, x)
  PROVE  Part(v, x)
  BY DEF Touches, Part

LEMMA TouchesTwice ==
  ASSUME NEW w, NEW v, NEW x, NEW u, Touches(w, v, u), Touches(v, x, u)
  PROVE  Touches(w, x, u)
  BY DEF Touches

LEMMA ReportTouches ==
  ASSUME NEW w, NEW v, NEW u, Reports(w, v, u)
  PROVE  Touches(w, v, u)
  BY DEF Reports, Touches

LEMMA ChangeTouches ==
  ASSUME NEW w, NEW v, NEW u, NEW T, Changes(w, v, u, T)
  PROVE  Touches(w, v, u)
  BY DEF Changes, Touches

LEMMA NotOwnHolder ==
  ASSUME NEW u \in Updates
  PROVE  u \notin Holders(u) /\ Holders(u) \subseteq Download!Dirs
<1>1. ASSUME u \in Holders(u) PROVE FALSE
  <2>1. u # Root /\ Above[u] # <<>> /\ u = Above[u][1] /\ Above[u] \in Seq(Download!Dirs)
    BY <1>1, Tree
  <2>2. 1 \in 1..Len(Above[u]) /\ At(u, 1) = u
    BY <2>1 DEF At
  <2> QED
    BY <2>2, Chain
<1> QED
  BY <1>1 DEF Holders

-----------------------------------------------------------------------------
LEMMA TmpClosed ==
  ASSUME NEW w \in Worlds, NEW f \in Download!Files
  PROVE  LET v == [w EXCEPT !.disk[f].tmp = FALSE]
         IN  /\ v \in Worlds /\ v.up = w.up /\ v.regions = w.regions /\ v.list = w.list
             /\ v.failed = w.failed /\ \A g \in Download!Files \ {f} : v.disk[g] = w.disk[g]
             /\ v.disk[f].written = w.disk[f].written /\ v.disk[f].file = w.disk[f].file
<1> DEFINE v == [w EXCEPT !.disk[f].tmp = FALSE]
           e == [w.disk[f] EXCEPT !.tmp = FALSE]
<1>1. w.disk \in [Download!Files -> Disks] /\ w.disk[f] \in Disks
  BY WorldTypes
<1>2. e \in Disks /\ e.written = w.disk[f].written /\ e.file = w.disk[f].file
  BY <1>1 DEF Disks
<1>3. /\ v.disk = [w.disk EXCEPT ![f] = e] /\ v.up = w.up /\ v.regions = w.regions
      /\ v.list = w.list /\ v.failed = w.failed
  BY DEF Worlds
<1> HIDE DEF e
<1>4. v.disk \in [Download!Files -> Disks]
  BY <1>1, <1>2, <1>3
<1>5. v \in Worlds
  BY <1>4 DEF Worlds
<1>6. v.disk[f] = e /\ \A g \in Download!Files \ {f} : v.disk[g] = w.disk[g]
  BY <1>1, <1>3
<1> QED
  BY <1>2, <1>3, <1>5, <1>6

LEMMA DiskPut ==
  ASSUME NEW w \in Worlds, NEW f \in Download!Files, NEW e \in Disks
  PROVE  LET v == [w EXCEPT !.disk[f] = e]
         IN  /\ v \in Worlds /\ v.up = w.up /\ v.regions = w.regions /\ v.list = w.list
             /\ v.failed = w.failed /\ \A g \in Download!Files \ {f} : v.disk[g] = w.disk[g]
             /\ v.disk[f] = e
<1> DEFINE v == [w EXCEPT !.disk[f] = e]
<1>1. w.disk \in [Download!Files -> Disks]
  BY WorldTypes
<1>2. /\ v.disk = [w.disk EXCEPT ![f] = e] /\ v.up = w.up /\ v.regions = w.regions
      /\ v.list = w.list /\ v.failed = w.failed
  BY DEF Worlds
<1>3. v.disk \in [Download!Files -> Disks]
  BY <1>1, <1>2
<1>4. v \in Worlds
  BY <1>3 DEF Worlds
<1> QED
  BY <1>1, <1>2, <1>4

LEMMA RegionsPut ==
  ASSUME NEW w \in Worlds, NEW u \in Updates, NEW r \in [Download!Pieces(u) -> Nat]
  PROVE  LET v == [w EXCEPT !.regions[u] = r]
         IN  /\ v \in Worlds /\ v.up = w.up /\ v.disk = w.disk /\ v.list = w.list
             /\ v.failed = w.failed /\ \A x \in Updates \ {u} : v.regions[x] = w.regions[x]
             /\ v.regions[u] = r
<1> DEFINE v == [w EXCEPT !.regions[u] = r]
<1>1. w.regions \in [Updates -> Waits] /\ r \in Waits
  BY WorldTypes DEF Waits
<1>2. /\ v.regions = [w.regions EXCEPT ![u] = r] /\ v.up = w.up /\ v.disk = w.disk
      /\ v.list = w.list /\ v.failed = w.failed
  BY DEF Worlds
<1>3. v.regions \in [Updates -> Waits]
  BY <1>1, <1>2
<1>4. v \in Worlds
  BY <1>3 DEF Worlds
<1> QED
  BY <1>1, <1>2, <1>4

LEMMA ListDone ==
  ASSUME NEW w \in Worlds, NEW d \in Download!Dirs
  PROVE  LET v == [w EXCEPT !.list[d].done = TRUE]
         IN  /\ v \in Worlds /\ v.up = w.up /\ v.regions = w.regions /\ v.disk = w.disk
             /\ v.failed = w.failed /\ \A e \in Download!Dirs \ {d} : v.list[e] = w.list[e]
             /\ v.list[d].recs = w.list[d].recs /\ v.list[d].parts = w.list[d].parts
             /\ v.list[d].done = TRUE
<1> DEFINE v == [w EXCEPT !.list[d].done = TRUE]
           e == [w.list[d] EXCEPT !.done = TRUE]
<1>1. w.list \in [Download!Dirs -> Lists] /\ w.list[d] \in Lists
  BY WorldTypes
<1>2. e \in Lists /\ e.recs = w.list[d].recs /\ e.parts = w.list[d].parts
  BY <1>1 DEF Lists
<1>7. e.done = TRUE
  BY <1>1 DEF Lists
<1>3. /\ v.list = [w.list EXCEPT ![d] = e] /\ v.up = w.up /\ v.regions = w.regions
      /\ v.disk = w.disk /\ v.failed = w.failed
  BY DEF Worlds
<1> HIDE DEF e
<1>4. v.list \in [Download!Dirs -> Lists]
  BY <1>1, <1>2, <1>3
<1>5. v \in Worlds
  BY <1>4 DEF Worlds
<1>6. v.list[d] = e /\ \A x \in Download!Dirs \ {d} : v.list[x] = w.list[x]
  BY <1>1, <1>3
<1> QED
  BY <1>2, <1>3, <1>5, <1>6, <1>7

\* The record of an Action with its timer or its numbers changed.
LEMMA TimerPut ==
  ASSUME NEW a \in Actions, NEW b \in BOOLEAN
  PROVE  LET r == [a EXCEPT !.timer = b]
         IN  r \in Actions /\ r.timer = b /\ r.st = a.st /\ r.tot = a.tot /\ r.got = a.got
  BY DEF Actions

LEMMA TotPut ==
  ASSUME NEW a \in Actions, NEW i \in Nat
  PROVE  LET r == [a EXCEPT !.tot = i]
         IN  r \in Actions /\ r.tot = i /\ r.st = a.st /\ r.timer = a.timer /\ r.got = a.got
  BY DEF Actions

LEMMA GotPut ==
  ASSUME NEW a \in Actions, NEW i \in Nat
  PROVE  LET r == [a EXCEPT !.got = i]
         IN  r \in Actions /\ r.got = i /\ r.st = a.st /\ r.timer = a.timer /\ r.tot = a.tot
  BY DEF Actions

(***************************************************************************)
(* A handler that changes u and then reports its status.                   *)
(***************************************************************************)
Handles(w, v, u, st, S, T, H, I, L, n) ==
  /\ DownloadHeld(w, S, H, L, n) /\ Part(w, u) /\ Changes(w, v, u, T \cup Holders(u))
  /\ Eases(u, S, T \cup Holders(u), H, I)
  /\ OwnHeld(Download!SetStatus(v, u, st), u, T \cup Holders(u), I, L, n)

LEMMA StatusReported ==
  ASSUME NEW w, NEW v, NEW u \in Updates, NEW st \in Download!Statuses,
         NEW S, NEW T \in SUBSET Download!Files, NEW H, NEW I, NEW L, NEW n \in Nat,
         Handles(w, v, u, st, S, T, H, I, L, n)
  PROVE  LET x == Download!ReportStatus(v, u, st)
         IN  /\ DownloadHeld(x, T, I, L, n) /\ Part(x, u) /\ Touches(w, x, u)
             /\ x.regions = v.regions /\ x.up[u] = Download!SetStatus(v, u, st).up[u]
<1> DEFINE y == Download!SetStatus(v, u, st)
           x == Download!ReportStatus(v, u, st)
<1>0. /\ DownloadHeld(w, S, H, L, n) /\ Part(w, u) /\ Changes(w, v, u, T \cup Holders(u))
      /\ Eases(u, S, T \cup Holders(u), H, I)
      /\ OwnHeld(y, u, T \cup Holders(u), I, L, n)
  BY DEF Handles
<1>1. v \in Worlds
  BY <1>0 DEF Changes
<1>2. /\ y \in Worlds /\ y.regions = v.regions /\ y.disk = v.disk /\ y.list = v.list
      /\ y.failed \subseteq v.failed \cup {"done"}
      /\ \A z \in Updates \ {u} : y.up[z] = v.up[z]
      /\ y.up[u].timer = v.up[u].timer /\ y.up[u].tot = v.up[u].tot
      /\ y.up[u].got = v.up[u].got
      /\ y.up[u].st = IF Download!IsDone(v.up[u].st) THEN v.up[u].st ELSE st
  BY <1>1, StatusSets
<1>3. x = Download!Reported(y, u)
  BY DEF Download!ReportStatus
<1> HIDE DEF x, y
<1>5. Changes(w, y, u, T \cup Holders(u))
  BY <1>0, <1>2 DEF Changes, Download!IsDone
<1>6. DownloadHeld(y, T \cup Holders(u), I, L, n)
  BY <1>0, <1>5, Changed
<1>7. Part(y, u) /\ Touches(w, y, u)
  BY <1>0, <1>5, ChangeTouches, PartStays
<1>8. /\ DownloadHeld(x, T, I, L, n) /\ Part(x, u) /\ Reports(y, x, u) /\ x.up[u] = y.up[u]
  BY <1>3, <1>6, <1>7, ReportHeld
<1>9. x.regions = v.regions
  BY <1>2, <1>8 DEF Reports
<1>10. Touches(w, x, u)
  <2>1. Touches(y, x, u)
    BY <1>8, ReportTouches
  <2> QED
    BY <2>1, <1>7, TouchesTwice
<1> QED
  BY <1>8, <1>9, <1>10 DEF x, y

-----------------------------------------------------------------------------
\* Less than the bound waits: there may be a timer too.
Spare(w, u, n) == \A p \in Download!Pieces(u) : w.regions[u][p] <= n

(***************************************************************************)
(* setError starts the timer.                                              *)
(***************************************************************************)
LEMMA SetErrorHeld ==
  ASSUME NEW w, NEW u \in Updates, NEW S, NEW H, NEW L, NEW n \in Nat,
         DownloadHeld(w, S, H, L, n), Part(w, u), S \subseteq Download!Files \cap {u}, Spare(w, u, n)
  PROVE  LET v == Download!SetError(w, u)
         IN  DownloadHeld(v, {}, H, L, n) /\ Part(v, u) /\ Touches(w, v, u) /\ v.regions = w.regions
<1> DEFINE rec == [w.up[u] EXCEPT !.timer = TRUE]
           x == Download!Put(w, u, rec)
           y == Download!SetStatus(x, u, "Error")
<1>1. w \in Worlds /\ w.up[u] \in Actions /\ "Error" \in Download!Statuses
  BY WorldTypes DEF DownloadHeld, Download!Statuses
<1>2. /\ rec \in Actions /\ rec.timer = TRUE /\ rec.st = w.up[u].st
      /\ rec.tot = w.up[u].tot /\ rec.got = w.up[u].got
  BY <1>1, TimerPut
<1>3. Download!SetError(w, u) = Download!ReportStatus(x, u, "Error")
  BY DEF Download!SetError
<1> HIDE DEF rec
<1>4. Only(w, x, u) /\ x.up[u] = rec
  BY <1>1, <1>2, PutOnly
<1> HIDE DEF x
<1>5. /\ y \in Worlds /\ y.regions = w.regions /\ y.disk = w.disk /\ y.list = w.list
      /\ \A z \in Updates \ {u} : y.up[z] = w.up[z]
      /\ y.up[u].timer = TRUE /\ y.up[u].tot = w.up[u].tot /\ y.up[u].got = w.up[u].got
      /\ y.up[u].st = IF Download!IsDone(w.up[u].st) THEN w.up[u].st ELSE "Error"
  BY <1>1, <1>2, <1>4, StatusSets DEF Only
<1> HIDE DEF y
<1>6. Changes(w, x, u, {} \cup Holders(u))
  BY <1>2, <1>4 DEF Changes, Only
<1>7. Eases(u, S, {} \cup Holders(u), H, H)
  BY DEF Eases
<1>8. OwnHeld(w, u, S, H, L, n)
  BY DEF DownloadHeld
<1>9. Counted(y, u, n)
  <2>1. w.regions[u] \in [Download!Pieces(u) -> Nat] /\ w.up[u].got <= w.up[u].tot
    BY <1>8 DEF OwnHeld, Counted
  <2>2. \A p \in Download!Pieces(u) : w.regions[u][p] + 1 <= n + 1
    BY <2>1 DEF Spare
  <2> QED
    BY <2>1, <2>2, <1>5 DEF Counted
<1>10. ASSUME u \in Download!Files PROVE FileSound(y, u) /\ FileHeld(y, u, H)
  BY <1>5, <1>8, <1>10 DEF OwnHeld, FileSound, FileHeld, Download!IsDone
<1>11. ASSUME u \in Download!Dirs PROVE ListHeld(y, u, H, L) /\ SumsTold(y, u)
  <2>1. ListHeld(w, u, H, L) /\ SumsTold(w, u) /\ Ordered(w.list[u], u)
    BY <1>8, <1>11, Tree DEF OwnHeld, ListHeld
  <2>2. \A m \in DOMAIN w.list[u].parts :
          w.list[u].parts[m] \in Updates /\ w.list[u].parts[m] # u
    BY <1>1, <1>11, <2>1, PartsAreEntries, ListTypes
  <2>3. \A m \in DOMAIN w.list[u].parts : y.up[w.list[u].parts[m]] = w.up[w.list[u].parts[m]]
    BY <2>2, <1>5
  <2>4. Download!TotOf(y, u) = Download!TotOf(w, u) /\ Download!GotOf(y, u) = Download!GotOf(w, u)
    BY <2>3, <1>5, SumsSame
  <2>5. SumsTold(y, u)
    BY <2>1, <2>4, <1>5 DEF SumsTold, Download!IsDone
  <2>6. ListHeld(y, u, H, L)
    BY <2>1, <2>3, <1>5 DEF ListHeld, Has, Ready, Download!IsDone
  <2> QED
    BY <2>5, <2>6
<1>12. OwnHeld(y, u, {} \cup Holders(u), H, L, n)
  BY <1>9, <1>10, <1>11 DEF OwnHeld
<1>13. Handles(w, x, u, "Error", S, {}, H, H, L, n)
  BY <1>6, <1>7, <1>12 DEF Handles, y
<1>14. LET v == Download!ReportStatus(x, u, "Error")
       IN  DownloadHeld(v, {}, H, L, n) /\ Part(v, u) /\ Touches(w, v, u) /\ v.regions = x.regions
  BY <1>1, <1>13, StatusReported
<1> QED
  BY <1>3, <1>4, <1>14 DEF Only

(***************************************************************************)
(* error of a file reader closes the temporary file and starts the timer.  *)
(***************************************************************************)
LEMMA FileErrorHeld ==
  ASSUME NEW w, NEW f \in Download!Files, NEW S, NEW H, NEW I, NEW L, NEW n \in Nat,
         DownloadHeld(w, S, H, L, n), Part(w, f), Spare(w, f, n), Eases(f, S, {f}, H, I)
  PROVE  LET v == Download!FileError(w, f)
         IN  DownloadHeld(v, {}, I, L, n) /\ Part(v, f) /\ Touches(w, v, f) /\ v.regions = w.regions
<1> DEFINE x == [w EXCEPT !.disk[f].tmp = FALSE]
<1>1. w \in Worlds /\ f \in Updates /\ f \notin Download!Dirs
  BY Tree DEF DownloadHeld
<1>2. /\ x \in Worlds /\ x.up = w.up /\ x.regions = w.regions /\ x.list = w.list
      /\ x.failed = w.failed /\ \A g \in Download!Files \ {f} : x.disk[g] = w.disk[g]
      /\ x.disk[f].written = w.disk[f].written /\ x.disk[f].file = w.disk[f].file
  BY <1>1, TmpClosed
<1>3. Download!FileError(w, f) = Download!SetError(x, f)
  BY DEF Download!FileError
<1> HIDE DEF x
<1>4. Changes(w, x, f, {f})
  BY <1>1, <1>2 DEF Changes
<1>5. OwnHeld(w, f, S, H, L, n)
  BY <1>1 DEF DownloadHeld
<1>6. OwnHeld(x, f, {f}, I, L, n)
  BY <1>1, <1>2, <1>5 DEF OwnHeld, Counted, FileSound
<1>7. n <= n /\ L \subseteq L
  OBVIOUS
<1>8. DownloadHeld(x, {f}, I, L, n)
  BY <1>1, <1>4, <1>6, <1>7, Changed
<1>9. Part(x, f) /\ Touches(w, x, f) /\ Spare(x, f, n)
  BY <1>2, <1>4, ChangeTouches, PartStays DEF Spare
<1>10. LET v == Download!SetError(x, f)
       IN  DownloadHeld(v, {}, I, L, n) /\ Part(v, f) /\ Touches(x, v, f) /\ v.regions = x.regions
  BY <1>1, <1>8, <1>9, SetErrorHeld
<1> QED
  BY <1>2, <1>3, <1>9, <1>10, TouchesTwice

LEMMA PiecesOfFile ==
  ASSUME NEW f \in Download!Files
  PROVE  /\ Download!Pieces(f) = 1..Size[f] /\ Size[f] \in Nat
         /\ IsFiniteSet(1..Size[f]) /\ Cardinality(1..Size[f]) = Size[f]
<1>1. Download!Pieces(f) = 1..Size[f] /\ Size[f] \in Nat
  BY Tree DEF Download!Pieces
<1>2. IsFiniteSet(1..Size[f]) /\ Cardinality(1..Size[f]) = Size[f]
  BY <1>1, FS_Interval
<1> QED
  BY <1>1, <1>2

(***************************************************************************)
(* A chunk of a file that is at work is written and counted.               *)
(***************************************************************************)
LEMMA FileDataHeld ==
  ASSUME NEW w, NEW f \in Download!Files, NEW c \in Download!Pieces(f), NEW H \in SUBSET {<<f, c>>},
         NEW L, NEW n \in Nat, NEW ok \in BOOLEAN,
         DownloadHeld(w, {}, H, L, n), Part(w, f), ok \/ Spare(w, f, n)
  PROVE  LET v == Download!FileData(w, f, c, ok)
         IN  DownloadHeld(v, {}, {<<f, c>>}, L, n) /\ Part(v, f) /\ v.regions = w.regions
<1> DEFINE I == {<<f, c>>}
           a == w.up[f]
<1>1. /\ w \in Worlds /\ f \in Updates /\ f \notin Download!Dirs /\ f \notin {} /\ a \in Actions
      /\ a.tot \in Nat /\ a.got \in Nat /\ w.disk[f] \in Disks
  BY Tree, ActionTypes, WorldTypes DEF DownloadHeld
<1>2. OwnHeld(w, f, {}, H, L, n)
  BY <1>1 DEF DownloadHeld
<1>3. Counted(w, f, n) /\ FileSound(w, f) /\ FileHeld(w, f, H)
  BY <1>1, <1>2 DEF OwnHeld
<1>4. Eases(f, {}, {}, H, I) /\ Eases(f, {}, {f}, H, I) /\ Eases(f, {}, {} \cup Holders(f), H, I)
  BY DEF Eases
<1>5. n <= n /\ L \subseteq L
  OBVIOUS
<1>6. CASE a.st # "Running"
  <2>1. Download!FileData(w, f, c, ok) = w
    BY <1>6 DEF Download!FileData
  <2>2. Changes(w, w, f, {})
    BY <1>1 DEF Changes
  <2>3. FileHeld(w, f, I)
    BY <1>3, <1>6 DEF FileHeld
  <2>4. OwnHeld(w, f, {}, I, L, n)
    BY <1>1, <1>3, <2>3 DEF OwnHeld
  <2>5. DownloadHeld(w, {}, I, L, n)
    BY <1>1, <1>4, <1>5, <2>2, <2>4, Changed
  <2> QED
    BY <2>1, <2>5
<1>7. CASE a.st = "Running" /\ ~ok
  <2>1. Download!FileData(w, f, c, ok) = Download!FileError(w, f)
    BY <1>7 DEF Download!FileData
  <2> QED
    BY <2>1, <1>4, <1>7, FileErrorHeld
<1>8. CASE a.st = "Running" /\ ok
  <2> DEFINE i == IF a.got < a.tot THEN a.got + 1 ELSE a.got
             rec == [a EXCEPT !.got = i]
             e == [w.disk[f] EXCEPT !.tmp = TRUE, !.written = w.disk[f].written \cup {c}]
             x == Download!Put(w, f, rec)
             y == [x EXCEPT !.disk[f] = e]
             z == Download!SetStatus(y, f, "Running")
  <2>1. i \in Nat
    BY <1>1
  <2>2. Download!FileData(w, f, c, ok) = Download!ReportStatus(y, f, "Running")
    BY <1>8 DEF Download!FileData
  <2>3. /\ a.tot = Size[f] /\ a.tot <= Size[f] /\ Size[f] > 0 /\ a.got <= a.tot
        /\ w.disk[f].written \subseteq 1..Size[f]
        /\ Ready(w, f, H) \subseteq w.disk[f].written /\ Cardinality(Ready(w, f, H)) <= a.got
    BY <1>3, <1>8 DEF Counted, FileSound, FileHeld
  <2>4. c \in 1..Size[f] /\ Size[f] \in Nat
    BY PiecesOfFile
  <2>5. i <= a.tot /\ i > 0
    BY <1>1, <2>3, <2>4
  <2>6. e \in Disks /\ e.written = w.disk[f].written \cup {c} /\ e.file = w.disk[f].file
    <3>1. w.disk[f].written \cup {c} \in SUBSET Nat
      BY <2>3, <2>4
    <3> QED
      BY <3>1, <1>1 DEF Disks
  <2>7. e.tmp
    BY <1>1 DEF Disks
  <2>8. rec \in Actions /\ rec.got = i /\ rec.st = a.st /\ rec.timer = a.timer /\ rec.tot = a.tot
    <3> HIDE DEF i
    <3> QED
      BY <1>1, <2>1, GotPut
  <2> HIDE DEF rec, e, i
  <2>9. Only(w, x, f) /\ x.up[f] = rec
    BY <1>1, <2>8, PutOnly
  <2> HIDE DEF x
  <2>10. /\ y \in Worlds /\ y.up = x.up /\ y.regions = x.regions /\ y.list = x.list
         /\ y.failed = x.failed /\ \A g \in Download!Files \ {f} : y.disk[g] = x.disk[g]
         /\ y.disk[f] = e
    BY <2>6, <2>9, DiskPut DEF Only
  <2> HIDE DEF y
  <2>11. /\ z \in Worlds /\ z.regions = w.regions /\ z.disk[f] = e
         /\ z.up[f].timer = a.timer /\ z.up[f].tot = a.tot /\ z.up[f].got = i /\ z.up[f].st = "Running"
    <3>1. y \in Worlds /\ "Running" \in Download!Statuses /\ ~Download!IsDone(y.up[f].st)
      BY <1>8, <2>8, <2>9, <2>10 DEF Download!IsDone, Download!Statuses
    <3>2. /\ z \in Worlds /\ z.regions = y.regions /\ z.disk = y.disk
          /\ z.up[f].timer = y.up[f].timer /\ z.up[f].tot = y.up[f].tot
          /\ z.up[f].got = y.up[f].got /\ z.up[f].st = "Running"
      BY <1>1, <3>1, StatusSets
    <3>3. y.up[f] = rec /\ y.regions = w.regions
      BY <2>9, <2>10 DEF Only
    <3> QED
      BY <3>2, <3>3, <2>8, <2>10
  <2> HIDE DEF z
  <2>12. Changes(w, y, f, {} \cup Holders(f))
    BY <1>1, <2>8, <2>9, <2>10 DEF Changes, Only
  <2>13. Counted(z, f, n)
    BY <1>3, <2>5, <2>11 DEF Counted
  <2>14. FileSound(z, f)
    BY <2>3, <2>4, <2>6, <2>11 DEF FileSound
  <2>15. Ready(z, f, I) \subseteq Ready(w, f, H) \cup {c}
    BY <2>11 DEF Ready
  <2>16. Cardinality(Ready(z, f, I)) <= i
    <3>1. Ready(z, f, I) \subseteq 1..Size[f] /\ Ready(w, f, H) \subseteq 1..Size[f]
      BY PiecesOfFile DEF Ready
    <3>2. /\ IsFiniteSet(1..Size[f]) /\ Cardinality(1..Size[f]) = Size[f]
      BY PiecesOfFile
    <3>3. /\ IsFiniteSet(Ready(z, f, I)) /\ Cardinality(Ready(z, f, I)) <= Size[f]
          /\ IsFiniteSet(Ready(w, f, H))
      BY <3>1, <3>2, FS_Subset
    <3>4. /\ Cardinality(Ready(w, f, H)) \in Nat /\ Cardinality(Ready(z, f, I)) \in Nat
      BY <3>3, FS_CardinalityType
    <3>5. CASE a.got < a.tot
      <4>1. /\ IsFiniteSet(Ready(w, f, H) \cup {c})
            /\ Cardinality(Ready(w, f, H) \cup {c}) <= Cardinality(Ready(w, f, H)) + 1
        <5>1. /\ IsFiniteSet(Ready(w, f, H) \cup {c})
              /\ \/ Cardinality(Ready(w, f, H) \cup {c}) = Cardinality(Ready(w, f, H))
                 \/ Cardinality(Ready(w, f, H) \cup {c}) = Cardinality(Ready(w, f, H)) + 1
          BY <3>3, FS_AddElement
        <5> QED
          BY <5>1, <3>4
      <4>2. /\ Cardinality(Ready(w, f, H) \cup {c}) \in Nat
            /\ Cardinality(Ready(z, f, I)) <= Cardinality(Ready(w, f, H) \cup {c})
        BY <4>1, <2>15, FS_Subset, FS_CardinalityType
      <4> QED
        BY <4>1, <4>2, <3>4, <3>5, <2>3, <1>1 DEF i
    <3>6. CASE ~(a.got < a.tot)
      BY <3>3, <3>4, <3>6, <2>3, <2>4, <1>1 DEF i
    <3> QED
      BY <3>5, <3>6
  <2>17. FileHeld(z, f, I)
    <3>1. Ready(z, f, I) \subseteq z.disk[f].written /\ z.disk[f].tmp
      BY <2>3, <2>6, <2>7, <2>11, <2>15
    <3> QED
      BY <3>1, <2>3, <2>11, <2>16 DEF FileHeld
  <2>18. OwnHeld(z, f, {} \cup Holders(f), I, L, n)
    BY <1>1, <2>13, <2>14, <2>17 DEF OwnHeld
  <2>19. Handles(w, y, f, "Running", {}, {}, H, I, L, n)
    BY <1>4, <2>12, <2>18 DEF Handles, z
  <2>20. "Running" \in Download!Statuses
    BY DEF Download!Statuses
  <2>21. LET v == Download!ReportStatus(y, f, "Running")
         IN  DownloadHeld(v, {}, I, L, n) /\ Part(v, f) /\ v.regions = y.regions
    BY <1>1, <2>19, <2>20, StatusReported
  <2> QED
    BY <2>2, <2>9, <2>10, <2>21 DEF Only
<1> QED
  BY <1>6, <1>7, <1>8

(***************************************************************************)
(* When nothing is waited for, a file at work has all its chunks.          *)
(***************************************************************************)
Idle(w, u) == \A p \in Download!Pieces(u) : w.regions[u][p] = 0

LEMMA FileReadDoneHeld ==
  ASSUME NEW w, NEW f \in Download!Files, NEW L, NEW n \in Nat, NEW ok \in BOOLEAN,
         DownloadHeld(w, {}, {}, L, n), Part(w, f), Idle(w, f)
  PROVE  DownloadHeld(Download!FileReadDone(w, f, ok), {}, {}, L, n)
<1> DEFINE a == w.up[f]
           is == IF w.disk[f].written = Download!Pieces(f) THEN "whole" ELSE "partial"
           e == [w.disk[f] EXCEPT !.tmp = FALSE, !.file = IF ok THEN is ELSE "none"]
           x == [w EXCEPT !.disk[f] = e]
           y == Download!SetStatus(x, f, "Success")
<1>1. /\ w \in Worlds /\ f \in Updates /\ f \notin Download!Dirs /\ f \notin {} /\ a \in Actions
      /\ a.tot \in Nat /\ a.got \in Nat /\ w.disk[f] \in Disks
  BY Tree, ActionTypes, WorldTypes DEF DownloadHeld
<1>2. Counted(w, f, n) /\ FileSound(w, f) /\ FileHeld(w, f, {})
  BY <1>1 DEF DownloadHeld, OwnHeld
<1>3. CASE a.st # "Running"
  BY <1>3 DEF Download!FileReadDone
<1>4. CASE a.st = "Running"
  <2>1. Ready(w, f, {}) = 1..Size[f]
    BY PiecesOfFile DEF Ready, Idle
  <2>2. /\ a.tot = Size[f] /\ Size[f] > 0 /\ a.got <= a.tot /\ Size[f] <= a.got
        /\ a.got > 0 => w.disk[f].tmp
        /\ 1..Size[f] \subseteq w.disk[f].written /\ w.disk[f].written \subseteq 1..Size[f]
    BY <1>2, <1>4, <2>1, PiecesOfFile DEF Counted, FileSound, FileHeld
  <2>3. a.got = a.tot /\ w.disk[f].tmp
    BY <2>2, <1>1, PiecesOfFile
  <2>4. is = "whole"
    BY <2>2, PiecesOfFile
  <2>5. Download!FileReadDone(w, f, ok) =
          IF ok THEN Download!ReportStatus(x, f, "Success") ELSE Download!FileError(x, f)
    BY <1>4, <2>3 DEF Download!FileReadDone
  <2>6. e \in Disks /\ e.written = w.disk[f].written /\ (ok => e.file = "whole")
    BY <1>1, <2>4 DEF Disks
  <2> HIDE DEF e, is
  <2>7. /\ x \in Worlds /\ x.up = w.up /\ x.regions = w.regions /\ x.list = w.list
        /\ x.failed = w.failed /\ \A g \in Download!Files \ {f} : x.disk[g] = w.disk[g]
        /\ x.disk[f] = e
    BY <1>1, <2>6, DiskPut
  <2> HIDE DEF x
  <2>8. Changes(w, x, f, {}) /\ Changes(w, x, f, {f}) /\ Changes(w, x, f, {} \cup Holders(f))
    BY <1>1, <2>7 DEF Changes
  <2>9. Eases(f, {}, {f}, {}, {}) /\ Eases(f, {}, {} \cup Holders(f), {}, {}) /\ Eases(f, {f}, {f}, {}, {})
    BY DEF Eases
  <2>10. n <= n /\ L \subseteq L
    OBVIOUS
  <2>11. CASE ~ok
    <3>1. OwnHeld(x, f, {f}, {}, L, n)
      BY <1>1, <1>2, <1>4, <2>6, <2>7 DEF OwnHeld, Counted, FileSound
    <3>2. DownloadHeld(x, {f}, {}, L, n)
      BY <1>1, <2>8, <2>9, <2>10, <3>1, Changed
    <3>3. Part(x, f) /\ Spare(x, f, n)
      BY <2>7 DEF Part, Spare, Idle
    <3> QED
      BY <2>5, <2>9, <2>11, <3>2, <3>3, FileErrorHeld
  <2>12. CASE ok
    <3>1. "Success" \in Download!Statuses /\ ~Download!IsDone(x.up[f].st)
      BY <1>4, <2>7 DEF Download!Statuses, Download!IsDone
    <3>2. /\ y \in Worlds /\ y.regions = x.regions /\ y.disk = x.disk
          /\ y.up[f].timer = x.up[f].timer /\ y.up[f].tot = x.up[f].tot
          /\ y.up[f].got = x.up[f].got /\ y.up[f].st = "Success"
      BY <1>1, <2>7, <3>1, StatusSets
    <3> HIDE DEF y
    <3>3. Counted(y, f, n) /\ FileSound(y, f) /\ FileHeld(y, f, {})
      BY <1>2, <2>6, <2>7, <2>12, <3>2 DEF Counted, FileSound, FileHeld
    <3>4. OwnHeld(y, f, {} \cup Holders(f), {}, L, n)
      BY <1>1, <3>3 DEF OwnHeld
    <3>5. Handles(w, x, f, "Success", {}, {}, {}, {}, L, n)
      BY <2>8, <2>9, <3>4 DEF Handles, y
    <3>6. DownloadHeld(Download!ReportStatus(x, f, "Success"), {}, {}, L, n)
      BY <1>1, <3>1, <3>5, StatusReported
    <3> QED
      BY <2>5, <2>12, <3>6
  <2> QED
    BY <2>11, <2>12
<1> QED
  BY <1>3, <1>4

(***************************************************************************)
(* readDone of a directory whose records all are there.                    *)
(***************************************************************************)
AllThere(w, d, L) == d \notin L => \A r \in 0..Len(Entries[d]) - 1 : Has(w, d, r)

LEMMA DirReadDoneHeld ==
  ASSUME NEW w, NEW d \in Download!Dirs, NEW H, NEW L, NEW n \in Nat,
         DownloadHeld(w, {}, H, L, n), Part(w, d), AllThere(w, d, L)
  PROVE  LET v == Download!DirReadDone(w, d)
         IN  DownloadHeld(v, {}, H, L, n) /\ Part(v, d) /\ Touches(w, v, d) /\ v.regions = w.regions
<1> DEFINE x == [w EXCEPT !.list[d].done = TRUE]
           y == Download!Check(x, d)
           v == Download!Reported(y, d)
<1>1. w \in Worlds /\ d \in Updates /\ d \notin Download!Files /\ d \notin {}
  BY Tree DEF DownloadHeld
<1>2. Counted(w, d, n) /\ ListHeld(w, d, H, L) /\ SumsTold(w, d)
  BY <1>1 DEF DownloadHeld, OwnHeld
<1>3. /\ x \in Worlds /\ x.up = w.up /\ x.regions = w.regions /\ x.disk = w.disk
      /\ x.failed = w.failed /\ \A e \in Download!Dirs \ {d} : x.list[e] = w.list[e]
      /\ x.list[d].recs = w.list[d].recs /\ x.list[d].parts = w.list[d].parts
      /\ x.list[d].done = TRUE
  BY <1>1, ListDone
<1>4. Download!DirReadDone(w, d) = v
  BY DEF Download!DirReadDone
<1> HIDE DEF x
<1>5. Changes(w, x, d, {})
  BY <1>1, <1>3 DEF Changes
<1>6. Eases(d, {}, {}, H, H) /\ n <= n /\ L \subseteq L
  BY DEF Eases
<1>7. ListHeld(x, d, H, L)
  <2>1. /\ Ordered(x.list[d], d) /\ Ready(x, d, H) = Ready(w, d, H)
        /\ \A r : Has(x, d, r) <=> Has(w, d, r)
    BY <1>2, <1>3 DEF ListHeld, Ordered, Ready, Has
  <2> QED
    BY <2>1, <1>2, <1>3 DEF ListHeld, AllThere
<1>8. SumsTold(x, d)
  <2>1. Download!TotOf(x, d) = Download!TotOf(w, d) /\ Download!GotOf(x, d) = Download!GotOf(w, d)
    BY <1>3, SumsSame
  <2> QED
    BY <2>1, <1>2, <1>3 DEF SumsTold
<1>9. OwnHeld(x, d, {}, H, L, n)
  BY <1>1, <1>2, <1>3, <1>7, <1>8 DEF OwnHeld, Counted
<1>10. DownloadHeld(x, {}, H, L, n)
  BY <1>1, <1>5, <1>6, <1>9, Changed
<1>11. Part(x, d) /\ Touches(w, x, d)
  BY <1>5, ChangeTouches, PartStays
<1>12. DownloadHeld(y, ({} \ {d}) \cup Holders(d), H, L, n) /\ Only(x, y, d)
  BY <1>10, <1>11, CheckHeld
<1> HIDE DEF y
<1>13. Part(y, d) /\ Touches(x, y, d)
  BY <1>11, <1>12 DEF Part, Only, Touches
<1>14. ({} \ {d}) \cup Holders(d) = {} \cup Holders(d) /\ {} \in SUBSET Download!Files
  OBVIOUS
<1>15. DownloadHeld(v, {}, H, L, n) /\ Part(v, d) /\ Reports(y, v, d)
  BY <1>1, <1>12, <1>13, <1>14, ReportHeld
<1> HIDE DEF v
<1>16. v.regions = w.regions
  BY <1>3, <1>12, <1>15 DEF Only, Reports
<1>17. Touches(w, v, d)
  <2>1. Touches(y, v, d)
    BY <1>15, ReportTouches
  <2> QED
    BY <2>1, <1>11, <1>13, TouchesTwice
<1> QED
  BY <1>4, <1>15, <1>16, <1>17

(***************************************************************************)
(* All pieces are asked for: none is ready then.                           *)
(***************************************************************************)
NotAtHand(u, H) == \A p : <<u, p>> \notin H
Starts(a, f) == /\ a.st # "Error"
                /\ a.st = "Running" => a.got = 0 /\ a.tot = Size[f] /\ Size[f] > 0

LEMMA ReadHeld ==
  ASSUME NEW w, NEW u \in Updates, NEW S \in SUBSET (Download!Files \cap {u}), NEW H, NEW L,
         NEW n \in Nat, DownloadHeld(w, S, H, L, n), Part(w, u), Spare(w, u, n),
         w.up[u].timer = FALSE, NotAtHand(u, H), u \in Download!Files => Starts(w.up[u], u)
  PROVE  LET v == Download!Read(w, u)
         IN  DownloadHeld(v, {}, H, L, n) /\ Part(v, u) /\ Touches(w, v, u)
<1> DEFINE r == [p \in Download!Pieces(u) |-> w.regions[u][p] + 1]
           v == [w EXCEPT !.regions[u] = r]
<1>1. w \in Worlds /\ OwnHeld(w, u, S, H, L, n) /\ Counted(w, u, n)
  BY DEF DownloadHeld, OwnHeld
<1>2. w.regions[u] \in [Download!Pieces(u) -> Nat] /\ w.up[u].got <= w.up[u].tot
  BY <1>1 DEF Counted
<1>3. r \in [Download!Pieces(u) -> Nat]
  BY <1>2
<1>4. \A p \in Download!Pieces(u) : r[p] + 0 <= n + 1 /\ r[p] > 0 /\ r[p] # 0
  BY <1>2 DEF Spare
<1>5. Download!Read(w, u) = v
  BY DEF Download!Read
<1> HIDE DEF r
<1>6. /\ v \in Worlds /\ v.up = w.up /\ v.disk = w.disk /\ v.list = w.list
      /\ v.failed = w.failed /\ \A x \in Updates \ {u} : v.regions[x] = w.regions[x]
      /\ v.regions[u] = r
  BY <1>1, <1>3, RegionsPut
<1> HIDE DEF v
<1>7. Changes(w, v, u, {}) /\ Eases(u, S, {}, H, H) /\ n <= n /\ L \subseteq L
  BY <1>6 DEF Changes, Eases
<1>8. Counted(v, u, n)
  BY <1>2, <1>3, <1>4, <1>6 DEF Counted
<1>9. Ready(v, u, H) = {}
  BY <1>4, <1>6 DEF Ready, NotAtHand
<1>10. ASSUME u \in Download!Files PROVE FileSound(v, u) /\ FileHeld(v, u, H)
  <2>1. FileSound(v, u)
    BY <1>1, <1>6, <1>10 DEF OwnHeld, FileSound
  <2>2. Cardinality(Ready(v, u, H)) = 0
    BY <1>9, FS_EmptySet
  <2> QED
    BY <2>1, <2>2, <1>6, <1>9, <1>10 DEF FileHeld, Starts
<1>11. ASSUME u \in Download!Dirs PROVE ListHeld(v, u, H, L) /\ SumsTold(v, u)
  <2>1. ListHeld(w, u, H, L) /\ SumsTold(w, u)
    BY <1>1, <1>11, Tree DEF OwnHeld
  <2>2. ListHeld(v, u, H, L)
    BY <2>1, <1>6, <1>9 DEF ListHeld, Has
  <2>3. Download!TotOf(v, u) = Download!TotOf(w, u) /\ Download!GotOf(v, u) = Download!GotOf(w, u)
    BY <1>6, SumsSame
  <2> QED
    BY <2>1, <2>2, <2>3, <1>6 DEF SumsTold
<1>12. OwnHeld(v, u, {}, H, L, n)
  BY <1>8, <1>10, <1>11 DEF OwnHeld
<1>13. DownloadHeld(v, {}, H, L, n)
  BY <1>7, <1>12, Changed
<1>14. Part(v, u) /\ Touches(w, v, u)
  BY <1>7, ChangeTouches, PartStays
<1> QED
  BY <1>5, <1>13, <1>14

\* An Update that is started: no timer runs, and it is not at work.
Startable(w, u, H, n) ==
  /\ w.up[u].st # "Running" /\ w.up[u].timer = FALSE /\ Spare(w, u, n) /\ NotAtHand(u, H)

LEMMA FileStartHeld ==
  ASSUME NEW w, NEW f \in Download!Files, NEW S \in SUBSET {f}, NEW H, NEW L,
         NEW n \in Nat, NEW ok \in BOOLEAN,
         DownloadHeld(w, S, H, L, n), Part(w, f), Startable(w, f, H, n)
  PROVE  LET v == Download!FileStart(w, f, ok)
         IN  DownloadHeld(v, {}, H, L, n) /\ Part(v, f) /\ Touches(w, v, f)
<1> DEFINE a == w.up[f]
           rec == [a EXCEPT !.tot = Size[f]]
<1>1. /\ w \in Worlds /\ f \in Updates /\ f \notin Download!Dirs /\ a \in Actions
      /\ a.tot \in Nat /\ a.got \in Nat /\ a.st \in Download!Statuses /\ w.disk[f] \in Disks
      /\ Size[f] \in Nat
  BY Tree, ActionTypes, WorldTypes DEF DownloadHeld
<1>2. Counted(w, f, n) /\ FileSound(w, f)
  BY <1>1 DEF DownloadHeld, OwnHeld
<1>3. /\ a.st # "Running" /\ a.timer = FALSE /\ Spare(w, f, n) /\ NotAtHand(f, H)
      /\ a.got <= a.tot /\ a.tot <= Size[f] /\ w.disk[f].written \subseteq 1..Size[f]
      /\ a.st = "Success" => w.disk[f].file = "whole"
      /\ w.regions[f] \in [Download!Pieces(f) -> Nat]
      /\ \A p \in Download!Pieces(f) : w.regions[f][p] + 0 <= n + 1
  BY <1>2 DEF Startable, Counted, FileSound
<1>4. /\ rec \in Actions /\ rec.tot = Size[f] /\ rec.st = a.st /\ rec.timer = a.timer
      /\ rec.got = a.got
  BY <1>1, TotPut
<1> HIDE DEF rec
<1>6. {f} \in SUBSET Download!Files /\ {} \in SUBSET Download!Files
  BY <1>1
<1>7. CASE Size[f] > 0
  <2> DEFINE rec2 == [rec EXCEPT !.got = 0]
             x == Download!Put(w, f, rec2)
             y == Download!SetStatus(x, f, "Running")
             z == Download!ReportStatus(x, f, "Running")
  <2>1. Download!FileStart(w, f, ok) = Download!Read(z, f)
    BY <1>3, <1>7 DEF Download!FileStart, rec
  <2>2. /\ rec2 \in Actions /\ rec2.got = 0 /\ rec2.st = a.st /\ rec2.timer = FALSE
        /\ rec2.tot = Size[f]
    BY <1>3, <1>4, GotPut
  <2> HIDE DEF rec2
  <2>3. Only(w, x, f) /\ x.up[f] = rec2
    BY <1>1, <2>2, PutOnly
  <2> HIDE DEF x
  <2>4. x \in Worlds /\ "Running" \in Download!Statuses
    BY <2>3 DEF Only, Download!Statuses
  <2>5. /\ y \in Worlds /\ y.regions = x.regions /\ y.disk = x.disk
        /\ y.up[f].timer = FALSE /\ y.up[f].tot = Size[f] /\ y.up[f].got = 0
        /\ y.up[f].st = IF Download!IsDone(a.st) THEN a.st ELSE "Running"
    BY <1>1, <2>2, <2>3, <2>4, StatusSets
  <2>6. y.regions = w.regions /\ y.disk = w.disk
    BY <2>3, <2>5 DEF Only
  <2> HIDE DEF y, z
  <2>7. Changes(w, x, f, {f} \cup Holders(f))
    BY <2>2, <2>3 DEF Changes, Only
  <2>8. Counted(y, f, n)
    BY <1>1, <1>3, <2>5, <2>6 DEF Counted
  <2>9. FileSound(y, f)
    BY <1>1, <1>3, <2>5, <2>6 DEF FileSound, Download!IsDone
  <2>10. OwnHeld(y, f, {f} \cup Holders(f), H, L, n)
    BY <1>1, <2>8, <2>9 DEF OwnHeld
  <2>11. Eases(f, S, {f} \cup Holders(f), H, H)
    BY DEF Eases
  <2>12. Handles(w, x, f, "Running", S, {f}, H, H, L, n)
    BY <2>7, <2>10, <2>11 DEF Handles, y
  <2>13. /\ DownloadHeld(z, {f}, H, L, n) /\ Part(z, f) /\ Touches(w, z, f)
         /\ z.regions = x.regions /\ z.up[f] = y.up[f]
    BY <1>1, <1>6, <2>4, <2>12, StatusReported DEF y, z
  <2>14. Spare(z, f, n)
    BY <1>3, <2>13, <2>5, <2>6 DEF Spare
  <2>15. Starts(z.up[f], f)
    BY <1>3, <1>7, <2>5, <2>13 DEF Starts, Download!IsDone
  <2>16. LET v == Download!Read(z, f)
         IN  DownloadHeld(v, {}, H, L, n) /\ Part(v, f) /\ Touches(z, v, f)
    <3>1. z.up[f].timer = FALSE /\ {f} \in SUBSET (Download!Files \cap {f})
      BY <2>5, <2>13
    <3> QED
      BY <3>1, <1>1, <1>3, <2>13, <2>14, <2>15, ReadHeld
  <2> QED
    BY <2>1, <2>13, <2>16, TouchesTwice
<1>8. CASE ~(Size[f] > 0) /\ ok
  <2> DEFINE x0 == Download!Put(w, f, rec)
             e == [x0.disk[f] EXCEPT !.file = "whole"]
             x == [x0 EXCEPT !.disk[f] = e]
             y == Download!SetStatus(x, f, "Success")
  <2>1. Download!FileStart(w, f, ok) = Download!ReportStatus([x0 EXCEPT !.disk[f].file = "whole"], f, "Success")
    BY <1>3, <1>8 DEF Download!FileStart, rec
  <2>2. [x0 EXCEPT !.disk[f].file = "whole"] = x
    OBVIOUS
  <2> HIDE DEF x0
  <2>3. Only(w, x0, f) /\ x0.up[f] = rec
    BY <1>1, <1>4, PutOnly DEF x0
  <2>4. e \in Disks /\ e.file = "whole" /\ e.written = w.disk[f].written
    BY <1>1, <2>3 DEF Only, Disks
  <2> HIDE DEF e
  <2>5. /\ x \in Worlds /\ x.up = x0.up /\ x.regions = x0.regions /\ x.list = x0.list
        /\ x.failed = x0.failed /\ \A g \in Download!Files \ {f} : x.disk[g] = x0.disk[g]
        /\ x.disk[f] = e
    BY <2>3, <2>4, DiskPut DEF Only
  <2> HIDE DEF x
  <2>6. "Success" \in Download!Statuses
    BY DEF Download!Statuses
  <2>7. /\ y \in Worlds /\ y.regions = x.regions /\ y.disk = x.disk
        /\ y.up[f].timer = FALSE /\ y.up[f].tot = Size[f] /\ y.up[f].got = a.got
        /\ y.up[f].st = IF Download!IsDone(a.st) THEN a.st ELSE "Success"
    BY <1>1, <1>3, <1>4, <2>3, <2>5, <2>6, StatusSets
  <2>8. y.regions = w.regions /\ y.disk[f].written = w.disk[f].written /\ y.disk[f].file = "whole"
    BY <2>3, <2>4, <2>5, <2>7 DEF Only
  <2> HIDE DEF y
  <2>9. Changes(w, x, f, {} \cup Holders(f))
    BY <1>4, <2>3, <2>5 DEF Changes, Only
  <2>10. Counted(y, f, n)
    BY <1>1, <1>3, <2>7, <2>8 DEF Counted
  <2>11. FileSound(y, f) /\ FileHeld(y, f, H)
    BY <1>1, <1>3, <2>7, <2>8 DEF FileSound, FileHeld, Download!IsDone
  <2>12. OwnHeld(y, f, {} \cup Holders(f), H, L, n)
    BY <1>1, <2>10, <2>11 DEF OwnHeld
  <2>13. Eases(f, S, {} \cup Holders(f), H, H)
    BY DEF Eases
  <2>14. Handles(w, x, f, "Success", S, {}, H, H, L, n)
    BY <2>9, <2>12, <2>13 DEF Handles, y
  <2>15. LET v == Download!ReportStatus(x, f, "Success")
         IN  DownloadHeld(v, {}, H, L, n) /\ Part(v, f) /\ Touches(w, v, f)
    BY <1>1, <1>6, <2>6, <2>14, StatusReported
  <2> QED
    BY <2>1, <2>2, <2>15
<1>9. CASE ~(Size[f] > 0) /\ ~ok
  <2> DEFINE x == Download!Put(w, f, rec)
  <2>1. Download!FileStart(w, f, ok) = Download!FileError(x, f)
    BY <1>3, <1>9 DEF Download!FileStart, rec
  <2>2. Only(w, x, f) /\ x.up[f] = rec
    BY <1>1, <1>4, PutOnly
  <2> HIDE DEF x
  <2>3. a.tot = Size[f] /\ Size[f] = 0
    BY <1>1, <1>3, <1>9
  <2>4. Changes(w, x, f, {f})
    BY <1>4, <2>2, <2>3 DEF Changes, Only
  <2>5. OwnHeld(x, f, {f}, H, L, n)
    BY <1>1, <1>2, <1>4, <2>2, <2>3 DEF OwnHeld, Counted, FileSound, Only
  <2>6. Eases(f, S, {f}, H, H) /\ Eases(f, {f}, {f}, H, H) /\ n <= n /\ L \subseteq L
    BY DEF Eases
  <2>7. DownloadHeld(x, {f}, H, L, n)
    BY <1>1, <2>4, <2>5, <2>6, Changed
  <2>8. Part(x, f) /\ Touches(w, x, f) /\ Spare(x, f, n)
    BY <1>3, <2>2, <2>4, ChangeTouches, PartStays DEF Spare, Only
  <2>9. LET v == Download!FileError(x, f)
        IN  DownloadHeld(v, {}, H, L, n) /\ Part(v, f) /\ Touches(x, v, f)
    BY <2>6, <2>7, <2>8, FileErrorHeld
  <2> QED
    BY <2>1, <2>8, <2>9, TouchesTwice
<1> QED
  BY <1>7, <1>8, <1>9

(***************************************************************************)
(* An Update that is started.                                              *)
(***************************************************************************)
LEMMA StartHeld ==
  ASSUME NEW w, NEW u \in Updates, NEW S \in SUBSET (Download!Files \cap {u}), NEW H, NEW L,
         NEW n \in Nat, NEW ok \in BOOLEAN, odd \subseteq MaybeOdd,
         DownloadHeld(w, S, H, L, n), Part(w, u), Startable(w, u, H, n)
  PROVE  LET v == Download!StartUpdate(w, u, ok)
         IN  DownloadHeld(v, {}, H, L, n) /\ Part(v, u) /\ Touches(w, v, u)
<1>1. w \in Worlds /\ OwnHeld(w, u, S, H, L, n)
  BY DEF DownloadHeld
<1>2. CASE u \in odd
  <2> DEFINE y == Download!SetStatus(w, u, "FatalError")
  <2>1. Download!StartUpdate(w, u, ok) = Download!ReportStatus(w, u, "FatalError")
    BY <1>2 DEF Download!StartUpdate
  <2>2. u \in Download!Files /\ u \notin Download!Dirs /\ {} \in SUBSET Download!Files
    BY <1>2, Tree
  <2>3. "FatalError" \in Download!Statuses
    BY DEF Download!Statuses
  <2>4. /\ y.regions = w.regions /\ y.disk = w.disk
        /\ y.up[u].timer = w.up[u].timer /\ y.up[u].tot = w.up[u].tot /\ y.up[u].got = w.up[u].got
        /\ y.up[u].st = IF Download!IsDone(w.up[u].st) THEN w.up[u].st ELSE "FatalError"
    BY <1>1, <2>3, StatusSets
  <2> HIDE DEF y
  <2>5. Counted(w, u, n) /\ FileSound(w, u)
    BY <1>1, <2>2 DEF OwnHeld
  <2>6. Counted(y, u, n) /\ FileSound(y, u) /\ FileHeld(y, u, H)
    BY <2>4, <2>5 DEF Counted, FileSound, FileHeld, Download!IsDone
  <2>7. OwnHeld(y, u, {} \cup Holders(u), H, L, n)
    BY <2>2, <2>6 DEF OwnHeld
  <2>8. Changes(w, w, u, {} \cup Holders(u)) /\ Eases(u, S, {} \cup Holders(u), H, H)
    BY <1>1 DEF Changes, Eases
  <2>9. Handles(w, w, u, "FatalError", S, {}, H, H, L, n)
    BY <2>7, <2>8 DEF Handles, y
  <2>10. LET v == Download!ReportStatus(w, u, "FatalError")
         IN  DownloadHeld(v, {}, H, L, n) /\ Part(v, u) /\ Touches(w, v, u)
    BY <2>2, <2>3, <2>9, StatusReported
  <2> QED
    BY <2>1, <2>10
<1>3. CASE u \notin odd /\ u \in Download!Dirs
  <2>1. S = {} /\ u \notin Download!Files
    BY <1>3, Tree
  <2>2. Download!StartUpdate(w, u, ok) =
          IF Entries[u] = <<>> THEN Download!DirReadDone(w, u) ELSE Download!Read(w, u)
    BY <1>3 DEF Download!StartUpdate, Download!DirStart, Download!ReadDir, Startable
  <2>3. CASE Entries[u] = <<>>
    <3>1. AllThere(w, u, L)
      BY <2>3 DEF AllThere
    <3> QED
      BY <1>3, <2>1, <2>2, <2>3, <3>1, DirReadDoneHeld
  <2>4. CASE Entries[u] # <<>>
    <3>1. LET v == Download!Read(w, u)
          IN  DownloadHeld(v, {}, H, L, n) /\ Part(v, u) /\ Touches(w, v, u)
      BY <2>1, ReadHeld DEF Startable
    <3> QED
      BY <2>2, <2>4, <3>1
  <2> QED
    BY <2>3, <2>4
<1>4. CASE u \notin odd /\ u \notin Download!Dirs
  <2>1. u \in Download!Files /\ S \in SUBSET {u}
    BY <1>4, Tree
  <2>2. Download!StartUpdate(w, u, ok) = Download!FileStart(w, u, ok)
    BY <1>4 DEF Download!StartUpdate
  <2> QED
    BY <2>1, <2>2, FileStartHeld
<1> QED
  BY <1>2, <1>3, <1>4

-----------------------------------------------------------------------------
(***************************************************************************)
(* The records of a block that belong between those that are there make a  *)
(* list of records in order.                                               *)
(***************************************************************************)
New(d, b) == SubSeq(Entries[d], Blocks[d][b].recno + 1, Blocks[d][b].recno + Blocks[d][b].nrecs)

\* The k-th entry of a block.
EntryOf(d, b, k) == Entries[d][Blocks[d][b].recno + k]
Fresh(d, b) == {EntryOf(d, b, k) : k \in 1..Blocks[d][b].nrecs}

LEMMA NewEntries ==
  ASSUME NEW d \in Download!Dirs, NEW b \in Download!Pieces(d)
  PROVE  /\ New(d, b) \in Seq(Updates) /\ Len(New(d, b)) = Blocks[d][b].nrecs
         /\ Blocks[d][b].nrecs \in Nat /\ Blocks[d][b].nrecs > 0 /\ Blocks[d][b].recno \in Nat
         /\ \A k \in 1..Blocks[d][b].nrecs :
              /\ Blocks[d][b].recno + k \in 1..Len(Entries[d])
              /\ New(d, b)[k] = EntryOf(d, b, k)
              /\ EntryOf(d, b, k) \in Updates /\ EntryOf(d, b, k) # d /\ d \in Holders(EntryOf(d, b, k))
              /\ Len(Above[EntryOf(d, b, k)]) = Len(Above[d]) + 1
         /\ Download!Range(New(d, b)) = Fresh(d, b)
<1> DEFINE i == Blocks[d][b].recno
           m == Blocks[d][b].nrecs
           q == New(d, b)
<1>1. i \in Nat /\ m \in Nat /\ m > 0 /\ i + m <= Len(Entries[d]) /\ Len(Entries[d]) \in Nat
  BY EntriesOf
<1>2. Entries[d] \in Seq(Updates)
  <2>1. Entries[d] \in Seq(Updates \ {Root})
    BY UpdateAssumption DEF Download!UpdateAssumption
  <2>2. Seq(Updates \ {Root}) \subseteq Seq(Updates)
    BY ONLY Updates \ {Root} \subseteq Updates
  <2> QED
    BY <2>1, <2>2
<1> HIDE DEF i, m
<1>3. q = SubSeq(Entries[d], i + 1, i + m)
  BY DEF New, i, m
<1>4. q \in Seq(Updates) /\ Len(q) = m /\ \A k \in 1..m : q[k] = Entries[d][i + k]
  <2> DEFINE e == Entries[d]
  <2>1. /\ e \in Seq(Updates) /\ i \in Nat /\ m \in Nat /\ i + m <= Len(e) /\ Len(e) \in Nat
        /\ q = SubSeq(e, i + 1, i + m)
    BY <1>1, <1>2, <1>3
  <2> HIDE DEF e, q
  <2>2. q \in Seq(Updates) /\ Len(q) = m
    BY ONLY <2>1
  <2>3. \A k \in 1..m : q[k] = e[i + k]
    BY ONLY <2>1
  <2> QED
    BY <2>2, <2>3 DEF e
<1> HIDE DEF q
<1>5. \A k \in 1..m : i + k \in 1..Len(Entries[d])
  BY <1>1
<1>6. \A k \in 1..m : /\ EntryOf(d, b, k) = Entries[d][i + k] /\ EntryOf(d, b, k) \in Updates
                      /\ EntryOf(d, b, k) # d /\ d \in Holders(EntryOf(d, b, k))
                      /\ Len(Above[EntryOf(d, b, k)]) = Len(Above[d]) + 1
  BY <1>5, EntriesOf DEF EntryOf, i
<1>7. Download!Range(q) = Fresh(d, b)
  <2>1. DOMAIN q = 1..m
    BY <1>4
  <2> QED
    BY <2>1, <1>4, <1>6 DEF Download!Range, Fresh, m
<1> QED
  BY <1>1, <1>4, <1>5, <1>6, <1>7 DEF i, m, q

\* The list v that the block makes of the list l, when its records go to pos.
Spliced(l, v, d, b, pos) ==
  LET i == Blocks[d][b].recno
      m == Blocks[d][b].nrecs
  IN  /\ v \in Lists /\ Ordered(v, d) /\ (v.done <=> l.done) /\ pos \in 0..Len(l.parts)
      /\ Len(v.parts) = Len(l.parts) + m
      /\ \A k \in 1..Len(v.parts) :
           v.parts[k] = IF k <= pos THEN l.parts[k]
                        ELSE IF k <= pos + m THEN EntryOf(d, b, k - pos) ELSE l.parts[k - m]
      /\ \A k \in 1..Len(v.parts) :
           v.recs[k] = IF k <= pos THEN l.recs[k]
                       ELSE IF k <= pos + m THEN i + (k - pos) - 1 ELSE l.recs[k - m]
      /\ \A r \in Download!Records(d, b) : \A k \in 1..Len(l.recs) : l.recs[k] # r

LEMMA BetweenInts ==
  ASSUME NEW i \in Nat, NEW m \in Nat, NEW pos \in Nat, NEW x \in Int, NEW N \in Nat,
         x \in 1..m, \A y \in 1..m : i + y \in 1..N
  PROVE  i + x - 1 \in 0..N - 1 /\ (i + x - 1) + 1 = i + x
<1>1. i + x \in 1..N
  OBVIOUS
<1> QED
  BY <1>1

LEMMA ListInserted ==
  ASSUME NEW d \in Download!Dirs, NEW b \in Download!Pieces(d), NEW l \in Lists, Ordered(l, d),
         NEW pos, pos = Download!FindPos(l.recs, Blocks[d][b].recno),
         ~(pos < Len(l.recs) /\ l.recs[pos + 1] < Blocks[d][b].recno + Blocks[d][b].nrecs)
  PROVE  LET i == Blocks[d][b].recno
             m == Blocks[d][b].nrecs
             recs == Download!InsertAll(l.recs, pos, [k \in 1..m |-> i + k - 1])
             parts == Download!InsertAll(l.parts, pos, New(d, b))
         IN  Spliced(l, [l EXCEPT !.recs = recs, !.parts = parts], d, b, pos)
<1> DEFINE i == Blocks[d][b].recno
           m == Blocks[d][b].nrecs
           q == [k \in 1..m |-> i + k - 1]
           recs == Download!InsertAll(l.recs, pos, q)
           parts == Download!InsertAll(l.parts, pos, New(d, b))
           v == [l EXCEPT !.recs = recs, !.parts = parts]
<1>1. /\ i \in Nat /\ m \in Nat /\ m > 0 /\ New(d, b) \in Seq(Updates) /\ Len(New(d, b)) = m
      /\ \A k \in 1..m : i + k \in 1..Len(Entries[d]) /\ New(d, b)[k] = EntryOf(d, b, k)
  BY NewEntries
<1>2. /\ l.recs \in Seq(Nat) /\ l.parts \in Seq(Updates)
      /\ Len(l.parts) = Len(l.recs)
  BY DEF Lists, Ordered
<1>3. Len(l.recs) \in Nat /\ DOMAIN l.recs = 1..Len(l.recs) /\ \A k \in 1..Len(l.recs) : l.recs[k] \in Nat
  BY <1>2
<1>4. /\ \A k \in 1..Len(l.recs) : l.recs[k] \in 0..Len(Entries[d]) - 1
      /\ \A k \in 1..Len(l.recs) : l.parts[k] = Entries[d][l.recs[k] + 1]
      /\ \A j, k \in 1..Len(l.recs) : j < k => l.recs[j] < l.recs[k]
  BY <1>3 DEF Ordered
<1>5. /\ pos \in 0..Len(l.recs)
      /\ \A k \in 1..pos : l.recs[k] < i
      /\ \A k \in pos + 1..Len(l.recs) : l.recs[k] >= i
  BY <1>1, <1>2, <1>4, PlaceFound DEF Rising
<1>6. ~(pos < Len(l.recs) /\ l.recs[pos + 1] < i + m)
  OBVIOUS
<1> HIDE DEF i, m
<1>7. \A k \in pos + 1..Len(l.recs) : l.recs[k] >= i + m
  <2> SUFFICES ASSUME NEW k \in pos + 1..Len(l.recs) PROVE l.recs[k] >= i + m
    OBVIOUS
  <2>1. pos + 1 \in 1..Len(l.recs) /\ k \in 1..Len(l.recs) /\ pos < Len(l.recs) /\ (k = pos + 1 \/ pos + 1 < k)
    BY <1>3, <1>5
  <2>2. l.recs[pos + 1] >= i + m /\ l.recs[pos + 1] <= l.recs[k]
    BY <2>1, <1>1, <1>3, <1>4, <1>6
  <2> QED
    BY <2>1, <2>2, <1>1, <1>3
<1>8. q \in Seq(Nat) /\ Len(q) = m /\ \A k \in 1..m : q[k] = i + k - 1
  BY <1>1
<1> HIDE DEF q, recs, parts
<1>9. /\ recs \in Seq(Nat) /\ Len(recs) = Len(l.recs) + m
      /\ \A k \in 1..Len(recs) :
           recs[k] = IF k <= pos THEN l.recs[k] ELSE IF k <= pos + m THEN q[k - pos] ELSE l.recs[k - m]
  <2>1. l.recs \in Seq(Nat) /\ q \in Seq(Nat) /\ pos \in 0..Len(l.recs)
    BY <1>2, <1>5, <1>8
  <2>2. LET t == Download!InsertAll(l.recs, pos, q)
        IN  /\ t \in Seq(Nat) /\ Len(t) = Len(l.recs) + Len(q)
            /\ \A k \in 1..Len(t) :
                 t[k] = IF k <= pos THEN l.recs[k]
                        ELSE IF k <= pos + Len(q) THEN q[k - pos] ELSE l.recs[k - Len(q)]
    BY ONLY <2>1, AllInserted
  <2> QED
    BY <2>2, <1>8 DEF recs
<1>10. /\ parts \in Seq(Updates) /\ Len(parts) = Len(l.recs) + m
       /\ \A k \in 1..Len(parts) :
            parts[k] = IF k <= pos THEN l.parts[k]
                       ELSE IF k <= pos + m THEN New(d, b)[k - pos] ELSE l.parts[k - m]
  <2>1. pos \in 0..Len(l.parts)
    BY <1>2, <1>5
  <2>2. New(d, b) \in Seq(Updates) /\ Len(New(d, b)) = m
    BY <1>1
  <2> DEFINE e == New(d, b)
  <2>3. l.parts \in Seq(Updates) /\ e \in Seq(Updates)
    BY <1>2, <2>2
  <2>4. LET t == Download!InsertAll(l.parts, pos, e)
        IN  /\ t \in Seq(Updates) /\ Len(t) = Len(l.parts) + Len(e)
            /\ \A k \in 1..Len(t) :
                 t[k] = IF k <= pos THEN l.parts[k]
                        ELSE IF k <= pos + Len(e) THEN e[k - pos] ELSE l.parts[k - Len(e)]
    <3> HIDE DEF e
    <3> QED
      BY ONLY <2>1, <2>3, AllInserted
  <2> QED
    BY <2>2, <2>4, <1>2 DEF parts
<1> DEFINE n == Len(l.recs) + m
<1>11. n \in Nat /\ DOMAIN recs = 1..n
  BY <1>1, <1>3, <1>9
<1>12. \A k \in 1..n : \/ k <= pos /\ k \in 1..pos /\ k \in 1..Len(l.recs)
                       \/ ~(k <= pos) /\ k <= pos + m /\ k - pos \in 1..m
                       \/ ~(k <= pos) /\ ~(k <= pos + m) /\ k - m \in pos + 1..Len(l.recs)
                            /\ k - m \in 1..Len(l.recs)
  BY <1>1, <1>3, <1>5
<1>13. \A k \in 1..n : recs[k] = IF k <= pos THEN l.recs[k]
                                 ELSE IF k <= pos + m THEN i + (k - pos) - 1 ELSE l.recs[k - m]
  BY <1>8, <1>9, <1>12
<1>14. \A k \in 1..n : parts[k] = IF k <= pos THEN l.parts[k]
                                  ELSE IF k <= pos + m THEN EntryOf(d, b, k - pos) ELSE l.parts[k - m]
  BY <1>1, <1>10, <1>12
<1> HIDE DEF n
<1>15. ASSUME NEW k \in 1..n
       PROVE  recs[k] \in 0..Len(Entries[d]) - 1 /\ parts[k] = Entries[d][recs[k] + 1]
  <2>1. CASE k <= pos /\ k \in 1..Len(l.recs)
    BY <2>1, <1>4, <1>13, <1>14
  <2>2. CASE ~(k <= pos) /\ k <= pos + m /\ k - pos \in 1..m
    <3>1. recs[k] = i + (k - pos) - 1 /\ parts[k] = EntryOf(d, b, k - pos)
      BY <2>2, <1>13, <1>14
    <3>2. k - pos \in Int /\ pos \in Nat
      BY <2>2, <1>5, <1>11
    <3>3. Len(Entries[d]) \in Nat /\ \A y \in 1..m : i + y \in 1..Len(Entries[d])
      BY EntriesOf, <1>1
    <3>4. i + (k - pos) - 1 \in 0..Len(Entries[d]) - 1 /\ (i + (k - pos) - 1) + 1 = i + (k - pos)
      BY ONLY <2>2, <3>2, <3>3, <1>1, BetweenInts
    <3> QED
      BY <3>1, <3>4 DEF EntryOf, i
  <2>3. CASE ~(k <= pos) /\ ~(k <= pos + m) /\ k - m \in 1..Len(l.recs)
    BY <2>3, <1>4, <1>13, <1>14
  <2> QED
    BY <2>1, <2>2, <2>3, <1>12
<1>16. ASSUME NEW j \in 1..n, NEW k \in 1..n, j < k PROVE recs[j] < recs[k]
  <2>1. CASE k <= pos /\ k \in 1..Len(l.recs) /\ j <= pos /\ j \in 1..Len(l.recs)
    BY <2>1, <1>4, <1>13, <1>16
  <2>2. CASE j <= pos /\ j \in 1..pos /\ ~(k <= pos) /\ k <= pos + m /\ k - pos \in 1..m
    <3>1. recs[j] < i /\ recs[k] = i + (k - pos) - 1 /\ recs[j] \in Nat
      BY <2>2, <1>3, <1>5, <1>13, <1>12
    <3> QED
      BY <3>1, <2>2, <1>1
  <2>3. CASE j <= pos /\ j \in 1..Len(l.recs) /\ ~(k <= pos) /\ ~(k <= pos + m) /\ k - m \in 1..Len(l.recs)
    <3>1. j < k - m
      BY <2>3, <1>1, <1>5
    <3> QED
      BY <3>1, <2>3, <1>4, <1>13
  <2>4. CASE /\ ~(j <= pos) /\ j <= pos + m /\ j - pos \in 1..m
             /\ ~(k <= pos) /\ k <= pos + m /\ k - pos \in 1..m
    <3>1. recs[j] = i + (j - pos) - 1 /\ recs[k] = i + (k - pos) - 1
      BY <2>4, <1>13
    <3> QED
      BY <3>1, <1>1, <1>5, <1>11, <1>16
  <2>5. CASE /\ ~(j <= pos) /\ j <= pos + m /\ j - pos \in 1..m
             /\ ~(k <= pos) /\ ~(k <= pos + m) /\ k - m \in pos + 1..Len(l.recs)
    <3>1. recs[j] = i + (j - pos) - 1 /\ recs[k] = l.recs[k - m] /\ l.recs[k - m] >= i + m
      BY <2>5, <1>7, <1>13
    <3>2. l.recs[k - m] \in Nat
      BY <2>5, <1>3, <1>5
    <3> QED
      BY <3>1, <3>2, <2>5, <1>1
  <2>6. CASE /\ ~(j <= pos) /\ ~(j <= pos + m) /\ j - m \in 1..Len(l.recs)
             /\ ~(k <= pos) /\ ~(k <= pos + m) /\ k - m \in 1..Len(l.recs)
    <3>1. j - m < k - m
      BY <1>1, <1>11, <1>16
    <3> QED
      BY <3>1, <2>6, <1>4, <1>13
  <2>7. j \in Nat /\ k \in Nat /\ pos \in Nat
    BY <1>5, <1>11
  <2>8. (k <= pos => j <= pos) /\ (k <= pos + m => j <= pos + m)
    BY <2>7, <1>1, <1>16
  <2> QED
    BY <2>1, <2>2, <2>3, <2>4, <2>5, <2>6, <2>8, <1>12
<1>17. v \in Lists /\ v.recs = recs /\ v.parts = parts /\ (v.done <=> l.done)
  BY <1>9, <1>10 DEF Lists
<1> HIDE DEF v
<1>18. Ordered(v, d)
  BY <1>9, <1>10, <1>11, <1>15, <1>16, <1>17 DEF Ordered, n
<1>19. ASSUME NEW r \in Download!Records(d, b), NEW k \in 1..Len(l.recs) PROVE l.recs[k] # r
  <2>1. r >= i /\ r < i + m
    BY <1>1 DEF Download!Records, i, m
  <2>2. CASE k <= pos
    BY <2>1, <2>2, <1>1, <1>3, <1>5
  <2>3. CASE ~(k <= pos)
    <3>1. l.recs[k] >= i + m
      BY <2>3, <1>3, <1>5, <1>7
    <3> QED
      BY <3>1, <2>1, <1>1, <1>3
  <2> QED
    BY <2>2, <2>3
<1>20. Len(v.parts) = Len(l.parts) + m /\ Len(v.parts) = n /\ pos \in 0..Len(l.parts)
  BY <1>2, <1>5, <1>10, <1>17 DEF n
<1>21. \A k \in 1..Len(v.parts) :
         /\ v.parts[k] = IF k <= pos THEN l.parts[k]
                         ELSE IF k <= pos + m THEN EntryOf(d, b, k - pos) ELSE l.parts[k - m]
         /\ v.recs[k] = IF k <= pos THEN l.recs[k]
                        ELSE IF k <= pos + m THEN i + (k - pos) - 1 ELSE l.recs[k - m]
  BY <1>13, <1>14, <1>17, <1>20
<1>22. Spliced(l, v, d, b, pos)
  BY ONLY <1>17, <1>18, <1>19, <1>20, <1>21 DEF Spliced, i, m
<1> QED
  BY <1>22 DEF v, recs, parts, q, i, m

-----------------------------------------------------------------------------
(***************************************************************************)
(* What is held with a piece at hand is held without one, and with more    *)
(* that was not found.                                                     *)
(***************************************************************************)
LEMMA HeldLess ==
  ASSUME NEW w, NEW S, NEW H, NEW L, NEW n, DownloadHeld(w, S, H, L, n)
  PROVE  DownloadHeld(w, S, {}, L, n)
<1>1. ASSUME NEW u \in Updates PROVE OwnHeld(w, u, S, {}, L, n)
  <2>1. OwnHeld(w, u, S, H, L, n)
    BY DEF DownloadHeld
  <2>2. Ready(w, u, {}) \subseteq Ready(w, u, H)
    BY DEF Ready
  <2>3. ASSUME u \in Download!Files, FileHeld(w, u, H) PROVE FileHeld(w, u, {})
    <3>1. IsFiniteSet(Download!Pieces(u))
      BY <2>3, PiecesOfFile
    <3>2. Ready(w, u, H) \in SUBSET Download!Pieces(u)
      BY DEF Ready
    <3>3. IsFiniteSet(Ready(w, u, H))
      BY <3>1, <3>2, FS_Subset
    <3>4. IsFiniteSet(Ready(w, u, {})) /\ Cardinality(Ready(w, u, {})) <= Cardinality(Ready(w, u, H))
      BY <2>2, <3>3, FS_Subset
    <3>5. Cardinality(Ready(w, u, {})) \in Nat /\ Cardinality(Ready(w, u, H)) \in Nat /\ w.up[u].got \in Nat
      BY <3>3, <3>4, FS_CardinalityType, ActionTypes DEF DownloadHeld
    <3>6. Cardinality(Ready(w, u, H)) <= w.up[u].got => Cardinality(Ready(w, u, {})) <= w.up[u].got
      BY <3>4, <3>5
    <3> QED
      BY <2>2, <2>3, <3>6 DEF FileHeld
  <2>4. ListHeld(w, u, H, L) => ListHeld(w, u, {}, L)
    BY <2>2 DEF ListHeld
  <2> QED
    BY <2>1, <2>3, <2>4 DEF OwnHeld
<1> QED
  BY <1>1 DEF DownloadHeld

LEMMA HeldLater ==
  ASSUME NEW w, NEW S, NEW H, NEW L, NEW M, NEW n \in Nat, NEW k \in Nat, L \subseteq M, n <= k,
         DownloadHeld(w, S, H, L, n)
  PROVE  DownloadHeld(w, S, H, M, k)
<1>1. ASSUME NEW u \in Updates PROVE OwnHeld(w, u, S, H, M, k)
  <2>1. OwnHeld(w, u, S, H, L, n)
    BY DEF DownloadHeld
  <2>2. Counted(w, u, n)
    BY <2>1 DEF OwnHeld
  <2>3. \A p \in Download!Pieces(u) : w.regions[u][p] \in Nat
    BY <2>2 DEF Counted
  <2>4. \A p \in Download!Pieces(u) : w.regions[u][p] + (IF w.up[u].timer THEN 1 ELSE 0) <= k + 1
    BY <2>2, <2>3 DEF Counted
  <2>5. Counted(w, u, k)
    BY <2>2, <2>4 DEF Counted
  <2>6. ListHeld(w, u, H, L) => ListHeld(w, u, H, M)
    BY DEF ListHeld
  <2> QED
    BY <2>1, <2>5, <2>6 DEF OwnHeld
<1> QED
  BY <1>1 DEF DownloadHeld

-----------------------------------------------------------------------------
(***************************************************************************)
(* The entries of a block are inserted, each with an Update of its own.    *)
(***************************************************************************)
Inserts(w, v, d, b) ==
  /\ v \in Worlds /\ v.regions = w.regions /\ v.disk = w.disk /\ v.failed = w.failed
  /\ \A e \in Download!Dirs \ {d} : v.list[e] = w.list[e]
  /\ \E pos : Spliced(w.list[d], v.list[d], d, b, pos)
  /\ \A x \in Updates : v.up[x] = IF x \in Fresh(d, b) THEN Download!Made ELSE w.up[x]

InOrder(w, d, b) ==
  LET recs == w.list[d].recs
      pos == Download!FindPos(recs, Blocks[d][b].recno)
  IN  ~(pos < Len(recs) /\ recs[pos + 1] < Blocks[d][b].recno + Blocks[d][b].nrecs)

LEMMA InsertEffect ==
  ASSUME NEW w \in Worlds, NEW d \in Download!Dirs, NEW b \in Download!Pieces(d),
         Ordered(w.list[d], d), InOrder(w, d, b)
  PROVE  Inserts(w, Download!Inserted(w, d, b), d, b)
<1> DEFINE i == Blocks[d][b].recno
           m == Blocks[d][b].nrecs
           l == w.list[d]
           pos == Download!FindPos(l.recs, i)
           recs == Download!InsertAll(l.recs, pos, [k \in 1..m |-> i + k - 1])
           parts == Download!InsertAll(l.parts, pos, New(d, b))
           e == [l EXCEPT !.recs = recs, !.parts = parts]
           ups == [x \in Updates |-> IF x \in Download!Range(New(d, b)) THEN Download!Made ELSE w.up[x]]
           v == Download!Inserted(w, d, b)
<1>1. v = [w EXCEPT !.list[d] = e, !.up = ups]
  BY DEF Download!Inserted, New
<1>2. l \in Lists
  BY WorldTypes
<1>3. Spliced(l, e, d, b, pos)
  <2>1. ~(pos < Len(l.recs) /\ l.recs[pos + 1] < i + m)
    BY DEF InOrder
  <2> QED
    BY <1>2, <2>1, ListInserted
<1>4. e \in Lists
  BY <1>3 DEF Spliced
<1>5. Download!Made \in Actions
  BY DEF Actions, Download!Made, Download!Blank, Download!Statuses
<1> HIDE DEF e
<1>6. \A x \in Updates : w.up[x] \in Actions
  BY WorldTypes
<1>7. ups \in [Updates -> Actions]
  BY <1>5, <1>6
<1>8. \A x \in Updates : ups[x] = IF x \in Fresh(d, b) THEN Download!Made ELSE w.up[x]
  BY NewEntries
<1> HIDE DEF ups
<1>9. /\ v \in Worlds /\ v.regions = w.regions /\ v.disk = w.disk /\ v.failed = w.failed
      /\ \A x \in Download!Dirs \ {d} : v.list[x] = w.list[x]
      /\ v.list[d] = e /\ v.up = ups
  BY <1>1, <1>4, <1>7 DEF Worlds
<1> HIDE DEF v
<1>10. \E p : Spliced(w.list[d], v.list[d], d, b, p)
  BY <1>3, <1>9
<1>11. Inserts(w, v, d, b)
  BY <1>8, <1>9, <1>10 DEF Inserts
<1> QED
  BY <1>11 DEF v

\* The new entries were not parts before.
LEMMA FreshUnmade ==
  ASSUME NEW w, NEW v, NEW d \in Download!Dirs, NEW b \in Download!Pieces(d), NEW H, NEW L, NEW n,
         DownloadHeld(w, {}, H, L, n), Inserts(w, v, d, b), NEW x \in Fresh(d, b)
  PROVE  x \in Updates /\ x # d /\ ~Part(w, x) /\ Unmade(w, x)
<1> DEFINE i == Blocks[d][b].recno
<1>1. PICK k \in 1..Blocks[d][b].nrecs : x = EntryOf(d, b, k)
  BY DEF Fresh
<1>2. /\ x \in Updates /\ x # d /\ d \in Holders(x) /\ i + k \in 1..Len(Entries[d])
      /\ i \in Nat /\ Blocks[d][b].nrecs \in Nat /\ x = Entries[d][i + k]
  BY <1>1, NewEntries DEF EntryOf
<1>3. x # Root /\ \A e \in Holders(x) : e = d
  BY <1>2, Tree
<1>4. w \in Worlds /\ \A e \in Download!Dirs : Ordered(w.list[e], e)
  BY Tree DEF DownloadHeld, OwnHeld, ListHeld
<1>5. ASSUME Part(w, x) PROVE FALSE
  <2>1. PICK e \in Download!Dirs : \E j \in DOMAIN w.list[e].parts : w.list[e].parts[j] = x
    BY <1>3, <1>5 DEF Part
  <2>2. PICK j \in 1..Len(w.list[e].parts) : w.list[e].parts[j] = x
    BY <2>1, <1>4, ListTypes
  <2>3. /\ e \in Holders(x) /\ w.list[e].recs[j] + 1 \in 1..Len(Entries[e])
        /\ x = Entries[e][w.list[e].recs[j] + 1]
    BY <2>2, <1>4, PartsAreEntries
  <2>4. e = d
    BY <2>3, <1>3
  <2>5. j \in 1..Len(w.list[d].recs) /\ w.list[d].recs[j] \in Nat
    BY <2>2, <2>4, <1>4, ListTypes DEF Ordered
  <2>6. w.list[d].recs[j] + 1 = i + k
    BY <1>2, <2>3, <2>4, EntriesOf
  <2>7. w.list[d].recs[j] \in Download!Records(d, b)
    <3> DEFINE r == w.list[d].recs[j]
               m == Blocks[d][b].nrecs
    <3>1. r \in Nat /\ i \in Nat /\ m \in Nat /\ k \in 1..m /\ r + 1 = i + k
      BY <2>5, <2>6, <1>1, <1>2
    <3> HIDE DEF r, i, m
    <3>2. r \in i..i + m - 1
      BY ONLY <3>1
    <3> QED
      BY <3>2 DEF r, i, m, Download!Records
  <2>8. \A r \in Download!Records(d, b) : \A y \in 1..Len(w.list[d].recs) : w.list[d].recs[y] # r
    BY DEF Inserts, Spliced
  <2> QED
    BY <2>5, <2>7, <2>8
<1>6. Unmade(w, x)
  BY <1>2, <1>5 DEF DownloadHeld
<1> QED
  BY <1>2, <1>5, <1>6

\* What was listed stays, and the block's records are listed too.
LEMMA PartsKept ==
  ASSUME NEW w \in Worlds, NEW v, NEW d \in Download!Dirs, NEW b \in Download!Pieces(d),
         Ordered(w.list[d], d), Inserts(w, v, d, b)
  PROVE  /\ \A x : Part(w, x) => Part(v, x)
         /\ \A x \in Fresh(d, b) : Part(v, x)
         /\ \A r : Has(w, d, r) => Has(v, d, r)
         /\ \A r \in Download!Records(d, b) : Has(v, d, r)
<1> DEFINE i == Blocks[d][b].recno
           m == Blocks[d][b].nrecs
           p == w.list[d].parts
           q == v.list[d].parts
<1>1. v \in Worlds /\ \A e \in Download!Dirs \ {d} : v.list[e] = w.list[e]
  BY DEF Inserts
<1>2. PICK pos : Spliced(w.list[d], v.list[d], d, b, pos)
  BY DEF Inserts
<1>3. /\ pos \in 0..Len(p) /\ Len(q) = Len(p) + m /\ Ordered(v.list[d], d)
      /\ \A k \in 1..Len(q) :
           q[k] = IF k <= pos THEN p[k]
                  ELSE IF k <= pos + m THEN EntryOf(d, b, k - pos) ELSE p[k - m]
      /\ \A k \in 1..Len(q) :
           v.list[d].recs[k] = IF k <= pos THEN w.list[d].recs[k]
                               ELSE IF k <= pos + m THEN i + (k - pos) - 1 ELSE w.list[d].recs[k - m]
  <2>1. Len(v.list[d].recs) = Len(q)
    BY <1>2 DEF Spliced, Ordered
  <2> QED
    BY <2>1, <1>2 DEF Spliced, Ordered
<1>4. /\ DOMAIN p = 1..Len(p) /\ DOMAIN q = 1..Len(q) /\ Len(p) \in Nat /\ Len(q) \in Nat
      /\ DOMAIN w.list[d].recs = 1..Len(p) /\ DOMAIN v.list[d].recs = 1..Len(q)
  BY <1>1, <1>3, ListTypes DEF Ordered
<1>5. i \in Nat /\ m \in Nat
  BY NewEntries
<1> HIDE DEF i, m, p, q
<1>6. ASSUME NEW k \in 1..Len(p)
      PROVE  \E j \in 1..Len(q) : q[j] = p[k] /\ v.list[d].recs[j] = w.list[d].recs[k]
  <2>1. CASE k <= pos
    <3>1. k \in 1..Len(q)
      BY <1>3, <1>4, <1>5
    <3> QED
      BY <2>1, <3>1, <1>3
  <2>2. CASE ~(k <= pos)
    <3> DEFINE j == k + m
    <3>1. j \in 1..Len(q) /\ ~(j <= pos) /\ ~(j <= pos + m) /\ j - m = k
      BY <2>2, <1>3, <1>4, <1>5
    <3> HIDE DEF j
    <3>2. q[j] = p[j - m] /\ v.list[d].recs[j] = w.list[d].recs[j - m]
      BY <3>1, <1>3
    <3> QED
      BY <3>1, <3>2
  <2> QED
    BY <2>1, <2>2
<1>7. ASSUME NEW k \in 1..m
      PROVE  \E j \in 1..Len(q) : q[j] = EntryOf(d, b, k) /\ v.list[d].recs[j] = i + k - 1
  <2> DEFINE j == pos + k
  <2>1. j \in 1..Len(q) /\ ~(j <= pos) /\ j <= pos + m /\ j - pos = k
    BY <1>3, <1>4, <1>5
  <2> HIDE DEF j
  <2>2. q[j] = EntryOf(d, b, j - pos) /\ v.list[d].recs[j] = i + (j - pos) - 1
    BY <2>1, <1>3
  <2> QED
    BY <2>1, <2>2
<1>8. ASSUME NEW x, Part(w, x) PROVE Part(v, x)
  <2>1. CASE x = Root
    BY <2>1 DEF Part
  <2>2. ASSUME NEW e \in Download!Dirs, NEW k \in DOMAIN w.list[e].parts, w.list[e].parts[k] = x
        PROVE  Part(v, x)
    <3>1. CASE e # d
      BY <2>2, <3>1, <1>1 DEF Part
    <3>2. CASE e = d
      <4>1. k \in 1..Len(p) /\ p[k] = x
        BY <2>2, <3>2, <1>4 DEF p
      <4>2. PICK j \in 1..Len(q) : q[j] = x
        BY <4>1, <1>6
      <4> QED
        BY <4>2, <1>4 DEF Part, q
    <3> QED
      BY <3>1, <3>2
  <2> QED
    BY <2>1, <2>2, <1>8 DEF Part
<1>9. ASSUME NEW x \in Fresh(d, b) PROVE Part(v, x)
  <2>1. PICK k \in 1..m : x = EntryOf(d, b, k)
    BY DEF Fresh, m
  <2>2. PICK j \in 1..Len(q) : q[j] = x
    BY <2>1, <1>7
  <2> QED
    BY <2>2, <1>4 DEF Part, q
<1>10. ASSUME NEW r, Has(w, d, r) PROVE Has(v, d, r)
  BY <1>4, <1>6, <1>10 DEF Has
<1>11. ASSUME NEW r \in Download!Records(d, b) PROVE Has(v, d, r)
  <2>1. r \in i..i + m - 1
    BY DEF Download!Records, i, m
  <2> DEFINE k == r - i + 1
  <2>2. k \in 1..m /\ i + k - 1 = r
    BY <2>1, <1>5
  <2> HIDE DEF k
  <2>3. PICK j \in 1..Len(q) : v.list[d].recs[j] = i + k - 1
    BY <2>2, <1>7
  <2> QED
    BY <2>2, <2>3, <1>4 DEF Has
<1> QED
  BY <1>8, <1>9, <1>10, <1>11

\* The new entries show nothing yet.
LEMMA SumsInserted ==
  ASSUME NEW w, NEW v, NEW d \in Download!Dirs, NEW b \in Download!Pieces(d), NEW H, NEW L, NEW n,
         DownloadHeld(w, {}, H, L, n), Inserts(w, v, d, b)
  PROVE  Download!TotOf(v, d) = Download!TotOf(w, d) /\ Download!GotOf(v, d) = Download!GotOf(w, d)
<1> DEFINE m == Blocks[d][b].nrecs
           p == w.list[d].parts
           q == v.list[d].parts
<1>1. w \in Worlds /\ v \in Worlds /\ Ordered(w.list[d], d) /\ m \in Nat
  BY Tree, NewEntries DEF DownloadHeld, OwnHeld, ListHeld, Inserts
<1>2. PICK pos : Spliced(w.list[d], v.list[d], d, b, pos)
  BY DEF Inserts
<1>3. /\ pos \in 0..Len(p) /\ Len(q) = Len(p) + m
      /\ \A k \in 1..Len(q) :
           q[k] = IF k <= pos THEN p[k]
                  ELSE IF k <= pos + m THEN EntryOf(d, b, k - pos) ELSE p[k - m]
  BY <1>2 DEF Spliced
<1>4. Len(p) \in Nat /\ Len(q) \in Nat
  BY <1>1, ListTypes
<1>5. /\ Shown(w, d).tot \in Seq(Nat) /\ Shown(w, d).got \in Seq(Nat)
      /\ Shown(v, d).tot \in Seq(Nat) /\ Shown(v, d).got \in Seq(Nat)
      /\ Len(Shown(w, d).tot) = Len(p) /\ Len(Shown(w, d).got) = Len(p)
      /\ Len(Shown(v, d).tot) = Len(q) /\ Len(Shown(v, d).got) = Len(q)
      /\ \A k \in 1..Len(p) : Shown(w, d).tot[k] = w.up[p[k]].tot /\ Shown(w, d).got[k] = w.up[p[k]].got
      /\ \A k \in 1..Len(q) : Shown(v, d).tot[k] = v.up[q[k]].tot /\ Shown(v, d).got[k] = v.up[q[k]].got
      /\ Download!TotOf(w, d) = Download!Total(Shown(w, d).tot)
      /\ Download!GotOf(w, d) = Download!Total(Shown(w, d).got)
      /\ Download!TotOf(v, d) = Download!Total(Shown(v, d).tot)
      /\ Download!GotOf(v, d) = Download!Total(Shown(v, d).got)
  BY <1>1, ShownNumbers
<1>6. \A x \in Fresh(d, b) : /\ x \in Updates /\ ~Part(w, x)
                             /\ v.up[x].tot = 0 /\ v.up[x].got = 0
  <2> SUFFICES ASSUME NEW x \in Fresh(d, b)
               PROVE  x \in Updates /\ ~Part(w, x) /\ v.up[x].tot = 0 /\ v.up[x].got = 0
    OBVIOUS
  <2>1. x \in Updates /\ ~Part(w, x)
    BY FreshUnmade
  <2> QED
    BY <2>1 DEF Inserts, Download!Made, Download!Blank
<1>7. \A k \in 1..Len(p) : p[k] \in Updates /\ Part(w, p[k])
  BY <1>1, ListTypes DEF Part
<1>8. \A k \in 1..Len(p) : v.up[p[k]] = w.up[p[k]]
  BY <1>6, <1>7 DEF Inserts
<1>9. \A k \in 1..m : v.up[EntryOf(d, b, k)].tot = 0 /\ v.up[EntryOf(d, b, k)].got = 0
  BY <1>6 DEF Fresh
<1> HIDE DEF p, q, m
<1>10. m \in Nat
  BY <1>1 DEF m
<1>11. ASSUME NEW k \in 1..Len(q)
       PROVE  /\ Shown(v, d).tot[k] = IF k <= pos THEN Shown(w, d).tot[k]
                                      ELSE IF k <= pos + m THEN 0 ELSE Shown(w, d).tot[k - m]
              /\ Shown(v, d).got[k] = IF k <= pos THEN Shown(w, d).got[k]
                                      ELSE IF k <= pos + m THEN 0 ELSE Shown(w, d).got[k - m]
  <2>1. Shown(v, d).tot[k] = v.up[q[k]].tot /\ Shown(v, d).got[k] = v.up[q[k]].got
    BY <1>5
  <2>2. CASE k <= pos
    <3>1. k \in 1..Len(p) /\ q[k] = p[k]
      BY ONLY <2>2, <1>3, <1>4, k \in 1..Len(q)
    <3>2. v.up[q[k]] = w.up[p[k]]
      BY <3>1, <1>8
    <3>3. Shown(w, d).tot[k] = w.up[p[k]].tot /\ Shown(w, d).got[k] = w.up[p[k]].got
      BY ONLY <3>1, <1>5
    <3> QED
      BY <2>1, <2>2, <3>2, <3>3
  <2>3. CASE ~(k <= pos) /\ k <= pos + m
    <3>1. k - pos \in 1..m /\ q[k] = EntryOf(d, b, k - pos)
      BY ONLY <2>3, <1>3, <1>4, <1>10, k \in 1..Len(q)
    <3>2. v.up[q[k]].tot = 0 /\ v.up[q[k]].got = 0
      BY <3>1, <1>9
    <3> QED
      BY <2>1, <2>3, <3>2
  <2>4. CASE ~(k <= pos) /\ ~(k <= pos + m)
    <3>1. k - m \in 1..Len(p) /\ q[k] = p[k - m]
      BY ONLY <2>4, <1>3, <1>4, <1>10, k \in 1..Len(q)
    <3>2. v.up[q[k]] = w.up[p[k - m]]
      BY <3>1, <1>8
    <3>3. Shown(w, d).tot[k - m] = w.up[p[k - m]].tot /\ Shown(w, d).got[k - m] = w.up[p[k - m]].got
      BY ONLY <3>1, <1>5
    <3> QED
      BY <2>1, <2>4, <3>2, <3>3
  <2> QED
    BY <2>2, <2>3, <2>4
<1>12. Download!Total(Shown(v, d).tot) = Download!Total(Shown(w, d).tot)
  <2> DEFINE s == Shown(w, d).tot
             t == Shown(v, d).tot
  <2>1. /\ s \in Seq(Nat) /\ t \in Seq(Nat) /\ pos \in 0..Len(s) /\ Len(t) = Len(s) + m
        /\ \A k \in 1..Len(t) : t[k] = IF k <= pos THEN s[k] ELSE IF k <= pos + m THEN 0 ELSE s[k - m]
    BY <1>3, <1>5, <1>11
  <2> HIDE DEF s, t
  <2>2. Download!Total(t) = Download!Total(s)
    BY ONLY <2>1, <1>10, TotalSpliced
  <2> QED
    BY <2>2 DEF s, t
<1>13. Download!Total(Shown(v, d).got) = Download!Total(Shown(w, d).got)
  <2> DEFINE s == Shown(w, d).got
             t == Shown(v, d).got
  <2>1. /\ s \in Seq(Nat) /\ t \in Seq(Nat) /\ pos \in 0..Len(s) /\ Len(t) = Len(s) + m
        /\ \A k \in 1..Len(t) : t[k] = IF k <= pos THEN s[k] ELSE IF k <= pos + m THEN 0 ELSE s[k - m]
    BY <1>3, <1>5, <1>11
  <2> HIDE DEF s, t
  <2>2. Download!Total(t) = Download!Total(s)
    BY ONLY <2>1, <1>10, TotalSpliced
  <2> QED
    BY <2>2 DEF s, t
<1> QED
  BY <1>5, <1>12, <1>13

(***************************************************************************)
(* After a block has been inserted all is held, and the block is at hand.  *)
(***************************************************************************)
LEMMA InsertedHeld ==
  ASSUME NEW w, NEW v, NEW d \in Download!Dirs, NEW b \in Download!Pieces(d),
         NEW H \in SUBSET {<<d, b>>}, NEW L, NEW n \in Nat,
         DownloadHeld(w, {}, H, L, n), Part(w, d), Inserts(w, v, d, b)
  PROVE  DownloadHeld(v, {}, {<<d, b>>}, L, n) /\ Part(v, d)
<1> DEFINE I == {<<d, b>>}
<1>1. w \in Worlds /\ d \in Updates /\ d \notin Download!Files
  BY Tree DEF DownloadHeld
<1>2. \A e \in Download!Dirs : e \in Updates /\ Ordered(w.list[e], e)
  BY Tree DEF DownloadHeld, OwnHeld, ListHeld
<1>3. /\ v \in Worlds /\ v.regions = w.regions /\ v.disk = w.disk /\ v.failed = w.failed
      /\ \A e \in Download!Dirs \ {d} : v.list[e] = w.list[e]
      /\ \A x \in Updates : v.up[x] = IF x \in Fresh(d, b) THEN Download!Made ELSE w.up[x]
  BY DEF Inserts
<1>4. /\ \A x : Part(w, x) => Part(v, x)
      /\ \A x \in Fresh(d, b) : Part(v, x)
      /\ \A r : Has(w, d, r) => Has(v, d, r)
      /\ \A r \in Download!Records(d, b) : Has(v, d, r)
  BY <1>1, <1>2, PartsKept
<1>5. \A x \in Fresh(d, b) : x \in Updates /\ x # d /\ ~Part(w, x) /\ Unmade(w, x)
  BY FreshUnmade
<1>6. \A x \in Updates : Part(w, x) => v.up[x] = w.up[x]
  BY <1>3, <1>5
<1>7. ASSUME NEW e \in Download!Dirs, NEW k \in DOMAIN w.list[e].parts
      PROVE  /\ w.list[e].parts[k] \in Updates
             /\ v.up[w.list[e].parts[k]] = w.up[w.list[e].parts[k]]
  <2>1. w.list[e].parts[k] \in Updates
    BY <1>1, ListTypes
  <2>2. Part(w, w.list[e].parts[k])
    BY DEF Part
  <2> QED
    BY <2>1, <2>2, <1>6
<1>8. ASSUME NEW x \in Updates, x # d PROVE Ready(v, x, I) = Ready(w, x, H)
  <2>1. \A p : <<x, p>> \notin I /\ <<x, p>> \notin H
    BY <1>8
  <2> QED
    BY <2>1, <1>3 DEF Ready
<1>9. ASSUME NEW x \in Updates, x \in Fresh(d, b) PROVE OwnHeld(v, x, {}, I, L, n)
  <2>1. OwnHeld(w, x, {}, H, L, n) /\ Unmade(w, x) /\ x # d
    BY <1>5, <1>9 DEF DownloadHeld
  <2>2. v.up[x].st = "Fresh" /\ v.up[x].timer = FALSE /\ v.up[x].tot = 0 /\ v.up[x].got = 0
    BY <1>3, <1>9 DEF Download!Made, Download!Blank
  <2>3. w.up[x].tot = 0 /\ w.up[x].got = 0 /\ w.up[x].st = "Absent"
    BY <2>1 DEF Unmade, Download!Blank
  <2>4. \A p \in Download!Pieces(x) : w.regions[x][p] = 0
    BY <2>1 DEF Unmade
  <2>5. w.regions[x] \in [Download!Pieces(x) -> Nat]
    BY <2>1 DEF OwnHeld, Counted
  <2>6. Counted(v, x, n)
    BY <2>2, <2>4, <2>5, <1>3 DEF Counted
  <2>7. ASSUME x \in Download!Files PROVE FileSound(v, x) /\ FileHeld(v, x, I)
    <3>1. Size[x] \in Nat /\ FileSound(w, x)
      BY <2>1, <2>7, Tree DEF OwnHeld
    <3> QED
      BY <3>1, <2>2, <1>3 DEF FileSound, FileHeld
  <2>8. ASSUME x \in Download!Dirs PROVE ListHeld(v, x, I, L) /\ SumsTold(v, x)
    <3>1. ListHeld(w, x, H, L) /\ SumsTold(w, x) /\ v.list[x] = w.list[x]
      BY <2>1, <2>8, <1>3 DEF OwnHeld
    <3>2. \A r : Has(v, x, r) <=> Has(w, x, r)
      BY <3>1 DEF Has
    <3>3. ListHeld(v, x, I, L)
      BY <3>1, <3>2, <2>1, <2>2, <2>8, <1>3, <1>8 DEF ListHeld
    <3>4. Download!TotOf(v, x) = Download!TotOf(w, x) /\ Download!GotOf(v, x) = Download!GotOf(w, x)
      BY <3>1, <2>8, <1>7, SumsSame
    <3>5. Download!TotOf(w, x) = 0 /\ Download!GotOf(w, x) = 0
      BY <3>1, <2>3 DEF SumsTold, Download!IsDone
    <3> QED
      BY <3>3, <3>4, <3>5, <2>2 DEF SumsTold
  <2> QED
    BY <2>6, <2>7, <2>8 DEF OwnHeld
<1>10. ASSUME NEW x \in Updates, x \notin Fresh(d, b), x # d PROVE OwnHeld(v, x, {}, I, L, n)
  <2>1. OwnHeld(w, x, {}, H, L, n) /\ v.up[x] = w.up[x] /\ Ready(v, x, I) = Ready(w, x, H)
    BY <1>3, <1>8, <1>10 DEF DownloadHeld
  <2>2. Counted(v, x, n)
    BY <2>1, <1>3 DEF OwnHeld, Counted
  <2>3. ASSUME x \in Download!Files PROVE FileSound(v, x) /\ FileHeld(v, x, I)
    BY <2>1, <2>3, <1>3 DEF OwnHeld, FileSound, FileHeld
  <2>4. ASSUME x \in Download!Dirs PROVE ListHeld(v, x, I, L) /\ SumsTold(v, x)
    <3>1. ListHeld(w, x, H, L) /\ SumsTold(w, x) /\ v.list[x] = w.list[x]
      BY <2>1, <2>4, <1>3, <1>10 DEF OwnHeld
    <3>2. \A r : Has(v, x, r) <=> Has(w, x, r)
      BY <3>1 DEF Has
    <3>3. \A k \in DOMAIN w.list[x].parts : v.up[w.list[x].parts[k]] = w.up[w.list[x].parts[k]]
      BY <2>4, <1>7
    <3>4. ListHeld(v, x, I, L)
      BY <3>1, <3>2, <3>3, <2>1, <1>3 DEF ListHeld
    <3>5. Download!TotOf(v, x) = Download!TotOf(w, x) /\ Download!GotOf(v, x) = Download!GotOf(w, x)
      BY <3>1, <3>3, SumsSame
    <3> QED
      BY <3>1, <3>4, <3>5, <2>1 DEF SumsTold
  <2> QED
    BY <2>2, <2>3, <2>4 DEF OwnHeld
<1>11. OwnHeld(v, d, {}, I, L, n)
  <2>1. Counted(w, d, n) /\ ListHeld(w, d, H, L) /\ SumsTold(w, d) /\ v.up[d] = w.up[d]
    BY <1>1, <1>6 DEF DownloadHeld, OwnHeld
  <2>2. Counted(v, d, n)
    BY <2>1, <1>3 DEF Counted
  <2>3. Download!TotOf(v, d) = Download!TotOf(w, d) /\ Download!GotOf(v, d) = Download!GotOf(w, d)
    BY SumsInserted
  <2>4. SumsTold(v, d)
    BY <2>1, <2>3 DEF SumsTold
  <2>5. PICK pos : Spliced(w.list[d], v.list[d], d, b, pos)
    BY DEF Inserts
  <2>6. /\ Ordered(v.list[d], d) /\ (v.list[d].done <=> w.list[d].done)
        /\ \A r \in Download!Records(d, b) : ~Has(w, d, r)
    <3>1. DOMAIN w.list[d].recs = 1..Len(w.list[d].recs)
      BY <1>1, ListTypes
    <3>2. \A r \in Download!Records(d, b) : ~Has(w, d, r)
      BY <3>1, <2>5 DEF Spliced, Has
    <3> QED
      BY <3>2, <2>5 DEF Spliced
  <2>7. \A y \in Ready(v, d, I) : y = b \/ y \in Ready(w, d, H)
    BY <1>3 DEF Ready
  <2>8. \E r \in Download!Records(d, b) : r \in 0..Len(Entries[d]) - 1
    <3> DEFINE i == Blocks[d][b].recno
               m == Blocks[d][b].nrecs
               N == Len(Entries[d])
    <3>1. i \in Nat /\ m \in Nat /\ m > 0 /\ i + m <= N /\ N \in Nat
      BY EntriesOf
    <3> HIDE DEF i, m, N
    <3>2. i \in i..i + m - 1 /\ i \in 0..N - 1
      BY ONLY <3>1
    <3> QED
      BY <3>2 DEF i, m, N, Download!Records
  <2>9. ASSUME d \notin L PROVE w.list[d].done => FALSE
    BY <2>1, <2>6, <2>8, <2>9 DEF ListHeld
  <2>10. ASSUME d \notin L, \E y \in Download!Pieces(d) : v.regions[d][y] > 0,
                NEW y \in Ready(v, d, I), NEW r \in Download!Records(d, y)
         PROVE  Has(v, d, r)
    <3>1. CASE y = b
      BY <3>1, <1>4
    <3>2. CASE y \in Ready(w, d, H)
      <4>1. Has(w, d, r)
        BY <3>2, <2>1, <2>10, <1>3 DEF ListHeld
      <4> QED
        BY <4>1, <1>4
    <3> QED
      BY <3>1, <3>2, <2>7
  <2>11. ASSUME d \notin L PROVE w.up[d].st = "Success" => FALSE
    BY <2>1, <2>9, <2>11 DEF ListHeld
  <2>12. ListHeld(v, d, I, L)
    BY <2>1, <2>6, <2>9, <2>10, <2>11 DEF ListHeld
  <2> QED
    BY <2>2, <2>4, <2>12, <1>1 DEF OwnHeld
<1>12. ASSUME NEW x \in Updates PROVE Part(v, x) \/ Unmade(v, x)
  <2>1. CASE Part(w, x) \/ x \in Fresh(d, b)
    BY <2>1, <1>4
  <2>2. CASE ~Part(w, x) /\ x \notin Fresh(d, b)
    <3>1. x # d /\ Unmade(w, x)
      BY <2>2 DEF DownloadHeld
    <3> QED
      BY <3>1, <2>2, <1>3 DEF Unmade
  <2> QED
    BY <2>1, <2>2
<1>13. \A x \in Updates : OwnHeld(v, x, {}, I, L, n)
  BY <1>9, <1>10, <1>11
<1>14. "bytes" \notin v.failed /\ Part(v, d)
  BY <1>3, <1>4 DEF DownloadHeld
<1> QED
  BY <1>3, <1>12, <1>13, <1>14 DEF DownloadHeld

\* An order that is wrong is an assertion that fails, and nothing else changes.
LEMMA OrderFailed ==
  ASSUME NEW w, NEW d \in Download!Dirs, NEW H, NEW L, NEW n \in Nat,
         DownloadHeld(w, {}, H, L, n), Part(w, d)
  PROVE  LET v == Download!Fail(w, "order")
         IN  DownloadHeld(v, {}, H, L, n) /\ Part(v, d) /\ v.regions = w.regions /\ v.failed # {}
<1> DEFINE v == Download!Fail(w, "order")
<1>1. w \in Worlds /\ d \in Updates /\ d \notin Download!Files
  BY Tree DEF DownloadHeld
<1>2. /\ v \in Worlds /\ v.up = w.up /\ v.regions = w.regions /\ v.disk = w.disk
      /\ v.list = w.list /\ v.failed = w.failed \cup {"order"}
  BY <1>1 DEF Worlds, Download!Fail
<1> HIDE DEF v
<1>3. Changes(w, v, d, {}) /\ Eases(d, {}, {}, H, H) /\ n <= n /\ L \subseteq L
  BY <1>2 DEF Changes, Eases
<1>4. OwnHeld(v, d, {}, H, L, n)
  <2>1. Counted(w, d, n) /\ ListHeld(w, d, H, L) /\ SumsTold(w, d)
    BY <1>1 DEF DownloadHeld, OwnHeld
  <2>2. Counted(v, d, n) /\ ListHeld(v, d, H, L)
    BY <2>1, <1>2 DEF Counted, ListHeld, Ready, Has
  <2>3. Download!TotOf(v, d) = Download!TotOf(w, d) /\ Download!GotOf(v, d) = Download!GotOf(w, d)
    BY <1>2, SumsSame
  <2>4. SumsTold(v, d)
    BY <2>1, <2>3, <1>2 DEF SumsTold
  <2> QED
    BY <2>2, <2>4, <1>1 DEF OwnHeld
<1>5. DownloadHeld(v, {}, H, L, n)
  BY <1>1, <1>3, <1>4, Changed
<1>6. Part(v, d)
  BY <1>2 DEF Part
<1> QED
  BY <1>2, <1>5, <1>6 DEF v

\* The new entries are started one after the other.
LEMMA StartsPass ==
  ASSUME NEW w, NEW d \in Download!Dirs, NEW b \in Download!Pieces(d), NEW ok, InOrder(w, d, b)
  PROVE  \E t : /\ t[0] = Download!Inserted(w, d, b)
                /\ Download!DirData(w, d, b, ok) = t[Blocks[d][b].nrecs]
                /\ \A k \in 1..Blocks[d][b].nrecs :
                     t[k] = Download!StartUpdate(t[k - 1], EntryOf(d, b, k), ok)
<1> DEFINE n == Blocks[d][b].nrecs
           Step(x, k) == Download!StartUpdate(x, Entries[d][Blocks[d][b].recno + k], ok)
           Upto(t, m) == t = [k \in 0..m |-> IF k = 0 THEN Download!Inserted(w, d, b) ELSE Step(t[k - 1], k)]
           P == {m \in 0..n : \E t : Upto(t, m)}
<1>1. n \in Nat
  BY NewEntries
<1> HIDE DEF n
<1>2. 0 \in P
  <2>1. Upto([k \in 0..0 |-> Download!Inserted(w, d, b)], 0)
    OBVIOUS
  <2>2. 0 \in 0..n
    BY <1>1
  <2> HIDE DEF Upto
  <2> QED
    BY <2>1, <2>2
<1>3. ASSUME NEW m \in 1..n, m - 1 \in P PROVE m \in P
  <2>1. PICK t : Upto(t, m - 1)
    BY <1>3
  <2> DEFINE s == [k \in 0..m |-> IF k = m THEN Step(t[m - 1], m) ELSE t[k]]
  <2>2. \A k \in 0..m - 1 : t[k] = IF k = 0 THEN Download!Inserted(w, d, b) ELSE Step(t[k - 1], k)
    BY <2>1
  <2>3. \A k \in 0..m : s[k] = IF k = 0 THEN Download!Inserted(w, d, b) ELSE Step(s[k - 1], k)
    <3> SUFFICES ASSUME NEW k \in 0..m
                 PROVE  s[k] = IF k = 0 THEN Download!Inserted(w, d, b) ELSE Step(s[k - 1], k)
      OBVIOUS
    <3>1. CASE k = m
      <4>1. k # 0 /\ m - 1 \in 0..m /\ s[m - 1] = t[m - 1] /\ s[k] = Step(t[m - 1], m)
        BY <3>1
      <4> QED
        BY <3>1, <4>1
    <3>2. CASE k # m
      <4>1. k \in 0..m - 1 /\ s[k] = t[k] /\ (k # 0 => k - 1 \in 0..m /\ k - 1 # m /\ s[k - 1] = t[k - 1])
        BY <3>2
      <4> HIDE DEF s
      <4> QED
        BY <4>1, <2>2
    <3> QED
      BY <3>1, <3>2
  <2>4. Upto(s, m)
    BY <2>3
  <2>5. m \in 0..n
    BY <1>1
  <2> HIDE DEF Upto
  <2> QED
    BY <2>4, <2>5
<1> HIDE DEF P
<1>4. 0..n \subseteq P
  BY <1>1, <1>2, <1>3, StepByStep
<1>5. \E t : Upto(t, n)
  BY <1>1, <1>4 DEF P
<1>6. Upto(CHOOSE t : Upto(t, n), n)
  BY <1>5
<1> DEFINE started == CHOOSE t : Upto(t, n)
<1>7. Download!DirData(w, d, b, ok) = started[n]
  BY DEF Download!DirData, InOrder, n
<1> HIDE DEF started
<1>8. \A k \in 0..n : started[k] = IF k = 0 THEN Download!Inserted(w, d, b) ELSE Step(started[k - 1], k)
  BY <1>6 DEF started
<1>9. started[0] = Download!Inserted(w, d, b)
  BY <1>1, <1>8
<1>10. \A k \in 1..n : started[k] = Download!StartUpdate(started[k - 1], EntryOf(d, b, k), ok)
  BY <1>1, <1>8 DEF EntryOf
<1> QED
  BY <1>7, <1>9, <1>10 DEF n

\* An Update that has been made for an entry and not been started.
Waiting(w, x) ==
  /\ Part(w, x) /\ w.up[x] = Download!Made /\ \A p \in Download!Pieces(x) : w.regions[x][p] = 0

\* After k entries of a block were started the others wait.
StartedUpTo(w, v, d, b, L, n, k) ==
  /\ DownloadHeld(v, {}, {<<d, b>>}, L, n) /\ Part(v, d) /\ v.regions[d] = w.regions[d]
  /\ \A j \in k + 1..Blocks[d][b].nrecs : Waiting(v, EntryOf(d, b, j))

LEMMA EntryStarted ==
  ASSUME NEW w, NEW v, NEW d \in Download!Dirs, NEW b \in Download!Pieces(d), NEW L, NEW n \in Nat,
         NEW k \in 1..Blocks[d][b].nrecs, NEW ok \in BOOLEAN, odd \subseteq MaybeOdd,
         StartedUpTo(w, v, d, b, L, n, k - 1)
  PROVE  StartedUpTo(w, Download!StartUpdate(v, EntryOf(d, b, k), ok), d, b, L, n, k)
<1> DEFINE m == Blocks[d][b].nrecs
           I == {<<d, b>>}
           u == EntryOf(d, b, k)
           x == Download!StartUpdate(v, u, ok)
<1>1. m \in Nat /\ \A j \in 1..m :
        /\ EntryOf(d, b, j) \in Updates /\ EntryOf(d, b, j) # d
        /\ d \in Holders(EntryOf(d, b, j)) /\ Len(Above[EntryOf(d, b, j)]) = Len(Above[d]) + 1
  BY NewEntries
<1>2. d \in Updates
  BY Tree
<1>3. DownloadHeld(v, {}, I, L, n) /\ Part(v, d) /\ v.regions[d] = w.regions[d]
  BY DEF StartedUpTo
<1>4. \A j \in 1..m : j >= k => Waiting(v, EntryOf(d, b, j))
  BY DEF StartedUpTo
<1>5. Part(v, u) /\ u # d /\ u \in Updates
  BY <1>1, <1>4 DEF Waiting
<1>6. Startable(v, u, I, n)
  <2>1. Waiting(v, u)
    BY <1>4
  <2>2. v.up[u].st = "Fresh" /\ v.up[u].timer = FALSE
    BY <2>1 DEF Waiting, Download!Made, Download!Blank
  <2>3. Spare(v, u, n)
    BY <2>1 DEF Waiting, Spare
  <2>4. NotAtHand(u, I)
    BY <1>5 DEF NotAtHand
  <2> QED
    BY <2>2, <2>3, <2>4 DEF Startable
<1> HIDE DEF u, I
<1>7. DownloadHeld(x, {}, I, L, n) /\ Touches(v, x, u)
  <2>1. {} \in SUBSET (Download!Files \cap {u})
    OBVIOUS
  <2> QED
    BY <2>1, <1>3, <1>5, <1>6, StartHeld
<1> HIDE DEF x
<1>8. Part(x, d) /\ x.regions[d] = w.regions[d]
  <2>1. x.regions[d] = v.regions[d]
    BY <1>2, <1>5, <1>7 DEF Touches
  <2> QED
    BY <2>1, <1>3, <1>7, PartStays
<1>9. ASSUME NEW j \in k + 1..m PROVE Waiting(x, EntryOf(d, b, j))
  <2> DEFINE y == EntryOf(d, b, j)
             i == Blocks[d][b].recno
  <2>1. j \in 1..m /\ j >= k /\ j # k
    BY <1>1
  <2>2. y \in Updates /\ Waiting(v, y) /\ Len(Above[u]) = Len(Above[y])
    BY <1>1, <1>4, <2>1 DEF u
  <2>3. y # u
    <3>1. /\ i \in Nat /\ i + j \in 1..Len(Entries[d]) /\ i + k \in 1..Len(Entries[d])
          /\ y = Entries[d][i + j] /\ u = Entries[d][i + k]
      BY <2>1, NewEntries DEF EntryOf, u
    <3>2. i + j # i + k
      BY <3>1, <2>1, <1>1
    <3> QED
      BY <3>1, <3>2, EntriesOf
  <2> HIDE DEF y
  <2>4. \A q \in 1..Len(Above[u]) : At(u, q) # y
    BY <2>2, <1>5, Siblings
  <2>5. x.up[y] = v.up[y] /\ x.regions[y] = v.regions[y]
    BY <2>2, <2>3, <2>4, <1>7 DEF Touches
  <2>6. Part(x, y)
    BY <2>2, <1>7, PartStays DEF Waiting
  <2>7. Waiting(x, y)
    BY <2>2, <2>5, <2>6 DEF Waiting
  <2> QED
    BY <2>7 DEF y
<1>10. StartedUpTo(w, x, d, b, L, n, k)
  BY <1>7, <1>8, <1>9 DEF StartedUpTo, I
<1> QED
  BY <1>10 DEF x, u

(***************************************************************************)
(* A block of entries that a directory is given.                           *)
(***************************************************************************)
LEMMA DirDataHeld ==
  ASSUME NEW w, NEW d \in Download!Dirs, NEW b \in Download!Pieces(d),
         NEW H \in SUBSET {<<d, b>>}, NEW L, NEW n \in Nat, NEW ok \in BOOLEAN,
         odd \subseteq MaybeOdd, DownloadHeld(w, {}, H, L, n), Part(w, d)
  PROVE  LET v == Download!DirData(w, d, b, ok)
         IN  /\ DownloadHeld(v, {}, {}, L, n) /\ Part(v, d) /\ v.regions[d] = w.regions[d]
             /\ v.failed = {} => DownloadHeld(v, {}, {<<d, b>>}, L, n)
<1> DEFINE m == Blocks[d][b].nrecs
<1>1. w \in Worlds /\ Ordered(w.list[d], d) /\ m \in Nat
  BY Tree, NewEntries DEF DownloadHeld, OwnHeld, ListHeld
<1>2. CASE InOrder(w, d, b)
  <2>1. PICK t : /\ t[0] = Download!Inserted(w, d, b)
                 /\ Download!DirData(w, d, b, ok) = t[m]
                 /\ \A k \in 1..m : t[k] = Download!StartUpdate(t[k - 1], EntryOf(d, b, k), ok)
    BY <1>2, StartsPass
  <2> DEFINE P == {k \in 0..m : StartedUpTo(w, t[k], d, b, L, n, k)}
  <2>2. 0 \in P
    <3>1. Inserts(w, t[0], d, b)
      BY <1>1, <1>2, <2>1, InsertEffect
    <3>2. DownloadHeld(t[0], {}, {<<d, b>>}, L, n) /\ Part(t[0], d)
      BY <3>1, InsertedHeld
    <3>3. t[0].regions[d] = w.regions[d]
      BY <3>1 DEF Inserts
    <3>4. ASSUME NEW j \in 0 + 1..m PROVE Waiting(t[0], EntryOf(d, b, j))
      <4>1. EntryOf(d, b, j) \in Fresh(d, b)
        BY DEF Fresh
      <4>2. EntryOf(d, b, j) \in Updates /\ Unmade(w, EntryOf(d, b, j))
        BY <4>1, <3>1, FreshUnmade
      <4>3. Part(t[0], EntryOf(d, b, j))
        BY <4>1, <3>1, <1>1, PartsKept
      <4>4. /\ t[0].up[EntryOf(d, b, j)] = Download!Made
            /\ t[0].regions = w.regions
        BY <4>1, <4>2, <3>1 DEF Inserts
      <4> QED
        BY <4>2, <4>3, <4>4 DEF Waiting, Unmade
    <3>5. 0 \in 0..m
      BY <1>1
    <3> QED
      BY <3>2, <3>3, <3>4, <3>5 DEF StartedUpTo
  <2>3. ASSUME NEW k \in 1..m, k - 1 \in P PROVE k \in P
    <3>1. StartedUpTo(w, t[k - 1], d, b, L, n, k - 1) /\ k \in 0..m
      BY <2>3
    <3> QED
      BY <3>1, <2>1, EntryStarted
  <2> HIDE DEF P
  <2>4. 0..m \subseteq P
    BY <1>1, <2>2, <2>3, StepByStep
  <2>5. StartedUpTo(w, t[m], d, b, L, n, m)
    BY <1>1, <2>4 DEF P
  <2>6. /\ DownloadHeld(t[m], {}, {<<d, b>>}, L, n) /\ Part(t[m], d)
        /\ t[m].regions[d] = w.regions[d]
    BY <2>5 DEF StartedUpTo
  <2>7. DownloadHeld(t[m], {}, {}, L, n)
    BY <2>6, HeldLess
  <2> QED
    BY <2>1, <2>6, <2>7
<1>3. CASE ~InOrder(w, d, b)
  <2> DEFINE v == Download!Fail(w, "order")
  <2>1. Download!DirData(w, d, b, ok) = v
    BY <1>3 DEF Download!DirData, InOrder
  <2>2. DownloadHeld(v, {}, H, L, n) /\ Part(v, d) /\ v.regions = w.regions /\ v.failed # {}
    BY OrderFailed
  <2> HIDE DEF v
  <2>3. DownloadHeld(v, {}, {}, L, n)
    BY <2>2, HeldLess
  <2> QED
    BY <2>1, <2>2, <2>3
<1> QED
  BY <1>2, <1>3

-----------------------------------------------------------------------------
(***************************************************************************)
(* The piece that has come is given to each region that waits for it.      *)
(***************************************************************************)
GiveOnce(w, u, p, ok) ==
  IF w.failed # {} THEN w
  ELSE IF u \in Download!Dirs THEN Download!DirData(w, u, p, ok) ELSE Download!FileData(w, u, p, ok)

LEMMA GivesPass ==
  ASSUME NEW w, NEW u, NEW p, NEW ok, NEW n \in Nat, n = w.regions[u][p]
  PROVE  \E t : /\ t[0] = w /\ Download!Given(w, u, p, ok) = t[n]
                /\ \A k \in 1..n : t[k] = GiveOnce(t[k - 1], u, p, ok)
<1> DEFINE Upto(t, m) == t = [k \in 0..m |-> IF k = 0 THEN w ELSE GiveOnce(t[k - 1], u, p, ok)]
           P == {m \in 0..n : \E t : Upto(t, m)}
<1>1. 0 \in P
  <2>1. Upto([k \in 0..0 |-> w], 0)
    OBVIOUS
  <2> HIDE DEF Upto
  <2> QED
    BY <2>1
<1>2. ASSUME NEW m \in 1..n, m - 1 \in P PROVE m \in P
  <2>1. PICK t : Upto(t, m - 1)
    BY <1>2
  <2> DEFINE s == [k \in 0..m |-> IF k = m THEN GiveOnce(t[m - 1], u, p, ok) ELSE t[k]]
  <2>2. \A k \in 0..m - 1 : t[k] = IF k = 0 THEN w ELSE GiveOnce(t[k - 1], u, p, ok)
    BY <2>1
  <2>3. \A k \in 0..m : s[k] = IF k = 0 THEN w ELSE GiveOnce(s[k - 1], u, p, ok)
    <3> SUFFICES ASSUME NEW k \in 0..m
                 PROVE  s[k] = IF k = 0 THEN w ELSE GiveOnce(s[k - 1], u, p, ok)
      OBVIOUS
    <3>1. CASE k = m
      <4>1. k # 0 /\ m - 1 \in 0..m /\ s[m - 1] = t[m - 1] /\ s[k] = GiveOnce(t[m - 1], u, p, ok)
        BY <3>1
      <4> QED
        BY <3>1, <4>1
    <3>2. CASE k # m
      <4>1. k \in 0..m - 1 /\ s[k] = t[k] /\ (k # 0 => k - 1 \in 0..m /\ k - 1 # m /\ s[k - 1] = t[k - 1])
        BY <3>2
      <4> HIDE DEF s
      <4> QED
        BY <4>1, <2>2
    <3> QED
      BY <3>1, <3>2
  <2>4. Upto(s, m)
    BY <2>3
  <2> HIDE DEF Upto
  <2> QED
    BY <2>4
<1> HIDE DEF P
<1>3. 0..n \subseteq P
  BY <1>1, <1>2, StepByStep
<1>4. \E t : Upto(t, n)
  BY <1>3 DEF P
<1>5. Upto(CHOOSE t : Upto(t, n), n)
  BY <1>4
<1> DEFINE given == CHOOSE t : Upto(t, n)
           Raw == CHOOSE t : t = [k \in 0..n |->
                    IF k = 0 THEN w
                    ELSE IF t[k - 1].failed # {} THEN t[k - 1]
                    ELSE IF u \in Download!Dirs THEN Download!DirData(t[k - 1], u, p, ok)
                    ELSE Download!FileData(t[k - 1], u, p, ok)]
<1>6. Download!Given(w, u, p, ok) = Raw[n]
  BY DEF Download!Given
<1>7. Raw = given
  BY DEF GiveOnce
<1> HIDE DEF given, Raw
<1>8. \A k \in 0..n : given[k] = IF k = 0 THEN w ELSE GiveOnce(given[k - 1], u, p, ok)
  BY <1>5 DEF given
<1>9. given[0] = w /\ \A k \in 1..n : given[k] = GiveOnce(given[k - 1], u, p, ok)
  BY <1>8
<1> QED
  BY <1>6, <1>7, <1>9

LEMMA GivenHeld ==
  ASSUME NEW w, NEW u \in Updates, NEW p \in Download!Pieces(u), NEW L, NEW n \in Nat,
         NEW ok \in BOOLEAN, odd \subseteq MaybeOdd, DownloadHeld(w, {}, {}, L, n), Part(w, u),
         w.regions[u][p] > 0, ok \/ Spare(w, u, n)
  PROVE  LET v == Download!Given(w, u, p, ok)
         IN  /\ DownloadHeld(v, {}, {}, L, n) /\ Part(v, u) /\ v.regions[u] = w.regions[u]
             /\ v.failed = {} => DownloadHeld(v, {}, {<<u, p>>}, L, n)
<1> DEFINE m == w.regions[u][p]
           I == {<<u, p>>}
<1>1. m \in Nat /\ m > 0
  BY DEF DownloadHeld, OwnHeld, Counted
<1>2. PICK t : /\ t[0] = w /\ Download!Given(w, u, p, ok) = t[m]
               /\ \A k \in 1..m : t[k] = GiveOnce(t[k - 1], u, p, ok)
  BY <1>1, GivesPass
<1> HIDE DEF m
<1> DEFINE Good(k) == /\ DownloadHeld(t[k], {}, {}, L, n) /\ Part(t[k], u)
                      /\ t[k].regions[u] = w.regions[u]
                      /\ k > 0 /\ t[k].failed = {} => DownloadHeld(t[k], {}, I, L, n)
           P == {k \in 0..m : Good(k)}
<1>3. 0 \in P
  BY <1>1, <1>2
<1>4. ASSUME NEW k \in 1..m, k - 1 \in P PROVE k \in P
  <2> DEFINE x == t[k - 1]
  <2>1. /\ DownloadHeld(x, {}, {}, L, n) /\ Part(x, u) /\ x.regions[u] = w.regions[u]
        /\ t[k] = GiveOnce(x, u, p, ok) /\ k \in 0..m
    BY <1>1, <1>2, <1>4
  <2> HIDE DEF x
  <2>2. CASE x.failed # {}
    <3>1. t[k] = x
      BY <2>1, <2>2 DEF GiveOnce
    <3> QED
      BY <2>1, <2>2, <3>1
  <2>3. CASE x.failed = {} /\ u \in Download!Dirs
    <3>1. t[k] = Download!DirData(x, u, p, ok)
      BY <2>1, <2>3 DEF GiveOnce
    <3>2. {} \in SUBSET {<<u, p>>}
      OBVIOUS
    <3>3. /\ DownloadHeld(t[k], {}, {}, L, n) /\ Part(t[k], u) /\ t[k].regions[u] = x.regions[u]
          /\ t[k].failed = {} => DownloadHeld(t[k], {}, {<<u, p>>}, L, n)
      BY ONLY odd \subseteq MaybeOdd, n \in Nat, ok \in BOOLEAN, p \in Download!Pieces(u), <2>1, <2>3, <3>1, <3>2, DirDataHeld
    <3> QED
      BY <2>1, <3>3
  <2>4. CASE x.failed = {} /\ u \notin Download!Dirs
    <3>1. t[k] = Download!FileData(x, u, p, ok)
      BY <2>1, <2>4 DEF GiveOnce
    <3>2. {} \in SUBSET {<<u, p>>} /\ u \in Download!Files
      BY <2>4, Tree
    <3>3. ok \/ Spare(x, u, n)
      BY <2>1 DEF Spare
    <3>4. DownloadHeld(t[k], {}, I, L, n) /\ Part(t[k], u) /\ t[k].regions = x.regions
      BY ONLY n \in Nat, ok \in BOOLEAN, p \in Download!Pieces(u), <2>1, <3>1, <3>2, <3>3, FileDataHeld DEF I
    <3>5. DownloadHeld(t[k], {}, {}, L, n)
      BY <3>4, HeldLess
    <3> QED
      BY <2>1, <3>4, <3>5
  <2> QED
    BY <2>2, <2>3, <2>4
<1> HIDE DEF P
<1>5. 0..m \subseteq P
  BY <1>1, <1>3, <1>4, StepByStep
<1>6. m \in P
  BY <1>1, <1>5
<1>7. Good(m)
  <2> HIDE DEF Good
  <2> QED
    BY <1>6 DEF P
<1> QED
  BY <1>1, <1>2, <1>7

(***************************************************************************)
(* An answer that has been dealt with.                                     *)
(***************************************************************************)
LEMMA AnsweredHeld ==
  ASSUME NEW w, NEW u \in Updates, NEW p \in Download!Pieces(u), NEW L, NEW n \in Nat,
         NEW ok \in BOOLEAN, DownloadHeld(w, {}, {}, L, n), Part(w, u), w.regions[u][p] > 0,
         w.failed = {} => DownloadHeld(w, {}, {<<u, p>>}, L, n)
  PROVE  DownloadHeld(Download!Answered(w, u, p, ok), {}, {}, L, n)
<1> DEFINE r == [w.regions[u] EXCEPT ![p] = 0]
           x == [w EXCEPT !.regions[u] = r]
           H == {<<u, p>>}
<1>1. CASE w.failed # {}
  BY <1>1 DEF Download!Answered
<1>2. CASE w.failed = {}
  <2>1. w \in Worlds /\ DownloadHeld(w, {}, H, L, n) /\ OwnHeld(w, u, {}, H, L, n) /\ Counted(w, u, n)
    BY <1>2 DEF DownloadHeld, OwnHeld
  <2>2. w.regions[u] \in [Download!Pieces(u) -> Nat]
    BY <2>1 DEF Counted
  <2>3. /\ r \in [Download!Pieces(u) -> Nat] /\ r[p] = 0
        /\ \A q \in Download!Pieces(u) \ {p} : r[q] = w.regions[u][q]
    BY <2>2
  <2>4. [w EXCEPT !.regions[u][p] = 0] = x
    OBVIOUS
  <2> HIDE DEF r
  <2>5. /\ x \in Worlds /\ x.up = w.up /\ x.disk = w.disk /\ x.list = w.list
        /\ x.failed = w.failed /\ \A y \in Updates \ {u} : x.regions[y] = w.regions[y]
        /\ x.regions[u] = r
    BY <2>1, <2>3, RegionsPut
  <2>6. Download!Answered(w, u, p, ok) =
          IF \E q \in Download!Pieces(u) : x.regions[u][q] > 0 THEN x
          ELSE IF u \in Download!Dirs THEN Download!DirReadDone(x, u) ELSE Download!FileReadDone(x, u, ok)
    BY <1>2, <2>4 DEF Download!Answered
  <2> HIDE DEF x
  <2>7. Changes(w, x, u, {}) /\ Eases(u, {}, {}, H, {}) /\ n <= n /\ L \subseteq L
    BY <2>5 DEF Changes, Eases
  <2>8. Ready(x, u, {}) = Ready(w, u, H)
    BY <2>3, <2>5 DEF Ready
  <2>9. Counted(x, u, n)
    <3>1. \A q \in Download!Pieces(u) : r[q] + (IF w.up[u].timer THEN 1 ELSE 0) <= n + 1
      BY <2>1, <2>3 DEF Counted
    <3> QED
      BY <3>1, <2>1, <2>3, <2>5 DEF Counted
  <2>10. ASSUME u \in Download!Files PROVE FileSound(x, u) /\ FileHeld(x, u, {})
    BY <2>1, <2>5, <2>8, <2>10 DEF OwnHeld, FileSound, FileHeld
  <2>11. ASSUME u \in Download!Dirs PROVE ListHeld(x, u, {}, L) /\ SumsTold(x, u)
    <3>1. ListHeld(w, u, H, L) /\ SumsTold(w, u)
      BY <2>1, <2>11 DEF OwnHeld
    <3>2. (\E q \in Download!Pieces(u) : x.regions[u][q] > 0)
            => \E q \in Download!Pieces(u) : w.regions[u][q] > 0
      OBVIOUS
    <3>3. ListHeld(x, u, {}, L)
      BY <3>1, <3>2, <2>5, <2>8 DEF ListHeld, Has
    <3>4. Download!TotOf(x, u) = Download!TotOf(w, u) /\ Download!GotOf(x, u) = Download!GotOf(w, u)
      BY <2>5, SumsSame
    <3> QED
      BY <3>1, <3>3, <3>4, <2>5 DEF SumsTold
  <2>12. OwnHeld(x, u, {}, {}, L, n)
    BY <2>9, <2>10, <2>11 DEF OwnHeld
  <2>13. DownloadHeld(x, {}, {}, L, n)
    BY <2>1, <2>7, <2>12, Changed
  <2>14. Part(x, u)
    BY <2>5 DEF Part
  <2>15. CASE \E q \in Download!Pieces(u) : x.regions[u][q] > 0
    BY <2>6, <2>13, <2>15
  <2>16. CASE ~\E q \in Download!Pieces(u) : x.regions[u][q] > 0
    <3>1. \A q \in Download!Pieces(u) : x.regions[u][q] = 0
      BY <2>3, <2>5, <2>16
    <3>2. CASE u \in Download!Dirs
      <4>1. \A q \in Download!Pieces(u) : q \in Ready(w, u, H)
        BY <3>1, <2>8 DEF Ready
      <4>2. ListHeld(w, u, H, L)
        BY <2>1, <3>2 DEF OwnHeld
      <4>3. ASSUME u \notin L
            PROVE  \A b \in Download!Pieces(u) : \A k \in Download!Records(u, b) : Has(w, u, k)
        BY <4>1, <4>2, <4>3 DEF ListHeld
      <4>4. \A k : Has(w, u, k) => Has(x, u, k)
        BY <2>5 DEF Has
      <4>5. \A k \in 0..Len(Entries[u]) - 1 : \E b \in Download!Pieces(u) : k \in Download!Records(u, b)
        BY <3>2, EntriesOf
      <4>6. AllThere(x, u, L)
        BY <4>3, <4>4, <4>5 DEF AllThere
      <4> QED
        BY <2>6, <2>13, <2>14, <2>16, <3>2, <4>6, DirReadDoneHeld
    <3>3. CASE u \notin Download!Dirs
      <4>1. u \in Download!Files /\ Idle(x, u)
        BY <3>1, <3>3, Tree DEF Idle
      <4> QED
        BY <2>6, <2>13, <2>14, <2>16, <3>3, <4>1, FileReadDoneHeld
    <3> QED
      BY <3>2, <3>3
  <2> QED
    BY <2>15, <2>16
<1> QED
  BY <1>1, <1>2

-----------------------------------------------------------------------------
(***************************************************************************)
(* The steps.  An Update that is asked for something, or whose timer runs, *)
(* has been made.                                                          *)
(***************************************************************************)
LEMMA NothingAdded ==
  ASSUME NEW w \in Worlds, NEW d \in Download!Dirs, Len(w.list[d].parts) = 0
  PROVE  Download!TotOf(w, d) = 0 /\ Download!GotOf(w, d) = 0
<1>1. ASSUME NEW s \in Seq(Nat), Len(s) = 0 PROVE Download!Total(s) = 0
  <2>1. PICK f : Adding(f, s) /\ Download!Total(s) = f[Len(s)]
    BY TotalAdded
  <2> QED
    BY <1>1, <2>1 DEF Adding
<1> QED
  BY <1>1, ShownNumbers

LEMMA InitHeld == ASSUME Download!Init PROVE DownloadNow
<1> DEFINE w == Download!World
<1>1. /\ w.up = [u \in Updates |-> IF u = Root THEN Download!Made ELSE Download!Blank]
      /\ w.regions = [u \in Updates |-> [p \in Download!Pieces(u) |-> 0]]
      /\ w.disk = [f \in Download!Files |-> Download!NoFile]
      /\ w.list = [d \in Download!Dirs |-> Download!NoList] /\ w.failed = {}
  BY DEF Download!Init, Download!World
<1>2. /\ Download!Made \in Actions /\ Download!Blank \in Actions
      /\ Download!Made.st = "Fresh" /\ Download!Blank.st = "Absent"
      /\ Download!Made.timer = FALSE /\ Download!Blank.timer = FALSE
      /\ Download!Made.tot = 0 /\ Download!Made.got = 0 /\ Download!Blank.tot = 0 /\ Download!Blank.got = 0
  BY DEF Actions, Download!Made, Download!Blank, Download!Statuses
<1>3. Download!NoFile \in Disks /\ Download!NoFile.written = {}
  BY DEF Disks, Download!NoFile
<1>4. /\ Download!NoList \in Lists /\ Download!NoList.recs = <<>>
      /\ Download!NoList.parts = <<>> /\ Download!NoList.done = FALSE
  BY DEF Lists, Download!NoList
<1>5. ASSUME NEW u \in Updates PROVE [p \in Download!Pieces(u) |-> 0] \in Waits
  <2>1. [p \in Download!Pieces(u) |-> 0] \in [Download!Pieces(u) -> Nat]
    OBVIOUS
  <2> QED
    BY <2>1 DEF Waits
<1>6. w \in Worlds
  <2>1. /\ w.up \in [Updates -> Actions] /\ w.regions \in [Updates -> Waits]
        /\ w.disk \in [Download!Files -> Disks] /\ w.list \in [Download!Dirs -> Lists]
        /\ w.failed \in SUBSET {"done", "bytes", "order"}
    BY <1>1, <1>2, <1>3, <1>4, <1>5
  <2>2. /\ up \in [Updates -> Actions] /\ regions \in [Updates -> Waits]
        /\ disk \in [Download!Files -> Disks] /\ list \in [Download!Dirs -> Lists]
        /\ aborted \in SUBSET {"done", "bytes", "order"}
    BY <2>1 DEF Download!World
  <2> QED
    BY ONLY <2>2 DEF Worlds, Download!World
<1>7. mishaps = 0 /\ lost = {} /\ odd \subseteq MaybeOdd
  BY DEF Download!Init
<1> HIDE DEF w
<1>8. ASSUME NEW u \in Updates PROVE OwnHeld(w, u, {}, {}, lost, mishaps)
  <2>1. /\ w.up[u].st \in {"Fresh", "Absent"} /\ w.up[u].timer = FALSE
        /\ w.up[u].tot = 0 /\ w.up[u].got = 0
    BY <1>1, <1>2
  <2>2. Counted(w, u, mishaps)
    BY <1>1, <1>7, <2>1 DEF Counted
  <2>3. ASSUME u \in Download!Files PROVE FileSound(w, u) /\ FileHeld(w, u, {})
    BY <2>1, <2>3, <1>1, <1>3, Tree DEF FileSound, FileHeld
  <2>4. ASSUME u \in Download!Dirs PROVE ListHeld(w, u, {}, lost) /\ SumsTold(w, u)
    <3>1. w.list[u] = Download!NoList
      BY <1>1, <2>4
    <3>2. ListHeld(w, u, {}, lost)
      BY <3>1, <2>1, <1>1, <1>4 DEF ListHeld, Ordered
    <3>3. Download!TotOf(w, u) = 0 /\ Download!GotOf(w, u) = 0
      BY <3>1, <2>4, <1>4, <1>6, NothingAdded
    <3> QED
      BY <3>2, <3>3, <2>1 DEF SumsTold
  <2> QED
    BY <2>2, <2>3, <2>4 DEF OwnHeld
<1>9. ASSUME NEW u \in Updates PROVE Part(w, u) \/ Unmade(w, u)
  BY <1>1 DEF Part, Unmade
<1>10. DownloadHeld(w, {}, {}, lost, mishaps)
  BY <1>1, <1>6, <1>8, <1>9 DEF DownloadHeld
<1> QED
  BY <1>7, <1>10, Tree DEF DownloadNow, w

LEMMA Becomes ==
  ASSUME NEW w, Download!Become(w), w \in Worlds
  PROVE  Download!World' = w /\ odd' = odd
  BY DEF Download!Become, Download!World, Worlds

\* The faults are counted, and all is held with one more of them.
LEMMA FaultsCounted ==
  ASSUME NEW ok \in BOOLEAN, DownloadNow, Download!Fault(ok), lost \subseteq lost',
         lost' \subseteq Download!Dirs, odd' = odd
  PROVE  /\ mishaps \in Nat /\ mishaps' \in 0..MaxMishaps /\ mishaps' \in Nat /\ mishaps <= mishaps'
         /\ ~ok => mishaps' = mishaps + 1
         /\ odd' \subseteq MaybeOdd /\ odd \subseteq MaybeOdd /\ lost' \subseteq Download!Dirs
         /\ DownloadHeld(Download!World, {}, {}, lost', mishaps') /\ aborted = {}
<1>1. MaxMishaps \in Nat
  BY Tree
<1>2. /\ mishaps \in Nat /\ mishaps' \in 0..MaxMishaps /\ mishaps' \in Nat /\ mishaps <= mishaps'
      /\ ~ok => mishaps' = mishaps + 1
      /\ odd' \subseteq MaybeOdd /\ odd \subseteq MaybeOdd /\ aborted = {}
  BY <1>1 DEF DownloadNow, Download!Fault
<1>3. DownloadHeld(Download!World, {}, {}, lost', mishaps')
  BY <1>2, HeldLater DEF DownloadNow
<1> QED
  BY <1>2, <1>3

LEMMA StartKeeps ==
  ASSUME NEW ok \in BOOLEAN, DownloadNow, Download!Start(ok)
  PROVE  DownloadNow'
<1> DEFINE w == Download!World
           v == Download!StartUpdate(w, Root, ok)
<1>1. Download!NotStarted /\ Download!Fault(ok) /\ Download!Become(v) /\ lost' = lost
  BY DEF Download!Start
<1>2. odd' = odd /\ lost \subseteq Download!Dirs
  BY <1>1 DEF Download!Become, DownloadNow
<1>3. /\ mishaps' \in 0..MaxMishaps /\ mishaps' \in Nat
      /\ odd' \subseteq MaybeOdd /\ odd \subseteq MaybeOdd /\ lost' \subseteq Download!Dirs
      /\ DownloadHeld(w, {}, {}, lost', mishaps')
  BY <1>1, <1>2, FaultsCounted
<1>4. Part(w, Root) /\ Root \in Updates
  BY Tree DEF Part
<1>5. Startable(w, Root, {}, mishaps')
  <2>1. up[Root].st = "Fresh" /\ up[Root].timer = FALSE /\ \A p \in Download!Pieces(Root) : regions[Root][p] = 0
    BY <1>1 DEF Download!NotStarted, Download!Made, Download!Blank
  <2>2. w.up = up /\ w.regions = regions
    BY DEF Download!World
  <2> QED
    BY <2>1, <2>2, <1>3 DEF Startable, Spare, NotAtHand
<1> HIDE DEF w
<1>6. DownloadHeld(v, {}, {}, lost', mishaps')
  <2>1. {} \in SUBSET (Download!Files \cap {Root})
    OBVIOUS
  <2> QED
    BY <2>1, <1>3, <1>4, <1>5, StartHeld
<1>7. v \in Worlds
  BY <1>6 DEF DownloadHeld
<1> HIDE DEF v
<1>8. Download!World' = v
  BY <1>1, <1>7, Becomes
<1> QED
  BY <1>3, <1>6, <1>8 DEF DownloadNow

LEMMA GotPieceKeeps ==
  ASSUME NEW u \in Updates, NEW p \in Download!Pieces(u), NEW ok \in BOOLEAN, NEW okdone \in BOOLEAN,
         DownloadNow, Download!GotPiece(u, p, ok, okdone)
  PROVE  DownloadNow'
<1> DEFINE w == Download!World
           x == Download!Given(w, u, p, ok)
           v == Download!Answered(x, u, p, okdone)
<1>1. w.regions[u][p] > 0 /\ Download!Fault(ok /\ okdone) /\ Download!Become(v) /\ lost' = lost
  BY DEF Download!GotPiece, Download!World
<1>2. odd' = odd /\ lost \subseteq Download!Dirs /\ (ok /\ okdone) \in BOOLEAN
  BY <1>1 DEF Download!Become, DownloadNow
<1>3. /\ mishaps' \in 0..MaxMishaps /\ mishaps' \in Nat /\ mishaps \in Nat
      /\ ~(ok /\ okdone) => mishaps' = mishaps + 1
      /\ odd' \subseteq MaybeOdd /\ odd \subseteq MaybeOdd /\ lost' \subseteq Download!Dirs
      /\ DownloadHeld(w, {}, {}, lost', mishaps')
  BY <1>1, <1>2, FaultsCounted
<1> HIDE DEF w
<1>4. Part(w, u)
  BY <1>1, <1>3 DEF DownloadHeld, Unmade
<1>5. ok \/ Spare(w, u, mishaps')
  <2>1. Counted(w, u, mishaps)
    BY DEF DownloadNow, DownloadHeld, OwnHeld, w
  <2> QED
    BY <2>1, <1>3 DEF Counted, Spare
<1>6. /\ DownloadHeld(x, {}, {}, lost', mishaps') /\ Part(x, u) /\ x.regions[u] = w.regions[u]
      /\ x.failed = {} => DownloadHeld(x, {}, {<<u, p>>}, lost', mishaps')
  BY <1>1, <1>3, <1>4, <1>5, GivenHeld
<1> HIDE DEF x
<1>7. DownloadHeld(v, {}, {}, lost', mishaps')
  BY <1>1, <1>3, <1>6, AnsweredHeld
<1>8. v \in Worlds
  BY <1>7 DEF DownloadHeld
<1> HIDE DEF v
<1>9. Download!World' = v
  BY <1>1, <1>8, Becomes
<1> QED
  BY <1>3, <1>7, <1>9 DEF DownloadNow

LEMMA NoPieceKeeps ==
  ASSUME NEW u \in Updates, NEW p \in Download!Pieces(u), DownloadNow, Download!NoPiece(u, p)
  PROVE  DownloadNow'
<1> DEFINE w == Download!World
           x == IF u \in Download!Dirs THEN Download!SetError(w, u) ELSE Download!FileError(w, u)
           v == Download!Answered(x, u, p, TRUE)
           I == {<<u, p>>}
<1>1. /\ w.regions[u][p] > 0 /\ Download!Fault(FALSE) /\ Download!Become(v)
      /\ lost' = IF u \in Download!Dirs THEN lost \cup {u} ELSE lost
  BY DEF Download!NoPiece, Download!World
<1>2. odd' = odd /\ lost \subseteq lost' /\ lost' \subseteq Download!Dirs
  BY <1>1 DEF Download!Become, DownloadNow
<1>3. /\ mishaps' \in 0..MaxMishaps /\ mishaps' \in Nat /\ mishaps \in Nat /\ mishaps' = mishaps + 1
      /\ odd' \subseteq MaybeOdd /\ lost' \subseteq Download!Dirs
      /\ DownloadHeld(w, {}, {}, lost', mishaps')
  BY <1>1, <1>2, FaultsCounted
<1> HIDE DEF w
<1>4. Part(w, u)
  BY <1>1, <1>3 DEF DownloadHeld, Unmade
<1>5. Spare(w, u, mishaps')
  <2>1. Counted(w, u, mishaps)
    BY DEF DownloadNow, DownloadHeld, OwnHeld, w
  <2> QED
    BY <2>1, <1>3 DEF Counted, Spare
<1>6. DownloadHeld(x, {}, I, lost', mishaps') /\ Part(x, u) /\ x.regions = w.regions
  <2>1. CASE u \in Download!Dirs
    <3>1. ASSUME NEW y \in Updates PROVE OwnHeld(w, y, {}, I, lost', mishaps')
      <4>1. OwnHeld(w, y, {}, {}, lost', mishaps')
        BY <1>3 DEF DownloadHeld
      <4>2. CASE y = u
        <5>1. u \in lost' /\ u \notin Download!Files
          BY <1>1, <2>1, Tree
        <5> QED
          BY <4>1, <4>2, <5>1 DEF OwnHeld, ListHeld
      <4>3. CASE y # u
        <5>1. Ready(w, y, I) = Ready(w, y, {})
          BY <4>3 DEF Ready
        <5> QED
          BY <4>1, <5>1 DEF OwnHeld, FileHeld, ListHeld
      <4> QED
        BY <4>2, <4>3
    <3>2. DownloadHeld(w, {}, I, lost', mishaps')
      BY <1>3, <3>1 DEF DownloadHeld
    <3>3. {} \subseteq Download!Files \cap {u}
      OBVIOUS
    <3> HIDE DEF I
    <3> QED
      BY <2>1, <3>2, <3>3, <1>3, <1>4, <1>5, SetErrorHeld
  <2>2. CASE u \notin Download!Dirs
    <3>1. u \in Download!Files
      BY <2>2, Tree
    <3>2. Eases(u, {}, {u}, {}, I)
      BY DEF Eases
    <3> HIDE DEF I
    <3> QED
      BY <2>2, <3>1, <3>2, <1>3, <1>4, <1>5, FileErrorHeld
  <2> QED
    BY <2>1, <2>2
<1>7. DownloadHeld(x, {}, {}, lost', mishaps')
  BY <1>6, HeldLess
<1> HIDE DEF x
<1>8. DownloadHeld(v, {}, {}, lost', mishaps')
  BY <1>1, <1>3, <1>6, <1>7, AnsweredHeld
<1>9. v \in Worlds
  BY <1>8 DEF DownloadHeld
<1> HIDE DEF v
<1>10. Download!World' = v
  BY <1>1, <1>9, Becomes
<1> QED
  BY <1>3, <1>8, <1>10 DEF DownloadNow

LEMMA RetryKeeps ==
  ASSUME NEW u \in Updates, NEW ok \in BOOLEAN, DownloadNow, Download!RetryTimeout(u, ok)
  PROVE  DownloadNow'
<1> DEFINE w == Download!World
           rec == [w.up[u] EXCEPT !.timer = FALSE]
           x == Download!Put(w, u, rec)
           v == IF w.up[u].st = "Running" THEN x ELSE Download!StartUpdate(x, u, ok)
           T == IF w.up[u].st = "Running" THEN {} ELSE Download!Files \cap {u}
           n == mishaps'
<1>1. w.up[u].timer /\ Download!Fault(ok) /\ Download!Become(v) /\ lost' = lost
  BY DEF Download!RetryTimeout, Download!World
<1>2. odd' = odd /\ lost \subseteq Download!Dirs
  BY <1>1 DEF Download!Become, DownloadNow
<1>3. /\ n \in 0..MaxMishaps /\ n \in Nat /\ mishaps \in Nat /\ mishaps <= n
      /\ odd' \subseteq MaybeOdd /\ odd \subseteq MaybeOdd /\ lost' \subseteq Download!Dirs
      /\ DownloadHeld(w, {}, {}, lost', n)
  BY <1>1, <1>2, FaultsCounted
<1> HIDE DEF w, n
<1>4. w \in Worlds /\ w.up[u] \in Actions /\ OwnHeld(w, u, {}, {}, lost', n)
  BY <1>3, ActionTypes DEF DownloadHeld
<1>5. Part(w, u)
  BY <1>1, <1>3 DEF DownloadHeld, Unmade, Download!Blank
<1>6. Spare(w, u, n)
  <2>1. Counted(w, u, mishaps)
    BY DEF DownloadNow, DownloadHeld, OwnHeld, w
  <2>2. \A p \in Download!Pieces(u) : w.regions[u][p] \in Nat /\ w.regions[u][p] + 1 <= mishaps + 1
    BY <2>1, <1>1 DEF Counted
  <2> QED
    BY <2>2, <1>3 DEF Spare
<1>7. /\ rec \in Actions /\ rec.timer = FALSE /\ rec.st = w.up[u].st /\ rec.tot = w.up[u].tot
      /\ rec.got = w.up[u].got
  BY <1>4, TimerPut
<1> HIDE DEF rec
<1>8. Only(w, x, u) /\ x.up[u] = rec
  BY <1>4, <1>7, PutOnly
<1> HIDE DEF x
<1>9. T \in SUBSET (Download!Files \cap {u}) /\ T \subseteq {u}
  OBVIOUS
<1>10. w.up[u].st = "Running" => T = {}
  OBVIOUS
<1>11. w.up[u].st # "Running" /\ u \in Download!Files => u \in T
  OBVIOUS
<1> HIDE DEF T
<1>12. Changes(w, x, u, T) /\ Eases(u, {}, T, {}, {}) /\ n <= n /\ lost' \subseteq lost'
  BY <1>3, <1>7, <1>8, <1>9 DEF Changes, Eases, Only
<1>13. /\ x.regions = w.regions /\ x.disk = w.disk /\ x.list = w.list
       /\ \A y \in Updates \ {u} : x.up[y] = w.up[y]
  BY <1>8 DEF Only
<1>14. Ready(x, u, {}) = Ready(w, u, {})
  BY <1>13 DEF Ready
<1>15. Counted(x, u, n)
  <2>1. Counted(w, u, n)
    BY <1>4 DEF OwnHeld
  <2>2. \A p \in Download!Pieces(u) : w.regions[u][p] \in Nat /\ w.regions[u][p] <= n
    BY <2>1, <1>6 DEF Counted, Spare
  <2>3. \A p \in Download!Pieces(u) : w.regions[u][p] + 0 <= n + 1
    BY <2>2, <1>3
  <2> QED
    BY <2>1, <2>3, <1>7, <1>8, <1>13 DEF Counted
<1>16. ASSUME u \in Download!Files PROVE FileSound(x, u) /\ (u \notin T => FileHeld(x, u, {}))
  <2>1. FileSound(w, u) /\ FileHeld(w, u, {})
    BY <1>4, <1>16 DEF OwnHeld
  <2>2. FileSound(x, u)
    BY <2>1, <1>7, <1>8, <1>13 DEF FileSound
  <2>3. ASSUME u \notin T PROVE FileHeld(x, u, {})
    <3>1. w.up[u].st = "Running"
      BY <1>11, <1>16, <2>3
    <3> QED
      BY <2>1, <3>1, <1>7, <1>8, <1>13, <1>14 DEF FileHeld
  <2> QED
    BY <2>2, <2>3
<1>17. ASSUME u \in Download!Dirs PROVE ListHeld(x, u, {}, lost') /\ SumsTold(x, u)
  <2>1. ListHeld(w, u, {}, lost') /\ SumsTold(w, u) /\ Ordered(w.list[u], u)
    BY <1>4, <1>17 DEF OwnHeld, ListHeld
  <2>2. \A k \in DOMAIN w.list[u].parts : x.up[w.list[u].parts[k]] = w.up[w.list[u].parts[k]]
    <3> SUFFICES ASSUME NEW k \in 1..Len(w.list[u].parts)
                 PROVE  x.up[w.list[u].parts[k]] = w.up[w.list[u].parts[k]]
      BY <1>4, <1>17, ListTypes
    <3>1. w.list[u].parts[k] \in Updates \ {u}
      BY <1>4, <1>17, <2>1, PartsAreEntries
    <3> QED
      BY <3>1, <1>13
  <2>3. ListHeld(x, u, {}, lost')
    BY <2>1, <2>2, <1>7, <1>8, <1>13, <1>14 DEF ListHeld, Has
  <2>4. Download!TotOf(x, u) = Download!TotOf(w, u) /\ Download!GotOf(x, u) = Download!GotOf(w, u)
    BY <2>2, <1>13, SumsSame
  <2> QED
    BY <2>1, <2>3, <2>4, <1>7, <1>8 DEF SumsTold
<1>18. OwnHeld(x, u, T, {}, lost', n)
  BY <1>15, <1>16, <1>17 DEF OwnHeld
<1>19. DownloadHeld(x, T, {}, lost', n) /\ Part(x, u)
  <2>1. DownloadHeld(x, T, {}, lost', n)
    BY <1>3, <1>5, <1>12, <1>18, Changed
  <2> QED
    BY <2>1, <1>5, <1>13 DEF Part
<1>20. DownloadHeld(v, {}, {}, lost', n)
  <2>1. CASE w.up[u].st = "Running"
    BY <2>1, <1>10, <1>19
  <2>2. CASE w.up[u].st # "Running"
    <3>1. Startable(x, u, {}, n)
      BY <2>2, <1>6, <1>7, <1>8, <1>13 DEF Startable, Spare, NotAtHand
    <3>2. DownloadHeld(Download!StartUpdate(x, u, ok), {}, {}, lost', n)
      BY <3>1, <1>3, <1>9, <1>19, StartHeld
    <3> QED
      BY <2>2, <3>2
  <2> QED
    BY <2>1, <2>2
<1>21. v \in Worlds
  BY <1>20 DEF DownloadHeld
<1> HIDE DEF v
<1>22. Download!World' = v
  BY <1>1, <1>21, Becomes
<1> QED
  BY <1>3, <1>20, <1>22 DEF DownloadNow, n

LEMMA DownloadKept ==
  ASSUME DownloadNow, [Download!Next]_(Download!vars)
  PROVE  DownloadNow'
<1>1. ASSUME NEW ok \in BOOLEAN, Download!Start(ok) PROVE DownloadNow'
  BY <1>1, StartKeeps
<1>2. ASSUME NEW u \in Updates, Download!Answer(u) PROVE DownloadNow'
  <2>1. PICK p \in Download!Pieces(u) :
          \/ Download!NoPiece(u, p)
          \/ \E ok, okdone \in BOOLEAN : Download!GotPiece(u, p, ok, okdone)
    BY <1>2 DEF Download!Answer
  <2>2. CASE Download!NoPiece(u, p)
    BY <2>2, NoPieceKeeps
  <2>3. ASSUME NEW ok \in BOOLEAN, NEW okdone \in BOOLEAN, Download!GotPiece(u, p, ok, okdone)
        PROVE  DownloadNow'
    BY <2>3, GotPieceKeeps
  <2> QED
    BY <2>1, <2>2, <2>3
<1>3. ASSUME NEW u \in Updates, NEW ok \in BOOLEAN, Download!RetryTimeout(u, ok) PROVE DownloadNow'
  BY <1>3, RetryKeeps
<1>4. ASSUME UNCHANGED Download!vars PROVE DownloadNow'
  <2>1. Download!World' = Download!World /\ odd' = odd /\ mishaps' = mishaps /\ lost' = lost
    BY <1>4 DEF Download!vars, Download!World
  <2> QED
    BY <2>1 DEF DownloadNow
<1> QED
  BY <1>1, <1>2, <1>3, <1>4 DEF Download!Next

-----------------------------------------------------------------------------
(***************************************************************************)
(* What follows for what the user gets and sees.                           *)
(***************************************************************************)
LEMMA TypesNow == ASSUME DownloadNow PROVE Download!TypeOK
<1> DEFINE w == Download!World
<1>1. /\ w.up = up /\ w.regions = regions /\ w.disk = disk /\ w.list = list /\ w.failed = aborted
  BY DEF Download!World
<1>2. DownloadHeld(w, {}, {}, lost, mishaps) /\ w \in Worlds
  BY DEF DownloadNow, DownloadHeld
<1>3. MaxMishaps \in Nat /\ mishaps \in 0..MaxMishaps
  BY Tree DEF DownloadNow
<1> HIDE DEF w
<1>4. ASSUME NEW u \in Updates
      PROVE  /\ up[u].st \in Download!Statuses /\ up[u].timer \in BOOLEAN
             /\ up[u].tot \in Nat /\ up[u].got \in 0..up[u].tot /\ up[u].nerr \in Nat
             /\ \A p \in Download!Pieces(u) : regions[u][p] \in 0..(MaxMishaps + 1)
  <2>1. Counted(w, u, mishaps)
    BY <1>2 DEF DownloadHeld, OwnHeld
  <2>2. /\ w.up[u].st \in Download!Statuses /\ w.up[u].timer \in BOOLEAN
        /\ w.up[u].tot \in Nat /\ w.up[u].got \in Nat /\ w.up[u].nerr \in Nat
    BY <1>2, ActionTypes
  <2>3. w.up[u].got \in 0..w.up[u].tot
    BY <2>1, <2>2 DEF Counted
  <2>4. ASSUME NEW p \in Download!Pieces(u) PROVE w.regions[u][p] \in 0..(MaxMishaps + 1)
    <3>1. w.regions[u][p] \in Nat /\ w.regions[u][p] + (IF w.up[u].timer THEN 1 ELSE 0) <= mishaps + 1
      BY <2>1 DEF Counted
    <3> QED
      BY <3>1, <1>3
  <2> QED
    BY <2>2, <2>3, <2>4, <1>1
<1>5. ASSUME NEW f \in Download!Files
      PROVE  /\ disk[f].tmp \in BOOLEAN /\ disk[f].written \subseteq Download!Pieces(f)
             /\ disk[f].file \in {"none", "whole", "partial"}
  <2>1. w.disk[f] \in Disks
    BY <1>2, WorldTypes
  <2>2. FileSound(w, f)
    BY <1>2, Tree DEF DownloadHeld, OwnHeld
  <2> QED
    BY <2>1, <2>2, <1>1, PiecesOfFile DEF Disks, FileSound
<1>6. ASSUME NEW d \in Download!Dirs
      PROVE  Len(list[d].recs) = Len(list[d].parts) /\ list[d].done \in BOOLEAN
  <2>1. Ordered(w.list[d], d)
    BY <1>2, Tree DEF DownloadHeld, OwnHeld, ListHeld
  <2> QED
    BY <2>1, <1>1, <1>2, ListTypes DEF Ordered
<1>7. aborted \subseteq {"done", "bytes", "order"}
  BY <1>1, <1>2, WorldTypes
<1> QED
  BY <1>4, <1>5, <1>6, <1>7 DEF Download!TypeOK, DownloadNow

LEMMA WholeNow == ASSUME DownloadNow PROVE DownloadsWhole
<1> DEFINE w == Download!World
<1>1. /\ w.up = up /\ w.disk = disk /\ w.list = list
  BY DEF Download!World
<1>2. DownloadHeld(w, {}, {}, lost, mishaps) /\ w \in Worlds
  BY DEF DownloadNow, DownloadHeld
<1> HIDE DEF w
<1>3. Download!FilesWhole
  <2> SUFFICES ASSUME NEW f \in Download!Files, up[f].st = "Success" PROVE disk[f].file = "whole"
    BY DEF Download!FilesWhole
  <2>1. FileSound(w, f)
    BY <1>2, Tree DEF DownloadHeld, OwnHeld
  <2> QED
    BY <2>1, <1>1 DEF FileSound
<1>4. \A d \in Download!Dirs : ListHeld(w, d, {}, lost) /\ Ordered(w.list[d], d)
  BY <1>2, Tree DEF DownloadHeld, OwnHeld, ListHeld
<1>5. Download!EntriesOrdered
  <2> SUFFICES ASSUME NEW d \in Download!Dirs
               PROVE  /\ \A n \in DOMAIN list[d].recs : list[d].parts[n] = Entries[d][list[d].recs[n] + 1]
                      /\ \A m, n \in DOMAIN list[d].recs : m < n => list[d].recs[m] < list[d].recs[n]
    BY DEF Download!EntriesOrdered
  <2> QED
    BY <1>1, <1>4 DEF Ordered
<1>6. Download!DirsWhole
  <2> SUFFICES ASSUME NEW d \in Download!Dirs, d \notin lost, up[d].st = "Success"
               PROVE  /\ list[d].parts = Entries[d]
                      /\ \A n \in DOMAIN list[d].parts : up[list[d].parts[n]].st = "Success"
    BY DEF Download!DirsWhole
  <2> DEFINE l == w.list[d]
             N == Len(Entries[d])
  <2>1. /\ l.done /\ \A n \in DOMAIN l.parts : w.up[l.parts[n]].st = "Success"
        /\ \A r \in 0..N - 1 : Has(w, d, r)
    BY <1>1, <1>4 DEF ListHeld
  <2>2. /\ l.recs \in Seq(Nat) /\ l.parts \in Seq(Updates) /\ Len(l.parts) = Len(l.recs)
        /\ DOMAIN l.recs = 1..Len(l.recs) /\ N \in Nat
    BY <1>2, <1>4, ListTypes, EntriesOf DEF Ordered
  <2>3. Rising(l.recs)
    BY <2>2, <1>4 DEF Rising, Ordered
  <2>4. Listed(l.recs, N)
    BY <2>1, <2>2, <1>4 DEF Listed, Ordered, Has
  <2>5. Len(l.recs) = N /\ \A n \in 1..Len(l.recs) : l.recs[n] = n - 1
    BY <2>2, <2>3, <2>4, AllListed
  <2>6. ASSUME NEW n \in 1..N PROVE l.parts[n] = Entries[d][n]
    <3>1. l.parts[n] = Entries[d][l.recs[n] + 1]
      BY <2>2, <2>5, <1>4 DEF Ordered
    <3>2. l.recs[n] + 1 = n
      BY <2>2, <2>5
    <3> QED
      BY <3>1, <3>2
  <2>7. Entries[d] \in Seq(Updates)
    <3>1. Entries[d] \in Seq(Updates \ {Root})
      BY UpdateAssumption DEF Download!UpdateAssumption
    <3>2. Seq(Updates \ {Root}) \subseteq Seq(Updates)
      BY ONLY Updates \ {Root} \subseteq Updates
    <3> QED
      BY <3>1, <3>2
  <2> HIDE DEF l
  <2>8. l.parts = Entries[d]
    <3> DEFINE s == l.parts
               t == Entries[d]
    <3>1. s \in Seq(Updates) /\ t \in Seq(Updates) /\ Len(s) = N /\ Len(t) = N /\ \A n \in 1..N : s[n] = t[n]
      BY <2>2, <2>5, <2>6, <2>7
    <3> HIDE DEF s, t, N
    <3>2. s \in [1..N -> Updates] /\ t \in [1..N -> Updates]
      BY ONLY <3>1
    <3>3. s = [n \in 1..N |-> s[n]] /\ t = [n \in 1..N |-> t[n]]
      BY ONLY <3>2
    <3>4. [n \in 1..N |-> s[n]] = [n \in 1..N |-> t[n]]
      BY ONLY <3>1
    <3>5. s = t
      BY ONLY <3>3, <3>4
    <3> QED
      BY <3>5 DEF s, t
  <2> QED
    BY <2>1, <2>8, <1>1 DEF l
<1>7. Download!TypeOK
  BY TypesNow
<1> QED
  BY <1>3, <1>5, <1>6, <1>7 DEF DownloadsWhole, Download!DownloadsWhole

LEMMA CountsNow == ASSUME DownloadNow PROVE CountsTrue
<1> DEFINE w == Download!World
<1>1. w.up = up /\ w.failed = aborted
  BY DEF Download!World
<1>2. "bytes" \notin w.failed /\ \A d \in Download!Dirs : SumsTold(w, d)
  BY Tree DEF DownloadNow, DownloadHeld, OwnHeld
<1>3. Download!TotalsTrue
  BY <1>1, <1>2 DEF Download!TotalsTrue, SumsTold
<1>4. Download!BytesCounted
  BY <1>1, <1>2 DEF Download!BytesCounted
<1> QED
  BY <1>3, <1>4 DEF CountsTrue, Download!CountsTrue

LEMMA RetriedNow == ASSUME DownloadNow PROVE ErrorsRetried
<1> DEFINE w == Download!World
<1>1. w.up = up
  BY DEF Download!World
<1>2. \A f \in Download!Files : FileHeld(w, f, {})
  BY Tree DEF DownloadNow, DownloadHeld, OwnHeld
<1> QED
  BY <1>1, <1>2 DEF ErrorsRetried, Download!ErrorsRetried, FileHeld

\* What is held of downloads, of every tree, every number of faults and every
\* order of the answers.
LEMMA DownloadAlways == DownloadSpec => []DownloadNow
<1>1. Download!Init => DownloadNow
  BY InitHeld
<1>2. DownloadNow /\ [Download!Next]_(Download!vars) => DownloadNow'
  BY DownloadKept
<1> QED
  BY <1>1, <1>2, PTL DEF DownloadSpec, Download!Spec

\* update.cc and the directory reader of file.cc: a file that was downloaded is
\* there with all its chunks, and a directory whose blocks were all found
\* succeeds only with all its parts in their order, each of which did.
THEOREM DownloadsAreWhole == DownloadSpec => []DownloadsWhole
<1>1. DownloadNow => DownloadsWhole
  BY WholeNow
<1> QED
  BY <1>1, DownloadAlways, PTL

\* update.cc:163 and DirReader::check: a directory at work shows the sums of what
\* its parts show, and a file's bytes are all counted when it has been read.
THEOREM DownloadsCounted == DownloadSpec => []CountsTrue
<1>1. DownloadNow => CountsTrue
  BY CountsNow
<1> QED
  BY <1>1, DownloadAlways, PTL

\* action.h:85: a file with an error has a timer that starts it again.
THEOREM DownloadErrorsRetried == DownloadSpec => []ErrorsRetried
<1>1. DownloadNow => ErrorsRetried
  BY RetriedNow
<1> QED
  BY <1>1, DownloadAlways, PTL
=============================================================================
