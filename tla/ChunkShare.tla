----------------------------- MODULE ChunkShare -----------------------------
(***************************************************************************)
(* Chunk sharing (filesyncbox): one host's chunk_share singleton with the  *)
(* chunk_peer object it keeps per remote host, the readers that ask it for *)
(* chunks, and the remote hosts, which run the answering half of the same  *)
(* chunk_peer code.                                                        *)
(*                                                                         *)
(* The code is single threaded and event driven, so a handler runs to its  *)
(* end before the next event.  Two handlers leave their own code in the    *)
(* middle: they call a reader back (got_data, no_data), and the reader may *)
(* call read_chunk again before it returns.  Those two are split into      *)
(* steps by the variables "call" and "sweep"; no other handler runs until  *)
(* both are at rest.                                                       *)
(***************************************************************************)
EXTENDS Integers, Sequences, FiniteSets

CONSTANTS
  Readers,      \* abstract_chunk_reader objects
  Peers,        \* remote hosts
  Chunks,       \* outer hashes of chunks
  LocalChunks,  \* the chunks Store::readStores finds on this host
  NoChunk,      \* the empty byte_array
  Faults,       \* what may go wrong: "disconnect", "lose", "corrupt", "reread"
  MaxReads      \* bound: calls of read_chunk in a behaviour

ASSUME ChunkAssumption == /\ IsFiniteSet(Chunks)
                          /\ LocalChunks \subseteq Chunks
                          /\ NoChunk \notin Chunks
                          /\ MaxReads \in Nat

VARIABLES
  requests,     \* the hashes with an entry in chunk_share::requests
  readers,      \* request::readers, by hash
  potentials,   \* request::potentials, by hash
  status,       \* request::status, by hash and peer; "none" is no entry
  peers,        \* the hosts with an entry in chunk_share::peers
  wishlist,     \* chunk_peer::wishlist_, by peer
  current,      \* chunk_peer::current_, by peer
  connected,    \* the peers whose outgoing stream is connected
  toPeer,       \* messages of that stream on their way to the peer
  fromPeer,     \* messages of that stream on their way to us
  stores,       \* the chunks each peer can read from its stores
  call,         \* the loop over a request's readers that is under way
  sweep,        \* the requests remove_from_requests has yet to visit
  pending,      \* history: the reads that have had no answer yet
  reads         \* history: number of reads, for the bound

reqVars  == <<requests, readers, potentials, status>>
peerVars == <<peers, wishlist, current>>
netVars  == <<connected, toPeer, fromPeer>>
ctlVars  == <<call, sweep>>
histVars == <<pending, reads>>
vars == <<reqVars, peerVars, netVars, stores, ctlVars, histVars>>

ChunkStatus == {"none", "invalid", "online", "unknown", "lost"}
Request == [type : {"status_request", "chunk_request"}, ohash : Chunks]
Reply ==
  [type : {"status_reply"}, ohash : Chunks, body : {"online", "unknown"}]
    \cup [type : {"chunk_reply"}, ohash : Chunks, body : {"data", "bad", "empty"}]

StatusRequest(c) == [type |-> "status_request", ohash |-> c]
ChunkRequest(c)  == [type |-> "chunk_request", ohash |-> c]
StatusReply(c, st)  == [type |-> "status_reply", ohash |-> c, body |-> st]
ChunkReply(c, data) == [type |-> "chunk_reply", ohash |-> c, body |-> data]

NoCall == [kind |-> "none", ohash |-> NoChunk, left |-> {}, begun |-> FALSE]
CallReaders(kind, c) ==
  [kind |-> kind, ohash |-> c, left |-> readers[c], begun |-> FALSE]

\* No handler is suspended in a call to a reader.
AtRest == call = NoCall /\ sweep = {}

Init ==
  /\ requests = {}
  /\ readers = [c \in Chunks |-> {}]
  /\ potentials = [c \in Chunks |-> {}]
  /\ status = [c \in Chunks |-> [p \in Peers |-> "none"]]
  /\ peers = {}
  /\ wishlist = [p \in Peers |-> {}]
  /\ current = [p \in Peers |-> NoChunk]
  /\ connected = {}
  /\ toPeer = [p \in Peers |-> <<>>]
  /\ fromPeer = [p \in Peers |-> <<>>]
  /\ stores \in [Peers -> SUBSET Chunks]
  /\ call = NoCall
  /\ sweep = {}
  /\ pending = {}
  /\ reads = 0

\* peer(hostid, true) of chunk_share: find or create the chunk_peer of a host.
FindOrCreate(p) == peers \cup {p}

\* The peers that send_status_request gets through to.
Reachable == connected

-----------------------------------------------------------------------------
(* The request table. *)

\* Slip: the answered request stays in the table.
KeepsRequest(c) ==
  /\ potentials' = [potentials EXCEPT ![c] = {}]
  /\ status' = [status EXCEPT ![c] = [p \in Peers |-> "none"]]
  /\ UNCHANGED <<requests, readers>>

\* requests.remove(ohash); delete req
Forget(c) ==
  /\ requests' = requests \ {c}
  /\ readers' = [readers EXCEPT ![c] = {}]
  /\ potentials' = [potentials EXCEPT ![c] = {}]
  /\ status' = [status EXCEPT ![c] = [p \in Peers |-> "none"]]

\* Slip: the peer stays among the potential sources.
SameSources(p, c) == potentials[c]

\* p stops being a potential source of c, and check_request follows: with
\* nowhere left to look the request is removed first, then its readers are
\* told.
OtherSources(p, c) == potentials[c] \ {p}

DropPotential(p, c, st) ==
  IF OtherSources(p, c) = {}
  THEN /\ Forget(c)
       /\ call' = CallReaders("no_data", c)
  ELSE /\ potentials' = [potentials EXCEPT ![c] = OtherSources(p, c)]
       /\ status' = [status EXCEPT ![c][p] = st]
       /\ UNCHANGED <<requests, readers, call>>

\* read_chunk: the local stores first, then request_chunk, which asks every
\* connected peer for its status.  A reader calls it from the event loop or
\* from inside a callback.
ReadChunk(r, c) ==
  /\ reads < MaxReads
  /\ <<r, c>> \notin pending
  /\ AtRest \/ call.begun
  /\ call.kind = "got_data" /\ call.ohash = c => "reread" \in Faults
  /\ reads' = reads + 1
  /\ IF c \in LocalChunks
     THEN UNCHANGED <<reqVars, toPeer, pending>>
     ELSE /\ requests' = requests \cup {c}
          /\ readers' = [readers EXCEPT ![c] = @ \cup {r}]
          /\ potentials' = [potentials EXCEPT ![c] = @ \cup Reachable]
          /\ status' = [status EXCEPT ![c] =
                          [p \in Peers |-> IF p \in Reachable THEN "invalid" ELSE @[p]]]
          /\ toPeer' = [p \in Peers |-> IF p \in connected
                                        THEN Append(toPeer[p], StatusRequest(c))
                                        ELSE toPeer[p]]
          /\ pending' = pending \cup {<<r, c>>}
  /\ UNCHANGED <<peerVars, connected, fromPeer, stores, ctlVars>>

-----------------------------------------------------------------------------
(* Giving peers work. *)

\* Slip: no test that the peer is busy already.
CanWorkBusy(p, cur, wish) == p \in connected /\ wish[p] # {}

\* A peer that check_work can give something to do.
CanWork(p, cur, wish) == p \in connected /\ cur[p] = NoChunk /\ wish[p] # {}

\* Slip: disconnected peers are skipped.
NoOneElseConnected(pick, p) == \A q \in connected \ {p} : pick[q] # pick[p]

\* No other peer, connected or not, is left downloading the chunk p is.
NoOneElse(pick, p) == \A q \in Peers \ {p} : pick[q] # pick[p]

\* check_peers: check_work of every peer in turn, in no particular order.
\* "pick" is the chunk each peer is left downloading and "keep" its wishlist:
\* an idle connected peer takes a wanted chunk no one is downloading, drops
\* the unwanted ones it met before it found one, and goes without only when
\* every chunk it has is being downloaded by another.
CheckPeers(reqs, wish, cur, out) ==
  LET Wanted(p) == wish[p] \cap reqs
  IN \E pick \in [Peers -> Chunks \cup {NoChunk}], keep \in [Peers -> SUBSET Chunks] :
       /\ \A p \in Peers :
            IF CanWork(p, cur, wish)
            THEN /\ pick[p] \in Wanted(p) \cup {NoChunk}
                 /\ Wanted(p) \subseteq keep[p] /\ keep[p] \subseteq wish[p]
                 /\ pick[p] # NoChunk => NoOneElse(pick, p)
                 /\ pick[p] = NoChunk =>
                      /\ keep[p] = Wanted(p)
                      /\ \A c \in Wanted(p) : \E q \in Peers : pick[q] = c
            ELSE pick[p] = cur[p] /\ keep[p] = wish[p]
       /\ current' = pick
       /\ wishlist' = keep
       /\ toPeer' = [p \in Peers |-> IF CanWork(p, cur, wish) /\ pick[p] # NoChunk
                                     THEN Append(out[p], ChunkRequest(pick[p]))
                                     ELSE out[p]]

-----------------------------------------------------------------------------
(* Messages from a peer: peer_read_message takes one and dispatches it. *)

Receive(p, type) ==
  /\ AtRest
  /\ fromPeer[p] # <<>>
  /\ Head(fromPeer[p]).type = type
  /\ fromPeer' = [fromPeer EXCEPT ![p] = Tail(@)]

\* wishlist.insert(ohash)
Wishing(p, c) == [wishlist EXCEPT ![p] = @ \cup {c}]

GotStatusReply(p) ==
  /\ Receive(p, "status_reply")
  /\ LET c == Head(fromPeer[p]).ohash
         st == Head(fromPeer[p]).body
     IN \/ /\ c \notin requests          \* useless reply for an undesired chunk
           /\ UNCHANGED <<reqVars, wishlist, current, toPeer, call>>
        \/ /\ c \in requests
           /\ st = "online"
           /\ status' = [status EXCEPT ![c][p] = "online"]
           /\ CheckPeers(requests, Wishing(p, c), current, toPeer)
           /\ UNCHANGED <<requests, readers, potentials, call>>
        \/ /\ c \in requests
           /\ st # "online"
           /\ DropPotential(p, c, st)
           /\ UNCHANGED <<wishlist, current, toPeer>>
  /\ UNCHANGED <<peers, connected, stores, sweep, histVars>>

\* The early return for an undesired chunk leaves current as it is.  A good
\* chunk goes to the readers while its request is still in the table.
GotChunkReply(p) ==
  /\ Receive(p, "chunk_reply")
  /\ LET c == Head(fromPeer[p]).ohash
         data == Head(fromPeer[p]).body
     IN \/ /\ c \notin requests
           /\ UNCHANGED <<reqVars, wishlist, current, call>>
        \/ /\ c \in requests
           /\ wishlist' = [wishlist EXCEPT ![p] = @ \ {c}]
           /\ current' = [current EXCEPT ![p] = IF @ = c THEN NoChunk ELSE @]
           /\ IF data = "data"
              THEN /\ call' = CallReaders("got_data", c)
                   /\ UNCHANGED reqVars
              ELSE DropPotential(p, c, "lost")
  /\ UNCHANGED <<peers, connected, toPeer, stores, sweep, histVars>>

-----------------------------------------------------------------------------
(* Calling the readers back. *)

\* reader->gotData() or reader->noData() for one reader of the loop.
CallReader(r) ==
  /\ r \in call.left
  /\ call' = [call EXCEPT !.left = @ \ {r}, !.begun = TRUE]
  /\ pending' = pending \ {<<r, call.ohash>>}
  /\ UNCHANGED <<reqVars, peerVars, netVars, stores, sweep, reads>>

\* After the loop of check_request: the request is already gone.
EndNoData ==
  /\ call.kind = "no_data" /\ call.left = {}
  /\ call' = NoCall
  /\ UNCHANGED <<reqVars, peerVars, netVars, stores, sweep, histVars>>

\* After the loop of got_chunk_reply: only now is the request removed.
EndGotData ==
  /\ call.kind = "got_data" /\ call.left = {}
  /\ call' = NoCall
  /\ Forget(call.ohash)
  /\ CheckPeers(requests \ {call.ohash}, wishlist, current, toPeer)
  /\ UNCHANGED <<peers, connected, fromPeer, stores, sweep, histVars>>

-----------------------------------------------------------------------------
(* Streams. *)

\* Slip: outstanding requests are not sent to a new connection.
NothingResent == {}

\* The requests whose status is asked again when a peer connects.
Resent == requests

\* got_out_stream_connected: the peer is asked again about every request.
GotOutStreamConnected(p) ==
  /\ AtRest
  /\ p \notin connected
  /\ connected' = connected \cup {p}
  /\ peers' = FindOrCreate(p)
  /\ current' = [current EXCEPT ![p] = NoChunk]
  /\ \E order \in [1 .. Cardinality(Resent) -> Resent] :
       /\ \A c \in Resent : \E i \in DOMAIN order : order[i] = c
       /\ toPeer' = [toPeer EXCEPT ![p] = [i \in DOMAIN order |-> StatusRequest(order[i])]]
  /\ potentials' = [c \in Chunks |-> IF c \in Resent THEN potentials[c] \cup {p}
                                                       ELSE potentials[c]]
  /\ status' = [c \in Chunks |-> IF c \in Resent THEN [status[c] EXCEPT ![p] = "invalid"]
                                                   ELSE status[c]]
  /\ UNCHANGED <<requests, readers, wishlist, fromPeer, stores, ctlVars, histVars>>

\* got_out_stream_disconnected: what the stream carried is lost, and
\* remove_from_requests starts over a copy of the table.
GotOutStreamDisconnected(p) ==
  /\ "disconnect" \in Faults
  /\ AtRest
  /\ p \in connected
  /\ connected' = connected \ {p}
  /\ toPeer' = [toPeer EXCEPT ![p] = <<>>]
  /\ fromPeer' = [fromPeer EXCEPT ![p] = <<>>]
  /\ sweep' = {<<p, c>> : c \in requests}
  /\ UNCHANGED <<reqVars, peerVars, stores, call, histVars>>

\* remove_from_requests, one request of the copy.
RemoveFromRequest(p, c) ==
  /\ call = NoCall
  /\ <<p, c>> \in sweep
  /\ sweep' = sweep \ {<<p, c>>}
  /\ DropPotential(p, c, "none")
  /\ UNCHANGED <<peerVars, netVars, stores, histVars>>

GotInStreamConnected(p) ==
  /\ AtRest
  /\ peers' = FindOrCreate(p)
  /\ UNCHANGED <<reqVars, wishlist, current, netVars, stores, ctlVars, histVars>>

-----------------------------------------------------------------------------
(* The remote host: the answering half of chunk_peer, over its own stores. *)

\* It takes one message of the stream and writes the reply to it.
Answer(p, type, reply) ==
  /\ toPeer[p] # <<>>
  /\ Head(toPeer[p]).type = type
  /\ toPeer' = [toPeer EXCEPT ![p] = Tail(@)]
  /\ fromPeer' = [fromPeer EXCEPT ![p] = Append(@, reply)]
  /\ UNCHANGED <<reqVars, peerVars, connected, stores, ctlVars, histVars>>

GotStatusRequest(p) ==
  LET c == Head(toPeer[p]).ohash
  IN Answer(p, "status_request",
            StatusReply(c, IF c \in stores[p] THEN "online" ELSE "unknown"))

GotChunkRequest(p) ==
  LET c == Head(toPeer[p]).ohash
  IN Answer(p, "chunk_request",
            ChunkReply(c, IF c \in stores[p] THEN "data" ELSE "empty"))

\* A store may return what does not match its hash any more.
GotChunkRequestCorrupt(p) ==
  LET c == Head(toPeer[p]).ohash
  IN /\ "corrupt" \in Faults
     /\ Answer(p, "chunk_request", ChunkReply(c, "bad"))
     /\ c \in stores[p]

\* A scan adds chunks to a peer's stores, a changed file takes them away.
StoreChanges(p, c) ==
  /\ "lose" \in Faults
  /\ stores' = [stores EXCEPT ![p] = IF c \in @ THEN @ \ {c} ELSE @ \cup {c}]
  /\ UNCHANGED <<reqVars, peerVars, netVars, ctlVars, histVars>>

-----------------------------------------------------------------------------

Next ==
  \/ \E r \in Readers, c \in Chunks : ReadChunk(r, c)
  \/ \E r \in Readers : CallReader(r)
  \/ EndNoData
  \/ EndGotData
  \/ \E p \in Peers :
       \/ GotStatusReply(p)
       \/ GotChunkReply(p)
       \/ GotOutStreamConnected(p)
       \/ GotOutStreamDisconnected(p)
       \/ GotInStreamConnected(p)
       \/ GotStatusRequest(p)
       \/ GotChunkRequest(p)
       \/ GotChunkRequestCorrupt(p)
  \/ \E p \in Peers, c \in Chunks : RemoveFromRequest(p, c) \/ StoreChanges(p, c)

Spec == Init /\ [][Next]_vars

\* The remote half always answers what reaches it, arriving replies are read,
\* and PeerService keeps retrying a host that is not connected.
Fairness ==
  /\ \A r \in Readers : WF_vars(CallReader(r))
  /\ WF_vars(EndNoData) /\ WF_vars(EndGotData)
  /\ \A p \in Peers :
       /\ WF_vars(GotStatusReply(p)) /\ WF_vars(GotChunkReply(p))
       /\ WF_vars(GotStatusRequest(p)) /\ WF_vars(GotChunkRequest(p))
       /\ WF_vars(GotOutStreamConnected(p))
  /\ \A p \in Peers, c \in Chunks : WF_vars(RemoveFromRequest(p, c))

FairSpec == Spec /\ Fairness

-----------------------------------------------------------------------------
(* Properties. *)

TypeOK ==
  /\ requests \subseteq Chunks
  /\ readers \in [Chunks -> SUBSET Readers]
  /\ potentials \in [Chunks -> SUBSET Peers]
  /\ status \in [Chunks -> [Peers -> ChunkStatus]]
  /\ peers \subseteq Peers
  /\ wishlist \in [Peers -> SUBSET Chunks]
  /\ current \in [Peers -> Chunks \cup {NoChunk}]
  /\ connected \subseteq peers
  /\ toPeer \in [Peers -> Seq(Request)]
  /\ fromPeer \in [Peers -> Seq(Reply)]
  /\ stores \in [Peers -> SUBSET Chunks]
  /\ call \in [kind : {"none", "got_data", "no_data"}, ohash : Chunks \cup {NoChunk},
               left : SUBSET Readers, begun : BOOLEAN]
  /\ sweep \subseteq Peers \X Chunks
  /\ pending \subseteq Readers \X Chunks
  /\ reads \in 0 .. MaxReads

\* No two peers are downloading the same chunk: check_work gives a peer a
\* chunk only when "no one else is downloading" it (chunk_peer.cpp:72-73),
\* whatever connects, fails or is asked again in between.
ExclusiveDownload ==
  \A p, q \in Peers : current[p] = current[q] /\ current[p] # NoChunk => p = q

\* The chunk messages of a stream, request or reply, are at most one, and for
\* the chunk cur.
OneChunkMessage(to, from, cur) ==
  LET Asked == {i \in DOMAIN to : to[i].type = "chunk_request"}
      Sent  == {i \in DOMAIN from : from[i].type = "chunk_reply"}
  IN /\ \A i \in Asked : to[i].ohash = cur
     /\ \A i \in Sent : from[i].ohash = cur
     /\ \A i, j \in Asked : i = j
     /\ \A i, j \in Sent : i = j
     /\ Asked = {} \/ Sent = {}

\* A peer has at most one chunk underway, the one recorded as its current chunk,
\* so that the branch "received a chunk we weren't expecting" (chunk_peer.cpp:242)
\* is never taken.
NoUnexpectedChunk ==
  \A p \in Peers : OneChunkMessage(toPeer[p], fromPeer[p], current[p])

\* A peer is a potential source only while its stream is connected (or the
\* sweep that follows its disconnection has yet to reach the request), so that
\* a request never waits for a host that is gone.
PotentialsReachable ==
  \A c \in Chunks : \A p \in potentials[c] : p \in connected \/ <<p, c>> \in sweep

\* A peer whose status for a chunk is still the InvalidStatus placeholder
\* has a question or an answer about that chunk in flight (or is being swept):
\* no request waits for a status reply that cannot come.
InvalidMeansAsked ==
  \A c \in Chunks, p \in Peers :
    status[c][p] = "invalid" =>
      \/ \E i \in DOMAIN toPeer[p] : toPeer[p][i] = StatusRequest(c)
      \/ \E i \in DOMAIN fromPeer[p] :
           fromPeer[p][i].type = "status_reply" /\ fromPeer[p][i].ohash = c
      \/ <<p, c>> \in sweep

\* A potential source that answered has answered "online", and then either the
\* chunk is on its wishlist or it is the chunk now being handed to the readers:
\* check_peers cannot overlook a source that a request still counts on.
SourceIsWished ==
  \A c \in Chunks : \A p \in potentials[c] :
    /\ status[c][p] \in {"invalid", "online"}
    /\ status[c][p] = "online" =>
         c \in wishlist[p] \/ (call.kind = "got_data" /\ call.ohash = c)

\* Whoever is about to be called back has a read outstanding: no reader gets
\* two answers for one read, nor an answer to a read it never made.
OnlyPendingAnswered ==
  \A r \in call.left : <<r, call.ohash>> \in pending

\* The bookkeeping in full: a read is outstanding exactly when its reader is in
\* the request's set, and not yet in a loop over it, or still ahead in the loop
\* that is calling readers.  No request is without readers.
ReadersMatchReads ==
  /\ \A r \in Readers, c \in Chunks :
       <<r, c>> \in pending <=>
         \/ r \in readers[c] /\ ~(call.kind = "got_data" /\ call.ohash = c)
         \/ r \in call.left /\ call.ohash = c
  /\ \A c \in Chunks : c \in requests <=> readers[c] # {}
  /\ call.kind = "none" => call = NoCall
  /\ call.kind # "none" => call.ohash \in Chunks
  /\ call.kind = "no_data" => call.left \cap readers[call.ohash] = {}

\* A sweep is of one disconnected peer, over requests that are still in the table
\* when it reaches them: no callback made on the way deletes one.
SweepIsSound ==
  /\ \A p, q \in Peers, c, d \in Chunks : <<p, c>> \in sweep /\ <<q, d>> \in sweep => p = q
  /\ \A p \in Peers, c \in Chunks : <<p, c>> \in sweep => c \in requests
  /\ call.kind = "got_data" => sweep = {}

\* The request table agrees with the streams, the wishlists and the callbacks
\* under way, whatever fails and whatever a reader asks for inside a callback.
TableAgrees ==
  /\ PotentialsReachable /\ InvalidMeansAsked /\ SourceIsWished
  /\ OnlyPendingAnswered /\ SweepIsSound

\* The request table, the messages and the sweeps implement the promise made
\* to readers: all who wait for a chunk get one and the same answer, once each.
Reading == INSTANCE ChunkReading
             WITH kind <- call.kind, ohash <- call.ohash, left <- call.left
ImplementsReading == Reading!AbsSpec

\* Every read gets its got_data or no_data in the end (abstract_chunk_reader.h:28),
\* under FairSpec, if streams are lost only finitely often and stores keep their
\* chunks: what a disconnection interrupted is asked again or given up.
EveryReadAnswered ==
  <>[][connected \subseteq connected']_connected => Reading!AbsLive
=============================================================================
