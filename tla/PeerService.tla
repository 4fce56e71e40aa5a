---------------------------- MODULE PeerService ----------------------------
(***************************************************************************)
(* The peer service of the user interface library: one outgoing stream to  *)
(* every host of the table of friends, renewed when its link goes down,    *)
(* and the streams that friends opened to us.                              *)
(*                                                                         *)
(* All of it runs in the one thread of the event loop, so a slot is one    *)
(* step.  What interleaves are the events: links that come up and go down, *)
(* streams that arrive, the one retry timer, the user's changes to the     *)
(* table, and the deletion of the streams deleteLater was called for, which*)
(* the loop makes some time after, while their signals stay connected.     *)
(***************************************************************************)
EXTENDS Naturals, FiniteSets

CONSTANTS
  Hosts,      \* the hosts there are
  OutStreams, \* addresses the allocator gives to outgoing streams (bound)
  InStreams,  \* addresses it gives to incoming streams (bound)
  None        \* neither a host nor a stream

ASSUME PeerAssumption ==
  None \notin Hosts /\ None \notin OutStreams /\ OutStreams \cap InStreams = {}

Streams == OutStreams \cup InStreams

VARIABLES
  friends,  \* the hosts of the peer table
  out,      \* the outgoing stream of each host, or None
  in,       \* the incoming streams of each host
  peer,     \* remoteHostId of each stream, None for an address not in use
  link,     \* "wait" while connecting, "up", "down"
  doomed,   \* streams deleteLater was called for
  timer     \* recontimer.isActive()

peerVars == <<friends, out, in, peer, link, doomed, timer>>

TypeOK ==
  /\ friends \subseteq Hosts
  /\ out \in [Hosts -> OutStreams \cup {None}]
  /\ in \in [Hosts -> SUBSET InStreams]
  /\ peer \in [Streams -> Hosts \cup {None}]
  /\ link \in [Streams -> {"wait", "up", "down"}]
  /\ doomed \subseteq Streams
  /\ timer \in BOOLEAN

Free == {s \in OutStreams : peer[s] = None}

\* outConnected(h): the host has a stream and its link is up.
Connected(h) == out[h] # None /\ link[out[h]] = "up"

\* Slip: the map forgets the stream, and nobody deletes it.
Leaked(hs) == {}

\* disconnectFromPeer: the map forgets the stream, the loop deletes it later.
Abandoned(hs) == {out[h] : h \in hs} \ {None}

\* reconnectToPeer for each host of hs with up's links: disconnectFromPeer,
\* then connectToPeer with a new stream, which also starts the timer.
Reconnect(hs, up) ==
  \E new \in [hs -> Free] :
    /\ \A g, h \in hs : new[g] = new[h] => g = h
    /\ out' = [h \in Hosts |-> IF h \in hs THEN new[h] ELSE out[h]]
    /\ peer' = [s \in Streams |->
                  IF \E h \in hs : new[h] = s
                  THEN CHOOSE h \in hs : new[h] = s ELSE peer[s]]
    /\ link' = [s \in Streams |->
                  IF \E h \in hs : new[h] = s THEN "wait" ELSE up[s]]
    /\ doomed' = doomed \cup Abandoned(hs)
    /\ timer' = (timer \/ hs # {})

\* The constructor and setPeerTable: the friends the settings hold are
\* connected to.
Init ==
  /\ friends \in SUBSET Hosts
  /\ \E first \in [friends -> OutStreams] :
       /\ \A g, h \in friends : first[g] = first[h] => g = h
       /\ out = [h \in Hosts |-> IF h \in friends THEN first[h] ELSE None]
       /\ peer = [s \in Streams |->
                    IF \E h \in friends : first[h] = s
                    THEN CHOOSE h \in friends : first[h] = s ELSE None]
  /\ in = [h \in Hosts |-> {}]
  /\ link = [s \in Streams |-> "wait"]
  /\ doomed = {}
  /\ timer = (friends # {})

-----------------------------------------------------------------------------
(* The table of friends. *)

PeerInsert(h) ==
  /\ h \notin friends
  /\ friends' = friends \cup {h}
  /\ Reconnect({h}, link)
  /\ UNCHANGED in

PeerRemove(h) ==
  /\ h \in friends
  /\ friends' = friends \ {h}
  /\ out' = [out EXCEPT ![h] = None]
  /\ doomed' = doomed \cup Abandoned({h})
  /\ UNCHANGED <<in, peer, link, timer>>

\* A client of the service asks for a stream and finds it not connected
\* (connectToPeer, isConnected, reconnectToPeer).
AskedToConnect(h) ==
  /\ h \in friends /\ ~Connected(h)
  /\ Reconnect({h}, link)
  /\ UNCHANGED <<friends, in>>

-----------------------------------------------------------------------------
(* The timer and the outgoing streams. *)

Unconnected == {h \in friends : ~Connected(h)}

ReconTimeout ==
  /\ timer
  /\ \/ /\ Unconnected # {}
        /\ Reconnect(Unconnected, link)
     \/ /\ Unconnected = {}
        /\ timer' = FALSE
        /\ UNCHANGED <<out, peer, link, doomed>>
  /\ UNCHANGED <<friends, in>>

OutConnected(s) ==
  /\ peer[s] # None /\ link[s] = "wait"
  /\ link' = [link EXCEPT ![s] = "up"]
  /\ UNCHANGED <<friends, out, in, peer, doomed, timer>>

\* Slip: the peer always waits for the timer, though nothing starts it.
AwaitsTheTimer(s) ==
  /\ peer[s] # None /\ link[s] # "down"
  /\ link' = [link EXCEPT ![s] = "down"]
  /\ UNCHANGED <<friends, out, in, peer, doomed, timer>>

\* While the timer runs the peer waits for it; otherwise its host is
\* connected to again at once, whichever of its streams went down.
OutDisconnected(s) ==
  LET down == [link EXCEPT ![s] = "down"]
  IN /\ peer[s] # None /\ link[s] # "down"
     /\ \/ /\ timer
           /\ link' = down
           /\ UNCHANGED <<out, peer, doomed, timer>>
        \/ /\ ~timer
           /\ Reconnect({peer[s]}, down)
     /\ UNCHANGED <<friends, in>>

-----------------------------------------------------------------------------
(* The incoming streams. *)

\* allowConnection, of a service that is exclusive and has a table.
Allowed(h) == h \in friends

\* A stream of a host that is no friend is accepted only to be deleted.
InRejected(h, s) ==
  /\ peer[s] = None /\ ~Allowed(h)
  /\ peer' = [peer EXCEPT ![s] = h]
  /\ link' = [link EXCEPT ![s] = "up"]
  /\ doomed' = doomed \cup {s}
  /\ UNCHANGED <<friends, out, in, timer>>

\* A friend's stream is kept, and tells that the friend can be reached now.
InAccepted(h, s) ==
  LET up == [link EXCEPT ![s] = "up"]
  IN /\ peer[s] = None /\ Allowed(h)
     /\ in' = [in EXCEPT ![h] = @ \cup {s}]
     /\ \/ /\ out[h] = None \/ Connected(h)
           /\ peer' = [peer EXCEPT ![s] = h]
           /\ link' = up
           /\ UNCHANGED <<out, doomed, timer>>
        \/ /\ out[h] # None /\ ~Connected(h)
           /\ \E n \in Free :
                /\ out' = [out EXCEPT ![h] = n]
                /\ peer' = [peer EXCEPT ![s] = h, ![n] = h]
                /\ link' = [up EXCEPT ![n] = "wait"]
           /\ doomed' = doomed \cup {out[h]}
           /\ timer' = TRUE
     /\ UNCHANGED friends

\* A rejected stream has no slot connected to its linkDown.
InDisconnected(s) ==
  /\ peer[s] # None /\ link[s] = "up" /\ s \in in[peer[s]]
  /\ link' = [link EXCEPT ![s] = "down"]
  /\ in' = [in EXCEPT ![peer[s]] = @ \ {s}]
  /\ doomed' = doomed \cup {s}
  /\ UNCHANGED <<friends, out, peer, timer>>

\* The event loop deletes a stream; its address may be given out again.
Delete(s) ==
  /\ s \in doomed
  /\ doomed' = doomed \ {s}
  /\ peer' = [peer EXCEPT ![s] = None]
  /\ link' = [link EXCEPT ![s] = "wait"]
  /\ UNCHANGED <<friends, out, in, timer>>

PeerNext ==
  \/ \E h \in Hosts : PeerInsert(h) \/ PeerRemove(h) \/ AskedToConnect(h)
  \/ ReconTimeout
  \/ \E s \in OutStreams : OutConnected(s) \/ OutDisconnected(s)
  \/ \E h \in Hosts, s \in InStreams : InRejected(h, s) \/ InAccepted(h, s)
  \/ \E s \in InStreams : InDisconnected(s)
  \/ \E s \in Streams : Delete(s)

PeerSpec == Init /\ [][PeerNext]_peerVars
=============================================================================
