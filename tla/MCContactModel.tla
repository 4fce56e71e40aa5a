--------------------------- MODULE MCContactModel ---------------------------
(* The lists that the programs keep, the router, and a chat.  HostState     *)
(* opens the router for the host's ports while it is made, and only then    *)
(* the list of contacts exists; the dialogs of the downloads and of the     *)
(* search have lists of their own, and each chat has its log.  The five     *)
(* share no state, so a behaviour is one of them.                           *)
EXTENDS ContactModel, TLC

CONSTANTS NumPorts, Local
VARIABLES part, router, async, at, known, left, ports, ext, all_added, requests, granted, crowded

nat == <<router, async, at, known, left, ports, ext, all_added, requests, granted, crowded>>

Upnp == INSTANCE PortMapping

ASSUME PortAssumption == NumPorts \in Nat /\ Local \subseteq 0 .. NumPorts - 1

CONSTANTS Downloads, MaxReboots
VARIABLES dialog, items, act, asking, stored, wanted, tidied, reboots, stopped

saves == <<dialog, items, act, asking, stored, wanted, tidied, reboots, stopped>>

Saves == INSTANCE SaveDialog WITH MaxRestarts <- MaxReboots, restarts <- reboots, failed <- stopped

ASSUME DownloadAssumption == IsFiniteSet(Downloads) /\ "none" \notin Downloads /\ MaxReboots \in Nat

CONSTANTS Servers, Users, Texts, Matches, NoText, MaxSearches
VARIABLES shown, searchtext, reqids, resultids, registered, searches, started, asked, friends

search == <<shown, searchtext, reqids, resultids, registered, searches, started, asked, friends>>

Search == INSTANCE SearchDialog WITH Ids <- Users, lookups <- asked

ASSUME SearchAssumption == Matches \in [Texts -> SUBSET Users]

CONSTANTS MaxSaid
VARIABLES dlg, wire, broken, log, history, scanner, refused

talk == <<dlg, wire, broken, log, history, scanner, refused>>

Chat == INSTANCE ChatDialog WITH failed <- refused

ASSUME SayingAssumption == MaxSaid \in [Chat!Ends -> Nat]

\* The opener of a chat has two messages to send, and its partner one.
MCMaxSaid == [e \in {"opener", "server"} |-> IF e = "opener" THEN 2 ELSE 1]

\* Two texts; one user fits both, the other one.
MCMatches ==
  [text \in {"first", "second"} |-> IF text = "first" THEN {"alice", "bob"} ELSE {"bob"}]

MCInit ==
  /\ Init /\ Upnp!Init /\ Saves!Init /\ Search!Init /\ Chat!Init
  /\ \/ part = "router"
     \/ /\ part \in {"contacts", "downloads", "search", "chat"}
        /\ ~async /\ \A e \in Upnp!Ext, q \in Upnp!Protocols : router[e][q] = Upnp!Free

MCNext ==
  /\ UNCHANGED part
  /\ \/ part = "router" /\ Upnp!Next /\ UNCHANGED <<vars, saves, search, talk>>
     \/ part = "contacts" /\ Next /\ UNCHANGED <<nat, saves, search, talk>>
     \/ part = "downloads" /\ Saves!Next /\ UNCHANGED <<vars, nat, search, talk>>
     \/ part = "search" /\ Search!Next /\ UNCHANGED <<vars, nat, saves, talk>>
     \/ part = "chat" /\ Chat!Next /\ UNCHANGED <<vars, nat, saves, search>>

MCSpec == MCInit /\ [][MCNext]_<<part, vars, nat, saves, search, talk>>

SuccessEarned == Upnp!SuccessEarned
DownloadsRemembered == Saves!DownloadsRemembered
ResultsTrue == Search!ResultsTrue
ConversationAgrees == Chat!ConversationAgrees

Symmetry == Permutations(Ids)
=============================================================================
