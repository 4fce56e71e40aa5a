---------------------------- MODULE ContactModel ----------------------------
(***************************************************************************)
(* The list of contacts (qt5/ContactModel.cpp): what the user enters, what *)
(* registration servers find, and what the settings keep.                  *)
(*                                                                         *)
(* The user's operations run in the window's thread.  The callbacks of the *)
(* client of the registration servers run in the thread of the host        *)
(* (HostState.h), and no lock guards the list.  A step is one operation on *)
(* the list; what else a data race may do is not modelled.                 *)
(***************************************************************************)
EXTENDS Naturals, Sequences, FiniteSets, SequencesExt

CONSTANTS
  Ids,          \* identities of peers
  Names,        \* names that the user gives; an empty one becomes one of them
  MaxRows,      \* bound: rows of the list
  MaxOps,       \* bound: operations of the user
  MaxRestarts   \* bound: how often the program is started again

NoId == "no id"
NoName == ""

ASSUME ContactAssumption ==
  NoId \notin Ids /\ MaxRows \in Nat /\ MaxOps \in Nat /\ MaxRestarts \in Nat


VARIABLES
  peers,      \* the list: identity, name and whose profile
  saved,      \* the list in the settings
  window,     \* what the window's thread is doing
  net,        \* what the host's thread is doing
  searching,  \* a search is under way
  lookups,    \* the peers looked up
  wish,       \* the name of each contact that the user has entered
  doubled,    \* identities that both threads have entered
  ops,        \* the user's operations so far
  restarts,   \* the restarts so far
  failed      \* what stopped the program

ghosts == <<wish, doubled, restarts, failed>>
vars == <<peers, saved, window, net, searching, lookups, ops, ghosts>>

Peer == [eid : Ids \cup {NoId}, name : Names \cup {NoName}, profile : Ids \cup {NoId}]
Idle == [do |-> "none"]
NewPeer(id, name) == [eid |-> id, name |-> name, profile |-> NoId]

TypeOK ==
  /\ peers \in Seq(Peer) /\ saved \in Seq(Peer) /\ Len(peers) <= MaxRows
  /\ window.do \in {"none", "insert", "write"} /\ net.do \in {"none", "found", "append", "update"}
  /\ searching \in BOOLEAN /\ lookups \subseteq Ids /\ doubled \subseteq Ids
  /\ wish \in [Ids -> Names \cup {NoName}]
  /\ ops \in 0..MaxOps /\ restarts \in 0..MaxRestarts /\ failed \subseteq {"range"}

Init ==
  /\ peers = <<>> /\ saved = <<>> /\ window = Idle /\ net = Idle
  /\ searching = FALSE /\ lookups = {}
  /\ wish = [id \in Ids |-> NoName] /\ doubled = {}
  /\ ops = 0 /\ restarts = 0 /\ failed = {}

Rows(list, id) == {i \in DOMAIN list : list[i].eid = id}
RowWithId(id) == IF Rows(peers, id) = {} THEN 0
                 ELSE CHOOSE i \in Rows(peers, id) : \A j \in Rows(peers, id) : i <= j
ContainsId(id) == RowWithId(id) # 0

Placed(list, row, p) == SubSeq(list, 1, row - 1) \o <<p>> \o SubSeq(list, row, Len(list))

-----------------------------------------------------------------------------
(* The window's thread. *)

\* insert: looks whether the contact is there, and how many there are.
Insert(id, name) ==
  /\ window = Idle /\ ~ContainsId(id)
  /\ window' = [do |-> "insert", id |-> id, name |-> name, row |-> Len(peers) + 1]
  /\ UNCHANGED <<peers, saved, net, searching, lookups, ghosts>>

\* insertAt; the row is from before or after what the other thread has added.
InsertPeer ==
  /\ window.do = "insert" /\ Len(peers) < MaxRows
  /\ \E row \in {window.row, Len(peers) + 1} :
       peers' = Placed(peers, row, NewPeer(window.id, window.name))
  /\ window' = [do |-> "write", id |-> window.id, name |-> window.name]
  /\ doubled' = IF ContainsId(window.id) THEN doubled \cup {window.id} ELSE doubled
  /\ UNCHANGED <<saved, net, searching, lookups, wish, restarts, failed>>

\* remove: rows before the one that is found do not change.
RemoveId(id) ==
  /\ window = Idle /\ ContainsId(id)
  /\ peers' = RemoveAt(peers, RowWithId(id))
  /\ window' = [do |-> "write", id |-> NoId, name |-> NoName]
  /\ wish' = [wish EXCEPT ![id] = NoName]
  /\ UNCHANGED <<saved, net, searching, lookups, doubled, restarts, failed>>

\* Slip: the new name is shown and not written.
RenamesInMemory(row, name) ==
  /\ window = Idle /\ row \in DOMAIN peers
  /\ peers' = [peers EXCEPT ![row].name = name]
  /\ wish' = IF peers[row].eid \in Ids THEN [wish EXCEPT ![peers[row].eid] = name] ELSE wish
  /\ UNCHANGED <<saved, window, net, searching, lookups, doubled, restarts, failed>>

\* setData of the name.
SetData(row, name) ==
  /\ window = Idle /\ row \in DOMAIN peers
  /\ peers' = [peers EXCEPT ![row].name = name]
  /\ window' = [do |-> "write", id |-> peers[row].eid, name |-> name]
  /\ UNCHANGED <<saved, net, searching, lookups, ghosts>>

\* writeSettings, the end of an operation.
WriteSettings ==
  /\ window.do = "write" /\ window' = Idle
  /\ saved' = peers
  /\ wish' = IF window.id = NoId THEN wish ELSE [wish EXCEPT ![window.id] = window.name]
  /\ UNCHANGED <<peers, net, searching, lookups, doubled, restarts, failed>>

\* insertRows and removeRows of the item model, for one row; they write nothing.
InsertRows(row) ==
  /\ window = Idle /\ row \in 1..Len(peers) + 1 /\ Len(peers) < MaxRows
  /\ peers' = Placed(peers, row, NewPeer(NoId, NoName))
  /\ UNCHANGED <<saved, window, net, searching, lookups, wish, doubled, restarts, failed>>

RemoveRows(row) ==
  /\ window = Idle /\ row \in DOMAIN peers
  /\ peers' = RemoveAt(peers, row)
  /\ wish' = IF peers[row].eid \in Ids THEN [wish EXCEPT ![peers[row].eid] = NoName] ELSE wish
  /\ UNCHANGED <<saved, window, net, searching, lookups, doubled, restarts, failed>>

-----------------------------------------------------------------------------
(* The host's thread. *)

OnReady ==
  /\ net = Idle /\ ~searching /\ searching' = TRUE
  /\ UNCHANGED <<peers, saved, window, net, lookups, ghosts>>

\* An answer to the search, which may be followed by more.
SearchDone(ids, last) ==
  /\ net = Idle /\ searching /\ searching' = ~last
  /\ net' = [do |-> "found", ids |-> ids]
  /\ UNCHANGED <<peers, saved, window, lookups, ghosts>>

LookUp(id) ==
  /\ lookups' = lookups \cup {id}
  /\ net' = IF net.ids = {id} THEN Idle ELSE [do |-> "found", ids |-> net.ids \ {id}]

\* foundPeers, for one peer: looks for it, adds it, looks it up.
FoundPeer(id) ==
  /\ net.do = "found" /\ id \in net.ids
  /\ IF ContainsId(id) THEN LookUp(id)
     ELSE net' = [do |-> "append", ids |-> net.ids, id |-> id] /\ UNCHANGED lookups
  /\ UNCHANGED <<peers, saved, window, searching, ghosts>>

AppendPeer ==
  /\ net.do = "append" /\ Len(peers) < MaxRows
  /\ peers' = Append(peers, NewPeer(net.id, NoName)) /\ LookUp(net.id)
  /\ doubled' = IF ContainsId(net.id) THEN doubled \cup {net.id} ELSE doubled
  /\ UNCHANGED <<saved, window, searching, wish, restarts, failed>>

\* updatePeerProfile: finds the row in a copy of the list...
LookupDone(id) ==
  /\ net = Idle /\ id \in lookups /\ lookups' = lookups \ {id}
  /\ net' = IF ContainsId(id) THEN [do |-> "update", id |-> id, row |-> RowWithId(id)] ELSE Idle
  /\ UNCHANGED <<peers, saved, window, searching, ghosts>>

\* ...and sets the profile in the list.
SetProfile ==
  /\ net.do = "update" /\ net' = Idle
  /\ IF net.row \in DOMAIN peers
     THEN peers' = [peers EXCEPT ![net.row].profile = net.id] /\ UNCHANGED failed
     ELSE failed' = {"range"} /\ UNCHANGED peers
  /\ UNCHANGED <<saved, window, searching, lookups, wish, doubled, restarts>>

LookupFailed(id) ==
  /\ net = Idle /\ id \in lookups /\ lookups' = lookups \ {id}
  /\ UNCHANGED <<peers, saved, window, net, searching, ghosts>>

-----------------------------------------------------------------------------
\* The part of a list that is made of some of its rows, in their order.
IsPart(part, list, rows) ==
  \E order \in Bijection(1 .. Cardinality(rows), rows) :
    /\ \A i, j \in DOMAIN order : i < j => order[i] < order[j]
    /\ part = [i \in 1 .. Cardinality(rows) |-> list[order[i]]]

\* useSettings: empty and repeated identities are left out.
Taken(list) ==
  {i \in DOMAIN list : list[i].eid # NoId /\ \A j \in 1 .. i - 1 : list[j].eid # list[i].eid}

UseSettings == IsPart(peers', saved, Taken(saved))

\* The program ends or crashes, and is started again.
Restart ==
  /\ restarts < MaxRestarts /\ restarts' = restarts + 1
  /\ UseSettings /\ window' = Idle /\ net' = Idle
  /\ searching' = FALSE /\ lookups' = {}
  /\ UNCHANGED <<saved, wish, doubled, failed>>

Begin ==
  /\ ops < MaxOps /\ ops' = ops + 1
  /\ \/ \E id \in Ids : RemoveId(id) \/ \E name \in Names : Insert(id, name)
     \/ \E row \in 1..MaxRows : \/ InsertRows(row) \/ RemoveRows(row)
                                \/ \E name \in Names : SetData(row, name)

User == Begin \/ (UNCHANGED ops /\ (InsertPeer \/ WriteSettings))

Client ==
  \/ OnReady \/ AppendPeer \/ SetProfile
  \/ \E ids \in SUBSET Ids \ {{}}, last \in BOOLEAN : SearchDone(ids, last)
  \/ \E id \in Ids : FoundPeer(id) \/ LookupDone(id) \/ LookupFailed(id)

Next == failed = {} /\ (User \/ (UNCHANGED ops /\ (Client \/ Restart)))
Spec == Init /\ [][Next]_vars

-----------------------------------------------------------------------------
\* The list and the settings have each contact that the user has entered, whatever
\* the servers find at the same time and through restarts: a contact that both
\* threads have entered is in the list twice and is not lost, and one that only one
\* of them has entered has the name last given.
WishesKept ==
  /\ TypeOK
  /\ \A id \in Ids : wish[id] # NoName =>
       /\ \E p \in Range(saved) : p.eid = id /\ (id \notin doubled => p.name = wish[id])
       /\ window = Idle =>
            \E p \in Range(peers) : p.eid = id /\ (id \notin doubled => p.name = wish[id])
=============================================================================
