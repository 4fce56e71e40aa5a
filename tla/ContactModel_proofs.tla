------------------------ MODULE ContactModel_proofs ------------------------
(***************************************************************************)
(* Theorems about the lists that the programs keep and about the router:   *)
(* for any number of users, contacts, downloads, servers and ports, of     *)
(* operations and of restarts.                                             *)
(***************************************************************************)
EXTENDS MCContactModel, FiniteSetTheorems, SequenceTheorems, TLAPS

-----------------------------------------------------------------------------
(* The search for friends.                                                 *)

\* What was asked is a text, and the ids that were found fit the present one.
SearchIsSound ==
  /\ \A s \in searches : s[2] \in Texts
  /\ searchtext \in Texts \cup {NoText}
  /\ reqids \in [DOMAIN reqids -> Int] /\ resultids \in Seq(DOMAIN reqids)
  /\ \A id \in DOMAIN reqids : reqids[id] >= -1 /\ reqids[id] < Len(resultids)
  /\ \A id \in DOMAIN reqids : reqids[id] >= 0 => resultids[reqids[id] + 1] = id
  /\ \A row \in DOMAIN resultids : reqids[resultids[row]] = row - 1
  /\ searchtext # NoText => DOMAIN reqids \subseteq Matches[searchtext]

(***************************************************************************)
(* Nothing has been searched for.                                          *)
(***************************************************************************)
LEMMA SearchStarts == Search!Init => SearchIsSound
  BY DEF Search!Init, SearchIsSound

(***************************************************************************)
(* An answer adds ids without a row, if it is one to the present search; a *)
(* lookup's answer gives an id without a row the next one.                 *)
(***************************************************************************)
LEMMA SearchGoesOn == SearchIsSound /\ [Search!Next]_(Search!vars) => SearchIsSound'
<1> SUFFICES ASSUME SearchIsSound, [Search!Next]_(Search!vars) PROVE SearchIsSound'
  OBVIOUS
<1> USE SearchAssumption
<1>1. ASSUME NEW cli \in Servers, Search!Registered(cli) PROVE SearchIsSound'
  BY <1>1 DEF Search!Registered, Search!table, SearchIsSound
<1>2. ASSUME NEW text \in Texts, Search!StartSearch(text) PROVE SearchIsSound'
  <2>1. \A s \in searches' : s[2] \in Texts
    BY <1>2 DEF Search!StartSearch, SearchIsSound
  <2>2. /\ searchtext' = text /\ reqids' = [id \in {} |-> -1] /\ resultids' = <<>>
        /\ DOMAIN reqids' = {}
    BY <1>2 DEF Search!StartSearch
  <2> QED
    BY <2>1, <2>2 DEF SearchIsSound
<1>3. ASSUME NEW s \in searches, NEW ids \in SUBSET Matches[s[2]], Search!SearchAnswer(s, ids)
      PROVE  SearchIsSound'
  <2> DEFINE new == IF s[2] = searchtext THEN ids \ DOMAIN reqids ELSE {}
  <2>1. /\ searches' \subseteq searches /\ UNCHANGED <<searchtext, resultids>>
        /\ reqids' = Search!Joined(new)
    BY <1>3 DEF Search!SearchAnswer, Search!SearchDone
  <2>2. new \cap DOMAIN reqids = {} /\ (searchtext # NoText => new \subseteq Matches[searchtext])
    BY DEF SearchIsSound
  <2> HIDE DEF new
  <2>3. /\ DOMAIN reqids' = DOMAIN reqids \cup new
        /\ \A id \in DOMAIN reqids : reqids'[id] = reqids[id]
        /\ \A id \in new : reqids'[id] = -1
    BY <2>1, <2>2 DEF Search!Joined
  <2>4. reqids' \in [DOMAIN reqids' -> Int]
    BY <2>1, <2>3 DEF Search!Joined, SearchIsSound
  <2>5. resultids' \in Seq(DOMAIN reqids')
    BY <2>1, <2>3 DEF SearchIsSound
  <2> QED
    BY <2>1, <2>2, <2>3, <2>4, <2>5 DEF SearchIsSound
<1>4. ASSUME NEW cli \in Servers, NEW id \in Users, Search!LookupDone(cli, id)
      PROVE  SearchIsSound'
  <2>1. CASE ~Search!NeedsRow(id)
    BY <1>4, <2>1 DEF Search!LookupDone, SearchIsSound
  <2>2. CASE Search!NeedsRow(id)
    <3>1. /\ UNCHANGED <<searches, searchtext>>
          /\ reqids' = [reqids EXCEPT ![id] = Len(resultids)]
          /\ resultids' = Append(resultids, id)
          /\ id \in DOMAIN reqids /\ reqids[id] = -1
      BY <1>4, <2>2 DEF Search!LookupDone, Search!NeedsRow, SearchIsSound
    <3>2. /\ DOMAIN reqids' = DOMAIN reqids
          /\ reqids' \in [DOMAIN reqids' -> Int] /\ resultids' \in Seq(DOMAIN reqids')
      BY <3>1 DEF SearchIsSound
    <3>3. /\ Len(resultids') = Len(resultids) + 1
          /\ \A row \in DOMAIN resultids : resultids'[row] = resultids[row]
          /\ resultids'[Len(resultids) + 1] = id
      BY <3>1 DEF SearchIsSound
    <3>4. \A row \in DOMAIN resultids : resultids[row] # id
      BY <3>1 DEF SearchIsSound
    <3> QED
      BY <3>1, <3>2, <3>3, <3>4 DEF SearchIsSound
  <2> QED
    BY <2>1, <2>2
<1>5. ASSUME NEW cli \in Servers, NEW id \in Users, Search!FriendLookup(cli, id)
      PROVE  SearchIsSound'
  BY <1>5 DEF Search!FriendLookup, Search!table, SearchIsSound
<1>6. ASSUME NEW row \in DOMAIN resultids, Search!AddPeer(row) PROVE SearchIsSound'
  BY <1>6 DEF Search!AddPeer, Search!table, SearchIsSound
<1>7. CASE Search!CloseEvent
  BY <1>7 DEF Search!CloseEvent, Search!table, SearchIsSound
<1>8. CASE UNCHANGED Search!vars
  BY <1>8 DEF Search!vars, Search!table, SearchIsSound
<1> QED
  BY <1>1, <1>2, <1>3, <1>4, <1>5, <1>6, <1>7, <1>8 DEF Search!Next

(***************************************************************************)
(* The table of a search shows users that fit the present text, each id    *)
(* knows its row and no other has it, in whatever order the answers of old *)
(* and new searches and lookups come in: for any servers, users, texts and *)
(* number of searches.                                                     *)
(***************************************************************************)
THEOREM SearchShowsMatches == Search!Spec => []ResultsTrue
<1>1. SearchIsSound => ResultsTrue
  <2> SUFFICES ASSUME SearchIsSound PROVE ResultsTrue
    OBVIOUS
  <2>1. DOMAIN resultids = {reqids[id] + 1 : id \in {i \in DOMAIN reqids : reqids[i] >= 0}}
    <3> DEFINE found == {i \in DOMAIN reqids : reqids[i] >= 0}
    <3>1. ASSUME NEW row \in DOMAIN resultids
          PROVE  resultids[row] \in found /\ row = reqids[resultids[row]] + 1
      BY DEF SearchIsSound
    <3>2. ASSUME NEW id \in found PROVE reqids[id] + 1 \in DOMAIN resultids
      BY DEF SearchIsSound
    <3> QED
      BY <3>1, <3>2
  <2>2. \A row \in DOMAIN resultids :
          resultids[row] \in DOMAIN reqids /\ reqids[resultids[row]] = row - 1
    BY DEF SearchIsSound
  <2> QED
    BY <2>1, <2>2 DEF SearchIsSound, ResultsTrue, Search!ResultsTrue
<1> QED
  BY <1>1, SearchStarts, SearchGoesOn, PTL DEF Search!Spec
-----------------------------------------------------------------------------
(* The router.                                                             *)

Request == [port : Local, ext : Nat, protocol : Upnp!Protocols]

\* The requests for a port have been granted, an asynchronous library's at least
\* one of them.
Granted(p) ==
  \/ \A q \in Upnp!Protocols : <<p, q>> \in granted
  \/ async /\ \E q \in Upnp!Protocols : <<p, q>> \in granted

\* What is known of each port.  A synchronous library tells of a failure by
\* all_added; an asynchronous one leaves the port on the list.
PortsInHand ==
  /\ at \in Upnp!Places /\ left \subseteq Local /\ ports \subseteq Local /\ ext \in Nat
  /\ requests \in Seq(Request) /\ (~async => requests = <<>>)
  /\ at \in {"start", "list"} => requests = <<>> /\ ports = Local
  /\ at \in {"tcp", "udp"} => left # {}
  /\ at \in {"wait", "success"} => left = {}
  /\ async =>
       \A p \in Local : p \in ports \/ Granted(p) \/ (at # "list" /\ Upnp!MappingExists(p))
  /\ ~async /\ at \in {"next", "tcp", "udp", "wait", "success"} =>
       \A p \in Local : p \in left \/ Upnp!MappingExists(p) \/ Granted(p) \/ ~all_added
  /\ ~async /\ at = "udp" => <<Upnp!Min(left), "tcp">> \in granted \/ ~all_added
  /\ at = "success" => all_added /\ (async => ports = {})

(***************************************************************************)
(* A set of numbers that is not empty has a smallest.                      *)
(***************************************************************************)
LEMMA SmallestNumber ==
  ASSUME NEW S \in SUBSET Nat, S # {}
  PROVE  \E x \in S : \A y \in S : x <= y
<1>1. PICK x \in S : \A y \in S : ~ (<<y, x>> \in OpToRel(<, Nat))
  BY WFMin, NatLessThanWellFounded
<1>2. \A y \in S : ~ (y < x)
  BY <1>1 DEF OpToRel
<1> QED
  BY <1>2

LEMMA SmallestPort ==
  ASSUME NEW S \in SUBSET Nat, S # {}
  PROVE  Upnp!Min(S) \in S
BY SmallestNumber DEF Upnp!Min

(***************************************************************************)
(* No port has been looked at.                                             *)
(***************************************************************************)
LEMMA PortsStart == Upnp!Init => PortsInHand
  BY DEF Upnp!Init, Upnp!Places, PortsInHand

(***************************************************************************)
(* The request for the port in hand, for one protocol: a synchronous       *)
(* library's answer is kept in all_added, and what was granted stays so.   *)
(***************************************************************************)
LEMMA PortRequested ==
  ASSUME PortsInHand, NEW q \in Upnp!Protocols, Upnp!AddPortMapping(q)
  PROVE  PortsInHand'
<1> DEFINE p == Upnp!Min(left)
<1>1. p \in left /\ p \in Local
  <2>1. left # {} /\ left \subseteq Local
    BY DEF Upnp!AddPortMapping, Upnp!Protocols, PortsInHand
  <2>2. left \in SUBSET Nat
    BY <2>1, PortAssumption
  <2> QED
    BY <2>1, <2>2, SmallestPort
<1>2. /\ UNCHANGED <<async, known, ports, ext>>
      /\ granted \subseteq granted' /\ (all_added' => all_added)
      /\ ~async /\ all_added' => <<p, q>> \in granted'
      /\ left' = IF q = "tcp" THEN left ELSE left \ {p}
      /\ at = q /\ at' = IF q = "tcp" THEN "udp" ELSE "next"
  BY DEF Upnp!AddPortMapping, Upnp!Ask, Upnp!AllAdded, Upnp!Protocols
<1>3. requests' \in Seq(Request) /\ (~async => requests' = <<>>)
  <2>1. CASE async
    <3>1. requests' = Append(requests, [port |-> p, ext |-> ext, protocol |-> q])
      BY <2>1 DEF Upnp!AddPortMapping
    <3> QED
      BY <1>1, <1>2, <2>1, <3>1 DEF PortsInHand, Request
  <2>2. CASE ~async
    BY <1>2, <2>2 DEF Upnp!AddPortMapping, PortsInHand
  <2> QED
    BY <2>1, <2>2
<1>4. \A r \in Local : /\ Upnp!MappingExists(r)' <=> Upnp!MappingExists(r)
                       /\ Granted(r) => Granted(r)'
  BY <1>2 DEF Upnp!MappingExists, Granted
<1> HIDE DEF p
<1>5. async => \A r \in Local : \/ r \in ports' \/ Granted(r)'
                                \/ at' # "list" /\ Upnp!MappingExists(r)'
  <2>1. at' # "list" /\ at # "list"
    BY <1>2 DEF Upnp!Protocols
  <2>2. async => \A r \in Local : r \in ports \/ Granted(r) \/ Upnp!MappingExists(r)
    BY DEF PortsInHand
  <2>3. UNCHANGED ports
    BY <1>2
  <2> QED
    BY <1>4, <2>1, <2>2, <2>3
<1>6. ~async => \A r \in Local : \/ r \in left' \/ Upnp!MappingExists(r)'
                                 \/ Granted(r)' \/ ~all_added'
  <2> SUFFICES ASSUME ~async, NEW r \in Local, r \notin left', ~Upnp!MappingExists(r)', all_added'
               PROVE  Granted(r)'
    OBVIOUS
  <2>1. CASE r \notin left
    BY <1>2, <1>4, <2>1 DEF PortsInHand, Upnp!Protocols
  <2>2. CASE r \in left
    <3>1. q = "udp" /\ r = p /\ <<p, "udp">> \in granted'
      BY <1>2, <2>2 DEF Upnp!Protocols
    <3>2. <<p, "tcp">> \in granted'
      BY <1>2, <3>1 DEF PortsInHand, p
    <3> QED
      BY <3>1, <3>2 DEF Granted, Upnp!Protocols
  <2> QED
    BY <2>1, <2>2
<1>7. ~async /\ at' = "udp" => <<Upnp!Min(left'), "tcp">> \in granted' \/ ~all_added'
  BY <1>2 DEF Upnp!Protocols, p
<1>8. at' \in {"tcp", "udp"} => left' # {}
  BY <1>1, <1>2 DEF Upnp!Protocols
<1> QED
  BY <1>2, <1>3, <1>5, <1>6, <1>7, <1>8 DEF PortsInHand, Upnp!Places, Upnp!Protocols

(***************************************************************************)
(* What is known of the ports stays true, whoever makes the next step.     *)
(***************************************************************************)
LEMMA PortsGoOn == PortsInHand /\ [Upnp!Next]_(Upnp!vars) => PortsInHand'
<1> SUFFICES ASSUME PortsInHand, [Upnp!Next]_(Upnp!vars) PROVE PortsInHand'
  OBVIOUS
<1>1. CASE Upnp!InitControlPoint
  BY <1>1 DEF Upnp!InitControlPoint, PortsInHand, Upnp!MappingExists, Granted, Upnp!Places
<1>2. CASE Upnp!GetPortMappings
  BY <1>2 DEF Upnp!GetPortMappings, PortsInHand, Granted, Upnp!Places
<1>3. CASE Upnp!NextPort
  <2> DEFINE p == Upnp!Min(left)
  <2>1. p \in left /\ p \in Local
    <3>1. left # {} /\ left \subseteq Local
      BY <1>3 DEF Upnp!NextPort, PortsInHand
    <3>2. left \in SUBSET Nat
      BY <3>1, PortAssumption
    <3> QED
      BY <3>1, <3>2, SmallestPort
  <2>2. /\ at = "next" /\ UNCHANGED <<async, known, all_added, requests, granted>>
        /\ IF Upnp!MappingExists(p)
           THEN ports' = ports \ {p} /\ left' = left \ {p} /\ UNCHANGED <<at, ext>>
           ELSE /\ at' \in {"spin", "tcp"} /\ UNCHANGED <<ports, left>>
    BY <1>3 DEF Upnp!NextPort
  <2>3. \A r \in Local : /\ Upnp!MappingExists(r)' <=> Upnp!MappingExists(r)
                         /\ Granted(r)' <=> Granted(r)
    BY <2>2 DEF Upnp!MappingExists, Granted
  <2>4. ext' \in Nat
    <3>1. \/ ext' = ext
          \/ Upnp!Unused(p) # {} /\ ext' = (p + Upnp!Min(Upnp!Unused(p))) % NumPorts
      BY <1>3 DEF Upnp!NextPort
    <3>2. Upnp!Unused(p) \in SUBSET Nat
      BY PortAssumption DEF Upnp!Unused, Upnp!Ext
    <3>3. Upnp!Unused(p) # {} => Upnp!Min(Upnp!Unused(p)) \in Nat
      BY <3>2, SmallestPort
    <3> HIDE DEF p
    <3>4. p \in Nat /\ NumPorts \in Nat /\ NumPorts > 0
      BY <2>1, PortAssumption
    <3> QED
      BY <3>1, <3>3, <3>4 DEF PortsInHand
  <2> HIDE DEF p
  <2> QED
    BY <2>1, <2>2, <2>3, <2>4 DEF PortsInHand, Upnp!Places
<1>4. ASSUME NEW q \in Upnp!Protocols, Upnp!AddPortMapping(q) PROVE PortsInHand'
  BY <1>4, PortRequested
<1>5. CASE Upnp!AllAsked
  BY <1>5 DEF Upnp!AllAsked, PortsInHand, Upnp!MappingExists, Granted, Upnp!Places
<1>6. CASE Upnp!NewMapping
  <2> DEFINE r == Head(requests)
  <2>1. r \in Request /\ Tail(requests) \in Seq(Request) /\ async
    BY <1>6 DEF Upnp!NewMapping, PortsInHand
  <2>2. /\ UNCHANGED <<async, at, known, left, ext, all_added>> /\ requests' = Tail(requests)
        /\ at \notin {"start", "list", "success"} /\ granted \subseteq granted'
        /\ \/ ports' = ports
           \/ ports' = ports \ {r.port} /\ <<r.port, r.protocol>> \in granted'
    BY <1>6 DEF Upnp!NewMapping, Upnp!Ask, PortsInHand
  <2>3. \A p \in Local : /\ Upnp!MappingExists(p)' <=> Upnp!MappingExists(p)
                         /\ Granted(p) => Granted(p)'
    BY <2>2 DEF Upnp!MappingExists, Granted
  <2>4. \A p \in Local : p \in ports \ ports' => Granted(p)'
    BY <2>1, <2>2 DEF Granted, Request
  <2> HIDE DEF r
  <2> QED
    BY <2>1, <2>2, <2>3, <2>4 DEF PortsInHand
<1>7. CASE Upnp!Assertions
  BY <1>7 DEF Upnp!Assertions, PortsInHand, Upnp!MappingExists, Granted, Upnp!Places
<1>8. ASSUME NEW e \in Upnp!Ext, NEW q \in Upnp!Protocols, Upnp!OtherHost(e, q)
      PROVE  PortsInHand'
  BY <1>8 DEF Upnp!OtherHost, PortsInHand, Upnp!MappingExists, Granted
<1>9. CASE UNCHANGED Upnp!vars
  BY <1>9 DEF Upnp!vars, PortsInHand, Upnp!MappingExists, Granted
<1> QED
  BY <1>1, <1>2, <1>3, <1>4, <1>5, <1>6, <1>7, <1>8, <1>9 DEF Upnp!Next

(***************************************************************************)
(* Success is claimed only when each of this host's ports was on the list, *)
(* or the router has agreed to what was asked for it, whatever other hosts *)
(* map meanwhile: for any ports, either kind of library and any router.    *)
(***************************************************************************)
THEOREM SuccessMeansMapped == Upnp!Spec => []SuccessEarned
<1>1. PortsInHand => SuccessEarned
  <2> SUFFICES ASSUME PortsInHand, at = "success", NEW p \in Local
               PROVE  \/ Upnp!MappingExists(p)
                      \/ {<<p, q>> : q \in Upnp!Protocols} \subseteq granted
                      \/ async /\ \E q \in Upnp!Protocols : <<p, q>> \in granted
    BY DEF SuccessEarned, Upnp!SuccessEarned
  <2>1. Upnp!MappingExists(p) \/ Granted(p)
    BY DEF PortsInHand
  <2> QED
    BY <2>1 DEF Granted
<1> QED
  BY <1>1, PortsStart, PortsGoOn, PTL DEF Upnp!Spec
-----------------------------------------------------------------------------
(* The list of downloads.                                                  *)

\* The settings list what the user has saved and not removed; slots that no
\* download has had are empty; nobody is asked of a file that is on the list.
DownloadsSound ==
  /\ Saves!TypeOK /\ IsInjective(wanted)
  /\ wanted = [i \in 1 .. stored.size |-> stored.slots[i].file]
  /\ dialog /\ stopped = {} => items = wanted
  /\ ~dialog => items = <<>> /\ act = [d \in Downloads |-> "none"]
  /\ \A d \in Downloads : asking[d] \in {"none", "open"} => d \notin Range(wanted)
  /\ Saves!FinalMeansDone
  /\ ~tidied => \A i \in Saves!Slots : i > stored.size => ~stored.slots[i].final

(***************************************************************************)
(* The operators of the libraries mean the same in that module.            *)
(***************************************************************************)
LEMMA SameCardinality == ASSUME NEW S PROVE Saves!Cardinality(S) = Cardinality(S)
BY Zenon DEF Cardinality, Saves!Cardinality

LEMMA SameBijections == ASSUME NEW S, NEW T PROVE Saves!Bijection(S, T) = Bijection(S, T)
BY DEF Bijection, Injection, Surjection, IsInjective,
       Saves!Bijection, Saves!Injection, Saves!Surjection, Saves!IsInjective

(***************************************************************************)
(* A set of numbers has one order.                                         *)
(***************************************************************************)
LEMMA OneOrder ==
  ASSUME NEW n \in Nat, NEW S \in SUBSET Nat,
         NEW f \in Bijection(1 .. n, S), NEW g \in Bijection(1 .. n, S),
         \A i, j \in 1 .. n : i < j => f[i] < f[j],
         \A i, j \in 1 .. n : i < j => g[i] < g[j]
  PROVE  f = g
<1>1. /\ f \in [1 .. n -> S] /\ \A s \in S : \E i \in 1 .. n : f[i] = s
      /\ g \in [1 .. n -> S] /\ \A s \in S : \E i \in 1 .. n : g[i] = s
  BY DEF Bijection, Injection, Surjection
<1> DEFINE D == {i \in 1 .. n : f[i] # g[i]}
<1>2. SUFFICES ASSUME D # {} PROVE FALSE
  BY <1>1
<1>3. PICK k \in D : \A i \in D : k <= i
  <2>1. D \in SUBSET Nat
    OBVIOUS
  <2> HIDE DEF D
  <2> QED
    BY <1>2, <2>1, SmallestNumber
<1>4. k \in 1 .. n /\ f[k] # g[k] /\ f[k] \in Nat /\ g[k] \in Nat
  BY <1>1
<1>5. \A i \in 1 .. n : i < k => f[i] = g[i]
  BY <1>3
<1> HIDE DEF D
<1>6. PICK a \in 1 .. n : f[a] = g[k]
  BY <1>1, <1>4
<1>7. PICK b \in 1 .. n : g[b] = f[k]
  BY <1>1, <1>4
<1>8. \A i \in 1 .. n : f[i] \in Nat /\ g[i] \in Nat
  BY <1>1
<1>9. CASE f[k] < g[k]
  <2>1. b < k
    BY <1>4, <1>7, <1>8, <1>9
  <2>2. f[b] < f[k] /\ f[b] = g[b]
    BY <1>4, <1>5, <1>7, <2>1
  <2> QED
    BY <1>4, <1>7, <1>8, <2>2
<1>10. CASE g[k] < f[k]
  <2>1. a < k
    BY <1>4, <1>6, <1>8, <1>10
  <2>2. g[a] < g[k] /\ f[a] = g[a]
    BY <1>4, <1>5, <1>6, <2>1
  <2> QED
    BY <1>4, <1>6, <1>8, <2>2
<1> QED
  BY <1>4, <1>9, <1>10

(***************************************************************************)
(* What a list keeps: its other items, each once if it had them once, and  *)
(* in one order only.                                                      *)
(***************************************************************************)
LEMMA KeptItems ==
  ASSUME NEW list \in Seq(Downloads), NEW gone, NEW kept, Saves!Keeps(kept, list, gone)
  PROVE  /\ kept \in Seq(Downloads)
         /\ Range(kept) \subseteq Range(list)
         /\ IsInjective(list) => IsInjective(kept)
<1> DEFINE rows == Saves!Rest(list, gone)
<1>1. PICK order \in Bijection(1 .. Cardinality(rows), rows) :
        kept = [i \in 1 .. Cardinality(rows) |-> list[order[i]]]
  BY SameCardinality, SameBijections DEF Saves!Keeps
<1>2. Cardinality(rows) \in Nat
  <2>1. IsFiniteSet(1 .. Len(list)) /\ rows \in SUBSET (1 .. Len(list))
    BY FS_Interval DEF Saves!Rest
  <2> HIDE DEF rows
  <2> QED
    BY <2>1, FS_Subset, FS_CardinalityType
<1>3. PICK n \in Nat : n = Cardinality(rows)
  BY <1>2
<1>4. /\ order \in [1 .. n -> rows] /\ kept = [i \in 1 .. n |-> list[order[i]]]
      /\ \A i, j \in 1 .. n : order[i] = order[j] => i = j
  BY <1>1, <1>3 DEF Bijection, Injection, IsInjective
<1>5. \A i \in 1 .. n : order[i] \in DOMAIN list /\ list[order[i]] \in Downloads
  BY <1>4 DEF Saves!Rest
<1> HIDE DEF rows
<1>6. kept \in Seq(Downloads)
  BY <1>4, <1>5
<1>7. Range(kept) \subseteq Range(list)
  BY <1>4, <1>5 DEF Range
<1>8. ASSUME IsInjective(list) PROVE IsInjective(kept)
  BY <1>4, <1>5, <1>8 DEF IsInjective
<1> QED
  BY <1>6, <1>7, <1>8

LEMMA KeptInOneWay ==
  ASSUME NEW list \in Seq(Downloads), NEW gone, NEW kept, NEW same,
         Saves!Keeps(kept, list, gone), Saves!Keeps(same, list, gone)
  PROVE  kept = same
<1> DEFINE rows == Saves!Rest(list, gone)
<1>1. rows \in SUBSET Nat /\ Cardinality(rows) \in Nat
  <2>1. IsFiniteSet(1 .. Len(list)) /\ rows \in SUBSET (1 .. Len(list))
    BY FS_Interval DEF Saves!Rest
  <2>2. rows \in SUBSET Nat
    BY DEF Saves!Rest
  <2> HIDE DEF rows
  <2> QED
    BY <2>1, <2>2, FS_Subset, FS_CardinalityType
<1>2. PICK f \in Bijection(1 .. Cardinality(rows), rows) :
        /\ \A i, j \in DOMAIN f : i < j => f[i] < f[j]
        /\ kept = [i \in 1 .. Cardinality(rows) |-> list[f[i]]]
  BY SameCardinality, SameBijections DEF Saves!Keeps
<1>3. PICK g \in Bijection(1 .. Cardinality(rows), rows) :
        /\ \A i, j \in DOMAIN g : i < j => g[i] < g[j]
        /\ same = [i \in 1 .. Cardinality(rows) |-> list[g[i]]]
  BY SameCardinality, SameBijections DEF Saves!Keeps
<1> HIDE DEF rows
<1>4. DOMAIN f = 1 .. Cardinality(rows) /\ DOMAIN g = 1 .. Cardinality(rows)
  BY DEF Bijection, Injection
<1>5. f = g
  BY <1>1, <1>2, <1>3, <1>4, OneOrder, Zenon
<1> QED
  BY <1>2, <1>3, <1>5
(***************************************************************************)
(* A list of different downloads fits into the slots.                      *)
(***************************************************************************)
LEMMA ListsFit ==
  ASSUME NEW list \in Seq(Downloads), IsInjective(list)
  PROVE  Cardinality(Downloads) \in Nat /\ Len(list) <= Cardinality(Downloads)
<1>1. list \in Injection(1 .. Len(list), Downloads)
  BY DEF Injection
<1>2. Cardinality(1 .. Len(list)) = Len(list)
  <2>1. PICK n \in Nat : n = Len(list)
    OBVIOUS
  <2>2. Cardinality(1 .. n) = n
    BY FS_Interval
  <2> QED
    BY <2>1, <2>2
<1> QED
  BY <1>1, <1>2, DownloadAssumption, FS_Injection, FS_CardinalityType

LEMMA SlotsOfAll == Saves!Slots = 1 .. Cardinality(Downloads)
BY SameCardinality DEF Saves!Slots

Status == {"none", "running", "done"}

(***************************************************************************)
(* What writing the list leaves in the settings.                           *)
(***************************************************************************)
LEMMA StateWritten ==
  ASSUME NEW list \in Seq(Downloads), NEW a \in [Downloads -> Status], NEW new,
         stored.slots \in [Saves!Slots -> Saves!Slot], IsInjective(list),
         new = Saves!WriteState(list, a)
  PROVE  /\ new.size = Len(list) /\ new.size \in 0 .. Cardinality(Downloads)
         /\ new.slots \in [Saves!Slots -> Saves!Slot]
         /\ list = [i \in 1 .. new.size |-> new.slots[i].file]
         /\ \A i \in DOMAIN list :
              new.slots[i].final = (Saves!IsDone(a, list[i]) \/ stored.slots[i].final)
         /\ \A i \in Saves!Slots : i > Len(list) => new.slots[i] = stored.slots[i]
<1>1. Cardinality(Downloads) \in Nat /\ Len(list) \in 0 .. Cardinality(Downloads)
  BY ListsFit
<1>2. /\ new.size = Len(list)
      /\ new.slots = [i \in Saves!Slots |->
           IF i <= Len(list)
           THEN [file |-> list[i], final |-> Saves!IsDone(a, list[i]) \/ stored.slots[i].final]
           ELSE stored.slots[i]]
  BY DEF Saves!WriteState
<1>3. \A i \in DOMAIN list :
        /\ i \in Saves!Slots /\ list[i] \in Downloads
        /\ new.slots[i] = [file |-> list[i],
                           final |-> Saves!IsDone(a, list[i]) \/ stored.slots[i].final]
  BY <1>1, <1>2, SlotsOfAll
<1>4. \A i \in Saves!Slots : i > Len(list) => new.slots[i] = stored.slots[i]
  BY <1>1, <1>2, SlotsOfAll
<1>5. \A i \in DOMAIN list : /\ new.slots[i].file = list[i] /\ new.slots[i] \in Saves!Slot
                             /\ new.slots[i].final =
                                  (Saves!IsDone(a, list[i]) \/ stored.slots[i].final)
  <2> SUFFICES ASSUME NEW i \in DOMAIN list
               PROVE  /\ new.slots[i].file = list[i] /\ new.slots[i] \in Saves!Slot
                      /\ new.slots[i].final =
                           (Saves!IsDone(a, list[i]) \/ stored.slots[i].final)
    OBVIOUS
  <2> DEFINE final == Saves!IsDone(a, list[i]) \/ stored.slots[i].final
  <2>1. final \in BOOLEAN
    OBVIOUS
  <2>2. new.slots[i] = [file |-> list[i], final |-> final] /\ list[i] \in Downloads
    BY <1>3
  <2> HIDE DEF final
  <2>3. new.slots[i].file = list[i] /\ new.slots[i].final = final
    BY <2>2
  <2>4. new.slots[i] \in Saves!Slot
    BY <2>1, <2>2 DEF Saves!Slot
  <2> QED
    BY <2>3, <2>4 DEF final
<1>6. new.slots \in [Saves!Slots -> Saves!Slot]
  <2>1. ASSUME NEW i \in Saves!Slots PROVE new.slots[i] \in Saves!Slot
    BY <1>1, <1>4, <1>5, SlotsOfAll
  <2> QED
    BY <1>2, <2>1
<1>7. list = [i \in 1 .. new.size |-> new.slots[i].file]
  <2>1. list = [i \in 1 .. Len(list) |-> list[i]]
    OBVIOUS
  <2> QED
    BY <1>2, <1>5, <2>1
<1> QED
  BY <1>1, <1>2, <1>4, <1>5, <1>6, <1>7

(***************************************************************************)
(* The dialog that is there, or was made from the settings, lists what is  *)
(* wanted, and a slot tells whether its download is done.                  *)
(***************************************************************************)
LEMMA DialogMade ==
  ASSUME DownloadsSound, stopped = {}, NEW quick \in SUBSET Downloads,
         NEW made, made = Saves!Made(quick)
  PROVE  /\ made.items = wanted /\ made.act \in [Downloads -> Status]
         /\ made.failed \subseteq {"dlg"}
         /\ made.failed = {} /\ ~tidied =>
              \A i \in DOMAIN wanted :
                stored.slots[i].final = Saves!IsDone(made.act, wanted[i])
<1>1. CASE dialog
  <2>1. made = [items |-> items, act |-> act, failed |-> stopped]
    BY <1>1 DEF Saves!Made
  <2> QED
    BY <1>1, <2>1 DEF DownloadsSound, Saves!TypeOK, Status, Saves!FinalMeansDone
<1>2. CASE ~dialog
  <2> DEFINE old == [i \in 1 .. stored.size |-> stored.slots[i]]
             unfinished == {old[i].file : i \in {j \in DOMAIN old : ~old[j].final}}
             finished == {old[i].file : i \in {j \in DOMAIN old : old[j].final}}
  <2>1. /\ made.items = [i \in DOMAIN old |-> old[i].file]
        /\ made.act = [d \in Downloads |-> IF d \in unfinished \ quick THEN "running"
                                           ELSE IF d \in finished THEN "done" ELSE "none"]
        /\ made.failed = IF quick \cap unfinished # {} THEN stopped \cup {"dlg"} ELSE stopped
    BY <1>2 DEF Saves!Made
  <2>2. /\ stored.size \in 0 .. Cardinality(Downloads)
        /\ wanted = [i \in 1 .. stored.size |-> stored.slots[i].file]
        /\ wanted \in Seq(Downloads) /\ \A i, j \in DOMAIN wanted : wanted[i] = wanted[j] => i = j
        /\ stored.slots \in [Saves!Slots -> Saves!Slot]
    BY SameCardinality DEF DownloadsSound, Saves!TypeOK, IsInjective
  <2>3. Cardinality(Downloads) \in Nat
    BY DownloadAssumption, FS_CardinalityType
  <2>4. /\ DOMAIN wanted = 1 .. stored.size /\ DOMAIN old = 1 .. stored.size
        /\ \A i \in 1 .. stored.size : /\ old[i].file = wanted[i] /\ wanted[i] \in Downloads
                                       /\ old[i].final = stored.slots[i].final
                                       /\ stored.slots[i].final \in BOOLEAN
    BY <2>2, <2>3, SlotsOfAll DEF Saves!Slot
  <2>5. made.items = wanted
    BY <2>1, <2>2, <2>4
  <2>6. made.act \in [Downloads -> Status]
    BY <2>1 DEF Status
  <2>7. ASSUME made.failed = {}, NEW i \in DOMAIN wanted
        PROVE  stored.slots[i].final = Saves!IsDone(made.act, wanted[i])
    <3>1. wanted[i] \notin quick \cap unfinished
      BY <2>1, <2>7
    <3>2. wanted[i] \in unfinished <=> ~stored.slots[i].final
      BY <2>2, <2>4
    <3> HIDE DEF unfinished, finished, old
    <3>3. made.act[wanted[i]] = "running" <=> ~stored.slots[i].final
      BY <2>1, <2>4, <3>1, <3>2
    <3> QED
      BY <2>4, <3>3 DEF Saves!IsDone
  <2>8. made.failed \subseteq {"dlg"}
    BY <2>1
  <2> HIDE DEF unfinished, finished, old
  <2> QED
    BY <2>5, <2>6, <2>7, <2>8
<1> QED
  BY <1>1, <1>2 DEF DownloadsSound, Saves!TypeOK
(***************************************************************************)
(* There are no downloads.                                                 *)
(***************************************************************************)
LEMMA DownloadsStart == Saves!Init => DownloadsSound
<1> SUFFICES ASSUME Saves!Init PROVE DownloadsSound
  OBVIOUS
<1>1. /\ stored.size = 0 /\ \A i \in Saves!Slots : ~stored.slots[i].final
      /\ stored.slots \in [Saves!Slots -> Saves!Slot]
  BY DEF Saves!Init, Saves!Slot
<1>2. Cardinality(Downloads) \in Nat
  BY DownloadAssumption, FS_CardinalityType
<1>3. Saves!TypeOK
  <2> DEFINE none == <<>>
  <2>0. /\ dialog = FALSE /\ items = none /\ wanted = none /\ tidied = FALSE
        /\ reboots = 0 /\ stopped = {} /\ none \in Seq(Downloads)
    BY DEF Saves!Init
  <2> HIDE DEF none
  <2>1. dialog \in BOOLEAN /\ items \in Seq(Downloads) /\ wanted \in Seq(Downloads)
    BY <2>0
  <2>2. /\ act \in [Downloads -> {"none", "running", "done"}]
        /\ asking \in [Downloads -> {"none", "open", "done", "gone"}]
    BY DEF Saves!Init
  <2>3. tidied \in BOOLEAN /\ reboots \in 0 .. MaxReboots /\ stopped \subseteq {"dlg"}
    <3>1. tidied \in BOOLEAN /\ stopped \subseteq {"dlg"}
      BY <2>0
    <3>2. reboots \in 0 .. MaxReboots
      BY <2>0, DownloadAssumption
    <3> QED
      BY <3>1, <3>2
  <2>4. stored.size \in 0 .. Saves!Cardinality(Downloads)
    BY <1>1, <1>2, SameCardinality
  <2> QED
    BY <1>1, <2>1, <2>2, <2>3, <2>4 DEF Saves!TypeOK
<1>4. wanted = [i \in 1 .. stored.size |-> stored.slots[i].file]
  BY <1>1 DEF Saves!Init
<1>5. IsInjective(wanted) /\ Range(wanted) = {}
  BY DEF Saves!Init, IsInjective, Range
<1> QED
  BY <1>1, <1>3, <1>4, <1>5 DEF DownloadsSound, Saves!Init, Saves!FinalMeansDone

(***************************************************************************)
(* A file that is saved is a new one, and the last of the list.            *)
(***************************************************************************)
LEMMA DownloadAdded ==
  ASSUME DownloadsSound, stopped = {}, NEW d \in Downloads, NEW quick \in SUBSET Downloads,
         asking[d] = "open", asking' = [asking EXCEPT ![d] = "done"],
         Saves!Save(d, quick), UNCHANGED <<tidied, reboots>>
  PROVE  DownloadsSound'
<1>1. PICK made : made = Saves!Made(quick)
  OBVIOUS
<1>2. /\ dialog' = TRUE /\ stopped' = made.failed
      /\ made.items = wanted /\ made.act \in [Downloads -> Status] /\ stopped' \subseteq {"dlg"}
      /\ stopped' = {} /\ ~tidied =>
           \A i \in DOMAIN wanted : stored.slots[i].final = Saves!IsDone(made.act, wanted[i])
  BY <1>1, DialogMade DEF Saves!Save
<1>3. /\ asking' \in [Downloads -> {"none", "open", "done", "gone"}]
      /\ \A e \in Downloads : asking'[e] \in {"none", "open"} => e # d /\ e \notin Range(wanted)
      /\ d \notin Range(wanted)
  BY DEF DownloadsSound, Saves!TypeOK
<1>4. CASE stopped' # {}
  <2>1. UNCHANGED <<items, act, stored, wanted>>
    BY <1>4 DEF Saves!Save
  <2> QED
    BY <1>2, <1>3, <1>4, <2>1 DEF DownloadsSound, Saves!TypeOK, Saves!FinalMeansDone
<1>5. CASE stopped' = {}
  <2>1. PICK list, a, new :
          /\ list = Append(wanted, d) /\ list = items' /\ list = wanted'
          /\ a = [made.act EXCEPT ![d] = IF d \in quick THEN "done" ELSE "running"] /\ a = act'
          /\ new = stored' /\ new = Saves!WriteState(list, a)
    BY <1>1, <1>2, <1>5 DEF Saves!Save
  <2>2. /\ wanted \in Seq(Downloads) /\ \A i, j \in DOMAIN wanted : wanted[i] = wanted[j] => i = j
        /\ \A i \in DOMAIN wanted : wanted[i] # d
        /\ stored.slots \in [Saves!Slots -> Saves!Slot]
        /\ stored.size = Len(wanted)
    <3>1. wanted \in Seq(Downloads) /\ \A i, j \in DOMAIN wanted : wanted[i] = wanted[j] => i = j
      BY DEF DownloadsSound, Saves!TypeOK, IsInjective
    <3>2. \A i \in DOMAIN wanted : wanted[i] # d
      BY <1>3 DEF Range
    <3>3. stored.slots \in [Saves!Slots -> Saves!Slot]
      BY DEF DownloadsSound, Saves!TypeOK
    <3>4. stored.size \in Nat
      BY DownloadAssumption, FS_CardinalityType DEF DownloadsSound, Saves!TypeOK
    <3>5. DOMAIN wanted = 1 .. stored.size
      BY DEF DownloadsSound
    <3>6. stored.size = Len(wanted)
      BY <3>1, <3>4, <3>5
    <3> QED
      BY <3>1, <3>2, <3>3, <3>6
  <2>3. /\ list \in Seq(Downloads) /\ Len(list) = Len(wanted) + 1 /\ list[Len(wanted) + 1] = d
        /\ \A i \in DOMAIN wanted : list[i] = wanted[i]
        /\ DOMAIN list = 1 .. Len(wanted) + 1 /\ DOMAIN wanted = 1 .. Len(wanted)
    <3>1. list = Append(wanted, d) /\ wanted \in Seq(Downloads)
      BY <2>1, <2>2
    <3> QED
      BY <3>1
  <2>4. IsInjective(list)
    BY <2>2, <2>3 DEF IsInjective
  <2>5. a \in [Downloads -> Status]
    BY <1>2, <2>1 DEF Status
  <2>6. /\ new.size = Len(list) /\ new.size \in 0 .. Cardinality(Downloads)
        /\ new.slots \in [Saves!Slots -> Saves!Slot]
        /\ list = [i \in 1 .. new.size |-> new.slots[i].file]
        /\ \A i \in DOMAIN list :
             new.slots[i].final = (Saves!IsDone(a, list[i]) \/ stored.slots[i].final)
        /\ \A i \in Saves!Slots : i > Len(list) => new.slots[i] = stored.slots[i]
    <3>1. list \in Seq(Downloads) /\ new = Saves!WriteState(list, a)
      BY <2>1, <2>3
    <3>2. stored.slots \in [Saves!Slots -> Saves!Slot]
      BY <2>2
    <3> QED
      BY <2>4, <2>5, <3>1, <3>2, StateWritten
  <2>7. \A e \in Downloads : e # d => (Saves!IsDone(a, e) <=> Saves!IsDone(made.act, e))
    BY <1>2, <2>1 DEF Saves!IsDone
  <2>8. ASSUME ~tidied, NEW i \in DOMAIN list
        PROVE  new.slots[i].final = Saves!IsDone(a, list[i])
    <3>1. CASE i \in DOMAIN wanted
      <4>1. list[i] = wanted[i] /\ list[i] # d /\ list[i] \in Downloads
        BY <2>2, <2>3, <3>1
      <4>2. stored.slots[i].final = Saves!IsDone(made.act, list[i])
        BY <1>2, <1>5, <2>8, <3>1, <4>1
      <4> QED
        BY <2>6, <2>7, <4>1, <4>2 DEF Saves!IsDone
    <3>2. CASE i = Len(wanted) + 1
      <4>1. i \in Saves!Slots /\ i > stored.size
        BY <2>2, <2>3, <2>6, <3>2, SlotsOfAll, DownloadAssumption, FS_CardinalityType
      <4>2. ~stored.slots[i].final
        BY <2>8, <4>1 DEF DownloadsSound
      <4> QED
        BY <2>6, <4>2 DEF Saves!IsDone
    <3> QED
      BY <2>3, <3>1, <3>2
  <2>9. ASSUME ~tidied, NEW i \in Saves!Slots, i > new.size
        PROVE  ~new.slots[i].final
    <3>1. i > stored.size /\ new.slots[i] = stored.slots[i]
      BY <2>2, <2>3, <2>6, <2>9, SlotsOfAll, DownloadAssumption, FS_CardinalityType
    <3> QED
      BY <2>9, <3>1 DEF DownloadsSound
  <2>10. \A e \in Downloads : asking'[e] \in {"none", "open"} => e \notin Range(list)
    BY <1>3, <2>3 DEF Range
  <2>11. Saves!TypeOK'
    <3>1. items' \in Seq(Downloads) /\ wanted' \in Seq(Downloads)
      BY <2>1, <2>3
    <3>2. act' \in [Downloads -> {"none", "running", "done"}]
      BY <2>1, <2>5 DEF Status
    <3>3. stored'.size \in 0 .. Saves!Cardinality(Downloads)
      BY <2>1, <2>6, SameCardinality
    <3>4. stored'.slots \in [Saves!Slots -> Saves!Slot]
      BY <2>1, <2>6
    <3>5. tidied' \in BOOLEAN /\ reboots' \in 0 .. MaxReboots /\ stopped' \subseteq {"dlg"}
      BY <1>2 DEF DownloadsSound, Saves!TypeOK
    <3> QED
      BY <1>2, <1>3, <3>1, <3>2, <3>3, <3>4, <3>5 DEF Saves!TypeOK, Saves!Slots, Saves!Slot
  <2>12. Saves!FinalMeansDone'
    BY <2>1, <2>8 DEF Saves!FinalMeansDone
  <2> QED
    BY <1>2, <2>1, <2>4, <2>6, <2>9, <2>10, <2>11, <2>12 DEF DownloadsSound
<1> QED
  BY <1>4, <1>5
(***************************************************************************)
(* The list that the dialog has, when the program is there.                *)
(***************************************************************************)
LEMMA ListShown ==
  ASSUME DownloadsSound, stopped = {}
  PROVE  /\ wanted \in Seq(Downloads) /\ IsInjective(wanted)
         /\ stored.slots \in [Saves!Slots -> Saves!Slot]
         /\ stored.size = Len(wanted) /\ act \in [Downloads -> Status]
         /\ asking \in [Downloads -> {"none", "open", "done", "gone"}]
         /\ stored.size \in 0 .. Cardinality(Downloads) /\ Cardinality(Downloads) \in Nat
         /\ dialog => items = wanted
<1>1. /\ wanted \in Seq(Downloads) /\ IsInjective(wanted)
      /\ stored.slots \in [Saves!Slots -> Saves!Slot] /\ act \in [Downloads -> Status]
      /\ asking \in [Downloads -> {"none", "open", "done", "gone"}]
      /\ dialog => items = wanted
  BY DEF DownloadsSound, Saves!TypeOK, Status
<1>2. stored.size \in 0 .. Cardinality(Downloads) /\ Cardinality(Downloads) \in Nat
  BY SameCardinality, DownloadAssumption, FS_CardinalityType DEF DownloadsSound, Saves!TypeOK
<1>3. DOMAIN wanted = 1 .. stored.size
  BY DEF DownloadsSound
<1> QED
  BY <1>1, <1>2, <1>3

(***************************************************************************)
(* A download is at its end: its slot says so.                             *)
(***************************************************************************)
LEMMA DownloadEnded ==
  ASSUME DownloadsSound, stopped = {}, NEW d \in Downloads, Saves!UpdateStatus(d)
  PROVE  DownloadsSound'
<1>1. dialog
  BY DEF Saves!UpdateStatus, DownloadsSound
<1>2. PICK a, new : /\ a = act' /\ a = [act EXCEPT ![d] = "done"]
                    /\ new = stored' /\ new = Saves!WriteState(wanted, a)
                    /\ items = wanted
  BY <1>1, ListShown DEF Saves!UpdateStatus
<1>3. a \in [Downloads -> Status]
  BY <1>2, ListShown DEF Status
<1>4. /\ new.size = Len(wanted) /\ new.size \in 0 .. Cardinality(Downloads)
      /\ new.slots \in [Saves!Slots -> Saves!Slot]
      /\ wanted = [i \in 1 .. new.size |-> new.slots[i].file]
      /\ \A i \in DOMAIN wanted :
           new.slots[i].final = (Saves!IsDone(a, wanted[i]) \/ stored.slots[i].final)
      /\ \A i \in Saves!Slots : i > Len(wanted) => new.slots[i] = stored.slots[i]
  <2>1. new = Saves!WriteState(wanted, a)
    BY <1>2
  <2> QED
    BY <1>3, <2>1, ListShown, StateWritten
<1>5. UNCHANGED <<dialog, items, asking, wanted, tidied, reboots, stopped>>
  BY DEF Saves!UpdateStatus
<1>6. ASSUME ~tidied, NEW i \in DOMAIN wanted
      PROVE  new.slots[i].final = Saves!IsDone(a, wanted[i])
  <2>1. wanted[i] \in Downloads
    BY ListShown
  <2>2. stored.slots[i].final = Saves!IsDone(act, wanted[i])
    BY <1>1, <1>2, <1>6 DEF DownloadsSound, Saves!FinalMeansDone
  <2>3. Saves!IsDone(act, wanted[i]) => Saves!IsDone(a, wanted[i])
    BY <1>2, <2>1, ListShown DEF Saves!IsDone
  <2> QED
    BY <1>4, <2>2, <2>3 DEF Saves!IsDone
<1>7. ~tidied => \A i \in Saves!Slots : i > new.size => ~new.slots[i].final
  BY <1>4, ListShown DEF DownloadsSound
<1>8. Saves!FinalMeansDone'
  BY <1>2, <1>5, <1>6 DEF Saves!FinalMeansDone
<1>9. Saves!TypeOK'
  <2>1. act' \in [Downloads -> {"none", "running", "done"}]
    BY <1>2, <1>3 DEF Status
  <2>2. /\ stored'.size \in 0 .. Saves!Cardinality(Downloads)
        /\ stored'.slots \in [Saves!Slots -> Saves!Slot]
    BY <1>2, <1>4, SameCardinality
  <2> QED
    BY <1>5, <2>1, <2>2 DEF DownloadsSound, Saves!TypeOK, Saves!Slots, Saves!Slot
<1> QED
  BY <1>1, <1>2, <1>4, <1>5, <1>7, <1>8, <1>9 DEF DownloadsSound

(***************************************************************************)
(* Downloads are taken off the list: what is left keeps its order, in the  *)
(* dialog and in the settings.                                             *)
(***************************************************************************)
LEMMA DownloadsRemoved ==
  ASSUME DownloadsSound, stopped = {}, dialog, NEW gone, Saves!Without(gone)
  PROVE  DownloadsSound'
<1>1. PICK list, a, new : /\ list = items' /\ a = act' /\ new = stored'
                          /\ a = [d \in Downloads |-> IF d \in gone THEN "none" ELSE act[d]]
                          /\ new = Saves!WriteState(list, a)
                          /\ Saves!Keeps(list, wanted, gone) /\ Saves!Keeps(wanted', wanted, gone)
  BY ListShown DEF Saves!Without
<1>2. list = wanted'
  <2>1. PICK rest : rest = wanted'
    OBVIOUS
  <2>2. Saves!Keeps(list, wanted, gone) /\ Saves!Keeps(rest, wanted, gone)
    BY <1>1, <2>1
  <2>3. list = rest
    BY <2>2, ListShown, KeptInOneWay
  <2> QED
    BY <2>1, <2>3
<1>3. list \in Seq(Downloads) /\ Range(list) \subseteq Range(wanted) /\ IsInjective(list)
  BY <1>1, ListShown, KeptItems
<1>4. a \in [Downloads -> Status]
  BY <1>1, ListShown DEF Status
<1>5. /\ new.size = Len(list) /\ new.size \in 0 .. Cardinality(Downloads)
      /\ new.slots \in [Saves!Slots -> Saves!Slot]
      /\ list = [i \in 1 .. new.size |-> new.slots[i].file]
  <2>1. new = Saves!WriteState(list, a)
    BY <1>1
  <2> QED
    <3>1. stored.slots \in [Saves!Slots -> Saves!Slot]
      BY ListShown
    <3> QED
      BY <1>3, <1>4, <2>1, <3>1, StateWritten
<1>6. UNCHANGED <<dialog, asking, reboots, stopped>> /\ tidied' = TRUE
  BY DEF Saves!Without
<1>7. Saves!TypeOK'
  <2>1. act' \in [Downloads -> {"none", "running", "done"}]
    BY <1>1, <1>4 DEF Status
  <2>2. /\ stored'.size \in 0 .. Saves!Cardinality(Downloads)
        /\ stored'.slots \in [Saves!Slots -> Saves!Slot]
    BY <1>1, <1>5, SameCardinality
  <2>3. items' \in Seq(Downloads) /\ wanted' \in Seq(Downloads)
    BY <1>1, <1>2, <1>3
  <2> QED
    BY <1>6, <2>1, <2>2, <2>3 DEF DownloadsSound, Saves!TypeOK, Saves!Slots, Saves!Slot
<1>8. \A d \in Downloads : asking'[d] \in {"none", "open"} => d \notin Range(wanted')
  BY <1>2, <1>3, <1>6 DEF DownloadsSound
<1>9. Saves!FinalMeansDone'
  BY <1>6 DEF Saves!FinalMeansDone
<1>10. IsInjective(wanted')
  BY <1>2, <1>3
<1> QED
  BY <1>1, <1>2, <1>5, <1>6, <1>7, <1>8, <1>9, <1>10 DEF DownloadsSound

(***************************************************************************)
(* The list and the settings agree after every step.                       *)
(***************************************************************************)
LEMMA DownloadsGoOn == DownloadsSound /\ [Saves!Next]_(Saves!vars) => DownloadsSound'
<1> SUFFICES ASSUME DownloadsSound, [Saves!Next]_(Saves!vars) PROVE DownloadsSound'
  OBVIOUS
<1>1. CASE stopped = {} /\ Saves!Present
  <2>0. PICK quick \in SUBSET Downloads :
          /\ items' = Saves!Made(quick).items /\ act' = Saves!Made(quick).act
          /\ stopped' = Saves!Made(quick).failed
    BY <1>1 DEF Saves!Present
  <2>1. PICK made : /\ made = Saves!Made(quick)
                    /\ items' = made.items /\ act' = made.act /\ stopped' = made.failed
    BY <2>0
  <2>2. dialog' = TRUE /\ UNCHANGED <<asking, stored, wanted, tidied, reboots>>
    BY <1>1 DEF Saves!Present
  <2>3. /\ items' = wanted /\ act' \in [Downloads -> Status] /\ stopped' \subseteq {"dlg"}
        /\ stopped' = {} /\ ~tidied =>
             \A i \in DOMAIN wanted : stored.slots[i].final = Saves!IsDone(act', wanted[i])
    BY <1>1, <2>1, DialogMade
  <2>4. Saves!FinalMeansDone'
    BY <2>2, <2>3 DEF Saves!FinalMeansDone
  <2>5. Saves!TypeOK'
    BY <1>1, <2>2, <2>3, ListShown DEF DownloadsSound, Saves!TypeOK, Status, Saves!Slots, Saves!Slot
  <2> QED
    BY <2>2, <2>3, <2>4, <2>5 DEF DownloadsSound, Saves!Slots
<1>2. ASSUME NEW d \in Downloads, Saves!SaveAs(d) PROVE DownloadsSound'
  BY <1>2 DEF Saves!SaveAs, DownloadsSound, Saves!TypeOK, Saves!FinalMeansDone, Saves!Slots, Saves!Slot
<1>3. ASSUME stopped = {}, NEW d \in Downloads, NEW accepted \in BOOLEAN,
             NEW quick \in SUBSET Downloads, Saves!GotFinished(d, accepted, quick)
      PROVE  DownloadsSound'
  <2>1. CASE asking[d] = "done" \/ ~accepted
    BY <1>3, <2>1 DEF Saves!GotFinished, DownloadsSound, Saves!TypeOK, Saves!FinalMeansDone,
                      Saves!Slots, Saves!Slot
  <2>2. CASE ~(asking[d] = "done" \/ ~accepted)
    <3>1. /\ asking[d] = "open" /\ asking' = [asking EXCEPT ![d] = "done"]
          /\ Saves!Save(d, quick) /\ UNCHANGED <<tidied, reboots>>
      BY <1>3, <2>2 DEF Saves!GotFinished
    <3> QED
      BY <1>3, <3>1, DownloadAdded
  <2> QED
    BY <2>1, <2>2
<1>4. ASSUME NEW d \in Downloads, Saves!SaveAsDeleted(d) PROVE DownloadsSound'
  BY <1>4 DEF Saves!SaveAsDeleted, DownloadsSound, Saves!TypeOK, Saves!FinalMeansDone,
              Saves!Slots, Saves!Slot
<1>5. ASSUME stopped = {}, NEW d \in Downloads, Saves!UpdateStatus(d) PROVE DownloadsSound'
  BY <1>5, DownloadEnded
<1>6. ASSUME stopped = {}, NEW d \in Downloads, Saves!CancelPressed(d) PROVE DownloadsSound'
  <2>1. dialog /\ Saves!Without({d})
    BY <1>6 DEF Saves!CancelPressed, DownloadsSound, Saves!Range
  <2> QED
    BY <1>6, <2>1, DownloadsRemoved
<1>7. CASE stopped = {} /\ Saves!Cleanup
  BY <1>7, DownloadsRemoved DEF Saves!Cleanup
<1>8. CASE Saves!Restart
  <2>1. /\ dialog' = FALSE /\ items' = <<>> /\ act' = [d \in Downloads |-> "none"]
        /\ reboots < MaxReboots /\ reboots' = reboots + 1
        /\ asking' = [d \in Downloads |-> IF asking[d] = "open" THEN "none"
                                          ELSE IF asking[d] = "done" THEN "gone" ELSE asking[d]]
        /\ UNCHANGED <<stored, wanted, tidied, stopped>>
    BY <1>8 DEF Saves!Restart
  <2>2. items' \in Seq(Downloads) /\ reboots' \in 0 .. MaxReboots
    BY <2>1, DownloadAssumption DEF DownloadsSound, Saves!TypeOK
  <2>3. /\ act' \in [Downloads -> {"none", "running", "done"}]
        /\ asking' \in [Downloads -> {"none", "open", "done", "gone"}]
        /\ \A d \in Downloads : asking'[d] \in {"none", "open"} => asking[d] \in {"none", "open"}
    BY <2>1 DEF DownloadsSound, Saves!TypeOK
  <2>4. Saves!TypeOK'
    BY <2>1, <2>2, <2>3 DEF DownloadsSound, Saves!TypeOK, Saves!Slots, Saves!Slot
  <2> QED
    BY <2>1, <2>3, <2>4 DEF DownloadsSound, Saves!FinalMeansDone, Saves!Slots
<1>9. CASE UNCHANGED Saves!vars
  BY <1>9 DEF Saves!vars, Saves!program, DownloadsSound, Saves!TypeOK, Saves!FinalMeansDone,
              Saves!Slots, Saves!Slot
<1> QED
  BY <1>1, <1>2, <1>3, <1>4, <1>5, <1>6, <1>7, <1>8, <1>9 DEF Saves!Next

(***************************************************************************)
(* Whatever the user saves, cancels and cleans up, whichever updates are   *)
(* at their end at once, and wherever the program is stopped, the settings *)
(* list what was saved and not removed, in order and once each, and so     *)
(* does the dialog; until a download is removed they also tell the         *)
(* finished from the others.  For any downloads and number of restarts.    *)
(***************************************************************************)
THEOREM DownloadsSurvive == Saves!Spec => []DownloadsRemembered
<1>1. DownloadsSound => DownloadsRemembered
  BY DEF DownloadsSound, DownloadsRemembered, Saves!DownloadsRemembered, Saves!DownloadsKept,
         IsInjective, Saves!IsInjective
<1> QED
  BY <1>1, DownloadsStart, DownloadsGoOn, PTL DEF Saves!Spec
-----------------------------------------------------------------------------
(* The list of contacts.                                                   *)

Named(list, id, name) == \E i \in DOMAIN list : list[i].eid = id /\ list[i].name = name
Once(list, id) == \A i, j \in DOMAIN list : list[i].eid = id /\ list[j].eid = id => i = j
Present(list, id) == \E i \in DOMAIN list : list[i].eid = id

\* What each thread has at hand; the window's row was one past the last, and is
\* not further now.
WindowTyped(w, length) ==
  \/ w = Idle
  \/ w \in [do : {"insert"}, id : Ids, name : Names, row : 1 .. length + 1]
  \/ w \in [do : {"write"}, id : Ids \cup {NoId}, name : Names \cup {NoName}]
NetTyped(n) ==
  \/ n = Idle
  \/ n \in [do : {"found"}, ids : SUBSET Ids]
  \/ n \in [do : {"append"}, ids : SUBSET Ids, id : Ids]
  \/ n \in [do : {"update"}, id : Ids, row : Nat]

ListTyped == peers \in Seq(Peer) /\ Len(peers) <= MaxRows
RestTyped ==
  /\ saved \in Seq(Peer) /\ Len(saved) <= MaxRows
  /\ searching \in BOOLEAN /\ doubled \subseteq Ids /\ wish \in [Ids -> Names \cup {NoName}]
  /\ restarts \in 0 .. MaxRestarts /\ failed \subseteq {"range"}
Typed ==
  /\ ListTyped /\ RestTyped /\ NetTyped(net) /\ WindowTyped(window, Len(peers))
  /\ lookups \subseteq Ids /\ ops \in 0 .. MaxOps

\* What the user wishes is in the settings and, but for the row that is still to
\* be written, in the list as it was written.
Held(id, list, kept, w, want) ==
  /\ Once(list, id) /\ Once(kept, id)
  /\ want # NoName => Named(kept, id, want)
  /\ IF w.do = "write" /\ w.id = id THEN Named(list, id, w.name)
     ELSE want # NoName => Named(list, id, want)
WishesHeld == \A id \in Ids \ doubled : Held(id, peers, saved, window, wish[id])

\* A contact that the user has entered is in the list and in the settings, whoever
\* else has entered it.
Entered(id, list, kept, w, want) ==
  /\ want # NoName => Present(list, id) /\ Present(kept, id)
  /\ w.do = "write" /\ w.id = id => Present(list, id)
ContactsEntered == \A id \in Ids : Entered(id, peers, saved, window, wish[id])

(***************************************************************************)
(* The row that is found for an identity, if there is one, is the first.   *)
(***************************************************************************)
LEMMA RowFound ==
  ASSUME peers \in Seq(Peer), NEW id
  PROVE  /\ ContainsId(id) <=> \E i \in DOMAIN peers : peers[i].eid = id
         /\ ContainsId(id) => RowWithId(id) \in DOMAIN peers /\ peers[RowWithId(id)].eid = id
<1> DEFINE rows == Rows(peers, id)
<1>1. rows \in SUBSET Nat /\ \A i \in rows : i \in DOMAIN peers /\ peers[i].eid = id /\ i # 0
  BY DEF Rows
<1>2. rows = {} <=> ~\E i \in DOMAIN peers : peers[i].eid = id
  BY DEF Rows
<1>3. RowWithId(id) = IF rows = {} THEN 0 ELSE CHOOSE i \in rows : \A j \in rows : i <= j
  BY DEF RowWithId
<1> HIDE DEF rows
<1>4. rows # {} => \E i \in rows : \A j \in rows : i <= j
  BY <1>1, SmallestNumber
<1>5. rows # {} => RowWithId(id) \in rows
  BY <1>3, <1>4
<1>6. ContainsId(id) <=> rows # {}
  BY <1>1, <1>3, <1>5 DEF ContainsId
<1> QED
  BY <1>1, <1>2, <1>5, <1>6

(***************************************************************************)
(* Two lists one after the other, and a list with one row set.             *)
(***************************************************************************)
LEMMA ListsJoined ==
  ASSUME NEW s \in Seq(Peer), NEW t \in Seq(Peer), NEW u, u = s \o t
  PROVE  /\ u \in Seq(Peer) /\ Len(u) = Len(s) + Len(t)
         /\ \A i \in 1 .. Len(s) : u[i] = s[i]
         /\ \A i \in 1 .. Len(t) : u[Len(s) + i] = t[i]
OBVIOUS

LEMMA RowSet ==
  ASSUME NEW list \in Seq(Peer), NEW row \in DOMAIN list, NEW p \in Peer,
         NEW new, new = [list EXCEPT ![row] = p]
  PROVE  /\ new \in Seq(Peer) /\ Len(new) = Len(list) /\ DOMAIN new = DOMAIN list
         /\ new[row] = p /\ \A i \in DOMAIN list : i # row => new[i] = list[i]
OBVIOUS

(***************************************************************************)
(* A row that is put in: the others stay, in their order.                  *)
(***************************************************************************)
RowIn(list, row, p, new) ==
  /\ new \in Seq(Peer) /\ Len(new) = Len(list) + 1 /\ new[row] = p
  /\ \A i \in 1 .. row - 1 : new[i] = list[i]
  /\ \A i \in row .. Len(list) : new[i + 1] = list[i]

LEMMA RowPlaced ==
  ASSUME NEW list \in Seq(Peer), NEW row \in 1 .. Len(list) + 1, NEW p \in Peer,
         NEW new, new = Placed(list, row, p)
  PROVE  RowIn(list, row, p, new)
<1>1. PICK front : front = SubSeq(list, 1, row - 1)
  OBVIOUS
<1>2. PICK back : back = SubSeq(list, row, Len(list))
  OBVIOUS
<1>3. /\ front \in Seq(Peer) /\ Len(front) = row - 1
      /\ \A i \in 1 .. row - 1 : front[i] = list[i]
  BY <1>1
<1>4. /\ back \in Seq(Peer) /\ Len(back) = Len(list) - row + 1
      /\ \A i \in 1 .. Len(list) - row + 1 : back[i] = list[row + i - 1]
  BY <1>2
<1>5. PICK one : one = <<p>>
  OBVIOUS
<1>6. one \in Seq(Peer) /\ Len(one) = 1 /\ one[1] = p
  BY <1>5
<1>7. PICK start : start = front \o one
  OBVIOUS
<1>8. /\ start \in Seq(Peer) /\ Len(start) = row /\ start[row] = p
      /\ \A i \in 1 .. row - 1 : start[i] = list[i]
  <2>1. /\ start \in Seq(Peer) /\ Len(start) = Len(front) + Len(one)
        /\ \A i \in 1 .. Len(front) : start[i] = front[i]
        /\ \A i \in 1 .. Len(one) : start[Len(front) + i] = one[i]
    <3>1. front \in Seq(Peer) /\ one \in Seq(Peer)
      BY <1>3, <1>6
    <3> QED
      BY <3>1, <1>7, ListsJoined
  <2>2. start[Len(front) + 1] = p
    BY <1>6, <2>1
  <2> QED
    BY <1>3, <1>6, <2>1, <2>2
<1>9. new = start \o back
  BY <1>1, <1>2, <1>5, <1>7 DEF Placed
<1>10. /\ new \in Seq(Peer) /\ Len(new) = Len(start) + Len(back)
       /\ \A i \in 1 .. Len(start) : new[i] = start[i]
       /\ \A i \in 1 .. Len(back) : new[Len(start) + i] = back[i]
  <2>1. start \in Seq(Peer) /\ back \in Seq(Peer)
    BY <1>4, <1>8
  <2> QED
    BY <2>1, <1>9, ListsJoined
<1>11. new \in Seq(Peer) /\ Len(new) = Len(list) + 1 /\ new[row] = p
  BY <1>4, <1>8, <1>10
<1>12. \A i \in 1 .. row - 1 : new[i] = list[i]
  BY <1>8, <1>10
<1>13. ASSUME NEW i \in row .. Len(list) PROVE new[i + 1] = list[i]
  <2>1. PICK k \in 1 .. Len(back) : i + 1 = Len(start) + k /\ i = row + k - 1
    <3>1. i - row + 1 \in 1 .. Len(back) /\ i + 1 = Len(start) + (i - row + 1)
      BY <1>4, <1>8
    <3> QED
      BY <3>1
  <2> QED
    <3>1. new[Len(start) + k] = back[k]
      BY <1>8, <1>10, <2>1
    <3>2. back[k] = list[row + k - 1]
      BY <1>4
    <3> QED
      BY <2>1, <3>1, <3>2
<1> QED
  BY <1>11, <1>12, <1>13 DEF RowIn

(***************************************************************************)
(* A row that is taken out.                                                *)
(***************************************************************************)
RowOut(list, row, new) ==
  /\ new \in Seq(Peer) /\ Len(new) = Len(list) - 1
  /\ \A i \in 1 .. row - 1 : new[i] = list[i]
  /\ \A i \in row .. Len(list) - 1 : new[i] = list[i + 1]

LEMMA RowRemoved ==
  ASSUME NEW list \in Seq(Peer), NEW row \in DOMAIN list, NEW new, new = RemoveAt(list, row)
  PROVE  RowOut(list, row, new)
<1>1. PICK front : front = SubSeq(list, 1, row - 1)
  OBVIOUS
<1>2. PICK back : back = SubSeq(list, row + 1, Len(list))
  OBVIOUS
<1>3. /\ front \in Seq(Peer) /\ Len(front) = row - 1
      /\ \A i \in 1 .. row - 1 : front[i] = list[i]
  BY <1>1
<1>4. /\ back \in Seq(Peer) /\ Len(back) = Len(list) - row
      /\ \A i \in 1 .. Len(list) - row : back[i] = list[row + i]
  BY <1>2
<1>5. new = front \o back
  BY <1>1, <1>2 DEF RemoveAt
<1>6. /\ new \in Seq(Peer) /\ Len(new) = Len(front) + Len(back)
      /\ \A i \in 1 .. Len(front) : new[i] = front[i]
      /\ \A i \in 1 .. Len(back) : new[Len(front) + i] = back[i]
  <2>1. front \in Seq(Peer) /\ back \in Seq(Peer)
    BY <1>3, <1>4
  <2> QED
    BY <2>1, <1>5, ListsJoined
<1>7. \A i \in 1 .. row - 1 : new[i] = list[i]
  BY <1>3, <1>6
<1>8. ASSUME NEW i \in row .. Len(list) - 1 PROVE new[i] = list[i + 1]
  <2>1. PICK k \in 1 .. Len(back) : i = Len(front) + k /\ i + 1 = row + k
    <3>1. i - row + 1 \in 1 .. Len(back) /\ i = Len(front) + (i - row + 1)
      BY <1>3, <1>4
    <3> QED
      BY <3>1
  <2> QED
    BY <1>4, <1>6, <2>1
<1> QED
  BY <1>3, <1>4, <1>6, <1>7, <1>8 DEF RowOut

(***************************************************************************)
(* What these do to the contacts that a list has.                          *)
(***************************************************************************)
LEMMA PlacedKeeps ==
  ASSUME NEW list \in Seq(Peer), NEW row \in 1 .. Len(list) + 1, NEW p \in Peer,
         NEW new, new = Placed(list, row, p)
  PROVE  /\ Named(new, p.eid, p.name)
         /\ \A id, name : Named(list, id, name) => Named(new, id, name)
         /\ \A id : Once(list, id) /\ (id # p.eid \/ \A i \in DOMAIN list : list[i].eid # id)
                      => Once(new, id)
<1>1. /\ new \in Seq(Peer) /\ Len(new) = Len(list) + 1 /\ new[row] = p
      /\ \A i \in 1 .. row - 1 : new[i] = list[i]
      /\ \A i \in row .. Len(list) : new[i + 1] = list[i]
  <2>1. RowIn(list, row, p, new)
    BY RowPlaced
  <2> QED
    BY <2>1 DEF RowIn
<1>2. DOMAIN list = 1 .. Len(list) /\ DOMAIN new = 1 .. Len(list) + 1
  BY <1>1
<1>3. row \in DOMAIN new /\ new[row] = p
  BY <1>1, <1>2
<1> DEFINE to(i) == IF i < row THEN i ELSE i + 1
           from(i) == IF i < row THEN i ELSE i - 1
<1>4. \A i \in DOMAIN list : to(i) \in DOMAIN new /\ new[to(i)] = list[i]
  BY <1>1, <1>2
<1>5. \A i \in DOMAIN new : i # row => /\ from(i) \in DOMAIN list /\ new[i] = list[from(i)]
                                       /\ i = to(from(i))
  BY <1>1, <1>2
<1> HIDE DEF to, from
<1>6. Named(new, p.eid, p.name)
  BY <1>3 DEF Named
<1>7. ASSUME NEW id, NEW name, Named(list, id, name) PROVE Named(new, id, name)
  BY <1>4, <1>7 DEF Named
<1>8. ASSUME NEW id, Once(list, id), id # p.eid \/ \A i \in DOMAIN list : list[i].eid # id
      PROVE  Once(new, id)
  <2> SUFFICES ASSUME NEW i \in DOMAIN new, NEW j \in DOMAIN new,
                      new[i].eid = id, new[j].eid = id
               PROVE  i = j
    BY DEF Once
  <2>1. CASE i # row /\ j # row
    BY <1>5, <1>8, <2>1 DEF Once
  <2>2. CASE i = row \/ j = row
    BY <1>3, <1>5, <1>8, <2>2
  <2> QED
    BY <2>1, <2>2
<1> QED
  BY <1>6, <1>7, <1>8

LEMMA RemovedKeeps ==
  ASSUME NEW list \in Seq(Peer), NEW row \in DOMAIN list, NEW new, new = RemoveAt(list, row)
  PROVE  /\ \A id, name : Named(list, id, name) /\ id # list[row].eid => Named(new, id, name)
         /\ \A id : Once(list, id) => Once(new, id)
<1>1. /\ new \in Seq(Peer) /\ Len(new) = Len(list) - 1
      /\ \A i \in 1 .. row - 1 : new[i] = list[i]
      /\ \A i \in row .. Len(list) - 1 : new[i] = list[i + 1]
  <2>1. RowOut(list, row, new)
    BY RowRemoved
  <2> QED
    BY <2>1 DEF RowOut
<1>2. DOMAIN list = 1 .. Len(list) /\ DOMAIN new = 1 .. Len(list) - 1
  BY <1>1
<1> DEFINE to(i) == IF i < row THEN i ELSE i - 1
           from(i) == IF i < row THEN i ELSE i + 1
<1>3. ASSUME NEW i \in DOMAIN list, i # row PROVE to(i) \in DOMAIN new /\ new[to(i)] = list[i]
  <2>1. CASE i < row
    BY <1>1, <1>2, <2>1
  <2>2. CASE i > row
    <3>1. PICK k \in row .. Len(list) - 1 : k = i - 1
      BY <1>2, <2>2
    <3> QED
      BY <1>1, <1>2, <2>2, <3>1
  <2> QED
    BY <1>2, <1>3, <2>1, <2>2
<1>4. \A i \in DOMAIN new : /\ from(i) \in DOMAIN list /\ new[i] = list[from(i)]
                            /\ i = to(from(i))
  BY <1>1, <1>2
<1> HIDE DEF to, from
<1>5. ASSUME NEW id, NEW name, Named(list, id, name), id # list[row].eid
      PROVE  Named(new, id, name)
  BY <1>3, <1>5 DEF Named
<1>6. ASSUME NEW id, Once(list, id) PROVE Once(new, id)
  BY <1>4, <1>6 DEF Once
<1> QED
  BY <1>5, <1>6

(***************************************************************************)
(* A row whose name or profile is set.                                     *)
(***************************************************************************)
SetsName(list, row, name, new) == new = [list EXCEPT ![row].name = name]

LEMMA NameSet ==
  ASSUME NEW list \in Seq(Peer), NEW row \in DOMAIN list, NEW name \in Names,
         NEW new, SetsName(list, row, name, new), NEW e, e = list[row].eid
  PROVE  /\ new \in Seq(Peer) /\ Len(new) = Len(list) /\ Named(new, e, name)
         /\ \A id, n : Named(list, id, n) /\ id # e => Named(new, id, n)
         /\ \A id : Once(list, id) => Once(new, id)
         /\ \A i \in DOMAIN list : new[i].eid = list[i].eid
<1>1. list[row] \in Peer
  OBVIOUS
<1>2. PICK p \in Peer : /\ p = [list[row] EXCEPT !.name = name]
                        /\ p.eid = list[row].eid /\ p.name = name
  <2>1. PICK p : p = [list[row] EXCEPT !.name = name]
    OBVIOUS
  <2>2. p \in Peer /\ p.eid = list[row].eid /\ p.name = name
    BY <1>1, <2>1 DEF Peer
  <2> QED
    BY <2>1, <2>2
<1>3. /\ new \in Seq(Peer) /\ Len(new) = Len(list) /\ DOMAIN new = DOMAIN list
      /\ new[row] = p /\ \A i \in DOMAIN list : i # row => new[i] = list[i]
  BY <1>2, RowSet DEF SetsName
<1>4. \A i \in DOMAIN list : new[i].eid = list[i].eid
  BY <1>2, <1>3
<1> QED
  BY <1>2, <1>3, <1>4 DEF Named, Once

\* The list with its row pointed at a profile.
WithProfile(list, row, id) == [list EXCEPT ![row].profile = id]

LEMMA ProfileSet ==
  ASSUME NEW list \in Seq(Peer), NEW row \in DOMAIN list, NEW id \in Ids,
         NEW new, new = WithProfile(list, row, id)
  PROVE  /\ new \in Seq(Peer) /\ Len(new) = Len(list)
         /\ \A e, n : Named(list, e, n) => Named(new, e, n)
         /\ \A e : Once(list, e) => Once(new, e)
<1>1. list[row] \in Peer
  OBVIOUS
<1>2. PICK p \in Peer : /\ p = [list[row] EXCEPT !.profile = id]
                        /\ p.eid = list[row].eid /\ p.name = list[row].name
  <2>1. PICK p : p = [list[row] EXCEPT !.profile = id]
    OBVIOUS
  <2>2. p \in Peer /\ p.eid = list[row].eid /\ p.name = list[row].name
    BY <1>1, <2>1 DEF Peer
  <2> QED
    BY <2>1, <2>2
<1>3. /\ new \in Seq(Peer) /\ Len(new) = Len(list) /\ DOMAIN new = DOMAIN list
      /\ new[row] = p /\ \A i \in DOMAIN list : i # row => new[i] = list[i]
  BY <1>2, RowSet DEF WithProfile
<1>4. \A i \in DOMAIN list : new[i].eid = list[i].eid /\ new[i].name = list[i].name
  BY <1>2, <1>3
<1> QED
  BY <1>2, <1>3, <1>4 DEF Named, Once
(***************************************************************************)
(* The settings give each contact back that they have once, and none twice.*)
(***************************************************************************)
LEMMA SettingsUsed ==
  ASSUME NEW list \in Seq(Peer), NEW kept, IsPart(kept, list, Taken(list))
  PROVE  /\ kept \in Seq(Peer) /\ Len(kept) <= Len(list)
         /\ \A id : Once(kept, id)
         /\ \A id \in Ids : \A name : Once(list, id) /\ Named(list, id, name) => Named(kept, id, name)
         /\ \A id \in Ids : Present(list, id) => Present(kept, id)
<1> DEFINE rows == Taken(list)
<1>1. /\ rows \subseteq DOMAIN list
      /\ \A i, j \in rows : list[i].eid = list[j].eid => i = j
      /\ \A id \in Ids : \A i \in DOMAIN list : Once(list, id) /\ list[i].eid = id => i \in rows
  <2>1. \A i \in rows : i \in DOMAIN list /\ \A j \in 1 .. i - 1 : list[j].eid # list[i].eid
    BY DEF Taken
  <2>2. \A i, j \in rows : list[i].eid = list[j].eid => i = j
    <3> SUFFICES ASSUME NEW i \in rows, NEW j \in rows, list[i].eid = list[j].eid, i < j
                 PROVE  FALSE
      BY <2>1
    <3> QED
      BY <2>1
  <2>3. ASSUME NEW id \in Ids, NEW i \in DOMAIN list, Once(list, id), list[i].eid = id
        PROVE  i \in rows
    BY <2>3, ContactAssumption DEF Taken, Once
  <2> QED
    BY <2>1, <2>2, <2>3
<1>2. Cardinality(rows) \in Nat /\ Cardinality(rows) <= Len(list)
  <2>1. PICK n \in Nat : n = Len(list)
    OBVIOUS
  <2>2. IsFiniteSet(1 .. n) /\ Cardinality(1 .. n) = n
    BY FS_Interval
  <2>3. rows \in SUBSET (1 .. n)
    BY <1>1, <2>1
  <2> HIDE DEF rows
  <2>4. Cardinality(rows) <= Cardinality(1 .. n) /\ Cardinality(rows) \in Nat
    BY <2>2, <2>3, FS_Subset, FS_CardinalityType
  <2> QED
    BY <2>1, <2>2, <2>4
<1>3. PICK order \in Bijection(1 .. Cardinality(rows), rows) :
        kept = [i \in 1 .. Cardinality(rows) |-> list[order[i]]]
  BY DEF IsPart
<1> HIDE DEF rows
<1>4. PICK n \in Nat : n = Cardinality(rows)
  BY <1>2
<1>5. /\ order \in [1 .. n -> rows] /\ kept = [i \in 1 .. n |-> list[order[i]]]
      /\ \A i, j \in 1 .. n : order[i] = order[j] => i = j
      /\ \A r \in rows : \E i \in 1 .. n : order[i] = r
  BY <1>3, <1>4 DEF Bijection, Injection, Surjection, IsInjective
<1>6. /\ DOMAIN kept = 1 .. n
      /\ \A i \in 1 .. n : /\ order[i] \in rows /\ order[i] \in DOMAIN list
                           /\ kept[i] = list[order[i]]
  BY <1>1, <1>5
<1>7. kept \in Seq(Peer) /\ Len(kept) = n
  <2>1. \A i \in 1 .. n : list[order[i]] \in Peer
    BY <1>6
  <2> QED
    BY <1>5, <2>1
<1>8. \A id : Once(kept, id)
  BY <1>1, <1>5, <1>6 DEF Once
<1>9. ASSUME NEW id \in Ids, NEW name, Once(list, id), Named(list, id, name)
      PROVE  Named(kept, id, name)
  <2>1. PICK r \in DOMAIN list : list[r].eid = id /\ list[r].name = name
    BY <1>9 DEF Named
  <2>2. r \in rows
    BY <1>1, <1>9, <2>1
  <2>3. PICK i \in 1 .. n : order[i] = r
    BY <1>5, <2>2
  <2> QED
    BY <1>6, <2>1, <2>3 DEF Named
<1>10. ASSUME NEW id \in Ids, Present(list, id) PROVE Present(kept, id)
  <2> DEFINE here == {i \in DOMAIN list : list[i].eid = id}
  <2>1. here \in SUBSET Nat /\ here # {}
    BY <1>10 DEF Present
  <2>2. PICK r \in here : \A i \in here : r <= i
    BY <2>1, SmallestNumber
  <2>3. r \in Taken(list)
    BY <2>2, ContactAssumption DEF Taken
  <2>4. PICK i \in 1 .. n : order[i] = r
    BY <1>5, <2>3 DEF rows
  <2> QED
    BY <1>6, <2>2, <2>4 DEF Present
<1> QED
  BY <1>2, <1>4, <1>7, <1>8, <1>9, <1>10

(***************************************************************************)
(* A contact is appended.                                                  *)
(***************************************************************************)
LEMMA AppendKeeps ==
  ASSUME NEW list \in Seq(Peer), NEW p \in Peer, NEW new, new = Append(list, p)
  PROVE  /\ new \in Seq(Peer) /\ Len(new) = Len(list) + 1
         /\ \A id, name : Named(list, id, name) => Named(new, id, name)
         /\ \A id : Once(list, id) /\ (id # p.eid \/ \A i \in DOMAIN list : list[i].eid # id)
                      => Once(new, id)
<1>1. /\ new \in Seq(Peer) /\ Len(new) = Len(list) + 1 /\ new[Len(list) + 1] = p
      /\ DOMAIN new = 1 .. Len(list) + 1
      /\ \A i \in DOMAIN list : i \in DOMAIN new /\ new[i] = list[i]
      /\ \A i \in DOMAIN new : i \in DOMAIN list \/ i = Len(list) + 1
  OBVIOUS
<1> QED
  BY <1>1 DEF Named, Once

LEMMA NewPeerTyped ==
  ASSUME NEW id \in Ids \cup {NoId}, NEW name \in Names \cup {NoName}, NEW p, p = NewPeer(id, name)
  PROVE  p \in Peer /\ p.eid = id /\ p.name = name /\ p.profile = NoId
BY DEF NewPeer, Peer

(***************************************************************************)
(* What a thread that is at work has at hand.                              *)
(***************************************************************************)
LEMMA AtHand ==
  Typed =>
    /\ window.do = "insert" => /\ window.id \in Ids /\ window.name \in Names
                               /\ window.row \in 1 .. Len(peers) + 1
    /\ window.do = "write" => window.id \in Ids \cup {NoId} /\ window.name \in Names \cup {NoName}
    /\ window.do \in {"none", "insert", "write"} /\ (window = Idle <=> window.do = "none")
    /\ net.do = "found" => net.ids \subseteq Ids
    /\ net.do = "append" => net.ids \subseteq Ids /\ net.id \in Ids
    /\ net.do = "update" => net.id \in Ids /\ net.row \in Nat
    /\ net.do \in {"none", "found", "append", "update"} /\ (net = Idle <=> net.do = "none")
BY DEF Typed, WindowTyped, NetTyped, Idle

LEMMA TypesFollow == Typed => TypeOK
BY AtHand DEF Typed, ListTyped, RestTyped, TypeOK

LEMMA TypesStart == Init => Typed
<1> SUFFICES ASSUME Init PROVE Typed
  OBVIOUS
<1>1. \A list : list = <<>> => list \in Seq(Peer) /\ Len(list) <= MaxRows
  BY ContactAssumption
<1>2. ListTyped /\ saved \in Seq(Peer) /\ Len(saved) <= MaxRows
  BY <1>1 DEF Init, ListTyped
<1>3. wish \in [Ids -> Names \cup {NoName}]
  BY DEF Init
<1>4. window = Idle /\ net = Idle /\ lookups = {} /\ ops = 0 /\ doubled = {} /\ failed = {}
      /\ restarts = 0 /\ searching = FALSE
  BY DEF Init
<1> QED
  <2>1. WindowTyped(window, Len(peers)) /\ NetTyped(net)
    BY <1>4 DEF WindowTyped, NetTyped
  <2>2. lookups \subseteq Ids /\ ops \in 0 .. MaxOps /\ restarts \in 0 .. MaxRestarts
    BY <1>4, ContactAssumption
  <2>3. RestTyped
    BY <1>2, <1>3, <1>4, <2>2 DEF RestTyped
  <2> QED
    BY <1>2, <2>1, <2>2, <2>3 DEF Typed

LEMMA LookUpTyped ==
  ASSUME net.ids \subseteq Ids, NEW id \in Ids, LookUp(id), lookups \subseteq Ids
  PROVE  NetTyped(net') /\ lookups' \subseteq Ids
BY DEF LookUp, NetTyped

(***************************************************************************)
(* Every step of the window's thread keeps the types.                      *)
(***************************************************************************)
LEMMA UserTyped == Typed /\ User => Typed'
<1> SUFFICES ASSUME Typed, User
             PROVE  /\ ListTyped' /\ RestTyped' /\ NetTyped(net') /\ WindowTyped(window', Len(peers'))
                    /\ lookups' \subseteq Ids /\ ops' \in 0 .. MaxOps
  BY DEF Typed
<1>0. /\ ListTyped /\ RestTyped /\ NetTyped(net) /\ WindowTyped(window, Len(peers))
      /\ lookups \subseteq Ids /\ ops \in 0 .. MaxOps
  BY DEF Typed
<1>1. ops' \in 0 .. MaxOps
  BY <1>0, ContactAssumption DEF User, Begin
<1>2. ASSUME NEW id \in Ids, NEW name \in Names, Insert(id, name)
      PROVE  /\ ListTyped' /\ RestTyped' /\ NetTyped(net') /\ WindowTyped(window', Len(peers'))
             /\ lookups' \subseteq Ids
  <2>1. UNCHANGED <<peers, saved, net, searching, lookups, wish, doubled, restarts, failed>>
    BY <1>2 DEF Insert, ghosts
  <2>2. window' \in [do : {"insert"}, id : Ids, name : Names, row : 1 .. Len(peers) + 1]
    BY <1>0, <1>2 DEF Insert, ListTyped
  <2> QED
    BY <1>0, <2>1, <2>2 DEF ListTyped, RestTyped, WindowTyped, Peer
<1>3. ASSUME NEW id \in Ids, RemoveId(id)
      PROVE  /\ ListTyped' /\ RestTyped' /\ NetTyped(net') /\ WindowTyped(window', Len(peers'))
             /\ lookups' \subseteq Ids
  <2>1. PICK row, new : row = RowWithId(id) /\ new = peers' /\ new = RemoveAt(peers, row)
    BY <1>3 DEF RemoveId
  <2>2. row \in DOMAIN peers
    BY <1>0, <1>3, <2>1, RowFound DEF RemoveId, ListTyped
  <2>3. new \in Seq(Peer) /\ Len(new) = Len(peers) - 1
    BY <1>0, <2>1, <2>2, RowRemoved DEF RowOut, ListTyped
  <2>4. /\ UNCHANGED <<saved, net, searching, lookups, doubled, restarts, failed>>
        /\ wish' \in [Ids -> Names \cup {NoName}]
    BY <1>0, <1>3 DEF RemoveId, RestTyped
  <2>5. window' \in [do : {"write"}, id : Ids \cup {NoId}, name : Names \cup {NoName}]
    BY <1>3 DEF RemoveId
  <2> QED
    BY <1>0, <2>1, <2>3, <2>4, <2>5, ContactAssumption DEF ListTyped, RestTyped, WindowTyped, Peer
<1>4. ASSUME NEW row \in 1 .. MaxRows, InsertRows(row)
      PROVE  /\ ListTyped' /\ RestTyped' /\ NetTyped(net') /\ WindowTyped(window', Len(peers'))
             /\ lookups' \subseteq Ids
  <2>1. PICK p, new : p = NewPeer(NoId, NoName) /\ new = peers' /\ new = Placed(peers, row, p)
    BY <1>4 DEF InsertRows
  <2>2. p \in Peer
    BY <2>1, NewPeerTyped
  <2>3. row \in 1 .. Len(peers) + 1 /\ Len(peers) < MaxRows /\ peers \in Seq(Peer)
    BY <1>0, <1>4 DEF InsertRows, ListTyped
  <2>4. new \in Seq(Peer) /\ Len(new) = Len(peers) + 1
    BY <2>1, <2>2, <2>3, RowPlaced DEF RowIn
  <2>5. /\ UNCHANGED <<saved, window, net, searching, lookups, wish, doubled, restarts, failed>>
        /\ window' = Idle
    BY <1>0, <1>4 DEF InsertRows, RestTyped
  <2> QED
    BY <1>0, <2>1, <2>3, <2>4, <2>5, ContactAssumption DEF ListTyped, RestTyped, WindowTyped, Peer
<1>5. ASSUME NEW row \in 1 .. MaxRows, RemoveRows(row)
      PROVE  /\ ListTyped' /\ RestTyped' /\ NetTyped(net') /\ WindowTyped(window', Len(peers'))
             /\ lookups' \subseteq Ids
  <2>1. PICK new : new = peers' /\ new = RemoveAt(peers, row)
    BY <1>5 DEF RemoveRows
  <2>2. row \in DOMAIN peers /\ peers \in Seq(Peer)
    BY <1>0, <1>5 DEF RemoveRows, ListTyped
  <2>3. new \in Seq(Peer) /\ Len(new) = Len(peers) - 1
    BY <2>1, <2>2, RowRemoved DEF RowOut
  <2>4. /\ UNCHANGED <<saved, net, searching, lookups, doubled, restarts, failed>>
        /\ wish' \in [Ids -> Names \cup {NoName}] /\ window' = Idle
    BY <1>0, <1>5 DEF RemoveRows, RestTyped
  <2> QED
    BY <1>0, <2>1, <2>3, <2>4, ContactAssumption DEF ListTyped, RestTyped, WindowTyped, Peer
<1>6. ASSUME NEW row \in 1 .. MaxRows, NEW name \in Names, SetData(row, name)
      PROVE  /\ ListTyped' /\ RestTyped' /\ NetTyped(net') /\ WindowTyped(window', Len(peers'))
             /\ lookups' \subseteq Ids
  <2>1. row \in DOMAIN peers /\ peers \in Seq(Peer) /\ peers[row] \in Peer
    BY <1>0, <1>6 DEF SetData, ListTyped
  <2>2. PICK new : new = peers' /\ SetsName(peers, row, name, new)
    BY <1>6 DEF SetData, SetsName
  <2>3. new \in Seq(Peer) /\ Len(new) = Len(peers)
    BY <2>1, <2>2, NameSet
  <2>4. UNCHANGED <<saved, net, searching, lookups, wish, doubled, restarts, failed>>
    BY <1>6 DEF SetData, ghosts
  <2>5. window' \in [do : {"write"}, id : Ids \cup {NoId}, name : Names \cup {NoName}]
    <3>1. peers[row].eid \in Ids \cup {NoId}
      BY <2>1 DEF Peer
    <3> QED
      BY <1>6, <3>1 DEF SetData
  <2> QED
    BY <1>0, <2>2, <2>3, <2>4, <2>5, ContactAssumption DEF ListTyped, RestTyped, WindowTyped, Peer
<1>7. ASSUME InsertPeer
      PROVE  /\ ListTyped' /\ RestTyped' /\ NetTyped(net') /\ WindowTyped(window', Len(peers'))
             /\ lookups' \subseteq Ids
  <2>1. window.id \in Ids /\ window.name \in Names /\ window.row \in 1 .. Len(peers) + 1
    BY <1>7, AtHand DEF InsertPeer
  <2>2. PICK row \in {window.row, Len(peers) + 1} :
          peers' = Placed(peers, row, NewPeer(window.id, window.name))
    BY <1>7 DEF InsertPeer
  <2>3. PICK p, new : /\ p = NewPeer(window.id, window.name) /\ new = peers'
                      /\ new = Placed(peers, row, p)
    BY <2>2
  <2>4. p \in Peer
    BY <2>1, <2>3, NewPeerTyped
  <2>5. row \in 1 .. Len(peers) + 1 /\ Len(peers) < MaxRows /\ peers \in Seq(Peer)
    BY <1>0, <1>7, <2>1 DEF InsertPeer, ListTyped
  <2>6. new \in Seq(Peer) /\ Len(new) = Len(peers) + 1
    BY <2>3, <2>4, <2>5, RowPlaced DEF RowIn
  <2>7. /\ UNCHANGED <<saved, net, searching, lookups, wish, restarts, failed>>
        /\ doubled' \subseteq Ids
    BY <1>0, <1>7, <2>1 DEF InsertPeer, RestTyped
  <2>8. window' \in [do : {"write"}, id : Ids \cup {NoId}, name : Names \cup {NoName}]
    BY <1>7, <2>1 DEF InsertPeer
  <2> QED
    BY <1>0, <2>3, <2>5, <2>6, <2>7, <2>8, ContactAssumption DEF ListTyped, RestTyped, WindowTyped, Peer
<1>8. ASSUME WriteSettings
      PROVE  /\ ListTyped' /\ RestTyped' /\ NetTyped(net') /\ WindowTyped(window', Len(peers'))
             /\ lookups' \subseteq Ids
  <2>1. window.id \in Ids \cup {NoId} /\ window.name \in Names \cup {NoName}
    BY <1>8, AtHand DEF WriteSettings
  <2>2. /\ UNCHANGED <<peers, net, searching, lookups, doubled, restarts, failed>>
        /\ saved' = peers /\ window' = Idle /\ wish' \in [Ids -> Names \cup {NoName}]
    BY <1>0, <1>8, <2>1 DEF WriteSettings, RestTyped
  <2> QED
    BY <1>0, <2>2 DEF ListTyped, RestTyped, WindowTyped, Peer
<1> QED
  BY <1>1, <1>2, <1>3, <1>4, <1>5, <1>6, <1>7, <1>8 DEF User, Begin

(***************************************************************************)
(* Every step of the host's thread, and a restart, keep the types.         *)
(***************************************************************************)
LEMMA ClientTyped == Typed /\ UNCHANGED ops /\ (Client \/ Restart) => Typed'
<1> SUFFICES ASSUME Typed, UNCHANGED ops, Client \/ Restart
             PROVE  /\ ListTyped' /\ RestTyped' /\ NetTyped(net') /\ WindowTyped(window', Len(peers'))
                    /\ lookups' \subseteq Ids
  BY DEF Typed
<1>0. /\ ListTyped /\ RestTyped /\ NetTyped(net) /\ WindowTyped(window, Len(peers))
      /\ lookups \subseteq Ids
  BY DEF Typed
<1>1. ASSUME OnReady \/ (\E id \in Ids : LookupFailed(id))
      PROVE  /\ ListTyped' /\ RestTyped' /\ NetTyped(net') /\ WindowTyped(window', Len(peers'))
             /\ lookups' \subseteq Ids
  <2>1. /\ UNCHANGED <<peers, saved, window, net, wish, doubled, restarts, failed>>
        /\ searching' \in BOOLEAN /\ lookups' \subseteq lookups
    BY <1>0, <1>1 DEF OnReady, LookupFailed, ghosts, RestTyped
  <2> QED
    BY <1>0, <2>1 DEF ListTyped, RestTyped, Peer
<1>2. ASSUME NEW ids \in SUBSET Ids, NEW last \in BOOLEAN, SearchDone(ids, last)
      PROVE  /\ ListTyped' /\ RestTyped' /\ NetTyped(net') /\ WindowTyped(window', Len(peers'))
             /\ lookups' \subseteq Ids
  <2>1. /\ UNCHANGED <<peers, saved, window, lookups, wish, doubled, restarts, failed>>
        /\ searching' \in BOOLEAN /\ NetTyped(net')
    BY <1>2 DEF SearchDone, ghosts, NetTyped
  <2> QED
    BY <1>0, <2>1 DEF ListTyped, RestTyped, Peer
<1>3. ASSUME NEW id \in Ids, FoundPeer(id)
      PROVE  /\ ListTyped' /\ RestTyped' /\ NetTyped(net') /\ WindowTyped(window', Len(peers'))
             /\ lookups' \subseteq Ids
  <2>1. net.ids \subseteq Ids
    BY <1>3, AtHand DEF FoundPeer
  <2>2. UNCHANGED <<peers, saved, window, searching, wish, doubled, restarts, failed>>
    BY <1>3 DEF FoundPeer, ghosts
  <2>3. NetTyped(net') /\ lookups' \subseteq Ids
    <3>1. CASE ContainsId(id)
      BY <1>0, <1>3, <2>1, <3>1, LookUpTyped DEF FoundPeer
    <3>2. CASE ~ContainsId(id)
      BY <1>0, <1>3, <2>1, <3>2 DEF FoundPeer, NetTyped
    <3> QED
      BY <3>1, <3>2
  <2> QED
    BY <1>0, <2>2, <2>3 DEF ListTyped, RestTyped, Peer
<1>4. ASSUME AppendPeer
      PROVE  /\ ListTyped' /\ RestTyped' /\ NetTyped(net') /\ WindowTyped(window', Len(peers'))
             /\ lookups' \subseteq Ids
  <2>1. net.ids \subseteq Ids /\ net.id \in Ids
    BY <1>4, AtHand DEF AppendPeer
  <2>2. PICK p, new : p = NewPeer(net.id, NoName) /\ new = peers' /\ new = Append(peers, p)
    BY <1>4 DEF AppendPeer
  <2>3. p \in Peer
    BY <2>1, <2>2, NewPeerTyped
  <2>4. peers \in Seq(Peer) /\ Len(peers) < MaxRows
    BY <1>0, <1>4 DEF AppendPeer, ListTyped
  <2>5. new \in Seq(Peer) /\ Len(new) = Len(peers) + 1
    BY <2>2, <2>3, <2>4, AppendKeeps
  <2>6. NetTyped(net') /\ lookups' \subseteq Ids
    BY <1>0, <1>4, <2>1, LookUpTyped DEF AppendPeer
  <2>7. /\ UNCHANGED <<saved, window, searching, wish, restarts, failed>>
        /\ doubled' \subseteq Ids
    BY <1>0, <1>4, <2>1 DEF AppendPeer, RestTyped
  <2>8. WindowTyped(window', Len(peers'))
    BY <1>0, <2>2, <2>4, <2>5, <2>7 DEF WindowTyped
  <2> QED
    BY <1>0, <2>2, <2>4, <2>5, <2>6, <2>7, <2>8, ContactAssumption DEF ListTyped, RestTyped, Peer
<1>5. ASSUME NEW id \in Ids, LookupDone(id)
      PROVE  /\ ListTyped' /\ RestTyped' /\ NetTyped(net') /\ WindowTyped(window', Len(peers'))
             /\ lookups' \subseteq Ids
  <2>1. /\ UNCHANGED <<peers, saved, window, searching, wish, doubled, restarts, failed>>
        /\ lookups' \subseteq lookups
    BY <1>5 DEF LookupDone, ghosts
  <2>2. ContainsId(id) => RowWithId(id) \in Nat
    BY <1>0, RowFound DEF ListTyped
  <2>3. NetTyped(net')
    BY <1>5, <2>2 DEF LookupDone, NetTyped
  <2> QED
    BY <1>0, <2>1, <2>3 DEF ListTyped, RestTyped, Peer
<1>6. ASSUME SetProfile
      PROVE  /\ ListTyped' /\ RestTyped' /\ NetTyped(net') /\ WindowTyped(window', Len(peers'))
             /\ lookups' \subseteq Ids
  <2>1. /\ UNCHANGED <<saved, window, searching, lookups, wish, doubled, restarts>>
        /\ net' = Idle /\ failed' \subseteq {"range"}
    BY <1>0, <1>6 DEF SetProfile, RestTyped
  <2>2. ListTyped' /\ Len(peers') = Len(peers)
    <3>1. CASE net.row \in DOMAIN peers
      <4>1. PICK id, row, new : /\ id = net.id /\ row = net.row /\ new = peers'
                                /\ new = [peers EXCEPT ![row].profile = id]
        BY <1>6, <3>1 DEF SetProfile
      <4>2. id \in Ids
        BY <1>6, <4>1, AtHand DEF SetProfile
      <4>3. new \in Seq(Peer) /\ Len(new) = Len(peers)
        <5>1. peers \in Seq(Peer) /\ row \in DOMAIN peers
          BY <1>0, <3>1, <4>1 DEF ListTyped
        <5>2. new = WithProfile(peers, row, id)
          BY <4>1 DEF WithProfile
        <5> QED
          BY <4>2, <5>1, <5>2, ProfileSet
      <4> QED
        BY <1>0, <4>1, <4>3 DEF ListTyped, Peer
    <3>2. CASE net.row \notin DOMAIN peers
      BY <1>0, <1>6, <3>2 DEF SetProfile, ListTyped, Peer
    <3> QED
      BY <3>1, <3>2
  <2> QED
    BY <1>0, <2>1, <2>2 DEF RestTyped, NetTyped, Peer
<1>7. ASSUME Restart
      PROVE  /\ ListTyped' /\ RestTyped' /\ NetTyped(net') /\ WindowTyped(window', Len(peers'))
             /\ lookups' \subseteq Ids
  <2>1. /\ UNCHANGED <<saved, wish, doubled, failed>> /\ window' = Idle /\ net' = Idle
        /\ searching' = FALSE /\ lookups' = {}
    BY <1>7 DEF Restart
  <2>2. restarts' \in 0 .. MaxRestarts
    BY <1>0, <1>7, ContactAssumption DEF Restart, RestTyped
  <2>3. PICK list, new : list = saved /\ new = peers' /\ IsPart(new, list, Taken(list))
    BY <1>7 DEF Restart, UseSettings
  <2>4. list \in Seq(Peer) /\ Len(list) <= MaxRows /\ Len(list) \in Nat
    BY <1>0, <2>3 DEF RestTyped
  <2>5. new \in Seq(Peer) /\ Len(new) <= Len(list) /\ Len(new) \in Nat
    BY <2>3, <2>4, SettingsUsed
  <2>6. ListTyped'
    BY <2>3, <2>4, <2>5, ContactAssumption DEF ListTyped, Peer
  <2> QED
    BY <1>0, <2>1, <2>2, <2>6 DEF RestTyped, NetTyped, WindowTyped, Peer
<1> QED
  BY <1>1, <1>2, <1>3, <1>4, <1>5, <1>6, <1>7 DEF Client

LEMMA TypesGoOn == Typed /\ [Next]_vars => Typed'
<1>1. Typed /\ UNCHANGED vars => Typed'
  BY DEF Typed, ListTyped, RestTyped, vars, ghosts, Peer
<1> QED
  BY <1>1, UserTyped, ClientTyped DEF Next

\* The lists, the threads and what the user wishes are of their types.
THEOREM ContactsTypeCorrect == Spec => []TypeOK
<1> QED
  BY TypesStart, TypesGoOn, TypesFollow, PTL DEF Spec

(***************************************************************************)
(* Every step of the window's thread keeps what the user wishes.           *)
(***************************************************************************)
LEMMA UserKeepsWishes == Typed /\ WishesHeld /\ User => WishesHeld'
<1> SUFFICES ASSUME Typed, WishesHeld, User, NEW id \in Ids, id \notin doubled'
             PROVE  Held(id, peers', saved', window', wish'[id])
  BY DEF WishesHeld
<1>0. /\ peers \in Seq(Peer) /\ saved \in Seq(Peer) /\ wish \in [Ids -> Names \cup {NoName}]
      /\ id # NoId /\ Idle.do = "none"
  BY ContactAssumption DEF Typed, ListTyped, RestTyped, Idle
<1>1. id \notin doubled => Held(id, peers, saved, window, wish[id])
  BY DEF WishesHeld
<1>2. ASSUME NEW e \in Ids, NEW name \in Names, Insert(e, name)
      PROVE  Held(id, peers', saved', window', wish'[id])
  <2>1. /\ UNCHANGED <<peers, saved, wish, doubled>>
        /\ window.do = "none" /\ window'.do = "insert"
    BY <1>0, <1>2 DEF Insert, ghosts
  <2> QED
    BY <1>1, <2>1 DEF Held
<1>3. ASSUME NEW e \in Ids, RemoveId(e)
      PROVE  Held(id, peers', saved', window', wish'[id])
  <2>1. PICK row, new : row = RowWithId(e) /\ new = peers' /\ new = RemoveAt(peers, row)
    BY <1>3 DEF RemoveId
  <2>2. row \in DOMAIN peers /\ peers[row].eid = e
    BY <1>0, <1>3, <2>1, RowFound DEF RemoveId
  <2>3. /\ \A i, name : Named(peers, i, name) /\ i # e => Named(new, i, name)
        /\ \A i : Once(peers, i) => Once(new, i)
    BY <1>0, <2>1, <2>2, RemovedKeeps
  <2>4. /\ UNCHANGED <<saved, doubled>> /\ window.do = "none" /\ window'.id = NoId
        /\ e # id => wish'[id] = wish[id]
        /\ e = id => wish'[id] = NoName
    BY <1>0, <1>3 DEF RemoveId
  <2>5. Held(id, peers, saved, window, wish[id])
    BY <1>1, <2>4
  <2>6. CASE e = id
    BY <1>0, <2>1, <2>3, <2>4, <2>5, <2>6 DEF Held
  <2>7. CASE e # id
    BY <1>0, <2>1, <2>3, <2>4, <2>5, <2>7 DEF Held
  <2> QED
    BY <2>6, <2>7
<1>4. ASSUME NEW row \in 1 .. MaxRows, InsertRows(row)
      PROVE  Held(id, peers', saved', window', wish'[id])
  <2>1. PICK p, new : p = NewPeer(NoId, NoName) /\ new = peers' /\ new = Placed(peers, row, p)
    BY <1>4 DEF InsertRows
  <2>2. p \in Peer /\ p.eid = NoId
    BY <2>1, NewPeerTyped
  <2>3. row \in 1 .. Len(peers) + 1
    BY <1>4 DEF InsertRows
  <2>4. /\ \A i, name : Named(peers, i, name) => Named(new, i, name)
        /\ Once(peers, id) => Once(new, id)
    BY <1>0, <2>1, <2>2, <2>3, PlacedKeeps
  <2>5. UNCHANGED <<saved, window, wish, doubled>>
    BY <1>4 DEF InsertRows
  <2> QED
    BY <1>1, <2>1, <2>4, <2>5 DEF Held
<1>5. ASSUME NEW row \in 1 .. MaxRows, RemoveRows(row)
      PROVE  Held(id, peers', saved', window', wish'[id])
  <2>1. PICK new, e : new = peers' /\ new = RemoveAt(peers, row) /\ e = peers[row].eid
    BY <1>5 DEF RemoveRows
  <2>2. row \in DOMAIN peers
    BY <1>5 DEF RemoveRows
  <2>3. /\ \A i, name : Named(peers, i, name) /\ i # e => Named(new, i, name)
        /\ \A i : Once(peers, i) => Once(new, i)
    BY <1>0, <2>1, <2>2, RemovedKeeps
  <2>4. /\ UNCHANGED <<saved, window, doubled>> /\ window.do = "none"
        /\ e # id => wish'[id] = wish[id]
        /\ e = id => wish'[id] = NoName
    BY <1>0, <1>5, <2>1 DEF RemoveRows
  <2>5. Held(id, peers, saved, window, wish[id])
    BY <1>1, <2>4
  <2>6. CASE e = id
    BY <2>1, <2>3, <2>4, <2>5, <2>6 DEF Held
  <2>7. CASE e # id
    BY <2>1, <2>3, <2>4, <2>5, <2>7 DEF Held
  <2> QED
    BY <2>6, <2>7
<1>6. ASSUME NEW row \in 1 .. MaxRows, NEW name \in Names, SetData(row, name)
      PROVE  Held(id, peers', saved', window', wish'[id])
  <2>1. row \in DOMAIN peers
    BY <1>6 DEF SetData
  <2>2. PICK new, e : new = peers' /\ SetsName(peers, row, name, new) /\ e = peers[row].eid
    BY <1>6 DEF SetData, SetsName
  <2>3. /\ Named(new, e, name)
        /\ \A i, n : Named(peers, i, n) /\ i # e => Named(new, i, n)
        /\ \A i : Once(peers, i) => Once(new, i)
    BY <1>0, <2>1, <2>2, NameSet
  <2>4. /\ UNCHANGED <<saved, wish, doubled>> /\ window.do = "none"
        /\ window'.do = "write" /\ window'.id = e /\ window'.name = name
    BY <1>0, <1>6, <2>2 DEF SetData, ghosts
  <2>5. Held(id, peers, saved, window, wish[id])
    BY <1>1, <2>4
  <2> QED
    BY <2>2, <2>3, <2>4, <2>5 DEF Held
<1>7. ASSUME InsertPeer
      PROVE  Held(id, peers', saved', window', wish'[id])
  <2>1. window.id \in Ids /\ window.name \in Names /\ window.row \in 1 .. Len(peers) + 1
    BY <1>7, AtHand DEF InsertPeer
  <2>2. PICK row \in {window.row, Len(peers) + 1} :
          peers' = Placed(peers, row, NewPeer(window.id, window.name))
    BY <1>7 DEF InsertPeer
  <2>3. PICK p, new : /\ p = NewPeer(window.id, window.name) /\ new = peers'
                      /\ new = Placed(peers, row, p)
    BY <2>2
  <2>4. p \in Peer /\ p.eid = window.id /\ p.name = window.name
    BY <2>1, <2>3, NewPeerTyped
  <2>5. row \in 1 .. Len(peers) + 1
    BY <1>0, <2>1
  <2>6. /\ Named(new, p.eid, p.name)
        /\ \A i, name : Named(peers, i, name) => Named(new, i, name)
        /\ Once(peers, id) /\ (id # p.eid \/ \A i \in DOMAIN peers : peers[i].eid # id) => Once(new, id)
    BY <1>0, <2>3, <2>4, <2>5, PlacedKeeps
  <2>7. /\ UNCHANGED <<saved, wish>> /\ window.do = "insert" /\ id \notin doubled
        /\ window'.do = "write" /\ window'.id = p.eid /\ window'.name = p.name
        /\ id = p.eid => ~ContainsId(id)
    BY <1>7, <2>4 DEF InsertPeer
  <2>8. Held(id, peers, saved, window, wish[id])
    BY <1>1, <2>7
  <2>9. Once(new, id)
    BY <1>0, <2>6, <2>7, <2>8, RowFound DEF Held
  <2> QED
    BY <2>3, <2>6, <2>7, <2>8, <2>9 DEF Held
<1>8. ASSUME WriteSettings
      PROVE  Held(id, peers', saved', window', wish'[id])
  <2>1. /\ UNCHANGED <<peers, doubled>> /\ saved' = peers /\ window.do = "write"
        /\ window'.do = "none"
        /\ window.id # id => wish'[id] = wish[id]
        /\ window.id = id => wish'[id] = window.name
    BY <1>0, <1>8 DEF WriteSettings
  <2>2. Held(id, peers, saved, window, wish[id])
    BY <1>1, <2>1
  <2> QED
    BY <2>1, <2>2 DEF Held
<1> QED
  BY <1>2, <1>3, <1>4, <1>5, <1>6, <1>7, <1>8 DEF User, Begin

(***************************************************************************)
(* So does every step of the host's thread, and a restart.                 *)
(***************************************************************************)
LEMMA ClientKeepsWishes == Typed /\ WishesHeld /\ (Client \/ Restart) => WishesHeld'
<1> SUFFICES ASSUME Typed, WishesHeld, Client \/ Restart, NEW id \in Ids, id \notin doubled'
             PROVE  Held(id, peers', saved', window', wish'[id])
  BY DEF WishesHeld
<1>0. peers \in Seq(Peer) /\ saved \in Seq(Peer) /\ Idle.do = "none"
  BY DEF Typed, ListTyped, RestTyped, Idle
<1>1. id \notin doubled => Held(id, peers, saved, window, wish[id])
  BY DEF WishesHeld
<1>2. ASSUME UNCHANGED <<peers, saved, window, wish, doubled>>
      PROVE  Held(id, peers', saved', window', wish'[id])
  BY <1>1, <1>2
<1>3. ASSUME AppendPeer PROVE Held(id, peers', saved', window', wish'[id])
  <2>1. net.id \in Ids
    BY <1>3, AtHand DEF AppendPeer
  <2>2. PICK p, new : p = NewPeer(net.id, NoName) /\ new = peers' /\ new = Append(peers, p)
    BY <1>3 DEF AppendPeer
  <2>3. p \in Peer /\ p.eid = net.id
    BY <2>1, <2>2, NewPeerTyped
  <2>4. /\ \A i, name : Named(peers, i, name) => Named(new, i, name)
        /\ Once(peers, id) /\ (id # p.eid \/ \A i \in DOMAIN peers : peers[i].eid # id) => Once(new, id)
    BY <1>0, <2>2, <2>3, AppendKeeps
  <2>5. /\ UNCHANGED <<saved, window, wish>> /\ id \notin doubled
        /\ id = p.eid => ~ContainsId(id)
    BY <1>3, <2>3 DEF AppendPeer
  <2>6. Held(id, peers, saved, window, wish[id])
    BY <1>1, <2>5
  <2>7. Once(new, id)
    BY <1>0, <2>4, <2>5, <2>6, RowFound DEF Held
  <2> QED
    BY <2>2, <2>4, <2>5, <2>6, <2>7 DEF Held
<1>4. ASSUME SetProfile PROVE Held(id, peers', saved', window', wish'[id])
  <2>1. UNCHANGED <<saved, window, wish, doubled>>
    BY <1>4 DEF SetProfile
  <2>2. CASE net.row \in DOMAIN peers
    <3>1. PICK e, row, new : /\ e = net.id /\ row = net.row /\ new = peers'
                             /\ new = [peers EXCEPT ![row].profile = e]
      BY <1>4, <2>2 DEF SetProfile
    <3>2. e \in Ids
      BY <1>4, <3>1, AtHand DEF SetProfile
    <3>3. /\ \A i, n : Named(peers, i, n) => Named(new, i, n)
          /\ \A i : Once(peers, i) => Once(new, i)
      <4>1. peers \in Seq(Peer) /\ row \in DOMAIN peers
        BY <1>0, <2>2, <3>1
      <4>2. new = WithProfile(peers, row, e)
        BY <3>1 DEF WithProfile
      <4> QED
        BY <3>2, <4>1, <4>2, ProfileSet
    <3>4. Held(id, peers, saved, window, wish[id]) => Held(id, new, saved, window, wish[id])
      BY <3>3 DEF Held
    <3> QED
      BY <1>1, <2>1, <3>1, <3>4
  <2>3. CASE net.row \notin DOMAIN peers
    BY <1>2, <1>4, <2>1, <2>3 DEF SetProfile
  <2> QED
    BY <2>2, <2>3
<1>5. ASSUME Restart PROVE Held(id, peers', saved', window', wish'[id])
  <2>1. UNCHANGED <<saved, wish, doubled>> /\ window'.do = "none"
    BY <1>0, <1>5 DEF Restart
  <2>2. PICK list, new : list = saved /\ new = peers' /\ IsPart(new, list, Taken(list))
    BY <1>5 DEF Restart, UseSettings
  <2>3. /\ Once(new, id)
        /\ \A name : Once(list, id) /\ Named(list, id, name) => Named(new, id, name)
    BY <1>0, <2>2, SettingsUsed
  <2> QED
    BY <1>1, <2>1, <2>2, <2>3 DEF Held
<1>6. ASSUME Client, ~AppendPeer, ~SetProfile
      PROVE  UNCHANGED <<peers, saved, window, wish, doubled>>
  BY <1>6 DEF Client, OnReady, SearchDone, FoundPeer, LookupDone, LookupFailed, ghosts
<1> QED
  BY <1>2, <1>3, <1>4, <1>5, <1>6

LEMMA WishesGoOn == Typed /\ WishesHeld /\ [Next]_vars => WishesHeld'
<1>1. WishesHeld /\ UNCHANGED vars => WishesHeld'
  BY DEF WishesHeld, vars, ghosts
<1> QED
  BY <1>1, UserKeepsWishes, ClientKeepsWishes DEF Next

LEMMA WishesStart == Init => WishesHeld
BY DEF Init, WishesHeld, Held, Once, Idle

(***************************************************************************)
(* A list that keeps the names of a contact keeps the contact.             *)
(***************************************************************************)
LEMMA NamedPresent ==
  ASSUME NEW list, NEW new, NEW id, \A name : Named(list, id, name) => Named(new, id, name)
  PROVE  Present(list, id) => Present(new, id)
BY DEF Named, Present

(***************************************************************************)
(* Every step of the window's thread keeps the contacts it has entered.    *)
(***************************************************************************)
LEMMA UserKeepsContacts == Typed /\ ContactsEntered /\ User => ContactsEntered'
<1> SUFFICES ASSUME Typed, ContactsEntered, User, NEW id \in Ids
             PROVE  Entered(id, peers', saved', window', wish'[id])
  BY DEF ContactsEntered
<1>0. /\ peers \in Seq(Peer) /\ saved \in Seq(Peer) /\ wish \in [Ids -> Names \cup {NoName}]
      /\ id # NoId /\ Idle.do = "none"
  BY ContactAssumption DEF Typed, ListTyped, RestTyped, Idle
<1>1. Entered(id, peers, saved, window, wish[id])
  BY DEF ContactsEntered
<1>2. ASSUME NEW e \in Ids, NEW name \in Names, Insert(e, name)
      PROVE  Entered(id, peers', saved', window', wish'[id])
  <2>1. UNCHANGED <<peers, saved, wish>> /\ window'.do = "insert"
    BY <1>2 DEF Insert, ghosts
  <2> QED
    BY <1>1, <2>1 DEF Entered
<1>3. ASSUME NEW e \in Ids, RemoveId(e)
      PROVE  Entered(id, peers', saved', window', wish'[id])
  <2>1. PICK row, new : row = RowWithId(e) /\ new = peers' /\ new = RemoveAt(peers, row)
    BY <1>3 DEF RemoveId
  <2>2. row \in DOMAIN peers /\ peers[row].eid = e
    BY <1>0, <1>3, <2>1, RowFound DEF RemoveId
  <2>3. e # id => (Present(peers, id) => Present(new, id))
    BY <1>0, <2>1, <2>2, RemovedKeeps, NamedPresent
  <2>4. /\ UNCHANGED saved /\ window'.id = NoId
        /\ wish'[id] = IF e = id THEN NoName ELSE wish[id]
    BY <1>0, <1>3 DEF RemoveId
  <2> QED
    BY <1>0, <1>1, <2>1, <2>3, <2>4 DEF Entered
<1>4. ASSUME NEW row \in 1 .. MaxRows, InsertRows(row)
      PROVE  Entered(id, peers', saved', window', wish'[id])
  <2>1. PICK p, new : p = NewPeer(NoId, NoName) /\ new = peers' /\ new = Placed(peers, row, p)
    BY <1>4 DEF InsertRows
  <2>2. p \in Peer /\ row \in 1 .. Len(peers) + 1
    BY <1>4, <2>1, NewPeerTyped DEF InsertRows
  <2>3. Present(peers, id) => Present(new, id)
    BY <1>0, <2>1, <2>2, PlacedKeeps, NamedPresent
  <2>4. UNCHANGED <<saved, window, wish>>
    BY <1>4 DEF InsertRows
  <2> QED
    BY <1>1, <2>1, <2>3, <2>4 DEF Entered
<1>5. ASSUME NEW row \in 1 .. MaxRows, RemoveRows(row)
      PROVE  Entered(id, peers', saved', window', wish'[id])
  <2>1. PICK new, e : new = peers' /\ new = RemoveAt(peers, row) /\ e = peers[row].eid
    BY <1>5 DEF RemoveRows
  <2>2. row \in DOMAIN peers
    BY <1>5 DEF RemoveRows
  <2>3. e # id => (Present(peers, id) => Present(new, id))
    BY <1>0, <2>1, <2>2, RemovedKeeps, NamedPresent
  <2>4. /\ UNCHANGED <<saved, window>> /\ window.do = "none"
        /\ wish'[id] = IF e = id THEN NoName ELSE wish[id]
    BY <1>0, <1>5, <2>1 DEF RemoveRows
  <2> QED
    BY <1>1, <2>1, <2>3, <2>4 DEF Entered
<1>6. ASSUME NEW row \in 1 .. MaxRows, NEW name \in Names, SetData(row, name)
      PROVE  Entered(id, peers', saved', window', wish'[id])
  <2>1. row \in DOMAIN peers
    BY <1>6 DEF SetData
  <2>2. PICK new, e : new = peers' /\ SetsName(peers, row, name, new) /\ e = peers[row].eid
    BY <1>6 DEF SetData, SetsName
  <2>3. /\ Len(new) = Len(peers) /\ new \in Seq(Peer)
        /\ \A i \in DOMAIN peers : new[i].eid = peers[i].eid
    BY <1>0, <2>1, <2>2, NameSet
  <2>4. (Present(peers, id) => Present(new, id)) /\ Present(peers, e)
    <3>1. DOMAIN new = DOMAIN peers
      BY <1>0, <2>3
    <3> QED
      BY <2>1, <2>2, <2>3, <3>1 DEF Present
  <2>5. UNCHANGED <<saved, wish>> /\ window'.id = e
    BY <1>6, <2>2 DEF SetData, ghosts
  <2> QED
    BY <1>1, <2>2, <2>4, <2>5 DEF Entered
<1>7. ASSUME InsertPeer
      PROVE  Entered(id, peers', saved', window', wish'[id])
  <2>1. window.id \in Ids /\ window.name \in Names /\ window.row \in 1 .. Len(peers) + 1
    BY <1>7, AtHand DEF InsertPeer
  <2>2. PICK row \in {window.row, Len(peers) + 1} :
          peers' = Placed(peers, row, NewPeer(window.id, window.name))
    BY <1>7 DEF InsertPeer
  <2>3. PICK p, new : /\ p = NewPeer(window.id, window.name) /\ new = peers'
                      /\ new = Placed(peers, row, p)
    BY <2>2
  <2>4. p \in Peer /\ p.eid = window.id /\ row \in 1 .. Len(peers) + 1
    BY <1>0, <2>1, <2>3, NewPeerTyped
  <2>5. /\ Named(new, p.eid, p.name)
        /\ \A name : Named(peers, id, name) => Named(new, id, name)
    BY <1>0, <2>3, <2>4, PlacedKeeps
  <2>6. (Present(peers, id) => Present(new, id)) /\ (p.eid = id => Present(new, id))
    BY <2>5, NamedPresent DEF Named, Present
  <2>7. UNCHANGED <<saved, wish>> /\ window'.id = p.eid
    BY <1>7, <2>4 DEF InsertPeer
  <2> QED
    BY <1>1, <2>3, <2>6, <2>7 DEF Entered
<1>8. ASSUME WriteSettings
      PROVE  Entered(id, peers', saved', window', wish'[id])
  <2>1. /\ UNCHANGED peers /\ saved' = peers /\ window.do = "write" /\ window'.do = "none"
        /\ window.id # id => wish'[id] = wish[id]
    BY <1>0, <1>8 DEF WriteSettings
  <2> QED
    BY <1>1, <2>1 DEF Entered
<1> QED
  BY <1>2, <1>3, <1>4, <1>5, <1>6, <1>7, <1>8 DEF User, Begin

(***************************************************************************)
(* So does every step of the host's thread, and a restart.                 *)
(***************************************************************************)
LEMMA ClientKeepsContacts == Typed /\ ContactsEntered /\ (Client \/ Restart) => ContactsEntered'
<1> SUFFICES ASSUME Typed, ContactsEntered, Client \/ Restart, NEW id \in Ids
             PROVE  Entered(id, peers', saved', window', wish'[id])
  BY DEF ContactsEntered
<1>0. peers \in Seq(Peer) /\ saved \in Seq(Peer) /\ Idle.do = "none"
  BY DEF Typed, ListTyped, RestTyped, Idle
<1>1. Entered(id, peers, saved, window, wish[id])
  BY DEF ContactsEntered
<1>2. ASSUME AppendPeer PROVE Entered(id, peers', saved', window', wish'[id])
  <2>1. net.id \in Ids
    BY <1>2, AtHand DEF AppendPeer
  <2>2. PICK p, new : p = NewPeer(net.id, NoName) /\ new = peers' /\ new = Append(peers, p)
    BY <1>2 DEF AppendPeer
  <2>3. p \in Peer
    BY <2>1, <2>2, NewPeerTyped
  <2>4. Present(peers, id) => Present(new, id)
    BY <1>0, <2>2, <2>3, AppendKeeps, NamedPresent
  <2>5. UNCHANGED <<saved, window, wish>>
    BY <1>2 DEF AppendPeer
  <2> QED
    BY <1>1, <2>2, <2>4, <2>5 DEF Entered
<1>3. ASSUME SetProfile PROVE Entered(id, peers', saved', window', wish'[id])
  <2>1. UNCHANGED <<saved, window, wish>>
    BY <1>3 DEF SetProfile
  <2>2. CASE net.row \in DOMAIN peers
    <3>1. PICK e, row, new : /\ e = net.id /\ row = net.row /\ new = peers'
                             /\ new = [peers EXCEPT ![row].profile = e]
      BY <1>3, <2>2 DEF SetProfile
    <3>2. e \in Ids
      BY <1>3, <3>1, AtHand DEF SetProfile
    <3>3. \A n : Named(peers, id, n) => Named(new, id, n)
      <4>1. peers \in Seq(Peer) /\ row \in DOMAIN peers
        BY <1>0, <2>2, <3>1
      <4>2. new = WithProfile(peers, row, e)
        BY <3>1 DEF WithProfile
      <4> QED
        BY <3>2, <4>1, <4>2, ProfileSet
    <3>4. Present(peers, id) => Present(new, id)
      BY <3>3, NamedPresent
    <3> QED
      BY <1>1, <2>1, <3>1, <3>4 DEF Entered
  <2>3. CASE net.row \notin DOMAIN peers
    BY <1>1, <1>3, <2>1, <2>3 DEF SetProfile
  <2> QED
    BY <2>2, <2>3
<1>4. ASSUME Restart PROVE Entered(id, peers', saved', window', wish'[id])
  <2>1. UNCHANGED <<saved, wish>> /\ window'.do = "none"
    BY <1>0, <1>4 DEF Restart
  <2>2. PICK list, new : list = saved /\ new = peers' /\ IsPart(new, list, Taken(list))
    BY <1>4 DEF Restart, UseSettings
  <2>3. Present(list, id) => Present(new, id)
    BY <1>0, <2>2, SettingsUsed
  <2> QED
    BY <1>1, <2>1, <2>2, <2>3 DEF Entered
<1>5. ASSUME Client, ~AppendPeer, ~SetProfile PROVE UNCHANGED <<peers, saved, window, wish>>
  BY <1>5 DEF Client, OnReady, SearchDone, FoundPeer, LookupDone, LookupFailed, ghosts
<1> QED
  BY <1>1, <1>2, <1>3, <1>4, <1>5

LEMMA ContactsGoOn == Typed /\ ContactsEntered /\ [Next]_vars => ContactsEntered'
<1>1. ContactsEntered /\ UNCHANGED vars => ContactsEntered'
  BY DEF ContactsEntered, vars, ghosts
<1> QED
  BY <1>1, UserKeepsContacts, ClientKeepsContacts DEF Next

LEMMA ContactsStart == Init => ContactsEntered
BY DEF Init, ContactsEntered, Entered, Idle

LEMMA WishesFollow == Typed /\ WishesHeld /\ ContactsEntered => WishesKept
<1> SUFFICES ASSUME Typed, WishesHeld, ContactsEntered, NEW id \in Ids, wish[id] # NoName
             PROVE  /\ \E p \in Range(saved) : p.eid = id /\ (id \notin doubled => p.name = wish[id])
                    /\ window = Idle =>
                         \E p \in Range(peers) : p.eid = id /\ (id \notin doubled => p.name = wish[id])
  BY TypesFollow DEF WishesKept
<1>1. CASE id \in doubled
  <2>1. Present(peers, id) /\ Present(saved, id)
    BY DEF ContactsEntered, Entered
  <2> QED
    BY <1>1, <2>1 DEF Present, Range
<1>2. CASE id \notin doubled
  <2>1. Held(id, peers, saved, window, wish[id]) /\ Idle.do = "none"
    BY <1>2 DEF WishesHeld, Idle
  <2>2. Named(saved, id, wish[id]) /\ (window = Idle => Named(peers, id, wish[id]))
    BY <2>1 DEF Held
  <2> QED
    BY <2>2 DEF Named, Range
<1> QED
  BY <1>1, <1>2

\* The list and the settings have each contact that the user has entered, through what
\* the servers find meanwhile and through restarts, and by the name last given if
\* the servers' thread has not entered it at the same time.  The invariant adds what
\* a write that has begun is to write, and that an identity which one thread has
\* entered stands in one row, so that useSettings does not take another for it.
THEOREM WishesAreKept == Spec => []WishesKept
<1> QED
  BY TypesStart, TypesGoOn, WishesStart, WishesGoOn, ContactsStart, ContactsGoOn, WishesFollow,
     PTL DEF Spec

-----------------------------------------------------------------------------
(* The chat.                                                               *)

(***************************************************************************)
(* What holds of 0, and of each number after one that it holds of, holds of*)
(* all.                                                                    *)
(***************************************************************************)
LEMMA StepByStep ==
  ASSUME NEW n \in Nat, NEW P, 0 \in P, \A k \in 1..n : k - 1 \in P => k \in P
  PROVE  0..n \subseteq P
<1> SUFFICES ASSUME ~(0..n \subseteq P) PROVE FALSE
  OBVIOUS
<1> DEFINE Bad == 0..n \ P
<1>1. Bad \in SUBSET Nat /\ Bad # {}
  OBVIOUS
<1>2. PICK m \in Bad : \A l \in Bad : m <= l
  BY <1>1, SmallestNumber
<1>3. m \in 1..n /\ m - 1 \in 0..n /\ m - 1 \notin Bad
  BY <1>2
<1> QED
  BY <1>2, <1>3

Table(f, W, n, base, step) ==
  f \in [0..n -> W] /\ f[0] = base /\ \A k \in 1..n : f[k] = step[k][f[k - 1]]

(***************************************************************************)
(* A definition by recursion on a number: a table of what the steps give,  *)
(* each from what was there before it.                                     *)
(***************************************************************************)
LEMMA Recursion ==
  ASSUME NEW W, NEW base \in W, NEW n \in Nat, NEW step \in [1..n -> [W -> W]]
  PROVE  \E f : Table(f, W, n, base, step)
<1> DEFINE P == {m \in 0..n : \E f : Table(f, W, m, base, step)}
<1>1. 0 \in P
  <2>1. Table([k \in 0..0 |-> base], W, 0, base, step)
    BY DEF Table
  <2> QED
    BY <2>1
<1>2. ASSUME NEW m \in 1..n, m - 1 \in P PROVE m \in P
  <2>1. PICK f : Table(f, W, m - 1, base, step)
    BY <1>2
  <2> DEFINE g == [k \in 0..m |-> IF k = m THEN step[m][f[m - 1]] ELSE f[k]]
  <2>2. f \in [0..(m - 1) -> W] /\ f[0] = base /\ \A k \in 1..(m - 1) : f[k] = step[k][f[k - 1]]
    BY <2>1 DEF Table
  <2>3. f[m - 1] \in W /\ step[m][f[m - 1]] \in W
    BY <2>2
  <2>4. g \in [0..m -> W]
    BY <2>2, <2>3
  <2>5. g[0] = base /\ \A k \in 1..m : g[k] = step[k][g[k - 1]]
    BY <2>2
  <2>6. Table(g, W, m, base, step)
    BY <2>4, <2>5 DEF Table
  <2> QED
    BY <2>6
<1> HIDE DEF P
<1>3. 0..n \subseteq P
  BY <1>1, <1>2, StepByStep
<1> QED
  BY <1>3 DEF P

\* What has been picked after each element of s.
Picking(f, s, T) ==
  /\ DOMAIN f = 0..Len(s) /\ f[0] = <<>>
  /\ \A k \in 1..Len(s) : f[k] = IF s[k] \in T THEN Append(f[k - 1], s[k]) ELSE f[k - 1]

(***************************************************************************)
(* Picked is what has been picked after the last element.                  *)
(***************************************************************************)
LEMMA PickedOneByOne ==
  ASSUME NEW S, NEW s \in Seq(S), NEW T
  PROVE  \E f : Picking(f, s, T) /\ f \in [0..Len(s) -> Seq(S)] /\ Chat!Picked(s, T) = f[Len(s)]
<1> DEFINE n == Len(s)
           Body(f) == [k \in 0..n |-> IF k = 0 THEN <<>>
                         ELSE IF s[k] \in T THEN Append(f[k - 1], s[k]) ELSE f[k - 1]]
           step == [k \in 1..n |-> [q \in Seq(S) |-> IF s[k] \in T THEN Append(q, s[k]) ELSE q]]
<1>1. n \in Nat /\ <<>> \in Seq(S) /\ \A k \in 1..n : s[k] \in S
  OBVIOUS
<1>2. step \in [1..n -> [Seq(S) -> Seq(S)]]
  BY <1>1
<1> HIDE DEF step
<1>3. PICK f : Table(f, Seq(S), n, <<>>, step)
  BY <1>1, <1>2, Recursion
<1>4. ASSUME NEW k \in 1..n
      PROVE  f[k] = IF s[k] \in T THEN Append(f[k - 1], s[k]) ELSE f[k - 1]
  <2>1. k - 1 \in 0..n
    BY <1>1
  <2>2. f \in [0..n -> Seq(S)] /\ f[k] = step[k][f[k - 1]]
    BY <1>3 DEF Table
  <2>3. f[k - 1] \in Seq(S)
    BY <2>1, <2>2
  <2> QED
    BY <2>2, <2>3 DEF step
<1>5. f = Body(f)
  <2>1. f = [k \in 0..n |-> f[k]] /\ f[0] = <<>>
    BY <1>3 DEF Table
  <2>2. ASSUME NEW k \in 0..n
        PROVE  f[k] = IF k = 0 THEN <<>>
                      ELSE IF s[k] \in T THEN Append(f[k - 1], s[k]) ELSE f[k - 1]
    <3>1. k = 0 \/ k \in 1..n
      BY <1>1
    <3> QED
      BY <1>4, <2>1, <3>1
  <2> QED
    BY <2>1, <2>2
<1> DEFINE g == CHOOSE g : g = Body(g)
<1>6. g = Body(g)
  BY <1>5
<1>7. Chat!Picked(s, T) = g[n]
  BY DEF Chat!Picked
<1> HIDE DEF g
<1>8. DOMAIN g = 0..n /\ g[0] = <<>>
      /\ \A k \in 1..n : g[k] = IF s[k] \in T THEN Append(g[k - 1], s[k]) ELSE g[k - 1]
  <2>1. DOMAIN g = 0..n /\ g[0] = <<>>
    BY <1>1, <1>6
  <2>2. ASSUME NEW k \in 1..n
        PROVE  g[k] = IF s[k] \in T THEN Append(g[k - 1], s[k]) ELSE g[k - 1]
    <3>1. k \in 0..n /\ k # 0
      BY <1>1
    <3>2. g[k] = Body(g)[k]
      BY <1>6
    <3> QED
      BY <3>1, <3>2
  <2> QED
    BY <2>1, <2>2
<1> DEFINE P == {k \in 0..n : g[k] \in Seq(S)}
<1>9. 0 \in P
  <2>1. 0 \in 0..n /\ g[0] \in Seq(S)
    BY <1>1, <1>8
  <2> QED
    BY <2>1
<1>12. ASSUME NEW k \in 1..n, k - 1 \in P PROVE k \in P
  <2>1. k \in 0..n /\ g[k - 1] \in Seq(S) /\ s[k] \in S
    BY <1>1, <1>12
  <2>2. Append(g[k - 1], s[k]) \in Seq(S)
    BY <2>1
  <2> QED
    BY <1>8, <2>1, <2>2
<1> HIDE DEF P
<1>10. 0..n \subseteq P
  BY <1>1, <1>9, <1>12, StepByStep
<1>11. g \in [0..n -> Seq(S)]
  BY <1>6, <1>10 DEF P
<1> QED
  BY <1>7, <1>8, <1>11 DEF Picking

(***************************************************************************)
(* What is picked from a sequence is of its elements.                      *)
(***************************************************************************)
LEMMA PickedTyped ==
  ASSUME NEW S, NEW s \in Seq(S), NEW T
  PROVE  Chat!Picked(s, T) \in Seq(S)
  BY PickedOneByOne, LenProperties

(***************************************************************************)
(* Nothing is picked from nothing.                                         *)
(***************************************************************************)
LEMMA PickedNone == ASSUME NEW T PROVE Chat!Picked(<<>>, T) = <<>>
<1>1. <<>> \in Seq({}) /\ Len(<<>>) = 0
  OBVIOUS
<1>2. PICK f : Picking(f, <<>>, T) /\ Chat!Picked(<<>>, T) = f[Len(<<>>)]
  BY <1>1, PickedOneByOne
<1> QED
  BY <1>1, <1>2 DEF Picking

(***************************************************************************)
(* One more element is picked or not, after what was picked before it.     *)
(***************************************************************************)
LEMMA PickedAppend ==
  ASSUME NEW S, NEW s \in Seq(S), NEW x \in S, NEW T
  PROVE  Chat!Picked(Append(s, x), T) = IF x \in T THEN Append(Chat!Picked(s, T), x) ELSE Chat!Picked(s, T)
<1> DEFINE n == Len(s)
           t == Append(s, x)
<1>1. /\ t \in Seq(S) /\ n \in Nat /\ Len(t) = n + 1 /\ t[n + 1] = x
      /\ \A k \in 1..n : t[k] = s[k]
  OBVIOUS
<1>2. PICK f : Picking(f, s, T) /\ Chat!Picked(s, T) = f[n]
  BY PickedOneByOne
<1> HIDE DEF t
<1>3. PICK g : Picking(g, t, T) /\ Chat!Picked(t, T) = g[n + 1]
  BY <1>1, PickedOneByOne
<1> DEFINE P == {k \in 0..n : g[k] = f[k]}
<1>4. 0 \in P /\ \A k \in 1..n : k - 1 \in P => k \in P
  BY <1>1, <1>2, <1>3 DEF Picking
<1> HIDE DEF P
<1>5. n \in P
  BY <1>1, <1>4, StepByStep
<1>6. g[n] = f[n]
  BY <1>5 DEF P
<1>7. g[n + 1] = IF x \in T THEN Append(g[n], x) ELSE g[n]
  BY <1>1, <1>3 DEF Picking
<1> QED
  BY <1>2, <1>3, <1>6, <1>7 DEF t


MsgsOf(q) == [k \in DOMAIN q |-> q[k].msg]
SaidIn(l) == MsgsOf(Chat!Picked(l, [by : {"me"}, msg : Chat!Messages]))
HeardIn(l) == MsgsOf(Chat!Picked(l, [by : {"you"}, msg : Chat!Messages]))
TextsIn(l) == Chat!Picked(l, Chat!TextEntry)

(***************************************************************************)
(* The messages of entries are messages.                                   *)
(***************************************************************************)
LEMMA MsgsTyped ==
  ASSUME NEW q \in Seq(Chat!Entry)
  PROVE  MsgsOf(q) \in Seq(Chat!Messages)
<1>1. \A y \in Chat!Entry : y.msg \in Chat!Messages
  BY DEF Chat!Entry
<1> HIDE DEF Chat!Entry, Chat!Messages
<1> QED
  BY <1>1 DEF MsgsOf

(***************************************************************************)
(* One more entry has one more message.                                    *)
(***************************************************************************)
LEMMA MsgsAppend ==
  ASSUME NEW q \in Seq(Chat!Entry), NEW x \in Chat!Entry
  PROVE  /\ MsgsOf(q) \in Seq(Chat!Messages)
         /\ MsgsOf(Append(q, x)) = Append(MsgsOf(q), x.msg)
<1>1. \A y \in Chat!Entry : y.msg \in Chat!Messages
  BY DEF Chat!Entry
<1> HIDE DEF Chat!Entry, Chat!Messages
<1>2. MsgsOf(q) \in Seq(Chat!Messages) /\ Len(MsgsOf(q)) = Len(q)
      /\ \A k \in 1..Len(q) : MsgsOf(q)[k] = q[k].msg
  BY <1>1 DEF MsgsOf
<1>3. /\ Append(q, x) \in Seq(Chat!Entry) /\ Len(Append(q, x)) = Len(q) + 1
      /\ \A k \in 1..Len(q) : Append(q, x)[k] = q[k]
      /\ Append(q, x)[Len(q) + 1] = x
  OBVIOUS
<1>4. MsgsOf(Append(q, x)) \in Seq(Chat!Messages) /\ Len(MsgsOf(Append(q, x))) = Len(q) + 1
      /\ \A k \in 1..(Len(q) + 1) : MsgsOf(Append(q, x))[k] = Append(q, x)[k].msg
  BY <1>1, <1>3 DEF MsgsOf
<1> QED
  BY <1>1, <1>2, <1>3, <1>4

(***************************************************************************)
(* What a log says is messages, and its texts are entries.                 *)
(***************************************************************************)
LEMMA LogSays ==
  ASSUME NEW l \in Seq(Chat!Entry)
  PROVE  /\ SaidIn(l) \in Seq(Chat!Messages) /\ HeardIn(l) \in Seq(Chat!Messages)
         /\ TextsIn(l) \in Seq(Chat!Entry)
  BY PickedTyped, MsgsTyped DEF SaidIn, HeardIn, TextsIn

(***************************************************************************)
(* An entry goes with what was said or with what was heard.                *)
(***************************************************************************)
LEMMA EntryAdded ==
  ASSUME NEW l \in Seq(Chat!Entry), NEW x \in Chat!Entry
  PROVE  /\ x.by = "me" => SaidIn(Append(l, x)) = Append(SaidIn(l), x.msg)
                           /\ HeardIn(Append(l, x)) = HeardIn(l)
         /\ x.by = "you" => HeardIn(Append(l, x)) = Append(HeardIn(l), x.msg)
                            /\ SaidIn(Append(l, x)) = SaidIn(l)
         /\ x.msg.kind = "text" => TextsIn(Append(l, x)) = Append(TextsIn(l), x)
         /\ x.msg.kind # "text" => TextsIn(Append(l, x)) = TextsIn(l)
<1> DEFINE mine == [by : {"me"}, msg : Chat!Messages]
           yours == [by : {"you"}, msg : Chat!Messages]
<1>1. /\ x \in mine <=> x.by = "me"
      /\ x \in yours <=> x.by = "you"
      /\ x \in Chat!TextEntry <=> x.msg.kind = "text"
  BY DEF Chat!Entry, Chat!TextEntry, Chat!Messages
<1>2. x.by = "me" => x.by # "you"
  OBVIOUS
<1> HIDE DEF mine, yours
<1>3. \A T : Chat!Picked(l, T) \in Seq(Chat!Entry)
  BY PickedTyped
<1>4. \A T : /\ x \in T => Chat!Picked(Append(l, x), T) = Append(Chat!Picked(l, T), x)
             /\ x \notin T => Chat!Picked(Append(l, x), T) = Chat!Picked(l, T)
  BY PickedAppend
<1>5. \A q \in Seq(Chat!Entry) : MsgsOf(Append(q, x)) = Append(MsgsOf(q), x.msg)
  BY MsgsAppend
<1>6. SaidIn(l) = MsgsOf(Chat!Picked(l, mine)) /\ HeardIn(l) = MsgsOf(Chat!Picked(l, yours))
      /\ SaidIn(Append(l, x)) = MsgsOf(Chat!Picked(Append(l, x), mine))
      /\ HeardIn(Append(l, x)) = MsgsOf(Chat!Picked(Append(l, x), yours))
  BY DEF SaidIn, HeardIn, mine, yours
<1> QED
  BY <1>1, <1>2, <1>3, <1>4, <1>5, <1>6 DEF TextsIn

\* What was told is what was got and what is on the wire w, before its end.
Carries(told, got, w, end) ==
  \E rest \in Seq(Chat!Messages) : told = got \o rest /\ w = rest \o end
StartsWith(told, got) == \E rest \in Seq(Chat!Messages) : told = got \o rest

(***************************************************************************)
(* Who starts with what was got still does so when more is told.           *)
(***************************************************************************)
LEMMA MoreTold ==
  ASSUME NEW told \in Seq(Chat!Messages), NEW got \in Seq(Chat!Messages),
         NEW m \in Chat!Messages, StartsWith(told, got)
  PROVE  StartsWith(Append(told, m), got)
<1>1. PICK rest \in Seq(Chat!Messages) : told = got \o rest
  BY DEF StartsWith
<1>2. Append(rest, m) \in Seq(Chat!Messages)
  OBVIOUS
<1>3. Append(got \o rest, m) = got \o Append(rest, m)
  OBVIOUS
<1> QED
  BY <1>1, <1>2, <1>3 DEF StartsWith

(***************************************************************************)
(* What is said, and the end, go on the wire after what is there.          *)
(***************************************************************************)
LEMMA WireCarries ==
  ASSUME NEW told \in Seq(Chat!Messages), NEW got \in Seq(Chat!Messages), NEW w, NEW end,
         Carries(told, got, w, end)
  PROVE  /\ StartsWith(told, got)
         /\ end = <<>> =>
              /\ \A m \in Chat!Messages : Carries(Append(told, m), got, Append(w, m), end)
              /\ Carries(told, got, Append(w, Chat!EOF), <<Chat!EOF>>)
<1>1. PICK rest \in Seq(Chat!Messages) : told = got \o rest /\ w = rest \o end
  BY DEF Carries
<1>2. StartsWith(told, got)
  BY <1>1 DEF StartsWith
<1>3. ASSUME NEW m \in Chat!Messages, end = <<>>
      PROVE  Carries(Append(told, m), got, Append(w, m), end)
  <2>1. Append(rest, m) \in Seq(Chat!Messages)
    OBVIOUS
  <2>4. Append(got \o rest, m) = got \o Append(rest, m)
    OBVIOUS
  <2>2. Append(told, m) = got \o Append(rest, m)
    BY <1>1, <2>4
  <2>3. Append(w, m) = Append(rest, m) \o end
    BY <1>1, <1>3
  <2> QED
    BY <2>1, <2>2, <2>3 DEF Carries
<1>4. ASSUME end = <<>> PROVE Carries(told, got, Append(w, Chat!EOF), <<Chat!EOF>>)
  <2>1. w = rest
    BY <1>1, <1>4
  <2>2. Append(rest, Chat!EOF) = rest \o <<Chat!EOF>>
    OBVIOUS
  <2> QED
    BY <1>1, <2>1, <2>2 DEF Carries
<1> QED
  BY <1>2, <1>3, <1>4

(***************************************************************************)
(* What is read is the next message that was told, or the end after all.   *)
(***************************************************************************)
LEMMA WireRead ==
  ASSUME NEW told \in Seq(Chat!Messages), NEW got \in Seq(Chat!Messages), NEW w, NEW end,
         end = <<>> \/ end = <<Chat!EOF>>, Carries(told, got, w, end), w # <<>>
  PROVE  /\ Head(w) = Chat!EOF => end = <<Chat!EOF>> /\ told = got /\ Tail(w) = <<>>
         /\ Head(w) # Chat!EOF =>
              Head(w) \in Chat!Messages /\ Carries(told, Append(got, Head(w)), Tail(w), end)
         /\ ~(told = got /\ end = <<>>)
<1>1. PICK rest \in Seq(Chat!Messages) : told = got \o rest /\ w = rest \o end
  BY DEF Carries
<1>2. Chat!EOF \notin Chat!Messages
  BY DEF Chat!EOF, Chat!Messages
<1> DEFINE Split ==
  /\ Head(w) = Chat!EOF => end = <<Chat!EOF>> /\ told = got /\ Tail(w) = <<>>
  /\ Head(w) # Chat!EOF =>
       Head(w) \in Chat!Messages /\ Carries(told, Append(got, Head(w)), Tail(w), end)
<1>3. ASSUME rest = <<>> PROVE Split
  <2>1. told = got
    BY <1>1, <1>3
  <2>2. end = <<Chat!EOF>> /\ w = <<Chat!EOF>>
    BY <1>1, <1>3
  <2> QED
    BY <2>1, <2>2
<1>4. ASSUME rest # <<>> PROVE Split
  <2>1. /\ Head(rest) \in Chat!Messages /\ Tail(rest) \in Seq(Chat!Messages)
        /\ rest = <<Head(rest)>> \o Tail(rest)
    BY <1>4
  <2> DEFINE m == Head(rest)
             t == Tail(rest)
  <2> HIDE DEF m, t
  <2>2. m \in Chat!Messages /\ t \in Seq(Chat!Messages) /\ rest = <<m>> \o t
    BY <2>1 DEF m, t
  <2>3. Head(w) = m /\ Tail(w) = t \o end
    BY <1>1, <2>2
  <2>5. Append(got, m) \o t = got \o (<<m>> \o t)
    BY <2>2
  <2>4. told = Append(got, m) \o t
    BY <1>1, <2>2, <2>5
  <2> QED
    BY <1>2, <2>2, <2>3, <2>4 DEF Carries
<1>5. ~(told = got /\ end = <<>>)
  <2> SUFFICES ASSUME told = got, end = <<>> PROVE FALSE
    OBVIOUS
  <2>1. w = rest /\ got \o rest = got
    BY <1>1
  <2>2. Len(got \o rest) = Len(got) + Len(rest) /\ Len(rest) \in Nat /\ Len(got) \in Nat
    OBVIOUS
  <2>3. Len(rest) = 0
    BY <2>1, <2>2
  <2> QED
    BY <2>1, <2>3
<1> QED
  BY <1>3, <1>4, <1>5


DialogRec ==
  [at : {"none", "here", "doomed", "gone"}, window : {"none", "shown", "closed", "rejected"},
   readonly : BOOLEAN, shut : BOOLEAN, ended : BOOLEAN,
   link : {"none", "linking", "up", "failed"}]

ChatTyped ==
  /\ dlg \in [Chat!Ends -> DialogRec] /\ broken \in BOOLEAN
  /\ wire \in [Chat!Ends -> Seq(Chat!Messages \cup {Chat!EOF})]
  /\ log \in [Chat!Ends -> Seq(Chat!Entry)] /\ history \in [Chat!Ends -> Seq(Chat!Entry)]
  /\ scanner \in [Chat!Ends -> {"none", "scanning", "ending"}]
  /\ refused \subseteq {"files"}

\* Only a dialog that is there scans, and only one that is linked may be written in.
DialogSound(e) ==
  /\ dlg[e].at = "none" => dlg[e] = Chat!NoDialog
  /\ scanner[e] # "none" => dlg[e].at \in {"here", "doomed"}
  /\ dlg[e].shut => dlg[e].window = "closed"
  /\ ~dlg[e].readonly /\ dlg[e].at # "none" => dlg[e].link = "up"

End(o) == IF dlg[o].shut /\ ~dlg[Chat!Other(o)].ended THEN <<Chat!EOF>> ELSE <<>>

\* What the end o has told and its partner not got is on the wire, or was lost
\* with the opener's stream.
Flows(o) ==
  LET told == SaidIn(log[o])
      got == HeardIn(log[Chat!Other(o)])
  IN  /\ StartsWith(told, got)
      /\ refused = {} =>
           /\ Carries(told, got, wire[o], End(o)) \/ (wire[o] = <<>> /\ dlg[o].at = "gone")
           /\ dlg[Chat!Other(o)].ended => dlg[o].shut /\ told = got

ChatHeld ==
  /\ ChatTyped
  /\ \A e \in Chat!Ends : DialogSound(e) /\ Flows(e) /\ history[e] = TextsIn(log[e])

(***************************************************************************)
(* There are two ends, each other's partner.                               *)
(***************************************************************************)
LEMMA TwoEnds ==
  /\ \A e \in Chat!Ends : /\ Chat!Other(e) \in Chat!Ends /\ Chat!Other(e) # e
                          /\ Chat!Other(Chat!Other(e)) = e
  /\ \A e, o \in Chat!Ends : o # e => o = Chat!Other(e)
  /\ "opener" \in Chat!Ends /\ "server" \in Chat!Ends
  BY DEF Chat!Ends, Chat!Other

(***************************************************************************)
(* A message by one of the two is an entry.                                *)
(***************************************************************************)
LEMMA EntryTyped ==
  ASSUME NEW by \in {"me", "you"}, NEW msg \in Chat!Messages
  PROVE  [by |-> by, msg |-> msg] \in Chat!Entry
  BY DEF Chat!Entry

(***************************************************************************)
(* There is no dialog, nothing has been said.                              *)
(***************************************************************************)
LEMMA ChatStarts == Chat!Init => ChatHeld
<1> SUFFICES ASSUME Chat!Init PROVE ChatHeld
  OBVIOUS
<1>1. ChatTyped
  <2>1. dlg \in [Chat!Ends -> DialogRec]
    BY DEF Chat!Init, DialogRec, Chat!NoDialog
  <2>2. broken \in BOOLEAN /\ refused \subseteq {"files"}
    BY DEF Chat!Init
  <2>3. scanner \in [Chat!Ends -> {"none", "scanning", "ending"}]
    BY DEF Chat!Init
  <2>4. ASSUME NEW S PROVE [e \in Chat!Ends |-> <<>>] \in [Chat!Ends -> Seq(S)]
    OBVIOUS
  <2> QED
    BY <2>1, <2>2, <2>3, <2>4 DEF Chat!Init, ChatTyped
<1>2. ASSUME NEW e \in Chat!Ends PROVE DialogSound(e) /\ Flows(e) /\ history[e] = TextsIn(log[e])
  <2>1. dlg[e] = Chat!NoDialog /\ scanner[e] = "none" /\ wire[e] = <<>>
        /\ log[e] = <<>> /\ history[e] = <<>>
        /\ dlg[Chat!Other(e)] = Chat!NoDialog /\ log[Chat!Other(e)] = <<>>
    BY TwoEnds DEF Chat!Init
  <2>2. TextsIn(<<>>) = <<>> /\ SaidIn(<<>>) = <<>> /\ HeardIn(<<>>) = <<>>
    BY PickedNone DEF TextsIn, SaidIn, HeardIn, MsgsOf
  <2>3. <<>> \in Seq(Chat!Messages) /\ <<>> \o <<>> = <<>>
    OBVIOUS
  <2>4. StartsWith(<<>>, <<>>) /\ Carries(<<>>, <<>>, <<>>, <<>>)
    BY <2>3 DEF StartsWith, Carries
  <2>5. End(e) = <<>>
    BY <2>1 DEF End, Chat!NoDialog
  <2>6. DialogSound(e)
    BY <2>1 DEF DialogSound, Chat!NoDialog
  <2>7. ~dlg[Chat!Other(e)].ended
    BY <2>1 DEF Chat!NoDialog
  <2>8. Flows(e)
    BY <2>1, <2>2, <2>4, <2>5, <2>7 DEF Flows
  <2> QED
    BY <2>1, <2>2, <2>6, <2>8
<1> QED
  BY <1>1, <1>2 DEF ChatHeld

(***************************************************************************)
(* A step that says and reads nothing leaves what is on its way as it is,  *)
(* while no side is shut or ended.                                         *)
(***************************************************************************)
LEMMA QuietStep ==
  ASSUME ChatHeld, UNCHANGED <<wire, log, history, refused>>,
         \A e \in Chat!Ends : /\ dlg'[e].shut = dlg[e].shut /\ dlg'[e].ended = dlg[e].ended
                              /\ dlg[e].at = "gone" => dlg'[e].at = "gone"
  PROVE  \A e \in Chat!Ends : Flows(e)' /\ history'[e] = TextsIn(log'[e])
<1> TAKE e \in Chat!Ends
<1>1. Flows(e) /\ history[e] = TextsIn(log[e])
  BY DEF ChatHeld
<1>2. Chat!Other(e) \in Chat!Ends
  BY TwoEnds
<1>3. End(e)' = End(e)
  BY <1>2 DEF End
<1> QED
  BY <1>1, <1>2, <1>3 DEF Flows

(***************************************************************************)
(* A message is said: it is on the wire, unless it is files that the stream*)
(* refuses.                                                                *)
(***************************************************************************)
LEMMA SayStep ==
  ASSUME ChatHeld, refused = {}, NEW e \in Chat!Ends, NEW kind \in {"text", "files"},
         Chat!Say(e, kind), UNCHANGED dlg, dlg[e].at \in {"here", "doomed"},
         kind = "text" => dlg[e].link = "up" /\ ~dlg[e].shut
  PROVE  /\ log' \in [Chat!Ends -> Seq(Chat!Entry)] /\ history' \in [Chat!Ends -> Seq(Chat!Entry)]
         /\ wire' \in [Chat!Ends -> Seq(Chat!Messages \cup {Chat!EOF})]
         /\ refused' \subseteq {"files"}
         /\ \A o \in Chat!Ends : Flows(o)' /\ history'[o] = TextsIn(log'[o])
<1> DEFINE msg == [kind |-> kind, n |-> Len(Chat!Said(e)) + 1]
           x == [by |-> "me", msg |-> msg]
           taken == dlg[e].link = "up" /\ ~dlg[e].shut
<1>1. ChatTyped /\ \A o \in Chat!Ends : Flows(o) /\ history[o] = TextsIn(log[o])
  BY DEF ChatHeld
<1>2. msg \in Chat!Messages
  <2>1. Chat!Said(e) \in Seq(Chat!Entry)
    BY <1>1, PickedTyped DEF ChatTyped, Chat!Said
  <2> QED
    BY <2>1 DEF Chat!Messages
<1>3. x \in Chat!Entry
  BY <1>2, EntryTyped
<1>4. /\ log' = [log EXCEPT ![e] = Append(@, x)]
      /\ taken => wire' = [wire EXCEPT ![e] = Append(@, msg)] /\ refused' = refused
      /\ ~taken => UNCHANGED <<wire, history>> /\ refused' = refused \cup {kind} /\ kind = "files"
      /\ taken => history' = IF kind = "text" THEN [history EXCEPT ![e] = Append(@, x)] ELSE history
  BY DEF Chat!Say, Chat!InsertHistoryLine
<1>5. x.by = "me" /\ x.msg = msg /\ x.msg.kind = kind
  OBVIOUS
<1> HIDE DEF msg, x
<1>6. log'[e] = Append(log[e], x) /\ \A o \in Chat!Ends : o # e => log'[o] = log[o]
  BY <1>1, <1>4 DEF ChatTyped
<1>7. log[e] \in Seq(Chat!Entry)
  BY <1>1 DEF ChatTyped
<1>8. /\ SaidIn(log'[e]) = Append(SaidIn(log[e]), msg) /\ HeardIn(log'[e]) = HeardIn(log[e])
      /\ TextsIn(log'[e]) = IF kind = "text" THEN Append(TextsIn(log[e]), x) ELSE TextsIn(log[e])
  BY <1>3, <1>5, <1>6, <1>7, EntryAdded
<1>9. log' \in [Chat!Ends -> Seq(Chat!Entry)] /\ history' \in [Chat!Ends -> Seq(Chat!Entry)]
  <2>1. log \in [Chat!Ends -> Seq(Chat!Entry)] /\ history \in [Chat!Ends -> Seq(Chat!Entry)]
    BY <1>1 DEF ChatTyped
  <2>2. Append(log[e], x) \in Seq(Chat!Entry) /\ Append(history[e], x) \in Seq(Chat!Entry)
    BY <1>3, <2>1
  <2>3. log' \in [Chat!Ends -> Seq(Chat!Entry)]
    BY <1>4, <2>1, <2>2
  <2>4. history' = history \/ history' = [history EXCEPT ![e] = Append(@, x)]
    BY <1>4
  <2>5. history' \in [Chat!Ends -> Seq(Chat!Entry)]
    BY <2>1, <2>2, <2>4
  <2> QED
    BY <2>3, <2>5
<1>10. wire' \in [Chat!Ends -> Seq(Chat!Messages \cup {Chat!EOF})]
  <2>1. wire \in [Chat!Ends -> Seq(Chat!Messages \cup {Chat!EOF})]
    BY <1>1 DEF ChatTyped
  <2>2. Append(wire[e], msg) \in Seq(Chat!Messages \cup {Chat!EOF})
    BY <1>2, <2>1
  <2> QED
    BY <1>4, <2>1, <2>2
<1>11. refused' \subseteq {"files"}
  BY <1>4
<1>12. ASSUME NEW o \in Chat!Ends PROVE history'[o] = TextsIn(log'[o])
  <2>1. history[o] = TextsIn(log[o]) /\ history \in [Chat!Ends -> Seq(Chat!Entry)]
    BY <1>1 DEF ChatTyped
  <2>2. CASE o # e
    BY <1>4, <1>6, <2>1, <2>2
  <2>3. CASE o = e
    BY <1>4, <1>8, <2>1, <2>3
  <2> QED
    BY <2>2, <2>3
<1>13. Flows(e)'
  <2> DEFINE told == SaidIn(log[e])
             got == HeardIn(log[Chat!Other(e)])
  <2>1. Chat!Other(e) \in Chat!Ends /\ log'[Chat!Other(e)] = log[Chat!Other(e)] /\ End(e)' = End(e)
    BY <1>6, TwoEnds DEF End
  <2>2. told \in Seq(Chat!Messages) /\ got \in Seq(Chat!Messages)
    BY <1>1, <2>1, LogSays DEF ChatTyped
  <2>3. /\ Carries(told, got, wire[e], End(e))
        /\ dlg[Chat!Other(e)].ended => dlg[e].shut /\ told = got
    BY <1>1 DEF Flows
  <2>4. Chat!Other(e) \in Chat!Ends /\ UNCHANGED dlg /\ SaidIn(log'[e]) = Append(told, msg)
        /\ HeardIn(log'[Chat!Other(e)]) = got
    BY <1>8, <2>1
  <2> HIDE DEF told, got
  <2>5. StartsWith(Append(told, msg), got)
    <3>1. StartsWith(told, got)
      BY <2>2, <2>3, WireCarries
    <3> QED
      BY <1>2, <2>2, <3>1, MoreTold
  <2>6. CASE taken
    <3>1. End(e) = <<>> /\ ~dlg[Chat!Other(e)].ended
      BY <2>3, <2>6 DEF End
    <3>2. wire'[e] = Append(wire[e], msg)
      BY <1>1, <1>4, <2>6 DEF ChatTyped
    <3>3. Carries(Append(told, msg), got, Append(wire[e], msg), <<>>)
      BY <1>2, <2>2, <2>3, <3>1, WireCarries
    <3> QED
      BY <2>1, <2>4, <2>5, <3>1, <3>2, <3>3 DEF Flows
  <2>7. CASE ~taken
    <3>1. refused' # {}
      BY <1>4, <2>7
    <3> QED
      BY <2>4, <2>5, <3>1 DEF Flows
  <2> QED
    BY <2>6, <2>7
<1>14. ASSUME NEW o \in Chat!Ends, o # e PROVE Flows(o)'
  <2>1. Chat!Other(o) = e /\ Flows(o)
    BY <1>1, <1>14, TwoEnds
  <2>2. SaidIn(log'[o]) = SaidIn(log[o]) /\ HeardIn(log'[Chat!Other(o)]) = HeardIn(log[Chat!Other(o)])
        /\ End(o)' = End(o) /\ wire'[o] = wire[o] /\ UNCHANGED dlg
    BY <1>1, <1>4, <1>6, <1>8, <1>14, <2>1 DEF End, ChatTyped
  <2>3. refused' = {} => refused = {}
    BY <1>4
  <2> QED
    BY <2>1, <2>2, <2>3 DEF Flows
<1> QED
  BY <1>9, <1>10, <1>11, <1>12, <1>13, <1>14

(***************************************************************************)
(* A message is read, or the end.                                          *)
(***************************************************************************)
LEMMA ReadStep ==
  ASSUME ChatHeld, refused = {}, NEW e \in Chat!Ends, Chat!ReadyReadMessage(e)
  PROVE  ChatHeld'
<1> DEFINE o == Chat!Other(e)
           msg == Head(wire[o])
           x == [by |-> "you", msg |-> msg]
           told == SaidIn(log[o])
           got == HeardIn(log[e])
<1>1. /\ dlg \in [Chat!Ends -> DialogRec] /\ broken \in BOOLEAN
      /\ wire \in [Chat!Ends -> Seq(Chat!Messages \cup {Chat!EOF})]
      /\ log \in [Chat!Ends -> Seq(Chat!Entry)] /\ history \in [Chat!Ends -> Seq(Chat!Entry)]
  BY DEF ChatHeld, ChatTyped
<1>2. \A q \in Chat!Ends : DialogSound(q) /\ Flows(q) /\ history[q] = TextsIn(log[q])
  BY DEF ChatHeld
<1>3. o \in Chat!Ends /\ o # e /\ Chat!Other(o) = e /\ \A q \in Chat!Ends : q # e => q = o
  BY TwoEnds
<1>4. /\ dlg[e].at \in {"here", "doomed"} /\ dlg[e].link = "up" /\ wire[o] # <<>>
      /\ wire' = [wire EXCEPT ![o] = Tail(@)]
      /\ UNCHANGED <<broken, scanner, refused>>
  BY DEF Chat!ReadyReadMessage, Chat!Here
<1>5. told \in Seq(Chat!Messages) /\ got \in Seq(Chat!Messages)
  BY <1>1, <1>3, LogSays
<1>6. Carries(told, got, wire[o], End(o)) /\ (dlg[e].ended => told = got)
  BY <1>2, <1>3, <1>4 DEF Flows
<1>7. End(o) = IF dlg[o].shut /\ ~dlg[e].ended THEN <<Chat!EOF>> ELSE <<>>
  BY <1>3 DEF End
<1>8. /\ msg = Chat!EOF => End(o) = <<Chat!EOF>> /\ told = got /\ Tail(wire[o]) = <<>>
      /\ msg # Chat!EOF => msg \in Chat!Messages
                           /\ Carries(told, Append(got, msg), Tail(wire[o]), End(o))
      /\ ~(told = got /\ End(o) = <<>>)
  <2> DEFINE w == wire[o]
             end == End(o)
  <2>1. w # <<>> /\ (end = <<>> \/ end = <<Chat!EOF>>) /\ Carries(told, got, w, end)
    BY <1>4, <1>6, <1>7
  <2> HIDE DEF w, end, told, got
  <2>2. /\ Head(w) = Chat!EOF => end = <<Chat!EOF>> /\ told = got /\ Tail(w) = <<>>
        /\ Head(w) # Chat!EOF =>
             Head(w) \in Chat!Messages /\ Carries(told, Append(got, Head(w)), Tail(w), end)
        /\ ~(told = got /\ end = <<>>)
    BY <1>5, <2>1, WireRead
  <2> QED
    BY <2>2 DEF w, end
<1>9. /\ wire'[o] = Tail(wire[o]) /\ wire'[e] = wire[e]
      /\ wire' \in [Chat!Ends -> Seq(Chat!Messages \cup {Chat!EOF})]
  <2>1. Tail(wire[o]) \in Seq(Chat!Messages \cup {Chat!EOF})
    BY <1>1, <1>3, <1>4
  <2> QED
    BY <1>1, <1>3, <1>4, <2>1
<1> HIDE DEF told, got
<1>10. CASE msg = Chat!EOF
  <2>1. /\ dlg' = [dlg EXCEPT ![e].ended = TRUE, ![e].readonly = TRUE,
                              ![e].at = IF Chat!Shown(e) THEN @ ELSE "doomed"]
        /\ UNCHANGED <<log, history>>
    BY <1>10 DEF Chat!ReadyReadMessage
  <2>2. /\ dlg' \in [Chat!Ends -> DialogRec] /\ dlg'[o] = dlg[o]
        /\ dlg'[e].at \in {"here", "doomed"} /\ dlg'[e].ended /\ dlg'[e].readonly
        /\ dlg'[e].shut = dlg[e].shut /\ dlg'[e].window = dlg[e].window
    <3>1. PICK place : place \in {"here", "doomed"} /\
                   dlg' = [dlg EXCEPT ![e] = [@ EXCEPT !.ended = TRUE, !.readonly = TRUE, !.at = place]]
      BY <1>1, <1>4, <2>1 DEF DialogRec
    <3>2. dlg[e] \in DialogRec
      BY <1>1
    <3>3. PICK d : d = [dlg[e] EXCEPT !.ended = TRUE, !.readonly = TRUE, !.at = place]
      OBVIOUS
    <3>4. d \in DialogRec /\ d.at = place /\ d.ended /\ d.readonly /\ d.shut = dlg[e].shut
          /\ d.window = dlg[e].window
      BY <3>1, <3>2, <3>3 DEF DialogRec
    <3>5. dlg' = [dlg EXCEPT ![e] = d]
      BY <1>1, <3>1, <3>3
    <3> QED
      BY <1>1, <1>3, <3>1, <3>4, <3>5
  <2>3. ChatTyped'
    BY <1>1, <1>4, <1>9, <2>1, <2>2 DEF ChatHeld, ChatTyped
  <2>4. DialogSound(e)' /\ DialogSound(o)'
    BY <1>2, <1>3, <1>4, <2>2 DEF DialogSound
  <2>5. dlg[o].shut /\ ~dlg[e].ended
    BY <1>7, <1>8, <1>10
  <2>6. End(o)' = <<>> /\ End(e)' = End(e)
    BY <1>3, <2>2 DEF End
  <2>7. StartsWith(told, got) /\ Carries(told, got, <<>>, <<>>)
    <3>1. got \o <<>> = got /\ <<>> \in Seq(Chat!Messages) /\ <<>> \o <<>> = <<>>
      BY <1>5
    <3> QED
      BY <1>8, <1>10, <3>1 DEF StartsWith, Carries
  <2>8. Flows(o)'
    BY <1>3, <1>8, <1>9, <1>10, <2>1, <2>2, <2>5, <2>6, <2>7 DEF Flows, told, got
  <2>9. Flows(e)'
    BY <1>2, <1>3, <1>4, <1>9, <2>1, <2>2, <2>6 DEF Flows
  <2> QED
    BY <1>2, <1>3, <2>1, <2>3, <2>4, <2>8, <2>9 DEF ChatHeld
<1>11. CASE msg # Chat!EOF
  <2>1. /\ UNCHANGED dlg /\ log' = [log EXCEPT ![e] = Append(@, x)]
        /\ history' = IF x.msg.kind = "text" THEN [history EXCEPT ![e] = Append(@, x)] ELSE history
    BY <1>11 DEF Chat!ReadyReadMessage, Chat!InsertHistoryLine
  <2>2. x \in Chat!Entry /\ x.by = "you" /\ x.msg = msg
    BY <1>8, <1>11, EntryTyped
  <2> HIDE DEF x
  <2>3. log'[e] = Append(log[e], x) /\ log'[o] = log[o]
    BY <1>1, <1>3, <2>1
  <2>4. /\ HeardIn(log'[e]) = Append(got, msg) /\ SaidIn(log'[e]) = SaidIn(log[e])
        /\ x.msg.kind = "text" => TextsIn(log'[e]) = Append(TextsIn(log[e]), x)
        /\ x.msg.kind # "text" => TextsIn(log'[e]) = TextsIn(log[e])
    <3>1. log[e] \in Seq(Chat!Entry)
      BY <1>1
    <3> QED
      BY <2>2, <2>3, <3>1, EntryAdded DEF got
  <2>5. log' \in [Chat!Ends -> Seq(Chat!Entry)] /\ history' \in [Chat!Ends -> Seq(Chat!Entry)]
    <3>1. Append(log[e], x) \in Seq(Chat!Entry) /\ Append(history[e], x) \in Seq(Chat!Entry)
      BY <1>1, <2>2
    <3>2. history' = history \/ history' = [history EXCEPT ![e] = Append(@, x)]
      BY <2>1
    <3> QED
      BY <1>1, <2>1, <3>1, <3>2
  <2>6. ChatTyped'
    BY <1>1, <1>4, <1>9, <2>1, <2>5 DEF ChatHeld, ChatTyped
  <2>7. history'[e] = TextsIn(log'[e]) /\ history'[o] = TextsIn(log'[o])
    BY <1>1, <1>2, <1>3, <2>1, <2>3, <2>4
  <2>8. End(o)' = End(o) /\ End(e)' = End(e)
    BY <1>3, <2>1 DEF End
  <2>9. ~dlg[e].ended
    BY <1>6, <1>7, <1>8
  <2>10. StartsWith(told, Append(got, msg))
    BY <1>8, <1>11 DEF StartsWith, Carries
  <2>11. Flows(o)'
    BY <1>3, <1>8, <1>9, <1>11, <2>1, <2>3, <2>4, <2>8, <2>9, <2>10 DEF Flows, told
  <2>12. Flows(e)'
    BY <1>2, <1>3, <1>4, <1>9, <2>1, <2>3, <2>4, <2>8 DEF Flows
  <2>13. \A q \in Chat!Ends : DialogSound(q)'
    BY <1>2, <1>4, <2>1 DEF DialogSound
  <2> QED
    BY <1>3, <2>6, <2>7, <2>11, <2>12, <2>13 DEF ChatHeld
<1> QED
  BY <1>10, <1>11

(***************************************************************************)
(* A dialog changes and neither says nor reads anything.                   *)
(***************************************************************************)
LEMMA QuietHeld ==
  ASSUME NEW e \in Chat!Ends, NEW d \in DialogRec, NEW s \in {"none", "scanning", "ending"},
         ChatHeld, UNCHANGED <<wire, log, history, refused>>,
         dlg' = [dlg EXCEPT ![e] = d], scanner' = [scanner EXCEPT ![e] = s],
         broken' \in BOOLEAN, d.shut = dlg[e].shut, d.ended = dlg[e].ended,
         dlg[e].at = "gone" => d.at = "gone", d.at = "none" => d = Chat!NoDialog,
         s # "none" => d.at \in {"here", "doomed"}, d.shut => d.window = "closed",
         ~d.readonly /\ d.at # "none" => d.link = "up"
  PROVE  ChatHeld'
<1>1. ChatTyped /\ \A q \in Chat!Ends : DialogSound(q)
  BY DEF ChatHeld
<1>2. dlg \in [Chat!Ends -> DialogRec] /\ scanner \in [Chat!Ends -> {"none", "scanning", "ending"}]
  BY <1>1 DEF ChatTyped
<1>3. /\ dlg'[e] = d /\ scanner'[e] = s
      /\ \A q \in Chat!Ends : q # e => dlg'[q] = dlg[q] /\ scanner'[q] = scanner[q]
  BY <1>2
<1>4. dlg' \in [Chat!Ends -> DialogRec] /\ scanner' \in [Chat!Ends -> {"none", "scanning", "ending"}]
  BY <1>2
<1>5. ChatTyped'
  BY <1>1, <1>4 DEF ChatTyped
<1>6. \A q \in Chat!Ends : DialogSound(q)'
  <2> TAKE q \in Chat!Ends
  <2>1. CASE q = e
    BY <1>3, <2>1 DEF DialogSound
  <2>2. CASE q # e
    BY <1>1, <1>3, <2>2 DEF DialogSound
  <2> QED
    BY <2>1, <2>2
<1>7. \A q \in Chat!Ends : Flows(q)' /\ history'[q] = TextsIn(log'[q])
  <2>1. \A q \in Chat!Ends : /\ dlg'[q].shut = dlg[q].shut /\ dlg'[q].ended = dlg[q].ended
                             /\ dlg[q].at = "gone" => dlg'[q].at = "gone"
    BY <1>3
  <2> QED
    BY <2>1, QuietStep
<1> QED
  BY <1>5, <1>6, <1>7 DEF ChatHeld

(***************************************************************************)
(* The dialogs are made and linked, or the connection fails.               *)
(***************************************************************************)
LEMMA ConnectionHeld ==
  ASSUME ChatHeld, refused = {},
         Chat!Open \/ Chat!Incoming \/ Chat!Connected \/ Chat!Breaks
  PROVE  ChatHeld'
<1>1. /\ dlg \in [Chat!Ends -> DialogRec] /\ broken \in BOOLEAN
      /\ scanner \in [Chat!Ends -> {"none", "scanning", "ending"}]
      /\ \A q \in Chat!Ends : DialogSound(q)
  BY DEF ChatHeld, ChatTyped
<1>2. ASSUME NEW e \in Chat!Ends
      PROVE  dlg[e] \in DialogRec /\ DialogSound(e) /\ dlg = [dlg EXCEPT ![e] = dlg[e]]
             /\ scanner[e] \in {"none", "scanning", "ending"}
             /\ scanner = [scanner EXCEPT ![e] = scanner[e]]
  BY <1>1
<1>3. CASE Chat!Open
  <2> DEFINE e == "opener"
             d == [Chat!NoDialog EXCEPT !.at = "here", !.window = "shown", !.readonly = TRUE,
                                        !.link = "linking"]
  <2>1. /\ dlg[e] = Chat!NoDialog /\ scanner[e] = "none" /\ UNCHANGED <<wire, log, history, refused>>
        /\ broken' = broken /\ dlg' = [dlg EXCEPT ![e] = d] /\ scanner' = scanner
    BY <1>3, <1>1, TwoEnds DEF Chat!Open, DialogSound, Chat!NoDialog
  <2>2. d \in DialogRec /\ ~d.shut /\ d.at = "here" /\ d.readonly /\ d.shut = dlg[e].shut
        /\ d.ended = dlg[e].ended /\ dlg[e].at = "none"
    <3>1. d \in DialogRec /\ d.shut = FALSE /\ d.ended = FALSE /\ d.at = "here" /\ d.readonly
      BY DEF DialogRec, Chat!NoDialog
    <3>2. dlg[e].shut = FALSE /\ dlg[e].ended = FALSE /\ dlg[e].at = "none"
      BY <2>1 DEF Chat!NoDialog
    <3> HIDE DEF d
    <3> QED
      BY <3>1, <3>2
  <2> HIDE DEF d
  <2> QED
    BY <1>1, <1>2, <2>1, <2>2, TwoEnds, QuietHeld
<1>4. CASE Chat!Incoming
  <2> DEFINE e == "server"
             d == [Chat!NoDialog EXCEPT !.at = "here", !.window = "shown", !.link = "up"]
  <2>1. /\ dlg[e] = Chat!NoDialog /\ scanner[e] = "none" /\ UNCHANGED <<wire, log, history, refused>>
        /\ broken' = broken /\ dlg' = [dlg EXCEPT ![e] = d] /\ scanner' = scanner
    BY <1>4, <1>1, TwoEnds DEF Chat!Incoming, DialogSound, Chat!NoDialog
  <2>2. d \in DialogRec /\ ~d.shut /\ d.at = "here" /\ d.link = "up" /\ d.shut = dlg[e].shut
        /\ d.ended = dlg[e].ended /\ dlg[e].at = "none"
    <3>1. d \in DialogRec /\ d.shut = FALSE /\ d.ended = FALSE /\ d.at = "here" /\ d.link = "up"
      BY DEF DialogRec, Chat!NoDialog
    <3>2. dlg[e].shut = FALSE /\ dlg[e].ended = FALSE /\ dlg[e].at = "none"
      BY <2>1 DEF Chat!NoDialog
    <3> HIDE DEF d
    <3> QED
      BY <3>1, <3>2
  <2> HIDE DEF d
  <2> QED
    BY <1>1, <1>2, <2>1, <2>2, TwoEnds, QuietHeld
<1>5. CASE Chat!Connected
  <2> DEFINE e == "opener"
             d == [dlg[e] EXCEPT !.link = "up", !.readonly = FALSE]
  <2>0. dlg[e] \in DialogRec /\ DialogSound(e)
    BY <1>2, TwoEnds
  <2>1. /\ UNCHANGED <<wire, log, history, refused>> /\ dlg[e].at \in {"here", "doomed"}
        /\ broken' = broken /\ dlg' = [dlg EXCEPT ![e] = d] /\ scanner' = scanner
    BY <1>5, <1>1, TwoEnds DEF Chat!Connected, Chat!Here
  <2>2. d \in DialogRec /\ d.link = "up" /\ d.at = dlg[e].at /\ d.window = dlg[e].window
        /\ d.shut = dlg[e].shut /\ d.ended = dlg[e].ended
    BY <2>0 DEF DialogRec
  <2>3. d.shut => d.window = "closed"
    BY <2>0, <2>2 DEF DialogSound
  <2> HIDE DEF d
  <2> QED
    BY <1>1, <1>2, <2>1, <2>2, <2>3, TwoEnds, QuietHeld
<1>6. CASE Chat!Breaks
  <2>1. /\ UNCHANGED <<wire, log, history, refused, dlg, scanner>> /\ broken' \in BOOLEAN
    BY <1>6 DEF Chat!Breaks
  <2> DEFINE e == "opener"
  <2>2. dlg[e] \in DialogRec /\ DialogSound(e) /\ dlg' = [dlg EXCEPT ![e] = dlg[e]]
             /\ scanner[e] \in {"none", "scanning", "ending"}
             /\ scanner' = [scanner EXCEPT ![e] = scanner[e]]
    BY <1>2, <2>1, TwoEnds
  <2> QED
    BY <2>1, <2>2, TwoEnds, QuietHeld DEF DialogSound
<1> QED
  BY <1>3, <1>4, <1>5, <1>6

(***************************************************************************)
(* The stream fails; files are dropped; their scan is cancelled; the window*)
(* is dismissed.                                                           *)
(***************************************************************************)
LEMMA DialogHeld ==
  ASSUME NEW e \in Chat!Ends, ChatHeld, refused = {},
         Chat!StreamError(e) \/ Chat!DropEvent(e) \/ Chat!ScanCanceled(e) \/ Chat!Reject(e)
  PROVE  ChatHeld'
<1>1. /\ dlg[e] \in DialogRec /\ dlg \in [Chat!Ends -> DialogRec] /\ broken \in BOOLEAN
      /\ scanner \in [Chat!Ends -> {"none", "scanning", "ending"}]
      /\ scanner[e] \in {"none", "scanning", "ending"}
      /\ DialogSound(e)
  BY DEF ChatHeld, ChatTyped
<1>2. dlg = [dlg EXCEPT ![e] = dlg[e]] /\ scanner = [scanner EXCEPT ![e] = scanner[e]]
  BY <1>1
<1>3. CASE Chat!StreamError(e)
  <2> DEFINE place == IF Chat!Shown(e) THEN dlg[e].at ELSE "doomed"
             d == [dlg[e] EXCEPT !.link = "failed", !.readonly = TRUE, !.at = place]
  <2>1. /\ UNCHANGED <<wire, log, history, refused>> /\ dlg[e].at \in {"here", "doomed"}
        /\ broken' = broken /\ dlg' = [dlg EXCEPT ![e] = d] /\ scanner' = scanner
    BY <1>1, <1>3 DEF Chat!StreamError, Chat!Here
  <2>2. place \in {"here", "doomed"}
    BY <2>1
  <2> HIDE DEF place
  <2>3. d \in DialogRec /\ d.readonly /\ d.at = place /\ d.window = dlg[e].window
        /\ d.shut = dlg[e].shut /\ d.ended = dlg[e].ended
    BY <1>1, <2>2 DEF DialogRec
  <2>4. d.shut => d.window = "closed"
    BY <1>1, <2>3 DEF DialogSound
  <2> HIDE DEF d
  <2> QED
    BY <1>1, <1>2, <2>1, <2>2, <2>3, <2>4, QuietHeld
<1>4. CASE Chat!DropEvent(e)
  <2>1. /\ UNCHANGED <<wire, log, history, refused, dlg>> /\ dlg[e].at \in {"here", "doomed"}
        /\ broken' = broken /\ scanner' = [scanner EXCEPT ![e] = "scanning"]
    BY <1>4 DEF Chat!DropEvent, Chat!Here
  <2> QED
    BY <1>1, <1>2, <2>1, QuietHeld DEF DialogSound
<1>5. CASE Chat!ScanCanceled(e)
  <2>1. /\ UNCHANGED <<wire, log, history, refused, dlg>>
        /\ broken' = broken /\ scanner' = [scanner EXCEPT ![e] = "none"]
    BY <1>5 DEF Chat!ScanCanceled
  <2> QED
    BY <1>1, <1>2, <2>1, QuietHeld DEF DialogSound
<1>6. CASE Chat!Reject(e)
  <2> DEFINE d == [dlg[e] EXCEPT !.window = "rejected"]
             s == IF scanner[e] = "scanning" THEN "ending" ELSE scanner[e]
  <2>1. /\ UNCHANGED <<wire, log, history, refused>> /\ dlg[e].at \in {"here", "doomed"}
        /\ broken' = broken /\ dlg' = [dlg EXCEPT ![e] = d] /\ scanner' = [scanner EXCEPT ![e] = s]
        /\ dlg[e].window = "shown"
    BY <1>1, <1>6 DEF Chat!Reject, Chat!Here, Chat!Hide, Chat!Shown
  <2>2. s \in {"none", "scanning", "ending"}
    BY <1>1
  <2> HIDE DEF s
  <2>3. d \in DialogRec /\ d.readonly = dlg[e].readonly /\ d.at = dlg[e].at /\ d.link = dlg[e].link
        /\ d.shut = dlg[e].shut /\ d.ended = dlg[e].ended
    BY <1>1 DEF DialogRec
  <2>4. ~d.shut
    BY <1>1, <2>1, <2>3 DEF DialogSound
  <2>5. ~d.readonly => d.link = "up"
    BY <1>1, <2>1, <2>3 DEF DialogSound
  <2> HIDE DEF d
  <2> QED
    BY <1>1, <1>2, <2>1, <2>2, <2>3, <2>4, <2>5, QuietHeld
<1> QED
  BY <1>3, <1>4, <1>5, <1>6

(***************************************************************************)
(* A text or files are said.                                               *)
(***************************************************************************)
LEMMA WordsHeld ==
  ASSUME NEW e \in Chat!Ends, ChatHeld, refused = {},
         Chat!SendTextLine(e) \/ Chat!SendFiles(e)
  PROVE  ChatHeld'
<1>1. ChatTyped /\ DialogSound(e) /\ \A q \in Chat!Ends : DialogSound(q)
  BY DEF ChatHeld
<1>2. CASE Chat!SendTextLine(e)
  <2>1. Chat!Say(e, "text") /\ UNCHANGED <<dlg, broken, scanner>>
        /\ dlg[e].at \in {"here", "doomed"} /\ dlg[e].window = "shown" /\ ~dlg[e].readonly
    BY <1>2 DEF Chat!SendTextLine, Chat!Here, Chat!Shown, Chat!Active
  <2>2. dlg[e].link = "up" /\ ~dlg[e].shut
    BY <1>1, <2>1 DEF DialogSound
  <2>3. /\ log' \in [Chat!Ends -> Seq(Chat!Entry)] /\ history' \in [Chat!Ends -> Seq(Chat!Entry)]
        /\ wire' \in [Chat!Ends -> Seq(Chat!Messages \cup {Chat!EOF})]
        /\ refused' \subseteq {"files"}
        /\ \A o \in Chat!Ends : Flows(o)' /\ history'[o] = TextsIn(log'[o])
    BY <2>1, <2>2, SayStep
  <2>4. ChatTyped'
    BY <1>1, <2>1, <2>3 DEF ChatTyped
  <2>5. \A q \in Chat!Ends : DialogSound(q)'
    BY <1>1, <2>1 DEF DialogSound
  <2> QED
    BY <2>3, <2>4, <2>5 DEF ChatHeld
<1>3. CASE Chat!SendFiles(e)
  <2>1. /\ UNCHANGED <<dlg, broken>> /\ scanner[e] # "none" /\ scanner' = [scanner EXCEPT ![e] = "none"]
        /\ IF ~dlg[e].readonly THEN Chat!Say(e, "files") ELSE UNCHANGED <<wire, log, history, refused>>
    BY <1>3 DEF Chat!SendFiles, Chat!Active
  <2>2. dlg[e].at \in {"here", "doomed"}
    BY <1>1, <2>1 DEF DialogSound
  <2>3. /\ scanner' \in [Chat!Ends -> {"none", "scanning", "ending"}]
        /\ \A q \in Chat!Ends : scanner'[q] # "none" => scanner[q] # "none"
    BY <1>1, <2>1 DEF ChatTyped
  <2>4. \A q \in Chat!Ends : DialogSound(q)'
    BY <1>1, <2>1, <2>3 DEF DialogSound
  <2>5. CASE dlg[e].readonly
    <3>1. UNCHANGED <<wire, log, history, refused, dlg>>
      BY <2>1, <2>5
    <3>2. \A q \in Chat!Ends : Flows(q)' /\ history'[q] = TextsIn(log'[q])
      BY <3>1, QuietStep
    <3>3. ChatTyped'
      BY <1>1, <2>1, <2>3, <3>1 DEF ChatTyped
    <3> QED
      BY <2>4, <3>2, <3>3 DEF ChatHeld
  <2>6. CASE ~dlg[e].readonly
    <3>1. Chat!Say(e, "files")
      BY <2>1, <2>6
    <3>2. /\ log' \in [Chat!Ends -> Seq(Chat!Entry)] /\ history' \in [Chat!Ends -> Seq(Chat!Entry)]
          /\ wire' \in [Chat!Ends -> Seq(Chat!Messages \cup {Chat!EOF})]
          /\ refused' \subseteq {"files"}
          /\ \A o \in Chat!Ends : Flows(o)' /\ history'[o] = TextsIn(log'[o])
      BY <2>1, <2>2, <3>1, SayStep
    <3>3. ChatTyped'
      BY <1>1, <2>1, <2>3, <3>2 DEF ChatTyped
    <3> QED
      BY <2>4, <3>2, <3>3 DEF ChatHeld
  <2> QED
    BY <2>5, <2>6
<1> QED
  BY <1>2, <1>3

(***************************************************************************)
(* The window is closed, and with it this side of the stream if it is      *)
(* connected.                                                              *)
(***************************************************************************)
LEMMA CloseHeld ==
  ASSUME NEW e \in Chat!Ends, ChatHeld, refused = {}, Chat!CloseEvent(e)
  PROVE  ChatHeld'
<1> DEFINE o == Chat!Other(e)
           s == IF scanner[e] = "scanning" THEN "ending" ELSE scanner[e]
           told == SaidIn(log[e])
           got == HeardIn(log[o])
<1>1. /\ dlg[e] \in DialogRec /\ dlg \in [Chat!Ends -> DialogRec] /\ broken \in BOOLEAN
      /\ wire \in [Chat!Ends -> Seq(Chat!Messages \cup {Chat!EOF})]
      /\ log \in [Chat!Ends -> Seq(Chat!Entry)]
      /\ scanner \in [Chat!Ends -> {"none", "scanning", "ending"}]
      /\ scanner[e] \in {"none", "scanning", "ending"}
  BY DEF ChatHeld, ChatTyped
<1>2. \A q \in Chat!Ends : DialogSound(q) /\ Flows(q) /\ history[q] = TextsIn(log[q])
  BY DEF ChatHeld
<1>3. o \in Chat!Ends /\ o # e /\ Chat!Other(o) = e /\ \A q \in Chat!Ends : q # e => q = o
  BY TwoEnds
<1>4. PICK connected \in BOOLEAN :
        /\ dlg[e].link = "up" => connected
        /\ dlg' = [dlg EXCEPT ![e].window = "closed", ![e].shut = connected,
                     ![e].at = IF ~connected \/ dlg[e].ended THEN "doomed" ELSE @]
        /\ wire' = IF connected THEN [wire EXCEPT ![e] = Append(@, Chat!EOF)] ELSE wire
  BY DEF Chat!CloseEvent
<1>5. /\ dlg[e].at \in {"here", "doomed"} /\ dlg[e].window = "shown"
      /\ scanner' = [scanner EXCEPT ![e] = s] /\ UNCHANGED <<broken, log, history, refused>>
  BY DEF Chat!CloseEvent, Chat!Here, Chat!Shown, Chat!Hide
<1>6. s \in {"none", "scanning", "ending"}
  BY <1>1
<1>7. PICK place : place = IF ~connected \/ dlg[e].ended THEN "doomed" ELSE dlg[e].at
  OBVIOUS
<1>8. PICK d : d = [dlg[e] EXCEPT !.window = "closed", !.shut = connected, !.at = place]
  OBVIOUS
<1>9. place \in {"here", "doomed"} /\ dlg' = [dlg EXCEPT ![e] = d]
  BY <1>1, <1>4, <1>5, <1>7, <1>8
<1>10. /\ d \in DialogRec /\ d.at = place /\ d.window = "closed" /\ d.shut = connected
       /\ d.ended = dlg[e].ended /\ d.readonly = dlg[e].readonly /\ d.link = dlg[e].link
  BY <1>1, <1>8, <1>9 DEF DialogRec
<1>11. ~dlg[e].shut /\ (~d.readonly => d.link = "up")
  BY <1>2, <1>5, <1>10 DEF DialogSound
<1> HIDE DEF s
<1>12. CASE ~connected
  <2>1. UNCHANGED wire /\ d.shut = dlg[e].shut
    <3>1. dlg[e].shut = FALSE /\ d.shut = FALSE
      BY <1>1, <1>10, <1>11, <1>12 DEF DialogRec
    <3> QED
      BY <1>4, <1>12, <3>1
  <2> QED
    BY <1>1, <1>5, <1>6, <1>9, <1>10, <1>11, <2>1, QuietHeld
<1>13. CASE connected
  <2>1. /\ dlg'[e] = d /\ dlg'[o] = dlg[o] /\ dlg' \in [Chat!Ends -> DialogRec]
    BY <1>1, <1>3, <1>9, <1>10
  <2>2. /\ wire'[e] = Append(wire[e], Chat!EOF) /\ wire'[o] = wire[o]
        /\ wire' \in [Chat!Ends -> Seq(Chat!Messages \cup {Chat!EOF})]
    <3>1. Append(wire[e], Chat!EOF) \in Seq(Chat!Messages \cup {Chat!EOF})
      BY <1>1
    <3>2. wire' = [wire EXCEPT ![e] = Append(@, Chat!EOF)]
      BY <1>4, <1>13
    <3> QED
      BY <1>1, <1>3, <3>1, <3>2
  <2>3. /\ scanner' \in [Chat!Ends -> {"none", "scanning", "ending"}]
        /\ scanner'[o] = scanner[o]
    BY <1>1, <1>3, <1>5, <1>6
  <2>4. ChatTyped'
    BY <1>5, <2>1, <2>2, <2>3 DEF ChatHeld, ChatTyped
  <2>5. DialogSound(e)' /\ DialogSound(o)'
    BY <1>2, <1>3, <1>9, <1>10, <1>11, <2>1, <2>3 DEF DialogSound
  <2>6. /\ StartsWith(told, got) /\ Carries(told, got, wire[e], End(e))
        /\ dlg[o].ended => dlg[e].shut
    BY <1>2, <1>5 DEF Flows
  <2>7. ~dlg[o].ended /\ End(e) = <<>>
    BY <1>11, <2>6 DEF End
  <2>8. told \in Seq(Chat!Messages) /\ got \in Seq(Chat!Messages)
    BY <1>1, <1>3, LogSays
  <2>9. Carries(told, got, Append(wire[e], Chat!EOF), <<Chat!EOF>>)
    <3> HIDE DEF told, got
    <3> QED
      BY <2>6, <2>7, <2>8, WireCarries
  <2>10. End(e)' = <<Chat!EOF>>
    BY <1>3, <1>10, <1>13, <2>1, <2>7 DEF End
  <2>11. Flows(e)'
    BY <1>3, <1>5, <2>1, <2>2, <2>6, <2>7, <2>9, <2>10 DEF Flows
  <2>12. Flows(o)'
    <3>1. End(o)' = End(o) /\ dlg'[e].ended = dlg[e].ended
      BY <1>3, <1>10, <2>1 DEF End
    <3> QED
      BY <1>2, <1>3, <1>5, <2>1, <2>2, <3>1 DEF Flows
  <2> QED
    BY <1>2, <1>3, <1>5, <2>4, <2>5, <2>11, <2>12 DEF ChatHeld
<1> QED
  BY <1>12, <1>13

(***************************************************************************)
(* The dialog goes, and with the opener's what is on its way may be lost.  *)
(***************************************************************************)
LEMMA DeleteHeld ==
  ASSUME NEW e \in Chat!Ends, ChatHeld, refused = {}, Chat!DeferredDelete(e)
  PROVE  ChatHeld'
<1> DEFINE o == Chat!Other(e)
           d == [dlg[e] EXCEPT !.at = "gone"]
<1>1. /\ dlg[e] \in DialogRec /\ dlg \in [Chat!Ends -> DialogRec] /\ broken \in BOOLEAN
      /\ wire \in [Chat!Ends -> Seq(Chat!Messages \cup {Chat!EOF})]
      /\ scanner \in [Chat!Ends -> {"none", "scanning", "ending"}]
  BY DEF ChatHeld, ChatTyped
<1>2. \A q \in Chat!Ends : DialogSound(q) /\ Flows(q) /\ history[q] = TextsIn(log[q])
  BY DEF ChatHeld
<1>3. o \in Chat!Ends /\ o # e /\ Chat!Other(o) = e /\ \A q \in Chat!Ends : q # e => q = o
  BY TwoEnds
<1>4. /\ dlg[e].at = "doomed" /\ dlg' = [dlg EXCEPT ![e] = d]
      /\ scanner' = [scanner EXCEPT ![e] = "none"] /\ UNCHANGED <<broken, log, history, refused>>
      /\ UNCHANGED wire \/ wire' = [wire EXCEPT ![e] = <<>>]
  BY <1>1 DEF Chat!DeferredDelete
<1>5. /\ d \in DialogRec /\ d.at = "gone" /\ d.window = dlg[e].window /\ d.shut = dlg[e].shut
      /\ d.ended = dlg[e].ended /\ d.readonly = dlg[e].readonly /\ d.link = dlg[e].link
  BY <1>1 DEF DialogRec
<1>6. (d.shut => d.window = "closed") /\ (~d.readonly => d.link = "up")
  BY <1>2, <1>4, <1>5 DEF DialogSound
<1> HIDE DEF d
<1>7. CASE UNCHANGED wire
  BY <1>1, <1>4, <1>5, <1>6, <1>7, QuietHeld
<1>8. CASE wire' = [wire EXCEPT ![e] = <<>>]
  <2>1. /\ dlg'[e] = d /\ dlg'[o] = dlg[o] /\ dlg' \in [Chat!Ends -> DialogRec]
    BY <1>1, <1>3, <1>4, <1>5
  <2>2. /\ wire'[e] = <<>> /\ wire'[o] = wire[o]
        /\ wire' \in [Chat!Ends -> Seq(Chat!Messages \cup {Chat!EOF})]
    <3>1. <<>> \in Seq(Chat!Messages \cup {Chat!EOF})
      OBVIOUS
    <3> QED
      BY <1>1, <1>3, <1>8, <3>1
  <2>3. /\ scanner' \in [Chat!Ends -> {"none", "scanning", "ending"}]
        /\ scanner'[o] = scanner[o] /\ scanner'[e] = "none"
    BY <1>1, <1>3, <1>4
  <2>4. ChatTyped'
    BY <1>4, <2>1, <2>2, <2>3 DEF ChatHeld, ChatTyped
  <2>5. DialogSound(e)' /\ DialogSound(o)'
    BY <1>2, <1>3, <1>5, <1>6, <2>1, <2>3 DEF DialogSound
  <2>6. dlg'[e].ended = dlg[e].ended /\ dlg'[e].shut = dlg[e].shut /\ dlg'[e].at = "gone"
    BY <1>5, <2>1
  <2>7. Flows(e)'
    BY <1>2, <1>3, <1>4, <2>1, <2>2, <2>6 DEF Flows
  <2>8. Flows(o)'
    <3>1. End(o)' = End(o)
      BY <1>3, <2>1, <2>6 DEF End
    <3> QED
      BY <1>2, <1>3, <1>4, <2>1, <2>2, <2>6, <3>1 DEF Flows
  <2> QED
    BY <1>2, <1>3, <1>4, <2>4, <2>5, <2>7, <2>8 DEF ChatHeld
<1> QED
  BY <1>4, <1>7, <1>8

(***************************************************************************)
(* Every step of the chat keeps to it.                                     *)
(***************************************************************************)
LEMMA ChatGoesOn == ChatHeld /\ [Chat!Next]_(Chat!vars) => ChatHeld'
<1> SUFFICES ASSUME ChatHeld, [Chat!Next]_(Chat!vars) PROVE ChatHeld'
  OBVIOUS
<1>1. CASE UNCHANGED Chat!vars
  <2>1. UNCHANGED <<dlg, wire, broken, log, history, scanner, refused>>
    BY <1>1 DEF Chat!vars
  <2>2. \A e \in Chat!Ends : Flows(e)' /\ history'[e] = TextsIn(log'[e])
    BY <2>1, QuietStep
  <2> QED
    BY <2>1, <2>2 DEF ChatHeld, ChatTyped, DialogSound
<1>2. CASE Chat!Next
  <2>1. refused = {}
    BY <1>2 DEF Chat!Next
  <2>2. CASE Chat!Open \/ Chat!Incoming \/ Chat!Connected \/ Chat!Breaks
    BY <2>1, <2>2, ConnectionHeld
  <2>3. ASSUME NEW e \in Chat!Ends, Chat!Step(e) PROVE ChatHeld'
    BY <2>1, <2>3, DialogHeld, WordsHeld, CloseHeld, DeleteHeld, ReadStep DEF Chat!Step
  <2> QED
    BY <1>2, <2>2, <2>3 DEF Chat!Next
<1> QED
  BY <1>1, <1>2

(***************************************************************************)
(* So the logs of the two agree.                                           *)
(***************************************************************************)
LEMMA ChatFollows == ChatHeld => ConversationAgrees
<1> SUFFICES ASSUME ChatHeld PROVE ConversationAgrees
  OBVIOUS
<1>1. Chat!TypeOK
  BY DEF ChatHeld, ChatTyped, DialogRec, Chat!TypeOK
<1>2. "text" \notin refused
  BY DEF ChatHeld, ChatTyped
<1>3. ASSUME NEW e \in Chat!Ends
      PROVE  /\ Chat!IsPrefix(Chat!Got(e), Chat!Told(Chat!Other(e)))
             /\ dlg[e].ended /\ refused = {} => Chat!Got(e) = Chat!Told(Chat!Other(e))
             /\ history[e] = Chat!Picked(log[e], Chat!TextEntry)
  <2>1. Chat!Other(e) \in Chat!Ends /\ Chat!Other(Chat!Other(e)) = e
    BY TwoEnds
  <2>2. /\ Chat!Told(Chat!Other(e)) = SaidIn(log[Chat!Other(e)]) /\ Chat!Got(e) = HeardIn(log[e])
        /\ TextsIn(log[e]) = Chat!Picked(log[e], Chat!TextEntry)
    BY DEF Chat!Told, Chat!Got, Chat!Said, Chat!Heard, SaidIn, HeardIn, TextsIn, MsgsOf
  <2>3. Flows(Chat!Other(e)) /\ history[e] = TextsIn(log[e])
    BY <2>1 DEF ChatHeld
  <2>4. Chat!Told(Chat!Other(e)) \in Seq(Chat!Messages) /\ Chat!Got(e) \in Seq(Chat!Messages)
    BY <2>1, <2>2, LogSays DEF ChatHeld, ChatTyped
  <2> DEFINE told == Chat!Told(Chat!Other(e))
             got == Chat!Got(e)
             S == Chat!Messages
  <2>5. PICK rest \in Seq(S) : told = got \o rest
    BY <2>1, <2>2, <2>3 DEF Flows, StartsWith
  <2>6. told \in Seq(S) /\ got \in Seq(S)
    BY <2>4
  <2> HIDE DEF told, got, S
  <2>7. Len(got) <= Len(told) /\ SubSeq(told, 1, Len(got)) = got
    <3>1. Len(told) = Len(got) + Len(rest) /\ Len(got) \in Nat /\ Len(rest) \in Nat
          /\ \A k \in 1..Len(got) : told[k] = got[k]
      BY <2>5, <2>6
    <3>2. SubSeq(told, 1, Len(got)) \in Seq(S) /\ Len(SubSeq(told, 1, Len(got))) = Len(got)
          /\ \A k \in 1..Len(got) : SubSeq(told, 1, Len(got))[k] = told[k]
      BY <2>6, <3>1
    <3> QED
      BY <2>6, <3>1, <3>2, SeqEqual
  <2>8. Chat!IsPrefix(got, told)
    BY <2>7 DEF Chat!IsPrefix
  <2> QED
    BY <2>1, <2>2, <2>3, <2>8 DEF Flows, told, got
<1> QED
  BY <1>1, <1>2, <1>3 DEF ConversationAgrees, Chat!ConversationAgrees

(***************************************************************************)
(* chat.cc: what a dialog shows of its partner is what the partner has     *)
(* said, in order, and all of it once the partner's end is read; the       *)
(* history holds the texts of the log, and no text is refused. For any     *)
(* number of messages.                                                     *)
(***************************************************************************)
THEOREM ConversationsAgree == Chat!Spec => []ConversationAgrees
<1>1. ChatHeld /\ [Chat!Next]_(Chat!vars) => ChatHeld'
  BY ChatGoesOn
<1> QED
  BY <1>1, ChatStarts, ChatFollows, PTL DEF Chat!Spec
=============================================================================
