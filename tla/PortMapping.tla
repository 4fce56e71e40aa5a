---------------------------- MODULE PortMapping -----------------------------
(***************************************************************************)
(* Opening the router for this host's ports (ui/traverse_nat.cpp).  The    *)
(* mappings of the router are listed once; each local port that none of    *)
(* them leads to is then mapped for both protocols, to the first external  *)
(* port from its own number on that the list does not use.  The UPnP       *)
(* library either asks the router at once or, if it is asynchronous, from  *)
(* a thread of its own, which calls back for each mapping made.  Other     *)
(* hosts map ports meanwhile.                                              *)
(***************************************************************************)
EXTENDS Naturals, Sequences, FiniteSets, FiniteSetsExt

CONSTANTS NumPorts,  \* external ports are numbered modulo this (2^16)
          Local      \* the ports of this host's endpoints

Ext == 0 .. NumPorts - 1
Protocols == {"tcp", "udp"}
Free == NumPorts       \* what an external port that is not mapped leads to
Other == NumPorts + 1  \* another host
Targets == Local \cup {Free, Other}

VARIABLES
  router,     \* the router's mappings
  async,      \* UpnpIgdClient::IsAsync
  at,         \* where traverse_nat is
  known,      \* mapping_map, and used_ports where it is not Free
  left,       \* the ports of ports_copy still to be looked at
  ports,      \* the ports not known to be mapped
  ext,        \* ext_port
  all_added,
  requests,   \* what the library's thread has still to ask the router
  granted,    \* history: the mappings the router has agreed to
  crowded     \* another host has mapped a port meanwhile

vars == <<router, async, at, known, left, ports, ext, all_added, requests, granted, crowded>>

Places == {"start", "list", "next", "tcp", "udp", "wait", "spin", "success", "aborted", "impossible"}

Init ==
  /\ router \in [Ext -> [Protocols -> Targets]]
  /\ async \in BOOLEAN
  /\ at = "start" /\ known = [e \in Ext |-> Free] /\ left = {} /\ ports = Local /\ ext = 0
  /\ all_added = TRUE /\ requests = <<>> /\ granted = {} /\ crowded = FALSE

\* InitControlPoint: there may be no router that takes mappings.
InitControlPoint ==
  /\ at = "start"
  /\ at' \in {"list", "impossible"}
  /\ UNCHANGED <<router, async, known, left, ports, ext, all_added, requests, granted, crowded>>

\* The targets that the list may give for an external port: of its two
\* protocols the one that is listed first counts.
Listed(e) ==
  LET used == {router[e][q] : q \in Protocols} \ {Free}
  IN IF used = {} THEN {Free} ELSE used

GetPortMappings ==
  /\ at = "list"
  /\ known' \in {k \in [Ext -> Targets] : \A e \in Ext : k[e] \in Listed(e)}
  /\ left' = Local
  /\ at' = "next"
  /\ UNCHANGED <<router, async, ports, ext, all_added, requests, granted, crowded>>

\* The external port of the same number leads to one of our endpoints, or some
\* external port leads to this one.
MappingExists(p) == known[p] \in Local \/ \E e \in Ext : known[e] = p

Unused(p) == {n \in Ext : known[(p + n) % NumPorts] = Free}

\* The next port, smallest first; with no external port unused the search for
\* one never ends.
NextPort ==
  /\ at = "next" /\ left # {}
  /\ LET p == Min(left)
     IN IF MappingExists(p)
        THEN /\ ports' = ports \ {p} /\ left' = left \ {p}
             /\ UNCHANGED <<at, ext>>
        ELSE /\ at' = IF Unused(p) = {} THEN "spin" ELSE "tcp"
             /\ ext' = IF Unused(p) = {} THEN ext ELSE (p + Min(Unused(p))) % NumPorts
             /\ UNCHANGED <<ports, left>>
  /\ UNCHANGED <<router, async, known, all_added, requests, granted, crowded>>

\* The router's answer: a host may change its own mappings but no other host's.
Grants(e, q) == router[e][q] # Other

Ask(p, e, q) ==
  /\ router' = IF Grants(e, q) THEN [router EXCEPT ![e][q] = p] ELSE router
  /\ granted' = IF Grants(e, q) THEN granted \cup {<<p, q>>} ELSE granted

\* Slip: only the last answer counts.
LastAdded(ok) == ok

AllAdded(ok) == all_added /\ ok

\* AddPortMapping for TCP, then for UDP.
AddPortMapping(q) ==
  /\ at = q
  /\ IF async
     THEN /\ requests' = Append(requests, [port |-> Min(left), ext |-> ext, protocol |-> q])
          /\ UNCHANGED <<router, granted, all_added>>
     ELSE /\ Ask(Min(left), ext, q)
          /\ all_added' = AllAdded(Grants(ext, q))
          /\ UNCHANGED requests
  /\ IF q = "tcp" THEN at' = "udp" /\ UNCHANGED left
                  ELSE at' = "next" /\ left' = left \ {Min(left)}
  /\ UNCHANGED <<async, known, ports, ext, crowded>>

AllAsked ==
  /\ at = "next" /\ left = {}
  /\ at' = "wait"
  /\ UNCHANGED <<router, async, known, left, ports, ext, all_added, requests, granted, crowded>>

\* The library's thread; the callback takes the port off the ports.
NewMapping ==
  /\ requests # <<>> /\ at \notin {"success", "aborted"}
  /\ LET r == Head(requests)
     IN /\ Ask(r.port, r.ext, r.protocol)
        /\ ports' = IF Grants(r.ext, r.protocol) THEN ports \ {r.port} ELSE ports
  /\ requests' = Tail(requests)
  /\ UNCHANGED <<async, at, known, left, ext, all_added, crowded>>

\* After the wait, the assertions.
Assertions ==
  /\ at = "wait"
  /\ at' = IF all_added /\ (async => ports = {}) THEN "success" ELSE "aborted"
  /\ UNCHANGED <<router, async, known, left, ports, ext, all_added, requests, granted, crowded>>

OtherHost(e, q) ==
  /\ ~crowded /\ router[e][q] = Free
  /\ router' = [router EXCEPT ![e][q] = Other]
  /\ crowded' = TRUE
  /\ UNCHANGED <<async, at, known, left, ports, ext, all_added, requests, granted>>

Next ==
  \/ InitControlPoint \/ GetPortMappings \/ NextPort
  \/ \E q \in Protocols : AddPortMapping(q)
  \/ AllAsked \/ NewMapping \/ Assertions
  \/ \E e \in Ext, q \in Protocols : OtherHost(e, q)

Spec == Init /\ [][Next]_vars

\* "All UPnP mappings successful" (traverse_nat.cpp:131) is earned for each port
\* in turn, whatever other hosts map between the list and the requests: either
\* the list had it, or the router has agreed, an asynchronous library at least to
\* one of the protocols.
SuccessEarned ==
  at = "success" =>
    \A p \in Local :
      \/ MappingExists(p)
      \/ {<<p, q>> : q \in Protocols} \subseteq granted
      \/ async /\ \E q \in Protocols : <<p, q>> \in granted
=============================================================================
