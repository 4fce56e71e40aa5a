----------------------------- MODULE VoiceCall -----------------------------
(***************************************************************************)
(* What the voice service promises about calls, whatever the streams and   *)
(* commands behind it do: a host talks in one call at a time, only in its  *)
(* own calls, never again in one it has left, and it leaves a call only    *)
(* when one of the two users hung up or the link between them was lost.    *)
(***************************************************************************)
EXTENDS Naturals

CONSTANTS
  Hosts,   \* the hosts
  Calls    \* the calls they may make, as numbers from 1

VARIABLES
  parties,  \* the two hosts of each call, {} while it was not made
  talking,  \* the call each host is talking in, or 0
  left,     \* the calls each host has left
  over      \* the calls that were hung up or lost

vars == <<parties, talking, left, over>>

Init ==
  /\ parties = [k \in Calls |-> {}]
  /\ talking = [h \in Hosts |-> 0]
  /\ left = [h \in Hosts |-> {}]
  /\ over = {}

Make(k) ==
  /\ parties[k] = {}
  /\ \E h, g \in Hosts : h # g /\ parties' = [parties EXCEPT ![k] = {h, g}]
  /\ UNCHANGED <<talking, left, over>>

Break(k) ==
  /\ parties[k] # {}
  /\ over' = over \cup {k}
  /\ UNCHANGED <<parties, talking, left>>

Start(h, k) ==
  /\ h \in parties[k]
  /\ talking[h] = 0 /\ k \notin left[h]
  /\ talking' = [talking EXCEPT ![h] = k]
  /\ UNCHANGED <<parties, left, over>>

\* Hanging up breaks the call and leaves it at once.
Finish(h, k) ==
  /\ talking[h] = k
  /\ talking' = [talking EXCEPT ![h] = 0]
  /\ left' = [left EXCEPT ![h] = @ \cup {k}]
  /\ over' \in {over, over \cup {k}} /\ k \in over'
  /\ UNCHANGED parties

\* A call that never started is left as well.
GiveUp(h, k) ==
  /\ talking[h] # k /\ k \in over
  /\ left' = [left EXCEPT ![h] = @ \cup {k}]
  /\ UNCHANGED <<parties, talking, over>>

Next ==
  \E k \in Calls :
    \/ Make(k) \/ Break(k)
    \/ \E h \in Hosts : Start(h, k) \/ Finish(h, k) \/ GiveUp(h, k)

Spec == Init /\ [][Next]_vars
=============================================================================
