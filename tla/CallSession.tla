---------------------------- MODULE CallSession ----------------------------
(***************************************************************************)
(* Calls between hosts (voicebox audio_service, driven by the Qt window's  *)
(* CallService): the caller opens a data stream and on it a control stream *)
(* that carries the commands start and stop, both hosts start sound when   *)
(* they are told to, and either ends the call for both.                    *)
(*                                                                         *)
(* sss is external: a stream delivers its records once and in order while  *)
(* its link is up, different streams are not ordered among each other, and *)
(* the signals of a stream go with the last reference to it.               *)
(***************************************************************************)
EXTENDS Integers, Sequences

CONSTANTS
  Hosts,     \* the hosts
  Callers,   \* the hosts whose users make calls
  MaxCalls,  \* bound: calls made
  Faults     \* what may happen: "link" (a link goes down), "hangup"

ASSUME CallAssumption == MaxCalls \in Nat /\ Callers \subseteq Hosts

Calls == 1 .. MaxCalls

VARIABLES
  calls,     \* the number of calls made
  caller, callee,  \* who makes each call, and to whom
  arriving,  \* what of each call the callee has still to accept
  chan,      \* the records under way to each host in each call
  linked,    \* the hosts that have seen each call's link come up
  down,      \* the calls whose link is down
  data, control,   \* data_stream_ and control_stream_: a call, or 0
  heard,     \* the calls whose control stream has this service's handlers
  chains,    \* the call send_ and recv_ were made for, or 0
  active,    \* active_
  ended,     \* history: the calls each host has ended
  hungUp,    \* history: the calls that a user hung up
  failed     \* the hosts whose program failed an assertion

netVars  == <<calls, caller, callee, arriving, linked, down>>
hostVars == <<data, control, heard, chains, active>>
vars == <<netVars, chan, hostVars, ended, hungUp, failed>>

Init ==
  /\ calls = 0 /\ caller \in {[k \in Calls |-> h] : h \in Hosts} /\ callee = caller
  /\ arriving = [k \in Calls |-> "nothing"]
  /\ chan = [k \in Calls |-> [h \in Hosts |-> <<>>]]
  /\ linked = [k \in Calls |-> {}] /\ down = {}
  /\ data = [h \in Hosts |-> 0] /\ control = [h \in Hosts |-> 0]
  /\ heard = [h \in Hosts |-> {}]
  /\ chains = [h \in Hosts |-> 0]
  /\ active = [h \in Hosts |-> FALSE]
  /\ ended = [h \in Hosts |-> {}] /\ hungUp = {} /\ failed = {}

\* The other host of a call.
Peer(h, k) == IF h = caller[k] THEN callee[k] ELSE caller[k]

\* send_command: a record for the other host, lost if the link is down.
Sent(ch, h, k, cmd) ==
  IF k \in Calls \ down THEN [ch EXCEPT ![k][Peer(h, k)] = Append(@, cmd)] ELSE ch

-----------------------------------------------------------------------------
(* Making and accepting a call. *)

\* CallService::makeCall and establish_outgoing_session; streams, chains and
\* handlers of a call that has not started are dropped.
MakeCall(h, g) ==
  LET k == calls + 1
  IN /\ h \notin failed /\ h # g /\ calls < MaxCalls
     /\ ~active[h]
     /\ calls' = k
     /\ caller' = [caller EXCEPT ![k] = h] /\ callee' = [callee EXCEPT ![k] = g]
     /\ arriving' = [arriving EXCEPT ![k] = "stream"]
     /\ data' = [data EXCEPT ![h] = k] /\ control' = [control EXCEPT ![h] = k]
     /\ chains' = [chains EXCEPT ![h] = k]
     /\ heard' = [heard EXCEPT ![h] = {k}]
     /\ chan' = [chan EXCEPT ![k][g] = <<"start">>]
     /\ UNCHANGED <<linked, down, active, ended, hungUp, failed>>

\* Slip: the assertion is not compiled in.
Unasserted(h) == TRUE

Vacant(h) == data[h] = 0

\* new_connection asserts that there is no data stream yet.
NewConnection(h, k) ==
  /\ arriving[k] = "stream" /\ callee[k] = h
  /\ k \notin down /\ h \notin failed
  /\ IF Vacant(h)
     THEN /\ data' = [data EXCEPT ![h] = k]
          /\ chains' = [chains EXCEPT ![h] = k]
          /\ arriving' = [arriving EXCEPT ![k] = "substream"]
          /\ UNCHANGED failed
     ELSE /\ failed' = failed \cup {h}
          /\ UNCHANGED <<data, chains, arriving>>
  /\ UNCHANGED <<calls, caller, callee, linked, down, chan, control, heard, active, ended, hungUp>>

\* new_substream takes the control stream and answers with a start of its own.
NewSubstream(h, k) ==
  /\ arriving[k] = "substream" /\ data[h] = k /\ callee[k] = h
  /\ k \notin down /\ h \notin failed
  /\ arriving' = [arriving EXCEPT ![k] = "nothing"]
  /\ control' = [control EXCEPT ![h] = k]
  /\ heard' = [heard EXCEPT ![h] = @ \cup {k}]
  /\ chan' = Sent(chan, h, k, "start")
  /\ UNCHANGED <<calls, caller, callee, linked, down, data, chains, active, ended, hungUp, failed>>

\* on_link_up says start once more.
LinkUp(h, k) ==
  /\ k \in heard[h] /\ h \notin failed
  /\ k \notin down /\ h \notin linked[k]
  /\ linked' = [linked EXCEPT ![k] = @ \cup {h}]
  /\ chan' = Sent(chan, h, k, "start")
  /\ UNCHANGED <<calls, caller, callee, arriving, down, hostVars, ended, hungUp, failed>>

-----------------------------------------------------------------------------
(* Ending a call. *)

\* Slip: the far end is not told.
Silently(ch, h) == ch

\* end_session first of all sends stop on its control stream.
Goodbye(ch, h) == Sent(ch, h, control[h], "stop")

\* Slip: the handlers stay connected.
StillHeard(h) == heard[h]

\* The three connections are cut.
Disconnected(h) == {}

EndSession(h, ch) ==
  /\ chan' = Goodbye(ch, h)
  /\ chains' = [chains EXCEPT ![h] = 0]
  /\ active' = [active EXCEPT ![h] = FALSE]
  /\ heard' = [heard EXCEPT ![h] = Disconnected(h)]
  /\ control' = [control EXCEPT ![h] = 0] /\ data' = [data EXCEPT ![h] = 0]
  /\ ended' = [ended EXCEPT ![h] = @ \cup {control[h]}]
  /\ UNCHANGED <<netVars, failed>>

HangUp(h) ==
  /\ "hangup" \in Faults /\ h \notin failed
  /\ active[h]
  /\ EndSession(h, chan)
  /\ hungUp' = hungUp \cup {control[h]}

\* on_link_down.
LinkDown(h, k) ==
  /\ k \in heard[h] /\ k \in down /\ h \notin failed
  /\ EndSession(h, chan)
  /\ UNCHANGED hungUp

\* The link of a call is lost with everything under way on it.
LoseLink(k) ==
  /\ "link" \in Faults
  /\ k <= calls /\ k \notin down
  /\ down' = down \cup {k}
  /\ chan' = [chan EXCEPT ![k] = [h \in Hosts |-> <<>>]]
  /\ UNCHANGED <<calls, caller, callee, arriving, linked, hostVars, ended, hungUp, failed>>

-----------------------------------------------------------------------------
(* session_command_handler. *)

Receives(h, k, cmd) ==
  /\ k \in heard[h] /\ h \notin failed
  /\ chan[k][h] # <<>> /\ Head(chan[k][h]) = cmd

Rest(h, k) == [chan EXCEPT ![k][h] = Tail(@)]

\* A second start finds the session active and changes nothing.
StartSession(h, k) ==
  /\ Receives(h, k, "start")
  /\ chan' = Rest(h, k)
  /\ active' = [active EXCEPT ![h] = TRUE]
  /\ UNCHANGED <<netVars, data, control, heard, chains, ended, hungUp, failed>>

StopSession(h, k) ==
  /\ Receives(h, k, "stop")
  /\ EndSession(h, Rest(h, k))
  /\ UNCHANGED hungUp

-----------------------------------------------------------------------------
Next ==
  \/ \E h \in Callers, g \in Hosts : MakeCall(h, g)
  \/ \E h \in Hosts : HangUp(h)
  \/ \E k \in Calls :
       \/ LoseLink(k)
       \/ \E h \in Hosts :
            \/ NewConnection(h, k) \/ NewSubstream(h, k)
            \/ LinkUp(h, k) \/ LinkDown(h, k)
            \/ StartSession(h, k) \/ StopSession(h, k)

Spec == Init /\ [][Next]_vars

\* sss delivers what is under way, and its signals are handled; users and links
\* owe nothing.
Fairness ==
  \A h \in Hosts, k \in Calls :
    /\ WF_vars(NewConnection(h, k)) /\ WF_vars(NewSubstream(h, k)) /\ WF_vars(LinkDown(h, k))
    /\ WF_vars(StartSession(h, k)) /\ WF_vars(StopSession(h, k))

FairSpec == Spec /\ Fairness

-----------------------------------------------------------------------------
(* Properties. *)

TypeOK ==
  /\ calls \in 0 .. MaxCalls
  /\ caller \in [Calls -> Hosts] /\ callee \in [Calls -> Hosts]
  /\ arriving \in [Calls -> {"nothing", "stream", "substream"}]
  /\ chan \in [Calls -> [Hosts -> Seq({"start", "stop"})]]
  /\ linked \in [Calls -> SUBSET Hosts] /\ down \subseteq Calls
  /\ data \in [Hosts -> 0 .. MaxCalls] /\ control \in [Hosts -> 0 .. MaxCalls]
  /\ chains \in [Hosts -> 0 .. MaxCalls]
  /\ heard \in [Hosts -> SUBSET Calls]
  /\ active \in [Hosts -> BOOLEAN]
  /\ ended \in [Hosts -> SUBSET Calls] /\ hungUp \subseteq Calls
  /\ failed \subseteq Hosts

\* What is active is whole: both streams and the chains belong to one call, and
\* only that call's control stream can end it.
SessionWhole ==
  \A h \in Hosts :
    /\ heard[h] \subseteq {control[h]}
    /\ active[h] => /\ control[h] \in heard[h]
                    /\ data[h] = control[h] /\ chains[h] = control[h]

\* The promise: commands of an earlier call, and starts said twice, never start
\* or end a later one, and sound stops for no other reason than that a user hung
\* up or the link was lost.
Promise == INSTANCE VoiceCall WITH
  parties <- [k \in Calls |-> IF k <= calls THEN {caller[k], callee[k]} ELSE {}],
  talking <- [h \in Hosts |-> IF active[h] THEN control[h] ELSE 0],
  left    <- ended,
  over    <- hungUp \cup down

KeepsPromise == Promise!Spec

\* "Notifies the far end to also terminate session" (audio_service.h:47): after a
\* user hung up nobody stays in the call.
FarEndTerminates ==
  \A k \in Calls : k \in hungUp ~> \A h \in Hosts : control[h] # k \/ h \in failed
=============================================================================
