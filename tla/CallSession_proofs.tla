------------------------- MODULE CallSession_proofs -------------------------
(***************************************************************************)
(* Theorems about calls for any hosts and any number of calls: type        *)
(* correctness, that a session's parts belong to one call, and that the    *)
(* commands on the control streams implement VoiceCall.                    *)
(***************************************************************************)
EXTENDS CallSession, TLAPS

Commands == {"start", "stop"}

\* The chains are made and dropped with the data stream, and whoever has a
\* control stream's handlers connected has taken both streams from one call.
HeardWhole ==
  \A h \in Hosts :
    /\ chains[h] = data[h]
    /\ heard[h] # {} => control[h] = data[h]

Whole == SessionWhole /\ HeardWhole

(***************************************************************************)
(* Nobody is in a call at first.                                           *)
(***************************************************************************)
LEMMA InitialTypes == Init => TypeOK
<1> SUFFICES ASSUME Init PROVE TypeOK
  OBVIOUS
<1> USE CallAssumption
<1>1. caller \in [Calls -> Hosts] /\ callee \in [Calls -> Hosts]
  BY DEF Init
<1>2. arriving \in [Calls -> {"nothing", "stream", "substream"}]
  BY DEF Init
<1>3. chan \in [Calls -> [Hosts -> Seq(Commands)]]
  <2>1. <<>> \in Seq(Commands)
    OBVIOUS
  <2>2. [h \in Hosts |-> <<>>] \in [Hosts -> Seq(Commands)]
    BY <2>1
  <2> QED
    BY <2>2 DEF Init
<1>4. 0 \in 0 .. MaxCalls
  OBVIOUS
<1>5. /\ data \in [Hosts -> 0 .. MaxCalls] /\ control \in [Hosts -> 0 .. MaxCalls]
      /\ chains \in [Hosts -> 0 .. MaxCalls]
  BY <1>4 DEF Init
<1>6. linked \in [Calls -> SUBSET Hosts] /\ heard \in [Hosts -> SUBSET Calls]
  BY DEF Init
<1>7. active \in [Hosts -> BOOLEAN] /\ ended \in [Hosts -> SUBSET Calls]
  BY DEF Init
<1> QED
  BY <1>1, <1>2, <1>3, <1>4, <1>5, <1>6, <1>7 DEF Init, TypeOK, Commands

(***************************************************************************)
(* send_command leaves well-formed records on the streams.                 *)
(***************************************************************************)
LEMMA SentType ==
  ASSUME TypeOK, NEW ch \in [Calls -> [Hosts -> Seq(Commands)]],
         NEW h \in Hosts, NEW k, NEW cmd \in Commands
  PROVE  Sent(ch, h, k, cmd) \in [Calls -> [Hosts -> Seq(Commands)]]
<1>1. CASE k \in Calls \ down
  <2>1. Peer(h, k) \in Hosts
    BY <1>1 DEF TypeOK, Peer
  <2>2. ch[k] \in [Hosts -> Seq(Commands)] /\ ch[k][Peer(h, k)] \in Seq(Commands)
    BY <1>1, <2>1
  <2>3. Append(ch[k][Peer(h, k)], cmd) \in Seq(Commands)
    BY <2>2
  <2> QED
    BY <1>1, <2>1, <2>2, <2>3 DEF Sent
<1>2. CASE k \notin Calls \ down
  BY <1>2 DEF Sent
<1> QED
  BY <1>1, <1>2

(***************************************************************************)
(* Taking a command off its stream leaves well-formed records too.         *)
(***************************************************************************)
LEMMA RestType ==
  ASSUME TypeOK, NEW h \in Hosts, NEW k \in Calls, NEW cmd, Receives(h, k, cmd)
  PROVE  Rest(h, k) \in [Calls -> [Hosts -> Seq(Commands)]]
<1>1. chan[k] \in [Hosts -> Seq(Commands)] /\ chan[k][h] \in Seq(Commands)
  BY DEF TypeOK, Commands
<1>2. Tail(chan[k][h]) \in Seq(Commands)
  BY <1>1 DEF Receives
<1> QED
  BY <1>1, <1>2 DEF TypeOK, Commands, Rest

(***************************************************************************)
(* end_session keeps the types, and leaves nothing of the session behind.  *)
(***************************************************************************)
LEMMA EndSessionStep ==
  ASSUME TypeOK, Whole, NEW h \in Hosts, control[h] \in Calls,
         NEW ch \in [Calls -> [Hosts -> Seq(Commands)]],
         EndSession(h, ch), hungUp' \subseteq Calls
  PROVE  TypeOK' /\ Whole'
<1> USE CallAssumption DEF EndSession, netVars
<1>1. chan' \in [Calls -> [Hosts -> Seq(Commands)]]
  <2>1. Sent(ch, h, control[h], "stop") \in [Calls -> [Hosts -> Seq(Commands)]]
    BY SentType DEF Commands
  <2> QED
    BY <2>1 DEF Goodbye
<1>2. /\ data' \in [Hosts -> 0 .. MaxCalls] /\ control' \in [Hosts -> 0 .. MaxCalls]
      /\ chains' \in [Hosts -> 0 .. MaxCalls]
  <2>1. 0 \in 0 .. MaxCalls
    OBVIOUS
  <2> QED
    BY <2>1 DEF TypeOK
<1>3. heard' \in [Hosts -> SUBSET Calls] /\ active' \in [Hosts -> BOOLEAN]
  BY DEF TypeOK, Disconnected
<1>4. ended' \in [Hosts -> SUBSET Calls]
  BY DEF TypeOK
<1>5. TypeOK'
  BY <1>1, <1>2, <1>3, <1>4 DEF TypeOK, Commands
<1>6. Whole'
  <2> SUFFICES ASSUME NEW g \in Hosts
               PROVE  /\ heard'[g] \subseteq {control'[g]}
                      /\ active'[g] => /\ control'[g] \in heard'[g]
                                       /\ data'[g] = control'[g] /\ chains'[g] = control'[g]
                      /\ chains'[g] = data'[g]
                      /\ heard'[g] # {} => control'[g] = data'[g]
    BY DEF Whole, SessionWhole, HeardWhole
  <2>1. CASE g = h
    BY <2>1 DEF TypeOK, Disconnected
  <2>2. CASE g # h
    BY <2>2 DEF TypeOK, Whole, SessionWhole, HeardWhole
  <2> QED
    BY <2>1, <2>2
<1> QED
  BY <1>5, <1>6

(***************************************************************************)
(* A host whose session can end, by any handler or by hand, has one.       *)
(***************************************************************************)
LEMMA EndsOwnCall ==
  ASSUME TypeOK, Whole, NEW h \in Hosts
  PROVE  /\ \A k \in heard[h] : control[h] = k /\ data[h] = k /\ chains[h] = k
         /\ active[h] => control[h] \in Calls
BY DEF TypeOK, Whole, SessionWhole, HeardWhole

(***************************************************************************)
(* The types and the wholeness of sessions are kept by every step.         *)
(***************************************************************************)
LEMMA WholeInvariance == TypeOK /\ Whole /\ [Next]_vars => TypeOK' /\ Whole'
<1> SUFFICES ASSUME TypeOK, Whole, [Next]_vars PROVE TypeOK' /\ Whole'
  OBVIOUS
<1> USE CallAssumption DEF netVars, hostVars
<1>1. ASSUME NEW h \in Hosts, NEW g \in Hosts, MakeCall(h, g) PROVE TypeOK' /\ Whole'
  <2> DEFINE k == calls + 1
  <2>1. k \in Calls /\ k \in 0 .. MaxCalls /\ calls' \in 0 .. MaxCalls
    BY <1>1 DEF MakeCall, TypeOK, Calls
  <2>2. /\ caller' = [caller EXCEPT ![k] = h] /\ callee' = [callee EXCEPT ![k] = g]
        /\ arriving' = [arriving EXCEPT ![k] = "stream"]
        /\ data' = [data EXCEPT ![h] = k] /\ control' = [control EXCEPT ![h] = k]
        /\ chains' = [chains EXCEPT ![h] = k] /\ heard' = [heard EXCEPT ![h] = {k}]
        /\ chan' = [chan EXCEPT ![k][g] = <<"start">>]
        /\ UNCHANGED <<linked, down, active, ended, hungUp, failed>> /\ ~active[h]
    BY <1>1 DEF MakeCall
  <2> HIDE DEF k
  <2>3. chan' \in [Calls -> [Hosts -> Seq(Commands)]]
    <3>1. <<"start">> \in Seq(Commands)
      BY DEF Commands
    <3>2. chan[k] \in [Hosts -> Seq(Commands)]
      BY <2>1 DEF TypeOK, Commands
    <3> QED
      BY <2>1, <2>2, <3>1, <3>2 DEF TypeOK, Commands
  <2>4. TypeOK'
    BY <2>1, <2>2, <2>3 DEF TypeOK, Commands
  <2>5. Whole'
    BY <2>1, <2>2 DEF TypeOK, Whole, SessionWhole, HeardWhole
  <2> QED
    BY <2>4, <2>5
<1>2. ASSUME NEW h \in Hosts, NEW k \in Calls, NewConnection(h, k) PROVE TypeOK' /\ Whole'
  <2>1. UNCHANGED <<calls, caller, callee, linked, down, chan, control, heard, active, ended, hungUp>>
    BY <1>2 DEF NewConnection
  <2>2. CASE Vacant(h)
    <3>1. k \in 0 .. MaxCalls /\ 0 \notin Calls
      BY DEF Calls
    <3>2. data[h] = 0 /\ heard[h] \subseteq Calls /\ heard[h] \subseteq {control[h]}
      BY <2>2 DEF Vacant, TypeOK, Whole, SessionWhole
    <3>3. heard[h] = {}
      BY <3>1, <3>2 DEF Whole, HeardWhole
    <3>4. ~active[h]
      BY <3>3 DEF Whole, SessionWhole
    <3>5. /\ data' = [data EXCEPT ![h] = k] /\ chains' = [chains EXCEPT ![h] = k]
          /\ arriving' = [arriving EXCEPT ![k] = "substream"] /\ UNCHANGED failed
      BY <1>2, <2>2 DEF NewConnection
    <3>6. TypeOK'
      BY <2>1, <3>1, <3>5 DEF TypeOK
    <3>7. Whole'
      BY <2>1, <3>3, <3>4, <3>5 DEF TypeOK, Whole, SessionWhole, HeardWhole
    <3> QED
      BY <3>6, <3>7
  <2>3. CASE ~Vacant(h)
    <3>1. UNCHANGED <<data, chains, arriving>> /\ failed' = failed \cup {h}
      BY <1>2, <2>3 DEF NewConnection
    <3> QED
      BY <2>1, <3>1 DEF TypeOK, Whole, SessionWhole, HeardWhole
  <2> QED
    BY <2>2, <2>3
<1>3. ASSUME NEW h \in Hosts, NEW k \in Calls, NewSubstream(h, k) PROVE TypeOK' /\ Whole'
  <2>1. chan' \in [Calls -> [Hosts -> Seq(Commands)]]
    BY <1>3, SentType DEF NewSubstream, TypeOK, Commands
  <2>2. TypeOK'
    <3>1. k \in 0 .. MaxCalls
      BY DEF Calls
    <3> QED
      BY <1>3, <2>1, <3>1 DEF NewSubstream, TypeOK, Commands
  <2>3. Whole'
    <3>1. heard[h] \subseteq {k}
      BY <1>3 DEF NewSubstream, Whole, SessionWhole, HeardWhole
    <3> QED
      BY <1>3, <3>1 DEF NewSubstream, TypeOK, Whole, SessionWhole, HeardWhole
  <2> QED
    BY <2>2, <2>3
<1>4. ASSUME NEW h \in Hosts, NEW k \in Calls, LinkUp(h, k) PROVE TypeOK' /\ Whole'
  <2>1. chan' \in [Calls -> [Hosts -> Seq(Commands)]]
    BY <1>4, SentType DEF LinkUp, TypeOK, Commands
  <2>2. linked' \in [Calls -> SUBSET Hosts]
    BY <1>4 DEF LinkUp, TypeOK
  <2> QED
    BY <1>4, <2>1, <2>2 DEF LinkUp, TypeOK, Commands, Whole, SessionWhole, HeardWhole
<1>5. ASSUME NEW k \in Calls, LoseLink(k) PROVE TypeOK' /\ Whole'
  <2>1. [h \in Hosts |-> <<>>] \in [Hosts -> Seq(Commands)]
    <3>1. <<>> \in Seq(Commands)
      OBVIOUS
    <3> QED
      BY <3>1
  <2>2. chan' \in [Calls -> [Hosts -> Seq(Commands)]]
    BY <1>5, <2>1 DEF LoseLink, TypeOK, Commands
  <2> QED
    BY <1>5, <2>2 DEF LoseLink, TypeOK, Commands, Whole, SessionWhole, HeardWhole
<1>6. ASSUME NEW h \in Hosts, HangUp(h) PROVE TypeOK' /\ Whole'
  <2>1. control[h] \in Calls /\ chan \in [Calls -> [Hosts -> Seq(Commands)]]
    BY <1>6, EndsOwnCall DEF HangUp, TypeOK, Commands
  <2>2. hungUp' \subseteq Calls
    BY <1>6, <2>1 DEF HangUp, TypeOK
  <2> QED
    BY <1>6, <2>1, <2>2, EndSessionStep DEF HangUp
<1>7. ASSUME NEW h \in Hosts, NEW k \in Calls, LinkDown(h, k) PROVE TypeOK' /\ Whole'
  <2>1. control[h] \in Calls /\ chan \in [Calls -> [Hosts -> Seq(Commands)]]
    BY <1>7, EndsOwnCall DEF LinkDown, TypeOK, Commands
  <2> QED
    BY <1>7, <2>1, EndSessionStep DEF LinkDown, TypeOK
<1>8. ASSUME NEW h \in Hosts, NEW k \in Calls, StopSession(h, k) PROVE TypeOK' /\ Whole'
  <2>1. control[h] \in Calls
    BY <1>8, EndsOwnCall DEF StopSession, Receives, TypeOK
  <2>2. Rest(h, k) \in [Calls -> [Hosts -> Seq(Commands)]]
    BY <1>8, RestType DEF StopSession
  <2> QED
    BY <1>8, <2>1, <2>2, EndSessionStep DEF StopSession, TypeOK
<1>9. ASSUME NEW h \in Hosts, NEW k \in Calls, StartSession(h, k) PROVE TypeOK' /\ Whole'
  <2>1. chan' \in [Calls -> [Hosts -> Seq(Commands)]]
    BY <1>9, RestType DEF StartSession
  <2>2. k \in heard[h] /\ control[h] = k /\ data[h] = k /\ chains[h] = k
    BY <1>9, EndsOwnCall DEF StartSession, Receives
  <2>3. TypeOK'
    BY <1>9, <2>1 DEF StartSession, TypeOK, Commands
  <2>4. Whole'
    BY <1>9, <2>2 DEF StartSession, TypeOK, Whole, SessionWhole, HeardWhole
  <2> QED
    BY <2>3, <2>4
<1>10. CASE UNCHANGED vars
  BY <1>10 DEF vars, TypeOK, Whole, SessionWhole, HeardWhole
<1> QED
  BY <1>1, <1>2, <1>3, <1>4, <1>5, <1>6, <1>7, <1>8, <1>9, <1>10 DEF Next

(***************************************************************************)
(* Sessions are whole at first, and nothing has happened to them.          *)
(***************************************************************************)
LEMMA InitiallyWhole == Init => Whole
BY DEF Init, Whole, SessionWhole, HeardWhole

(***************************************************************************)
(* TypeOK holds in every behaviour, for any hosts and number of calls.     *)
(***************************************************************************)
THEOREM TypeCorrect == Spec => []TypeOK
<1>1. Init => TypeOK /\ Whole
  BY InitialTypes, InitiallyWhole
<1> QED
  BY <1>1, WholeInvariance, PTL DEF Spec

(***************************************************************************)
(* SessionWhole: an active session's streams, chains and handlers belong   *)
(* to one call, however calls are made, answered and ended.                *)
(***************************************************************************)
THEOREM SessionsWhole == Spec => []SessionWhole
<1>1. Init => TypeOK /\ Whole
  BY InitialTypes, InitiallyWhole
<1>2. Whole => SessionWhole
  BY DEF Whole
<1> QED
  BY <1>1, <1>2, WholeInvariance, PTL DEF Spec

-----------------------------------------------------------------------------
(* What VoiceCall needs to know besides. *)

\* The commands to stop on these streams belong to these calls.
StopsIn(ch, S) ==
  \A h \in Hosts, k \in Calls :
    \A i \in DOMAIN ch[k][h] : ch[k][h][i] = "stop" => k \in S

\* Hosts know only of calls that were made, and of those only their own.
Known ==
  /\ \A h \in Hosts : control[h] <= calls /\ ended[h] \subseteq 1 .. calls
  /\ \A k \in Calls : arriving[k] # "nothing" => k <= calls
Party == \A h \in Hosts, k \in Calls : control[h] = k => h \in {caller[k], callee[k]}

\* A call that has still to be accepted is new to the host that will.
Settled ==
  \A k \in Calls :
    arriving[k] # "nothing" => control[callee[k]] # k /\ k \notin ended[callee[k]]

\* A call that was ended is not taken up again.
Left == \A h \in Hosts, k \in Calls : k \in ended[h] => control[h] # k

Books == Known /\ Party /\ Settled /\ Left /\ StopsIn(chan, hungUp \cup down)

(***************************************************************************)
(* A command that is sent is not a stop without cause.                     *)
(***************************************************************************)
LEMMA SentStops ==
  ASSUME TypeOK, NEW ch \in [Calls -> [Hosts -> Seq(Commands)]], NEW S, StopsIn(ch, S),
         NEW h \in Hosts, NEW k \in Calls, NEW cmd \in Commands, cmd = "stop" => k \in S
  PROVE  StopsIn(Sent(ch, h, k, cmd), S)
<1> DEFINE new == Sent(ch, h, k, cmd)
<1> SUFFICES ASSUME NEW g \in Hosts, NEW l \in Calls, NEW i \in DOMAIN new[l][g],
                    new[l][g][i] = "stop"
             PROVE  l \in S
  BY DEF StopsIn
<1>1. CASE new[l][g] = ch[l][g]
  BY <1>1 DEF StopsIn
<1>2. CASE new[l][g] # ch[l][g]
  <2>1. k \notin down /\ new = [ch EXCEPT ![k][Peer(h, k)] = Append(@, cmd)]
    BY <1>2 DEF Sent
  <2>2. l = k /\ g = Peer(h, k) /\ new[l][g] = Append(ch[k][g], cmd)
    BY <1>2, <2>1
  <2>3. ch[k][g] \in Seq(Commands)
    OBVIOUS
  <2> HIDE DEF new
  <2>4. CASE i \in 1 .. Len(ch[k][g])
    <3>1. new[l][g][i] = ch[k][g][i] /\ i \in DOMAIN ch[k][g]
      BY <2>2, <2>3, <2>4
    <3> QED
      BY <2>2, <3>1 DEF StopsIn
  <2>5. CASE i = Len(ch[k][g]) + 1
    <3>1. new[l][g][i] = cmd
      BY <2>2, <2>3, <2>5
    <3> QED
      BY <2>2, <3>1
  <2>6. i \in 1 .. Len(ch[k][g]) \/ i = Len(ch[k][g]) + 1
    BY <2>2, <2>3
  <2> QED
    BY <2>4, <2>5, <2>6
<1> QED
  BY <1>1, <1>2

(***************************************************************************)
(* Taking a command off a stream brings no stop.                           *)
(***************************************************************************)
LEMMA RestStops ==
  ASSUME TypeOK, NEW S, StopsIn(chan, S), NEW h \in Hosts, NEW k \in Calls, NEW cmd,
         Receives(h, k, cmd)
  PROVE  StopsIn(Rest(h, k), S)
<1> DEFINE new == Rest(h, k)
<1> SUFFICES ASSUME NEW g \in Hosts, NEW l \in Calls, NEW i \in DOMAIN new[l][g],
                    new[l][g][i] = "stop"
             PROVE  l \in S
  BY DEF StopsIn
<1>1. CASE l = k /\ g = h
  <2>1. chan[k][h] \in Seq(Commands) /\ chan[k][h] # <<>>
    BY DEF TypeOK, Commands, Receives
  <2>2. new[l][g] = Tail(chan[k][h])
    BY <1>1 DEF Rest, TypeOK
  <2> HIDE DEF new
  <2>3. i \in 1 .. Len(chan[k][h]) - 1
    BY <2>1, <2>2
  <2>4. i + 1 \in DOMAIN chan[k][h] /\ new[l][g][i] = chan[k][h][i + 1]
    BY <2>1, <2>2, <2>3
  <2> QED
    BY <1>1, <2>4 DEF StopsIn
<1>2. CASE ~(l = k /\ g = h)
  <2>1. new[l][g] = chan[l][g]
    BY <1>2 DEF Rest, TypeOK
  <2> QED
    BY <2>1 DEF StopsIn
<1> QED
  BY <1>1, <1>2

(***************************************************************************)
(* end_session is Finish or GiveUp of VoiceCall, and keeps the books.      *)
(***************************************************************************)
LEMMA EndSessionPromise ==
  ASSUME TypeOK, Whole, Books, NEW h \in Hosts, NEW k \in Calls, control[h] = k,
         NEW ch \in [Calls -> [Hosts -> Seq(Commands)]], StopsIn(ch, hungUp \cup down),
         EndSession(h, ch),
         \/ hungUp' = hungUp /\ k \in hungUp \cup down
         \/ active[h] /\ hungUp' = hungUp \cup {k}
  PROVE  Books' /\ [Promise!Next]_(Promise!vars)
<1> USE CallAssumption
<1>1. /\ UNCHANGED <<calls, caller, callee, arriving, linked, down>>
      /\ active' = [active EXCEPT ![h] = FALSE]
      /\ control' = [control EXCEPT ![h] = 0]
      /\ ended' = [ended EXCEPT ![h] = @ \cup {k}]
      /\ chan' = Sent(ch, h, k, "stop")
  BY DEF EndSession, netVars, Goodbye
<1>2. 0 \notin Calls /\ k <= calls /\ calls \in Nat
  BY DEF Calls, TypeOK, Books, Known
<1>3. k \in hungUp' \cup down' /\ hungUp \cup down \subseteq hungUp' \cup down'
  BY <1>1
<1>4. StopsIn(chan, hungUp \cup down)'
  <2>1. StopsIn(ch, hungUp' \cup down')
    BY <1>3 DEF StopsIn
  <2>2. StopsIn(Sent(ch, h, k, "stop"), hungUp' \cup down')
    BY <1>2, <1>3, <2>1, SentStops DEF Commands
  <2> QED
    BY <1>1, <2>2 DEF StopsIn
<1>5. (Known /\ Party /\ Settled /\ Left)'
  <2>1. Known'
    <3>1. k \in 1 .. calls
      BY <1>2 DEF Calls
    <3>2. ASSUME NEW g \in Hosts PROVE control'[g] <= calls /\ ended'[g] \subseteq 1 .. calls
      <4>1. CASE g = h
        <5>1. control'[h] = 0 /\ ended'[h] = ended[h] \cup {k}
          BY <1>1 DEF TypeOK
        <5>2. ended[h] \subseteq 1 .. calls /\ 0 <= calls
          BY <1>2 DEF Books, Known
        <5> QED
          BY <3>1, <4>1, <5>1, <5>2
      <4>2. CASE g # h
        BY <1>1, <4>2 DEF TypeOK, Books, Known
      <4> QED
        BY <4>1, <4>2
    <3> QED
      BY <1>1, <3>2 DEF Books, Known
  <2>2. Party'
    BY <1>1, <1>2 DEF TypeOK, Books, Party
  <2>3. Settled'
    BY <1>1, <1>2 DEF TypeOK, Books, Settled
  <2>4. Left'
    BY <1>1, <1>2 DEF TypeOK, Books, Left
  <2> QED
    BY <2>1, <2>2, <2>3, <2>4
<1>6. [Promise!Next]_(Promise!vars)
  <2> DEFINE talking == [g \in Hosts |-> IF active[g] THEN control[g] ELSE 0]
  <2>1. talking' = [talking EXCEPT ![h] = 0]
    BY <1>1 DEF TypeOK
  <2>2. CASE active[h]
    <3>1. talking[h] = k
      BY <2>2
    <3>2. hungUp' \cup down' \in {hungUp \cup down, (hungUp \cup down) \cup {k}}
      BY <1>1
    <3>3. Promise!Finish(h, k)
      BY <1>1, <1>3, <2>1, <3>1, <3>2 DEF Promise!Finish
    <3> QED
      BY <1>2, <3>3 DEF Promise!Next
  <2>3. CASE ~active[h]
    <3>1. talking[h] = 0 /\ talking' = talking
      BY <1>1, <2>3 DEF TypeOK
    <3>2. Promise!GiveUp(h, k)
      BY <1>1, <1>2, <2>3, <3>1 DEF Promise!GiveUp
    <3> QED
      BY <1>2, <3>2 DEF Promise!Next
  <2> QED
    BY <2>2, <2>3
<1> QED
  BY <1>4, <1>5, <1>6 DEF Books

(***************************************************************************)
(* Making a call is Make of VoiceCall, and keeps the books.                *)
(***************************************************************************)
LEMMA MakeCallPromise ==
  ASSUME TypeOK, Whole, Books, NEW h \in Hosts, NEW g \in Hosts, MakeCall(h, g)
  PROVE  Books' /\ [Promise!Next]_(Promise!vars)
<1> USE CallAssumption
<1>1. PICK k \in Calls : k = calls + 1
  BY DEF MakeCall, TypeOK, Calls
<1>2. /\ calls' = k /\ ~active[h] /\ h # g
      /\ caller' = [caller EXCEPT ![k] = h] /\ callee' = [callee EXCEPT ![k] = g]
      /\ arriving' = [arriving EXCEPT ![k] = "stream"]
      /\ control' = [control EXCEPT ![h] = k]
      /\ chan' = [chan EXCEPT ![k][g] = <<"start">>]
      /\ UNCHANGED <<down, active, ended, hungUp>>
  BY <1>1 DEF MakeCall
<1>3. calls \in Nat /\ calls < k /\ k \in 1 .. k /\ 1 .. calls \subseteq 1 .. k
  BY <1>1 DEF TypeOK
<1>4. \A f \in Hosts : control[f] \in Nat /\ control[f] <= calls /\ control[f] # k /\ k \notin ended[f]
  <2> TAKE f \in Hosts
  <2>1. control[f] \in Nat
    BY DEF TypeOK
  <2>2. control[f] <= calls /\ ended[f] \subseteq 1 .. calls
    BY DEF Books, Known
  <2>3. control[f] # k /\ k \notin 1 .. calls
    BY <1>3, <2>1, <2>2 DEF Calls
  <2> QED
    BY <2>1, <2>2, <2>3
<1>5. Known'
  <2>1. ASSUME NEW f \in Hosts PROVE control'[f] <= k /\ ended'[f] \subseteq 1 .. k
    <3>1. ended'[f] \subseteq 1 .. k
      BY <1>2, <1>3 DEF Books, Known
    <3>2. CASE f = h
      BY <1>2, <1>3, <3>1, <3>2 DEF TypeOK
    <3>3. CASE f # h
      <4>1. control'[f] = control[f] /\ control[f] \in Nat /\ control[f] <= calls
        BY <1>2, <1>4, <3>3 DEF TypeOK
      <4>2. calls <= k /\ k \in Nat
        BY <1>1, <1>3
      <4>3. control[f] <= k
        BY <1>3, <4>1, <4>2
      <4> QED
        BY <3>1, <4>1, <4>3
    <3> QED
      BY <3>2, <3>3
  <2>2. ASSUME NEW l \in Calls, arriving'[l] # "nothing" PROVE l <= k
    <3>1. CASE l = k
      BY <1>3, <3>1
    <3>2. CASE l # k
      BY <1>1, <1>2, <1>3, <2>2, <3>2 DEF TypeOK, Books, Known, Calls
    <3> QED
      BY <3>1, <3>2
  <2> QED
    BY <1>2, <2>1, <2>2 DEF Known
<1>6. Party'
  BY <1>2, <1>4 DEF TypeOK, Books, Party
<1>7. Settled'
  <2> SUFFICES ASSUME NEW l \in Calls, arriving'[l] # "nothing"
               PROVE  control'[callee'[l]] # l /\ l \notin ended'[callee'[l]]
    BY DEF Settled
  <2>1. CASE l = k
    BY <1>2, <1>4, <2>1 DEF TypeOK
  <2>2. CASE l # k
    BY <1>2, <2>2 DEF TypeOK, Books, Settled
  <2> QED
    BY <2>1, <2>2
<1>8. Left'
  BY <1>2, <1>4 DEF TypeOK, Books, Left
<1>9. StopsIn(chan, hungUp \cup down)'
  <2> SUFFICES ASSUME NEW f \in Hosts, NEW l \in Calls, NEW i \in DOMAIN chan'[l][f],
                      chan'[l][f][i] = "stop"
               PROVE  l \in hungUp \cup down
    BY <1>2 DEF StopsIn
  <2>1. CASE l = k /\ f = g
    <3>1. chan'[l][f] = <<"start">>
      BY <1>2, <2>1 DEF TypeOK
    <3> QED
      BY <3>1
  <2>2. CASE ~(l = k /\ f = g)
    <3>1. chan'[l][f] = chan[l][f]
      BY <1>2, <2>2 DEF TypeOK
    <3> QED
      BY <3>1 DEF Books, StopsIn
  <2> QED
    BY <2>1, <2>2
<1>10. Promise!Make(k)
  <2> DEFINE parties == [l \in Calls |-> IF l <= calls THEN {caller[l], callee[l]} ELSE {}]
             talking == [f \in Hosts |-> IF active[f] THEN control[f] ELSE 0]
  <2>1. parties[k] = {}
    BY <1>1, <1>3
  <2>2. parties' = [parties EXCEPT ![k] = {h, g}]
    <3>1. ASSUME NEW l \in Calls PROVE parties'[l] = IF l = k THEN {h, g} ELSE parties[l]
      <4>1. CASE l = k
        BY <1>2, <1>3, <4>1 DEF TypeOK
      <4>2. CASE l # k
        <5>1. l <= calls' <=> l <= calls
          BY <1>1, <1>2, <1>3, <4>2 DEF Calls
        <5> QED
          BY <1>2, <4>2, <5>1 DEF TypeOK
      <4> QED
        BY <4>1, <4>2
    <3> QED
      BY <3>1
  <2>3. talking' = talking
    BY <1>2 DEF TypeOK
  <2> QED
    BY <1>2, <2>1, <2>2, <2>3 DEF Promise!Make
<1> QED
  BY <1>5, <1>6, <1>7, <1>8, <1>9, <1>10 DEF Books, Promise!Next

(***************************************************************************)
(* What leaves the calls, the talking hosts and the ended calls alone is   *)
(* nothing to VoiceCall.                                                   *)
(***************************************************************************)
LEMMA Stutters ==
  ASSUME TypeOK, UNCHANGED <<calls, caller, callee, down, active, ended, hungUp>>,
         \A h \in Hosts : active[h] => control'[h] = control[h]
  PROVE  [Promise!Next]_(Promise!vars)
<1>1. [h \in Hosts |-> IF active[h] THEN control[h] ELSE 0]'
        = [h \in Hosts |-> IF active[h] THEN control[h] ELSE 0]
  <2>1. ASSUME NEW h \in Hosts
        PROVE  (IF active'[h] THEN control'[h] ELSE 0) = (IF active[h] THEN control[h] ELSE 0)
    OBVIOUS
  <2> QED
    BY <2>1
<1> QED
  BY <1>1 DEF Promise!vars

(***************************************************************************)
(* Accepting a call changes nothing that VoiceCall knows of.               *)
(***************************************************************************)
LEMMA AcceptPromise ==
  ASSUME TypeOK, Whole, Books, NEW h \in Hosts, NEW k \in Calls,
         NewConnection(h, k) \/ NewSubstream(h, k)
  PROVE  Books' /\ [Promise!Next]_(Promise!vars)
<1>1. /\ UNCHANGED <<calls, caller, callee, down, active, ended, hungUp>>
      /\ arriving[k] # "nothing" /\ callee[k] = h
      /\ \A l \in Calls : arriving'[l] # "nothing" => arriving[l] # "nothing"
  BY DEF NewConnection, NewSubstream, TypeOK
<1>2. CASE NewConnection(h, k)
  <2>1. UNCHANGED <<control, chan>>
    BY <1>2 DEF NewConnection
  <2>2. Books'
    BY <1>1, <2>1 DEF Books, Known, Party, Settled, Left, StopsIn
  <2> QED
    BY <1>1, <2>1, <2>2, Stutters
<1>3. CASE NewSubstream(h, k)
  <2>1. /\ arriving' = [arriving EXCEPT ![k] = "nothing"]
        /\ control' = [control EXCEPT ![h] = k] /\ data[h] = k
        /\ chan' = Sent(chan, h, k, "start")
    BY <1>3 DEF NewSubstream
  <2>2. k \notin ended[h] /\ k <= calls
    BY <1>1 DEF Books, Settled, Known
  <2>3. Known'
    BY <1>1, <2>1, <2>2 DEF TypeOK, Books, Known
  <2>4. Party'
    BY <1>1, <2>1 DEF TypeOK, Books, Party
  <2>5. Settled'
    <3> SUFFICES ASSUME NEW l \in Calls, arriving'[l] # "nothing"
                 PROVE  control'[callee[l]] # l /\ l \notin ended[callee[l]]
      BY <1>1 DEF Settled
    <3>1. l # k /\ arriving[l] # "nothing"
      BY <2>1 DEF TypeOK
    <3> QED
      BY <2>1, <3>1 DEF TypeOK, Books, Settled
  <2>6. Left'
    BY <1>1, <2>1, <2>2 DEF TypeOK, Books, Left
  <2>7. StopsIn(chan, hungUp \cup down)'
    <3>1. StopsIn(Sent(chan, h, k, "start"), hungUp \cup down)
      BY SentStops DEF TypeOK, Books, Commands
    <3> QED
      BY <1>1, <2>1, <3>1 DEF StopsIn
  <2>8. \A g \in Hosts : active[g] => control'[g] = control[g]
    BY <2>1 DEF TypeOK, Whole, SessionWhole
  <2> QED
    BY <1>1, <2>3, <2>4, <2>5, <2>6, <2>7, <2>8, Stutters DEF Books
<1> QED
  BY <1>2, <1>3

(***************************************************************************)
(* StartSession is Start of VoiceCall, or nothing when said twice.         *)
(***************************************************************************)
LEMMA StartPromise ==
  ASSUME TypeOK, Whole, Books, NEW h \in Hosts, NEW k \in Calls, StartSession(h, k)
  PROVE  Books' /\ [Promise!Next]_(Promise!vars)
<1>1. /\ UNCHANGED <<calls, caller, callee, arriving, down, control, ended, hungUp>>
      /\ active' = [active EXCEPT ![h] = TRUE]
      /\ chan' = Rest(h, k)
  BY DEF StartSession, netVars
<1>2. control[h] = k
  BY EndsOwnCall DEF StartSession, Receives
<1>3. Books'
  <2>1. StopsIn(Rest(h, k), hungUp \cup down)
    BY RestStops DEF Books, StartSession
  <2>2. StopsIn(chan, hungUp \cup down)'
    BY <1>1, <2>1 DEF StopsIn
  <2> QED
    BY <1>1, <2>2 DEF Books, Known, Party, Settled, Left
<1>4. CASE active[h]
  <2>1. active' = active
    BY <1>1, <1>4 DEF TypeOK
  <2> QED
    BY <1>1, <1>3, <2>1, Stutters
<1>5. CASE ~active[h]
  <2> DEFINE talking == [g \in Hosts |-> IF active[g] THEN control[g] ELSE 0]
  <2>1. talking' = [talking EXCEPT ![h] = k]
    BY <1>1, <1>2 DEF TypeOK
  <2>2. talking[h] = 0 /\ k \notin ended[h]
    BY <1>2, <1>5 DEF Books, Left
  <2>3. h \in {caller[k], callee[k]} /\ k <= calls
    BY <1>2 DEF Books, Party, Known
  <2>4. Promise!Start(h, k)
    BY <1>1, <2>1, <2>2, <2>3 DEF Promise!Start
  <2> QED
    BY <1>3, <2>4 DEF Promise!Next
<1> QED
  BY <1>4, <1>5

(***************************************************************************)
(* The three ways to end a session are all for a cause.                    *)
(***************************************************************************)
LEMMA EndingPromise ==
  ASSUME TypeOK, Whole, Books, NEW h \in Hosts,
         HangUp(h) \/ \E k \in Calls : LinkDown(h, k) \/ StopSession(h, k)
  PROVE  Books' /\ [Promise!Next]_(Promise!vars)
<1>1. chan \in [Calls -> [Hosts -> Seq(Commands)]] /\ StopsIn(chan, hungUp \cup down)
  BY DEF TypeOK, Commands, Books
<1>2. CASE HangUp(h)
  <2>1. PICK k \in Calls : control[h] = k
    BY <1>2, EndsOwnCall DEF HangUp
  <2> QED
    BY <1>1, <1>2, <2>1, EndSessionPromise DEF HangUp
<1>3. ASSUME NEW k \in Calls, LinkDown(h, k) PROVE Books' /\ [Promise!Next]_(Promise!vars)
  <2>1. control[h] = k
    BY <1>3, EndsOwnCall DEF LinkDown
  <2> QED
    BY <1>1, <1>3, <2>1, EndSessionPromise DEF LinkDown
<1>4. ASSUME NEW k \in Calls, StopSession(h, k) PROVE Books' /\ [Promise!Next]_(Promise!vars)
  <2>1. control[h] = k
    BY <1>4, EndsOwnCall DEF StopSession, Receives
  <2>2. k \in hungUp \cup down
    <3>1. chan[k][h] \in Seq(Commands) /\ chan[k][h] # <<>> /\ Head(chan[k][h]) = "stop"
      BY <1>1, <1>4 DEF StopSession, Receives
    <3>2. 1 \in DOMAIN chan[k][h] /\ chan[k][h][1] = "stop"
      BY <3>1
    <3> QED
      BY <1>1, <3>2 DEF StopsIn
  <2>3. /\ Rest(h, k) \in [Calls -> [Hosts -> Seq(Commands)]]
        /\ StopsIn(Rest(h, k), hungUp \cup down)
    BY <1>1, <1>4, RestType, RestStops DEF StopSession
  <2> QED
    BY <1>4, <2>1, <2>2, <2>3, EndSessionPromise DEF StopSession
<1> QED
  BY <1>2, <1>3, <1>4

(***************************************************************************)
(* Links that come up are nothing to VoiceCall, links lost break a call.   *)
(***************************************************************************)
LEMMA LinkPromise ==
  ASSUME TypeOK, Whole, Books, NEW k \in Calls,
         LoseLink(k) \/ \E h \in Hosts : LinkUp(h, k)
  PROVE  Books' /\ [Promise!Next]_(Promise!vars)
<1>1. UNCHANGED <<calls, caller, callee, arriving, control, active, ended, hungUp>>
  BY DEF LoseLink, LinkUp, hostVars
<1>2. ASSUME NEW h \in Hosts, LinkUp(h, k) PROVE Books' /\ [Promise!Next]_(Promise!vars)
  <2>1. UNCHANGED down /\ chan' = Sent(chan, h, k, "start")
    BY <1>2 DEF LinkUp
  <2>2. StopsIn(Sent(chan, h, k, "start"), hungUp \cup down)
    BY SentStops DEF TypeOK, Books, Commands
  <2>3. StopsIn(chan, hungUp \cup down)'
    BY <1>1, <2>1, <2>2 DEF StopsIn
  <2>4. Books'
    BY <1>1, <2>1, <2>3 DEF Books, Known, Party, Settled, Left
  <2> QED
    BY <1>1, <2>1, <2>4, Stutters
<1>3. CASE LoseLink(k)
  <2>1. /\ k <= calls /\ down' = down \cup {k}
        /\ chan' = [chan EXCEPT ![k] = [h \in Hosts |-> <<>>]]
    BY <1>3 DEF LoseLink
  <2>2. StopsIn(chan, hungUp \cup down)'
    <3> SUFFICES ASSUME NEW f \in Hosts, NEW l \in Calls, NEW i \in DOMAIN chan'[l][f],
                        chan'[l][f][i] = "stop"
                 PROVE  l \in hungUp' \cup down'
      BY DEF StopsIn
    <3>1. CASE l = k
      BY <2>1, <3>1
    <3>2. CASE l # k
      <4>1. chan'[l][f] = chan[l][f]
        BY <2>1, <3>2 DEF TypeOK
      <4> QED
        BY <1>1, <2>1, <4>1 DEF Books, StopsIn
    <3> QED
      BY <3>1, <3>2
  <2>3. Books'
    BY <1>1, <2>2 DEF Books, Known, Party, Settled, Left
  <2>4. Promise!Break(k)
    <3>1. hungUp' \cup down' = (hungUp \cup down) \cup {k}
      BY <1>1, <2>1
    <3> QED
      BY <1>1, <2>1, <3>1 DEF Promise!Break
  <2> QED
    BY <2>3, <2>4 DEF Promise!Next
<1> QED
  BY <1>2, <1>3

(***************************************************************************)
(* KeepsPromise for any hosts and number of calls: no command left over    *)
(* from an earlier call, said twice or overtaken starts or ends a later    *)
(* one, and a call ends only when a user hung up or its link was lost.     *)
(***************************************************************************)
THEOREM ImplementsVoiceCall == Spec => KeepsPromise
<1>1. Init => TypeOK /\ Whole /\ Books /\ Promise!Init
  <2> SUFFICES ASSUME Init PROVE Books /\ Promise!Init
    BY InitialTypes, InitiallyWhole
  <2>1. 0 \notin Calls /\ \A k \in Calls : ~(k <= 0)
    BY CallAssumption DEF Calls
  <2>2. Books
    BY <2>1 DEF Init, Books, Known, Party, Settled, Left, StopsIn
  <2>3. Promise!Init
    BY <2>1 DEF Init, Promise!Init
  <2> QED
    BY <2>2, <2>3
<1>2. TypeOK /\ Whole /\ Books /\ [Next]_vars => Books' /\ [Promise!Next]_(Promise!vars)
  <2> SUFFICES ASSUME TypeOK, Whole, Books, [Next]_vars
               PROVE  Books' /\ [Promise!Next]_(Promise!vars)
    OBVIOUS
  <2>1. ASSUME NEW h \in Callers, NEW g \in Hosts, MakeCall(h, g)
        PROVE  Books' /\ [Promise!Next]_(Promise!vars)
    BY <2>1, MakeCallPromise, CallAssumption
  <2>2. ASSUME NEW h \in Hosts, HangUp(h) PROVE Books' /\ [Promise!Next]_(Promise!vars)
    BY <2>2, EndingPromise
  <2>3. ASSUME NEW k \in Calls, LoseLink(k) PROVE Books' /\ [Promise!Next]_(Promise!vars)
    BY <2>3, LinkPromise
  <2>4. ASSUME NEW k \in Calls, NEW h \in Hosts, NewConnection(h, k) \/ NewSubstream(h, k)
        PROVE  Books' /\ [Promise!Next]_(Promise!vars)
    BY <2>4, AcceptPromise
  <2>5. ASSUME NEW k \in Calls, NEW h \in Hosts, LinkUp(h, k)
        PROVE  Books' /\ [Promise!Next]_(Promise!vars)
    BY <2>5, LinkPromise
  <2>6. ASSUME NEW k \in Calls, NEW h \in Hosts, LinkDown(h, k) \/ StopSession(h, k)
        PROVE  Books' /\ [Promise!Next]_(Promise!vars)
    BY <2>6, EndingPromise
  <2>7. ASSUME NEW k \in Calls, NEW h \in Hosts, StartSession(h, k)
        PROVE  Books' /\ [Promise!Next]_(Promise!vars)
    BY <2>7, StartPromise
  <2>8. CASE UNCHANGED vars
    <3>1. Books'
      BY <2>8 DEF vars, netVars, hostVars, Books, Known, Party, Settled, Left, StopsIn
    <3>2. [Promise!Next]_(Promise!vars)
      BY <2>8, Stutters DEF vars, netVars, hostVars
    <3> QED
      BY <3>1, <3>2
  <2> QED
    BY <2>1, <2>2, <2>3, <2>4, <2>5, <2>6, <2>7, <2>8 DEF Next
<1> QED
  BY <1>1, <1>2, WholeInvariance, PTL DEF Spec, KeepsPromise, Promise!Spec
=============================================================================
