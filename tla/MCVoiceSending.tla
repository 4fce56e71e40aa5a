--------------------------- MODULE MCVoiceSending ---------------------------
(***************************************************************************)
(* The sound hardware under a call's sending chain: the chain's hw_in_ is  *)
(* the microphone among the hardware's streams.  A frame is captured when  *)
(* the callback is at the microphone, and the callback returns after the   *)
(* notification; the chain is enabled and its end begins with the hardware *)
(* call that registers or removes hw_in_, and goes on when that returns.   *)
(* The call's sink and the sink of a file player share the device.         *)
(*                                                                         *)
(* The io thread starts and ends the session, and the window ends it when  *)
(* the user hangs up, also while the other is ending it already.  The order*)
(* in which two of them free one chain is left out: the first end is the   *)
(* chain's, and a second one goes on to the receiving side.                *)
(* When an assertion of the hardware has failed its threads stop, and what *)
(* the others do from there on means nothing.                              *)
(***************************************************************************)
EXTENDS SendChain, TLC

CONSTANTS mic, voice, file, io, Callback, Nobody
VARIABLES streams, enabled, ready, mutex, at, job, open, device, cb, touching, overlapped, failed

hwVars == <<streams, enabled, ready, mutex, at, job, open, device, cb, touching, overlapped, failed>>
allVars == <<vars, hwVars>>

Controls == {io, GuiThread}

\* The file player asks for less of the device than the call.
MCRate == [s \in {mic, voice, file} |-> IF s = file THEN 44100 ELSE 48000]
MCFrameSize == [s \in {mic, voice, file} |-> IF s = file THEN 512 ELSE 480]

Hw == INSTANCE AudioHardware
  WITH registered <- streams, Sources <- {mic}, Sinks <- {voice, file}, Rate <- MCRate,
       FrameSize <- MCFrameSize, OtherFrames <- {}, Threads <- Controls

ASSUME CallHardware == Hw!HardwareAssumption

Returned(t) == at[t] = "idle"

\* active_, from the end of the start until the receiving side was disabled.
Active == enabled[voice] /\ \A t \in Controls : ~(at[t] # "idle" /\ job[t].on /\ job[t].stream = voice)

\* The start enables the microphone, behind its encoder, then the speaker; the end
\* disables the microphone, frees the chain and disables the speaker.
Starts(s) == IF s = mic THEN chain /\ ~encoder ELSE s = voice /\ enabled[mic]

Ends(s) == IF s = mic THEN chain /\ registered ELSE s = voice /\ ~chain

\* A thread that ends the session does nothing else until the chain is freed.
SetEnabled(t, s, on) ==
  /\ IF t = GuiThread THEN ender # t /\ ~on /\ Active /\ "hangup" \in Faults
     ELSE ender \notin Workers
  /\ \/ s = file /\ t = io
     \/ on /\ ender = NoThread /\ Starts(s)
     \/ ~on /\ Ends(s)
  /\ Hw!SetEnabled(t, s, on) /\ UNCHANGED vars

EndBegins(t) == IF t = GuiThread THEN BeginEnd(t) ELSE \E w \in Workers : BeginEnd(w)

Change(t) ==
  /\ Hw!Change(t)
  /\ IF job[t].stream # mic \/ failed' THEN UNCHANGED vars
     ELSE IF job[t].on THEN Enable ELSE EndBegins(t)

Control(t) ==
  \/ Hw!Flag(t) \/ Hw!EnableChain(t)
  \/ Hw!CloseAudio(t) \/ Hw!LockStreams(t) \/ Hw!CloseStream(t)
  \/ Hw!OpenAudio(t) \/ Hw!OpenStream(t)

Callbacks == Hw!RtCallback \/ Hw!LockPlayback \/ Hw!Played

Captures == Hw!LockCapture /\ IF mic \in touching' THEN Capture ELSE UNCHANGED vars
Captured == Hw!Captured /\ apc = "idle" /\ UNCHANGED vars

EndSession ==
  /\ Returned(IF ender = GuiThread THEN GuiThread ELSE io)
  /\ DestroyEncoder \/ FreeChain

MCInit == Init /\ Hw!Init

MCNext ==
  \/ \E t \in Controls :
       \/ \E s \in {mic, voice, file}, on \in BOOLEAN : SetEnabled(t, s, on)
       \/ Change(t)
       \/ Control(t) /\ UNCHANGED vars
  \/ Callbacks /\ UNCHANGED vars
  \/ Captures \/ Captured
  \/ EndSession /\ UNCHANGED hwVars
  \/ (Unlink \/ OnReadyRead) /\ UNCHANGED hwVars
  \/ (\E w \in Workers : SendPackets(w) \/ PullFrame(w) \/ EncodeAndWrite(w)) /\ UNCHANGED hwVars

\* As in the two modules, of the joint steps: a thread that runs goes on, and gets
\* the mutex when it is free again and again.
MCFairness ==
  /\ SF_allVars(\E t \in Controls : Change(t) \/ (Control(t) /\ UNCHANGED vars))
  /\ WF_allVars(Captured \/ (Hw!Played /\ UNCHANGED vars))
  /\ WF_allVars(EndSession /\ UNCHANGED hwVars) /\ WF_allVars(OnReadyRead /\ UNCHANGED hwVars)
  /\ \A w \in Workers :
       WF_allVars((SendPackets(w) \/ PullFrame(w) \/ EncodeAndWrite(w)) /\ UNCHANGED hwVars)

MCSpec == MCInit /\ [][MCNext]_allVars /\ MCFairness

OnlyRegisteredTouched == Hw!OnlyRegisteredTouched
CallbackFits == Hw!CallbackFits
HardwareServes == Hw!HardwareServes
DeviceCloses == Hw!DeviceCloses
=============================================================================
